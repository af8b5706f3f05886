SPECIFICATION ConsoleSpec
CONSTANTS
  Addr = {a, b}
  Action = {"temp_block"}
  Slot = {s1, s2}
  Own = Own
  None = None
  Window = 2
  MaxAlerts = 3
  MaxWrites = 2
  MaxFaults = 1
  MAX_SCAN_BATCHES = 2
  TOP = 1
  MIN_ROUTE_CLIENTS = 2
  MIN_ROUTE_REQUESTS = 3
  Client = {"a", "b", "c"}
  Method = {"GET", "PUT"}
  Segment = {"users", "1", "2"}
  Variable = {"1", "2"}
  Signal = {"traversal", "enumeration", "flood"}
  Null = Null
  Reset = {r1, r2}
  MaxChanges = 1
  Stream = {"events"}
  Swept = {"campaign"}
  Kept = {"policy"}
  Tab = {t1, t2}
  Check = {c1}
  Value = {f, v}
  Valid = {f, v}
  File = f
  Unset = Unset
  MaxApplies = 2
  View = {v1, v2}
  Request = {q1, q2}
  Idle = Idle
  MaxOlder = 2
  MaxMoves = 4
CHECK_DEADLOCK FALSE
INVARIANTS
  ConsoleTypeOK PendingWasAccepted SeenWasShown
  RoutesSound ResetSound EnforcingIsFounded
PROPERTIES
  CatchesUp TableFollows NothingHangs
