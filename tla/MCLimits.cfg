SPECIFICATION LimitsSpec
CONSTANTS
  a1 = a1
  a2 = a2
  flood = flood
  objects = objects
  IP = {a1, a2}
  Worker = {w1, w2}
  Signal = {flood, objects}
  Advisory = {objects}
  Score = {1, 2}
  Duration = {1, 2}
  Config <- MCConfig
  NoBlock = NoBlock
  NotObserving = NotObserving
  MaxClock = 3
  Request = {r1, r2, r3}
  Backoff = 2
INVARIANTS AlwaysExemptNeverRefused OneProbe
PROPERTIES RunningBlockKept SweptEventually LimitsReturn
