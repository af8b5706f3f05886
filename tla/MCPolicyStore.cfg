SPECIFICATION StoreSpec
CONSTANTS
  a1 = a1
  e1 = e1
  IP = {a1}
  Endpoint = {e1}
  Everywhere = Everywhere
  Action = {"block"}
  Origin = {"agent"}
  Ttl <- MCTtl
  NoKey = NoKey
  NoDecision = NoDecision
  CacheMaxAge = 2
  MaxClock = 4
  MaxWrites = 2
INVARIANTS DeadlineRespected RevocationBounded
PROPERTIES SourceSpec RefreshComplete
