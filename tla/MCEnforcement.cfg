SPECIFICATION EnforcementSpec
CONSTANTS
  flood = flood
  IP = {a1}
  Endpoint = {e1}
  Everywhere = Everywhere
  Action = {"allow", "throttle", "block"}
  Origin = {"human", "agent"}
  NoDecision = NoDecision
  CacheMaxAge = 1
  Worker = {w1}
  Signal = {flood}
  Advisory = {}
  Score = {1}
  Duration = {1}
  Config <- MCConfig
  NoBlock = NoBlock
  NotObserving = NotObserving
  MaxClock = 1
  EntryLife = {1}
  Quota = {"granted", "exhausted", "error"}
  Minute = 5
  Rpm = {2, 3}
  Burst = 3
  NoBucket = NoBucket
  NoPromise = NoPromise
  MaxElapsed = 7
  MaxSetBack = 2
INVARIANTS HumanDecides StrictestStands GrantsBounded WaitSuffices
