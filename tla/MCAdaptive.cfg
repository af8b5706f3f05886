SPECIFICATION AdaptiveSpec
CONSTANTS
  Page = {p1, p2}
  MaxCfg = 2
  Rec = {r}
  MaxVer = 3
  MaxLoads = 1
  MaxNow = 3
  Watching = {1}
  None = None
SYMMETRY Symmetry
INVARIANTS DecidedOnce EnforcedWasApproved
PROPERTY SavesOnWhatItRead
