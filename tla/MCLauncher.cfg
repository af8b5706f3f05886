SPECIFICATION LauncherSpec
CONSTANTS
  Version = {v1, v2}
  NoVersion = NoVersion
  Loop = {l1, l2}
  NoLoop = NoLoop
  MaxLaunches = 2
INVARIANT LauncherInv
PROPERTY CarriesOn
