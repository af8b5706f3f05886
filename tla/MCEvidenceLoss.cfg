SPECIFICATION PartSpec
CONSTANTS
  IP = {a1}
  Clean = Clean
  Batch = 1
  OverrideBatch = 2
  MaxEntries = 2
  MaxOverrides = 0
  MaxNow = 2
  MaxFaults = 1
INVARIANT AckedWasHandled
