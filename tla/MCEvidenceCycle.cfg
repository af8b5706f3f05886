SPECIFICATION PartSpec
CONSTANTS
  IP = {a1, a2}
  Clean = Clean
  Batch = 1
  OverrideBatch = 2
  MaxEntries = 2
  MaxOverrides = 1
  MaxNow = 2
  MaxFaults = 1
INVARIANTS AckedAccounted NothingForgotten ClearedStaysCleared
PROPERTIES ActedOnce EntriesSettle
