SPECIFICATION Spec
CONSTANTS
  Setting <- MCSetting
  File <- MCFile
  NoOverride = NoOverride
  NoValue = NoValue
INVARIANT ChainRunsApplied
PROPERTIES PublishesWhatRuns RequestTakesEffect
