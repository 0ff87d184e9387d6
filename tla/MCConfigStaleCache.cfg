SPECIFICATION Spec
CONSTANTS
  Mode = {manual, night}
  Manual = manual
  MaxVersion = 2
  SaveDelay = 1
  SaveRetry = 2
  MaxCommands = 3
  MaxFailures = 2
  MaxBoots = 2
INVARIANT CleanMeansPersisted
CHECK_DEADLOCK FALSE
