SPECIFICATION FairSpec
CONSTANTS
  Mode = {manual, night}
  Manual = manual
  MaxVersion = 1
  SaveDelay = 1
  SaveRetry = 2
  MaxCommands = 3
  MaxFailures = 2
  MaxBoots = 2
INVARIANTS
  PersistedUnlessSuspect
  NoInventedRecord
PROPERTIES
  DurableVersionMonotonic
  EventuallyClean
CHECK_DEADLOCK FALSE
