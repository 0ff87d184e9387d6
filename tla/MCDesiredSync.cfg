SPECIFICATION SyncFairSpec
CONSTANTS
  Mode = {manual, night}
  Manual = manual
  MaxVersion = 3
  MaxFaults = 2
  MaxOverrides = 2
INVARIANTS
  SameVersionSameState
  ReportNotAhead
PROPERTIES
  EventuallySynced
