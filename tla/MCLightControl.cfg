SPECIFICATION Spec
CONSTANTS
  Manual = manual
  Night = night
  SampleCount = 3
  MaxReading = 4
  OnBelow = 2
  OffAbove = 3
INVARIANTS
  TypeOK
  FilteredIsMean
  LightFollowsMode
  EventsTellState
PROPERTIES
  NoFlicker
