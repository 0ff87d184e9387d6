SPECIFICATION PageFairSpec
CONSTANTS
  MaxVersion = 4
  MaxClicks = 3
  MaxFailures = 3
INVARIANTS
  PageTypeOK
  NeverBackwards
PROPERTIES
  EventuallyCurrent
