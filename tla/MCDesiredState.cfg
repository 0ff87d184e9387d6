SPECIFICATION FairSpec
CONSTANTS
  Handlers = {h1, h2}
  Mode = {manual, night}
  Manual = manual
  MaxVersion = 3
INVARIANTS
  TypeOK
  VersionNamesOneState
  ShownIsDurable
PROPERTIES
  ImplementsRegister
  EventuallyServed
