SPECIFICATION Spec
CONSTANTS
  Capacity = 3
  MaxSeq = 7
  Payload = {a, b}
  Blank = a
INVARIANTS
  ContiguousWindow
PROPERTIES
  ImplementsQueue
