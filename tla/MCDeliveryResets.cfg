SPECIFICATION Spec
CONSTANTS
  Capacity = 2
  MaxBatch = 2
  MaxSeq = 3
  MaxBoots = 2
  MaxFaults = 1
  BootId <- FreshIds
INVARIANTS
  AckedImpliesStored
  NothingLost
  OneRowPerIdentity
  GapsAreDrops
