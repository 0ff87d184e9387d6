SPECIFICATION FairSpec
CONSTANTS
  Capacity = 3
  MaxBatch = 2
  MaxSeq = 5
  MaxBoots = 1
  MaxFaults = 2
  BootId <- FreshIds
INVARIANTS
  HistoryInOrder
  BatchesAccepted
PROPERTY EventuallyLeaves
