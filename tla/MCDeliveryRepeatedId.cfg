SPECIFICATION Spec
CONSTANTS
  Capacity = 2
  MaxBatch = 1
  MaxSeq = 2
  MaxBoots = 2
  MaxFaults = 1
  BootId <- RepeatedIds
INVARIANT AckedImpliesStored
