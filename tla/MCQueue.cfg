CONSTANTS
  Value = {j1, j2}
  Garbage = garbage
  BucketCount = 1
  BucketSize = 2
  MaxPending = 4
SPECIFICATION Spec
INVARIANTS TypeOK CellsDistinct MemoryReused
PROPERTY ImplementsFIFO

