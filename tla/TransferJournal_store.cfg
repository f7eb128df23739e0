SPECIFICATION Spec
CONSTANTS
  k1 = k1
  k2 = k2
  None = None
  Keys <- MCKeys
  MaxValue = 2
  CompactAfter = 2
  Overlaps = FALSE
  MaxSeq = 4
  MaxTransfers = 2
  MaxStops = 2
INVARIANTS
  ReadsBackSaved
PROPERTIES
  StoresOneValue
