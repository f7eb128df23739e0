SPECIFICATION Spec
CONSTANTS
  k1 = k1
  k2 = k2
  None = None
  Keys <- MCKeys
  MaxValue = 2
  CompactAfter = 2
  Overlaps = TRUE
  MaxSeq = 5
  MaxTransfers = 2
  MaxStops = 3
INVARIANTS
  ReadsBackSaved
