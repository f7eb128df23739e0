SPECIFICATION FairSpec
CONSTANTS
  a = a
  b = b
  None = None
  Objects = {a, b}
  Order <- MCOrder
  Scopes = {"full", "tracks"}
  Sections <- MCSections
  MaxOperations = 2
  MaxStops = 1
  MaxRetries = 1
  MaxChanges = 1
INVARIANTS
  TypeOK
  WriteAhead
  ReadsBackRecorded
  FilesAgree
  CountsBehindQueue
  NoBlindRepeat
  RemovedWasAbsent
  ClearedAfterRemoval
PROPERTIES
  SettledFinal
  InterruptedEnds
