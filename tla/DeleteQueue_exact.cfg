SPECIFICATION Spec
CONSTANTS
  a = a
  b = b
  None = None
  Objects = {a, b}
  Order <- MCOrder
  Scopes = {"full", "tracks"}
  Sections <- MCSections
  MaxOperations = 2
  MaxStops = 2
  MaxRetries = 0
  MaxChanges = 0
INVARIANTS
  ExactQueue
