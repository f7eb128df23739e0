SPECIFICATION Spec
CONSTANTS
  a = a
  b = b
  c = c
  d = d
  h = h
  n = n
  Sections <- MCSections
  Unwrapped = {"playlists"}
  Collection <- MCCollection
  NewIds = {n}
  Hidden = {h}
  PageSize = 2
  MaxPages = 4
  MaxItems = 6
  MaxAttempts = 3
  InitialBackoff = 20
  MaxBackoff = 160
  Jitter = 15
  RetryAfters = {0, 400}
  MaxFaults = 3
  MaxChanges = 2
INVARIANTS
  UnsafeLandsOnce
  ClientKeepsDoubt
  ReadLosesNothing
PROPERTIES
  WaitsBounded
  CallReturns
CHECK_DEADLOCK FALSE
