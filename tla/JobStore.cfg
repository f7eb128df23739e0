CONSTANTS
  p1 = p1
  p2 = p2
  planned = planned
  retry = retry
  track = track
  playlist = playlist
  entry1 = entry1
  entry2 = entry2
  Processes <- ProcessesDef
  Jobs <- JobsDef
  First = planned
  Order <- OrderDef
  Playlist = playlist
  Entries <- EntriesDef
  Nothing = Nothing
  MaxItemAttempts = 3
  MaxCommands = 3
  MaxFaults = 1
  MaxStops = 1
SPECIFICATION Spec
SYMMETRY Interchangeable
INVARIANTS
  StoredMeansWritten
  CompletedWasVisited
PROPERTIES
  ItemsKept
CHECK_DEADLOCK FALSE
