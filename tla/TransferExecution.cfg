SPECIFICATION FairSpec
CONSTANTS
  f1 = f1
  f2 = f2
  p1 = p1
  p2 = p2
  a = a
  b = b
  c = c
  t1 = t1
  t2 = t2
  t3 = t3
  t4 = t4
  l1 = l1
  l2 = l2
  l3 = l3
  None = None
  Favorites = {f1, f2}
  Playlists = {p1, p2}
  Entries = {a, b, c}
  Container <- MCContainer
  Position <- DensePosition
  Rank <- MCRank
  Target <- DistinctTarget
  Ids = {t1, t2, t3, t4}
  Lists = {l1, l2, l3}
  FailureKinds = {"ambiguous", "permanent"}
  UnsureKinds = {"ambiguous", "permanent"}
  ReadsLists = TRUE
  MaxAttempts = 1
  MaxCrashes = 1
INVARIANTS
  TypeOK
  ConfirmedPresent
  ListRecordedFirst
  SourceOrder
  EntriesCounted
PROPERTIES
  ConfirmedFinal
  WritesOnlyWhileImporting
  CancelStopsWrites
  RunEnds
  WorkGetsDone
