SPECIFICATION Spec
CONSTANTS
  f1 = f1
  f2 = f2
  p1 = p1
  p2 = p2
  a = a
  b = b
  c = c
  t1 = t1
  t2 = t2
  t3 = t3
  t4 = t4
  l1 = l1
  l2 = l2
  l3 = l3
  None = None
  Favorites = {}
  Playlists = {p1}
  Entries = {a, b}
  Container <- MCContainer
  Position <- GapPosition
  Rank <- MCRank
  Target <- DistinctTarget
  Ids = {t1, t2, t3, t4}
  Lists = {l1, l2}
  FailureKinds = {"permanent"}
  UnsureKinds = {}
  ReadsLists = TRUE
  MaxAttempts = 1
  MaxCrashes = 1
INVARIANTS
  SourceOrder
