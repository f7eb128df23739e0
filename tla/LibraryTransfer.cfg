SPECIFICATION Spec
CONSTANTS
  f = f
  d = d
  p = p
  q = q
  x = x
  v = v
  Root = Root
  FavoriteOrder <- MCFavorites
  FolderOrder <- MCFolders
  PlaylistOrder <- MCPlaylists
  Followed = {q}
  Parent <- MCParent
  Name <- MCName
  Media <- MCMedia
  Videos = {v}
  Answers = {"done", "lost", "refused", "gone"}
  MaxStops = 1
  MaxChanges = 1
INVARIANTS
  CreatedOnce
  EntriesOnceInOrder
  CompletedHoldsAll
PROPERTIES
  ClearedWhenComplete
CHECK_DEADLOCK FALSE
