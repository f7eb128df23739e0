CONSTANTS
  s = s  t = t  c = c  d = d  e = e  l = l  k = k  o = o  u = u  v = v
  Unidentified = {u}
  None = None
  Foreign = Foreign
  Track <- MCTrack
  Catalogue <- MCCatalogue
  Similarity <- MCSimilarity
  Jobs <- MCJobs
  Saved = {c}
  High = 880000
  Ambiguous = 620000
  Floor = 5500
  MaxCandidates = 3
  SearchLimit = 3
  MaxFailed = 1
  MaxHeld = 2
SPECIFICATION PlanSpec
INVARIANTS
  SameQualifiers
  MatchIgnoresOrder
  PlanComplete
  VerifiedMeansEqual
CHECK_DEADLOCK FALSE
