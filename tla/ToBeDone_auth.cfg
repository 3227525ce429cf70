SPECIFICATION FairSpec
CONSTANTS
  u1 = u1
  u2 = u2
  c1 = c1
  c2 = c2
  i1 = i1
  i2 = i2
  Users = {u1, u2}
  Cats = {c1}
  Items = {}
  Slots = {s1, s2}
  Nobody = Nobody
  NoCat = NoCat
  SameFolded <- DistinctFolds
INVARIANTS
  SessionAuthenticated NeverUnauthorized
PROPERTIES HudClears FailureShown
