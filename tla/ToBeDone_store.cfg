SPECIFICATION Spec
CONSTANTS
  u1 = u1
  u2 = u2
  c1 = c1
  c2 = c2
  i1 = i1
  i2 = i2
  Users = {u1, u2}
  Cats = {c1, c2}
  Items = {i1, i2}
  Slots = {s1}
  Nobody = Nobody
  NoCat = NoCat
  SameFolded <- DistinctFolds
SYMMETRY StoreSymmetry
INVARIANTS
  TypeOK OwnersRegistered HeldCategoriesLive OneListPerItem
  DurableUnlessCommitFailed
PROPERTIES ForeignDataUntouched ImplementsTodoLists
