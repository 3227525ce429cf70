SPECIFICATION Spec
CONSTANTS
  u1 = u1
  u2 = u2
  m1 = m1
  o1 = o1
  Users = {u1}
  Slots = {s1}
  Chats = {v1, v2}
  Nobody = Nobody
  NoBody = NoBody
  NoKey = NoKey
  Mine = {m1}
  KeyOrder <- TwoKeys
INVARIANTS
  TypeOK RowsUnique ViewFollows WritesOutstanding GhostsRefused SendWaits
PROPERTIES ImplementsChatRoom
