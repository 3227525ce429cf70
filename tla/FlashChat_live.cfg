SPECIFICATION FairSpec
CONSTANTS
  u1 = u1
  u2 = u2
  m1 = m1
  o1 = o1
  Users = {u1}
  Slots = {s1}
  Chats = {v1}
  Nobody = Nobody
  NoBody = NoBody
  NoKey = NoKey
  Mine = {m1}
  KeyOrder <- TwoKeys
PROPERTIES MessageArrives SendReturns
