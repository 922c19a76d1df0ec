SPECIFICATION Spec
CONSTANTS
  l1 = l1
  l2 = l2
  Users = {u1, u2}
  Tasks = {t1, t2}
  Phones = {p1, p2}
  NoPhone = NoPhone
  Groups <- MCGroups
  MaxCalls <- MCMaxCalls
  MaxFaults = 1
  LevelIds = {l1, l2}
  Threshold <- MCThreshold
  Assets = 2
  Amounts = {16}
  MaxSession = 1
  Questions = {q1}
SYMMETRY Symmetry
INVARIANTS  LevelInv SecurityInv SocialInv
PROPERTIES LastCodeIsAccepted
CHECK_DEADLOCK FALSE
