SPECIFICATION Spec
CONSTANTS
  u1 = u1
  u2 = u2
  Users = {u1, u2}
  Minors = {u2}
  Features = {f1, f2}
  Relationships = {"offspring", "father", "sister"}
  Rewarded = {"offspring", "sister"}
  Stable = {f1, f2}
  Permissions = {"BFR"}
  Founders = {u1}
  Accepted <- Joined
  Tasks = {t1, t2}
  MaxDynasties = 4
  MaxRequests = 2
  MaxCalls = 4
  MaxFaults = 1
SYMMETRY Symmetry
INVARIANTS  PrizeInv DynastyInv
CHECK_DEADLOCK FALSE
