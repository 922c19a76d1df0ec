SPECIFICATION Spec
CONSTANTS
  f1 = f1
  f2 = f2
  Users = {u1, u2}
  Features = {f1, f2}
  Models = {m1}
  Fields = {"activity_line", "name"}
  Infos = {{}, {"activity_line"}}
  Need <- Areas
  Funds = 2
  MaxLaunched = 2
  Tasks = {t1, t2}
  MaxBuildings = 3
  MaxCalls = 3
  MaxFaults = 1
SYMMETRY Symmetry
INVARIANTS SatisfactionInv ProfitInv 
CHECK_DEADLOCK FALSE
