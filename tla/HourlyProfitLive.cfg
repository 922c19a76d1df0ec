SPECIFICATION FairSpec
CONSTANTS
  Features = {f1, f2}
  Users = {u1, u2}
  Rgb = Rgb
  Karbari <- MCKarbari
  Broken = {f1}
  Calculators = {c1}
  Tasks = {t1}
  BatchLimit = 2
  MaxBatches = 2
  Interval = 0
  Period = 2
  MaxTime = 2
  MaxRows = 2
  MaxAttempts = 2
  MaxTasks = 2
  MaxFaults = 0
INVARIANT ProfitFollowsOwner
 
CHECK_DEADLOCK FALSE
