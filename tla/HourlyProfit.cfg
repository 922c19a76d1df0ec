SPECIFICATION Spec
CONSTANTS
  Features = {f1}
  Users = {u1, u2}
  Rgb = Rgb
  Karbari <- MCKarbari
  Broken = {}
  Calculators = {c1}
  Tasks = {t1, t2}
  BatchLimit = 1
  MaxBatches = 1
  Interval = 0
  Period = 2
  MaxTime = 2
  MaxRows = 2
  MaxAttempts = 2
  MaxTasks = 3
  MaxFaults = 1
SYMMETRY Symmetry
INVARIANTS ProfitInv
PROPERTY OncePerInterval
CHECK_DEADLOCK FALSE
