SPECIFICATION Spec
CONSTANTS
  f1 = f1
  f2 = f2
  u1 = u1
  u2 = u2
  u3 = u3
  Features = {f1}
  Users = {u1, u2, u3}
  Rgb = Rgb
  Limited = {}
  Stability = 1
  Prices <- SomePrices
  Funds = 45
  InitialOwner <- OwnerOne
  InitialRequests <- TwoOffers
  ParseWallet <- Exact
  Tasks = {t1, t2}
  MaxAttempts = 3
  MaxTasks = 4
  MaxRequests = 6
  MaxSales = 0
  MaxFaults = 0
SYMMETRY Symmetry
INVARIANT NothingDestroyed
CHECK_DEADLOCK FALSE
