SPECIFICATION Spec
CONSTANTS
  f1 = f1
  f2 = f2
  u1 = u1
  u2 = u2
  u3 = u3
  Features = {f1, f2}
  Users = {u1, u2}
  Rgb = Rgb
  Limited = {f2}
  Stability = 1
  Prices <- TwoAssets
  Funds = 45
  InitialOwner <- Owner
  InitialRequests <- NoOffers
  ParseWallet <- Exact
  Tasks = {t1}
  MaxAttempts = 2
  MaxTasks = 4
  MaxRequests = 4
  MaxSales = 2
  MaxFaults = 1
INVARIANTS Conservation OffersAreBacked SellerInv HarmIsBounded
CHECK_DEADLOCK FALSE
