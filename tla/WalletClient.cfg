SPECIFICATION FairClientSpec
CONSTANTS
  Assets = {"psc"}
  Callers = {c1, c2}
  Charges = {0, 1}
  Funds = {1}
  MaxRetries = 3
  MaxFailures = 1
 
PROPERTY CallReturns
CHECK_DEADLOCK FALSE
