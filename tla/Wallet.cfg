SPECIFICATION Spec
CONSTANTS
  Users = {u1}
  Assets = {"satisfaction"}
  Calls = {c1, c2}
  Amounts = {0, 1, 2}
  MaxCalls = 6
  MaxFaults = 1
INVARIANTS TypeOK NonNegative NoLostUpdate DeductOkMeansCharged FailMeansUnchanged
CHECK_DEADLOCK FALSE
