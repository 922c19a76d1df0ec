SPECIFICATION FairPaymentSpec
CONSTANTS
  Orders = {o1, o2}
  Buyers = {"u1", "u2"}
  Assets = {"psc", "irr"}
  Handlers = {h1, h2}
  Requests <- MCRequests
  Profiles <- MCProfiles
  MaxDeliveries = 2
  MaxMishaps = 1
INVARIANTS PaymentTypeOK   RecordedIsAccountedFor BonusIsOnRecord LinkHasRows
PROPERTIES  PaidIsCredited
CHECK_DEADLOCK FALSE
