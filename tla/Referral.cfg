SPECIFICATION ReferralSpec
CONSTANTS
  Members <- MCUsers
  Purchases <- MCOrders
  Buyer <- MCBuyer
  Asset <- MCAsset
  Amount <- MCAmount
  Referrer <- MCReferrer
  Limit <- MCLimit
  Rate <- MCRate
  None = "none"
  WalletOwners = {"r", "b1"}
  Workers = {c1, c2}
  MaxErrors = 1
SYMMETRY Symmetry
INVARIANTS OvershootIsBounded HistoryInv
CHECK_DEADLOCK FALSE
