SPECIFICATION CustodySpec
CONSTANTS
  Accounts = {a1, a2}
  Orders = {o1, o2}
  OtpRequests = {e1}
  NoAccount = NoAccount
  NoOrder = NoOrder
SYMMETRY Symmetry
INVARIANTS
  CustodyTypeOK
  VaultKnowsPassword
  BuyerHoldsTheKey
  FormerBuyersLockedOut
  RequestedOnce
PROPERTY KeepsPasswordPromise
