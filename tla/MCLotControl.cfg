SPECIFICATION LotSpec
CONSTANTS
  Accounts = {a1, a2}
  Orders = {o1, o2, o3}
  OtpRequests = {e1}
  NoAccount = NoAccount
  NoOrder = NoOrder
  Lots = {l1, l2}
SYMMETRY Symmetry
INVARIANTS
  LotTypeOK
  OffSinceDelivery
  AvailableIsOnSale
  DriftIsExplained
