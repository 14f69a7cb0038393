SPECIFICATION FairCustodySpec
CONSTANTS
  Accounts = {a1}
  Orders = {o1, o2}
  OtpRequests = {}
  NoAccount = NoAccount
  NoOrder = NoOrder
PROPERTY EveryRentalEnds
