SPECIFICATION Spec
CONSTANTS
  Accounts = {a1}
  Orders = {o1}
  OtpRequests = {e1}
  NoAccount = NoAccount
  NoOrder = NoOrder
INVARIANT LapsedWorkCanBeQuarantined
