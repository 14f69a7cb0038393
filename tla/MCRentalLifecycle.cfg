SPECIFICATION Spec
CONSTANTS
  Accounts = {a1, a2}
  Orders = {o1, o2, o3}
  OtpRequests = {e1, e2}
  NoAccount = NoAccount
  NoOrder = NoOrder
SYMMETRY Symmetry
INVARIANTS
  TypeOK
  NoDoubleAllocation
  LifecycleAgrees
  NoOrphanedAccount
  FreshCredentials
  GenerationsAgree
  StartupGateAccepts
  OnlyCodesBlockQuarantine
PROPERTIES
  ManualReviewIsKept
  KeepsPromise
  KeepsOrderLife
