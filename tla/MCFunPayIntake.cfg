SPECIFICATION Spec
CONSTANTS
  o1 = o1
  Runtimes = {r1, r2}
  NoRuntime = NoRuntime
  Events = {e1, m1}
  Orders = {o1}
  PaidEvents = {e1}
  CodeEvents = {m1}
  Incomplete = {}
  OrderOf <- MCOrderOf
SYMMETRY Symmetry
INVARIANTS
  TypeOK
  ClosedPaidHasOrder
  OtpForStartedRental
  NothingPassedOver
PROPERTY ClosedIsFinal
