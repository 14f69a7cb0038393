SPECIFICATION FairSpec
CONSTANTS
  o1 = o1
  Runtimes = {r1}
  NoRuntime = NoRuntime
  Events = {e1, e2}
  Orders = {o1}
  PaidEvents = {e1, e2}
  CodeEvents = {}
  Incomplete = {e2}
  OrderOf <- MCOrderOf
PROPERTY PaidOrderIsTaken
