SPECIFICATION TimelySpec
CONSTANTS
  Workers = {w1, w2}
  NoWorker = NoWorker
  NormalLease = 2
  RecoveryLease = 3
  WaitWindow = 2
  MaxAge = 3
INVARIANTS
  TypeOK
  ExclusiveUnlessBreached
  HasDeadline
PROPERTIES
  LatestClaimActs
  OperationEnds
  StrandedByDeathOnly
