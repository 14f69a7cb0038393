SPECIFICATION TimelySpec
CONSTANTS
  Workers = {w1, w2, w3}
  NoWorker = NoWorker
  NormalLease = 2
  RecoveryLease = 3
  WaitWindow = 2
  MaxAge = 3
INVARIANT ClaimsAreReleased
