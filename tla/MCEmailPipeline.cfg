SPECIFICATION Spec
CONSTANTS
  Workers = {w1, w2}
  NoWorker = NoWorker
  Mails = {m}
  NoMail = NoMail
  MaxRentals = 2
SYMMETRY Symmetry
INVARIANTS
  TypeOK
  SecretHandedOutOnce
  HandedToItsParty
  ClosedHasNoSecret
  SecurityMailIsNotLost
