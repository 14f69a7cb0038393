-------------------------- MODULE MCRentalLifecycle --------------------------
\* Model-checking instance of RentalLifecycle.
EXTENDS RentalLifecycle, TLC

Symmetry ==
  Permutations(Accounts) \cup Permutations(Orders) \cup Permutations(OtpRequests)
=============================================================================
