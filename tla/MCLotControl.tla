---------------------------- MODULE MCLotControl ----------------------------
\* Model-checking instance of LotControl.
EXTENDS LotControl, TLC

Symmetry == Permutations(Accounts) \cup Permutations(Orders) \cup Permutations(Lots)
=============================================================================
