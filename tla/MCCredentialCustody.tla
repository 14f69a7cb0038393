------------------------- MODULE MCCredentialCustody -------------------------
\* Model-checking instance of CredentialCustody.
EXTENDS CredentialCustody, TLC

Symmetry == Permutations(Accounts) \cup Permutations(Orders)
=============================================================================
