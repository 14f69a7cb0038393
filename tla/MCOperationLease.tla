--------------------------- MODULE MCOperationLease ---------------------------
\* Model-checking instance of OperationLease.
EXTENDS OperationLease

=============================================================================
