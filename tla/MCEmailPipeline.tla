--------------------------- MODULE MCEmailPipeline ---------------------------
\* Model-checking instances of EmailPipeline.
EXTENDS EmailPipeline, TLC

Symmetry == Permutations(Workers)
=============================================================================
