---------------------------- MODULE MCFunPayIntake ----------------------------
\* Model-checking instances of FunPayIntake: e1 and e2 both report the payment
\* of o1, e2 lacks a field in the second instance, m1 asks for o1's code.
EXTENDS FunPayIntake, TLC

CONSTANT o1

MCOrderOf == [e \in Events |-> o1]

Symmetry == Permutations(Runtimes)
=============================================================================
