--------------------------- MODULE ExclusiveRental ---------------------------
(***************************************************************************)
(* What the rental bot promises, whatever fails on the way: an account is  *)
(* let to one buyer at a time, each with a password generation of his own; *)
(* it is let again only after its password was changed; and anything that  *)
(* goes wrong takes the account out of circulation.  RentalLifecycle       *)
(* implements it, the transactions of a rental's life being steps of it.   *)
(***************************************************************************)
EXTENDS Naturals

CONSTANTS Accounts, Orders, NoAccount

VARIABLES
  phase,    \* what has become of each order
  leased,   \* the account an order was served with
  given,    \* the password generation its buyer was given
  secret    \* the password generation in force on each account

vars == <<phase, leased, given, secret>>

Init ==
  /\ phase = [o \in Orders |-> "None"]
  /\ leased = [o \in Orders |-> NoAccount]
  /\ given = [o \in Orders |-> 0]
  /\ secret = [a \in Accounts |-> 1]

\* An account is let when everyone it was let to before has returned it.
Let(o, a) ==
  /\ phase[o] = "None"
  /\ \A p \in Orders : leased[p] = a => phase[p] = "Returned"
  /\ phase' = [phase EXCEPT ![o] = "Held"]
  /\ leased' = [leased EXCEPT ![o] = a]
  /\ given' = [given EXCEPT ![o] = secret[a]]
  /\ UNCHANGED secret

\* The password is changed once in a rental, be it after the bot gave it up.
Rekey(o) ==
  /\ phase[o] \in {"Held", "Review"}
  /\ secret[leased[o]] = given[o]
  /\ secret' = [secret EXCEPT ![leased[o]] = @ + 1]
  /\ UNCHANGED <<phase, leased, given>>

Return(o) ==
  /\ phase[o] = "Held"
  /\ given[o] < secret[leased[o]]
  /\ phase' = [phase EXCEPT ![o] = "Returned"]
  /\ UNCHANGED <<leased, given, secret>>

\* Rentals the bot gives up on; their accounts are not let again.
Quarantine(S) ==
  /\ \A o \in S : phase[o] = "Held"
  /\ phase' = [o \in Orders |-> IF o \in S THEN "Review" ELSE phase[o]]
  /\ UNCHANGED <<leased, given, secret>>

Next ==
  \/ \E o \in Orders, a \in Accounts : Let(o, a)
  \/ \E o \in Orders : Rekey(o) \/ Return(o)
  \/ \E S \in SUBSET Orders : Quarantine(S)

Spec == Init /\ [][Next]_vars
=============================================================================
