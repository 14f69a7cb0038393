------------------------------ MODULE OrderLife ------------------------------
(***************************************************************************)
(* What the intake of FunPay's events and the transactions of a rental     *)
(* agree on: an order is taken once, it is delivered after it was reserved *)
(* and before it is over, and it never goes back.  FunPayIntake assumes it *)
(* of the rest of the bot, RentalLifecycle implements it.                  *)
(***************************************************************************)
CONSTANT Orders

VARIABLE life   \* what has become of each order

Init == life = [o \in Orders |-> "None"]

Take(o, result) ==
  /\ life[o] = "None"
  /\ life' = [life EXCEPT ![o] = result]

Deliver(o) ==
  /\ life[o] = "Reserved"
  /\ life' = [life EXCEPT ![o] = "Active"]

\* Expiry and quarantine end several rentals at once, with or without delivery.
End(S) ==
  /\ \A o \in S : life[o] \in {"Reserved", "Active"}
  /\ life' = [o \in Orders |-> IF o \in S THEN "Over" ELSE life[o]]

Next ==
  \/ \E o \in Orders, result \in {"Reserved", "Blocked"} : Take(o, result)
  \/ \E o \in Orders : Deliver(o)
  \/ \E S \in SUBSET Orders : End(S)

Spec == Init /\ [][Next]_life
=============================================================================
