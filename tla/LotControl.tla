------------------------------ MODULE LotControl ------------------------------
(***************************************************************************)
(* The lots of the accounts at FunPay, switched by the DISABLE_LOTS and    *)
(* ENABLE_LOTS operations of RentalLifecycle, and the start of a process   *)
(* that finds such an operation unfinished: the drift gate first, then     *)
(* recovery by the state the lots are seen in.                             *)
(*                                                                         *)
(* One process runs at a time (it holds the instance lock) and executes    *)
(* one operation after the other; it may be killed at any step.  A call    *)
(* switches lot after lot and reports success only when it has seen all    *)
(* lots in the wanted state.  Nobody else switches lots, and no switch     *)
(* takes effect after the call has ended.                                  *)
(***************************************************************************)
EXTENDS RentalLifecycle

CONSTANT Lots     \* the external lots of each account

ASSUME LotsAssumption == Lots # {}

VARIABLES
  on,       \* FunPay: the lots of each account that are on sale
  up,       \* a process runs
  todo,     \* the lot operations its start has still to settle
  work,     \* the lot operation whose call it makes: {} or one of them
  result    \* what the call has reported

lotVars == <<on, up, todo, work, result>>

LotKind == {"DISABLE_LOTS", "ENABLE_LOTS"}
LotOperations == Orders \X LotKind
Wanted(kind) == IF kind = "ENABLE_LOTS" THEN Lots ELSE {}
AsWanted(o, kind) == on[rentedAccount[o]] = Wanted(kind)

LotTypeOK ==
  /\ TypeOK
  /\ on \in [Accounts -> SUBSET Lots]
  /\ up \in BOOLEAN
  /\ todo \subseteq LotOperations
  /\ work \subseteq LotOperations
  /\ result \in {"None", "Verified", "Refused"}

LotInit ==
  /\ Init
  /\ on = [a \in Accounts |-> Lots]
  /\ up = TRUE /\ todo = {} /\ work = {} /\ result = "None"

-----------------------------------------------------------------------------
\* A lot operation in a cycle.

Idle == up /\ todo = {} /\ work = {}

ClaimLotOperation(o, kind) ==
  /\ Idle
  /\ ClaimOperation(o, kind)
  /\ work' = {<<o, kind>>}
  /\ UNCHANGED <<on, up, todo, result>>

\* Mutant of SwitchLot: the lots are not looked up by their account.
SwitchEverywhere(o, kind, lot) ==
  /\ work = {<<o, kind>>} /\ result = "None"
  /\ on' = [a \in Accounts |-> IF kind = "ENABLE_LOTS" THEN on[a] \cup {lot}
                                                       ELSE on[a] \ {lot}]
  /\ UNCHANGED <<vars, up, todo, work, result>>

SwitchLot(o, kind, lot) ==
  /\ work = {<<o, kind>>} /\ result = "None"
  /\ on' = [on EXCEPT ![rentedAccount[o]] =
              IF kind = "ENABLE_LOTS" THEN @ \cup {lot} ELSE @ \ {lot}]
  /\ UNCHANGED <<vars, up, todo, work, result>>

\* Mutant of CallReturns: the lots are not looked at again.
CallReturnsUnseen(o, kind) ==
  /\ work = {<<o, kind>>} /\ result = "None"
  /\ result' \in {"Verified", "Refused"}
  /\ UNCHANGED <<vars, on, up, todo, work>>

\* Whatever the lots are, FunPay may be gone, or the claim may be lost.
CallReturns(o, kind) ==
  /\ work = {<<o, kind>>} /\ result = "None"
  /\ \/ AsWanted(o, kind) /\ result' = "Verified"
     \/ result' = "Refused"
  /\ UNCHANGED <<vars, on, up, todo, work>>

EndWork == work' = {} /\ result' = "None" /\ UNCHANGED <<on, up, todo>>

CompleteLots(o, kind) ==
  /\ work = {<<o, kind>>} /\ result = "Verified"
  /\ Complete(o, kind)
  /\ EndWork

FailLots(o, kind) ==
  /\ work = {<<o, kind>>} /\ result = "Refused"
  /\ FailOperation(o, kind)
  /\ EndWork

\* An exception ends the cycle; the operation stays RUNNING.
AbandonLots ==
  /\ work # {}
  /\ EndWork /\ UNCHANGED vars

-----------------------------------------------------------------------------
\* Crash and start.

Kill ==
  /\ up /\ up' = FALSE
  /\ todo' = {} /\ work' = {} /\ result' = "None"
  /\ UNCHANGED <<vars, on>>

\* What lot_drift_check refuses, if FunPay tells the states of these lots.
Drifted(a, told) == account[a] # "AVAILABLE" /\ told \cap on[a] # {}

LapsedLotOperations ==
  {row \in LotOperations : operation[row[1]][row[2]] = "LAPSED"}

\* Mutant of Start: the kind of the operations is not looked at.
StartWithAll(told) ==
  /\ ~up /\ up' = TRUE
  /\ \A a \in Accounts : ~Drifted(a, told)
  /\ todo' = {row \in Orders \X LifecycleKind : operation[row[1]][row[2]] = "LAPSED"}
  /\ UNCHANGED <<vars, on, work, result>>

\* The gate passes over a lot whose state FunPay does not tell.
Start(told) ==
  /\ ~up /\ up' = TRUE
  /\ \A a \in Accounts : ~Drifted(a, told)
  /\ todo' = LapsedLotOperations
  /\ UNCHANGED <<vars, on, work, result>>

\* The receipts of messages, which a start asks for before it sees to the lots.
RecoverReceipts ==
  /\ up /\ todo # {}
  /\ \/ \E o \in Orders : /\ operation[o]["SEND_CREDENTIALS"] = "LAPSED"
                          /\ \/ Complete(o, "SEND_CREDENTIALS")
                             \/ FailOperation(o, "SEND_CREDENTIALS")
     \/ \E e \in OtpRequests : otp[e] = "LAPSED" /\ (CompleteOtp(e) \/ FailOtp(e))

Settled(o, kind) ==
  /\ <<o, kind>> \in todo
  /\ todo' = todo \ {<<o, kind>>}
  /\ UNCHANGED <<on, up, work, result>>

\* Mutant of RecoverLots: an enabling that was begun is taken for done.
RecoverLotsBegun(o, kind) ==
  \/ /\ Settled(o, kind) /\ Complete(o, kind)
     /\ on[rentedAccount[o]] # {} \/ AsWanted(o, kind)
  \/ Settled(o, kind) /\ FailOperation(o, kind)

\* Completed when the lots are seen as wanted, failed otherwise and when
\* FunPay does not answer.
RecoverLots(o, kind) ==
  \/ Settled(o, kind) /\ AsWanted(o, kind) /\ Complete(o, kind)
  \/ Settled(o, kind) /\ FailOperation(o, kind)

-----------------------------------------------------------------------------
\* The one process of this module judges no lease while it makes a call.
LotLeaseLapses(o, kind) ==
  /\ <<o, kind>> \notin work
  /\ LeaseLapses(o, kind)

\* The rest of what the process does, and the leases of its other work.
OtherStep ==
  /\ Idle
  /\ \/ \E o \in Orders, a \in Accounts : AcceptOrder(o, a)
     \/ \E o \in Orders : BlockOrder(o) \/ PrepareRevoke(o) \/ SecurityEvent(o)
     \/ \E o \in Orders, kind \in LifecycleKind \ LotKind : OperationStep(o, kind)
     \/ \E due \in SUBSET Orders : ExpireDue(due)
     \/ \E e \in OtpRequests, o \in Orders : SeeActiveRental(e, o)
     \/ \E e \in OtpRequests : OtpStep(e)
     \/ RecoverExpiredLeases
     \/ Reconcile

LotNext ==
  \/ \E o \in Orders, kind \in LotKind :
       \/ ClaimLotOperation(o, kind)
       \/ \E lot \in Lots : SwitchLot(o, kind, lot)
       \/ CallReturns(o, kind)
       \/ CompleteLots(o, kind)
       \/ FailLots(o, kind)
       \/ RecoverLots(o, kind)
       \/ LotLeaseLapses(o, kind) /\ UNCHANGED lotVars
  \/ AbandonLots
  \/ Kill
  \/ \E told \in SUBSET Lots : Start(told)
  \/ (RecoverReceipts \/ OtherStep) /\ UNCHANGED lotVars

LotSpec == LotInit /\ [][LotNext]_<<vars, lotVars>>

-----------------------------------------------------------------------------
\* Properties.

\* From the moment the credentials may go out until the lots are being enabled
\* again, no lot of the account is on sale, whatever fails, is killed or goes
\* to review in between (_disable_lots, StartupReconciliation.run).
OffSinceDelivery ==
  \A o \in Orders :
    /\ operation[o]["SEND_CREDENTIALS"] # "NONE"
    /\ operation[o]["ENABLE_LOTS"] \in {"NONE", "PENDING"}
    => on[rentedAccount[o]] = {}

\* An account that can be rented is on sale with all its lots: neither a call
\* that is killed half-way nor its recovery leaves it half on sale.
AvailableIsOnSale ==
  \A a \in Accounts : account[a] = "AVAILABLE" => on[a] = Lots

\* What the drift gate refuses to start with is either under review, or the
\* bot's own lot operation that it has not finished: a person who is called
\* always finds the reason in the rows (lot_drift_check).
DriftIsExplained ==
  \A a \in Accounts : Drifted(a, Lots) =>
    \/ account[a] = "MANUAL_REVIEW"
    \/ \E o \in Orders : /\ rentedAccount[o] = a
                         /\ \/ operation[o]["DISABLE_LOTS"] \in Unfinished
                            \/ operation[o]["ENABLE_LOTS"] \in InFlight

\* "MANUAL_REVIEW remains fail closed: lots stay off"
\* (docs/phase_6_production_hardening.md): no lot of an account under review
\* is put on sale (prepare_operation, _enable_lots).
ReviewStaysOff ==
  [][\A a \in Accounts : account[a] = "MANUAL_REVIEW" => on'[a] \subseteq on[a]]_<<vars, lotVars>>

=============================================================================
