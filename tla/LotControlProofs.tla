--------------------------- MODULE LotControlProofs ---------------------------
(***************************************************************************)
(* Theorems about LotControl for any accounts, orders, requests and lots:  *)
(* it implements RentalLifecycle, and its safety properties.               *)
(***************************************************************************)
EXTENDS LotControl, RentalLifecycleProofs

\* Every lot operation is an operation of the life of a rental.
LEMMA LotKinds == LotKind \subseteq LifecycleKind
  BY DEF LotKind, LifecycleKind

\* What a process does with the lots, and every crash and start of it, is to
\* the rows a step of RentalLifecycle or nothing at all.
LEMMA StepOfRows == LotNext => [Next]_vars
<1> SUFFICES ASSUME LotNext PROVE [Next]_vars
  OBVIOUS
<1> USE LotKinds
<1>1. ASSUME NEW o \in Orders, NEW kind \in LifecycleKind, OperationStep(o, kind)
      PROVE  Next
  BY <1>1 DEF Next
<1>2. ASSUME NEW e \in OtpRequests, OtpStep(e)
      PROVE  Next
  BY <1>2 DEF Next
<1>3. ASSUME NEW o \in Orders, NEW kind \in LotKind,
             \/ ClaimLotOperation(o, kind)
             \/ CompleteLots(o, kind)
             \/ FailLots(o, kind)
             \/ RecoverLots(o, kind)
             \/ LotLeaseLapses(o, kind)
      PROVE  Next
  <2>1. OperationStep(o, kind)
    BY <1>3 DEF ClaimLotOperation, CompleteLots, FailLots, RecoverLots,
                LotLeaseLapses, OperationStep
  <2> QED BY <2>1, <1>1
<1>4. ASSUME NEW o \in Orders, NEW kind \in LotKind,
             \/ \E lot \in Lots : SwitchLot(o, kind, lot)
             \/ CallReturns(o, kind)
      PROVE  UNCHANGED vars
  BY <1>4 DEF SwitchLot, CallReturns
<1>5. CASE AbandonLots \/ Kill \/ \E told \in SUBSET Lots : Start(told)
  BY <1>5 DEF AbandonLots, Kill, Start
<1>6. CASE RecoverReceipts
  <2>1. "SEND_CREDENTIALS" \in LifecycleKind
    BY DEF LifecycleKind
  <2>2. CASE \E o \in Orders : OperationStep(o, "SEND_CREDENTIALS")
    BY <2>1, <2>2, <1>1
  <2>3. CASE \E e \in OtpRequests : OtpStep(e)
    BY <2>3, <1>2
  <2> QED BY <1>6, <2>2, <2>3 DEF RecoverReceipts, OperationStep, OtpStep
<1>7. CASE OtherStep
  BY <1>7 DEF OtherStep, Next
<1> QED BY <1>3, <1>4, <1>5, <1>6, <1>7 DEF LotNext

\* Whatever happens to the lots and to the process, the rows behave as
\* RentalLifecycle says: its theorems hold of the composition.
THEOREM RowsBehave == LotSpec => Spec
<1>1. LotInit => Init
  BY DEF LotInit
<1>2. [LotNext]_<<vars, lotVars>> => [Next]_vars
  BY StepOfRows DEF lotVars
<1> QED BY <1>1, <1>2, PTL DEF LotSpec, Spec

-----------------------------------------------------------------------------
\* What the rows may do while no lot is switched.

Reason(o) ==
  operation[o]["DISABLE_LOTS"] \in Unfinished \/ operation[o]["ENABLE_LOTS"] \in InFlight

Handed(o) ==
  /\ operation[o]["SEND_CREDENTIALS"] # "NONE"
  /\ operation[o]["ENABLE_LOTS"] \in {"NONE", "PENDING"}

\* No account is put on sale; one that is taken off sale has a reason to have
\* lots on; a reason is given up for review only; nothing is newly delivered.
Harmless ==
  /\ \A a \in Accounts :
       /\ account'[a] = "AVAILABLE" => account[a] = "AVAILABLE"
       /\ account[a] = "AVAILABLE" /\ account'[a] # "AVAILABLE" =>
            \E o \in Orders : rentedAccount'[o] = a /\ Reason(o)'
  /\ \A o \in Orders : Reason(o) =>
       /\ rentedAccount'[o] = rentedAccount[o]
       /\ Reason(o)' \/ account'[rentedAccount[o]] = "MANUAL_REVIEW"
  /\ \A o \in Orders : Handed(o)' =>
       Handed(o) /\ rentedAccount'[o] = rentedAccount[o]

\* An order without a rental has no operation.
LEMMA NoRentalNoOperation ==
  ASSUME IInv, NEW o \in Orders, NEW k \in LifecycleKind, operation[o][k] # "NONE"
  PROVE  rental[o] # "NONE" /\ rentedAccount[o] \in Accounts
  BY DEF IInv, TypeOK, LifecycleAgrees, RentalAgrees, OperationsAt, LifecycleKind

\* A step that moves one account within its life and finishes or begins
\* nothing that concerns the lots is harmless.
LEMMA MovesAreHarmless ==
  ASSUME IInv, NEW b, NEW target \in AccountStatus \ {"AVAILABLE"},
         account' = [account EXCEPT ![b] = target],
         b \in Accounts => account[b] # "AVAILABLE",
         UNCHANGED rentedAccount,
         \A o \in Orders : Reason(o) =>
           Reason(o)' \/ (b = rentedAccount[o] /\ target = "MANUAL_REVIEW"),
         \A o \in Orders : Handed(o)' => Handed(o)
  PROVE  Harmless
<1>1. ASSUME NEW o \in Orders, Reason(o) PROVE rentedAccount[o] \in Accounts
  BY <1>1, NoRentalNoOperation DEF Reason, Unfinished, InFlight, LifecycleKind
<1> QED
  BY <1>1 DEF Harmless, IInv, TypeOK

\* A step that keeps the accounts and what the lots depend on is harmless.
LEMMA RestIsHarmless ==
  ASSUME UNCHANGED <<account, rentedAccount>>,
         \A o \in Orders : Reason(o) => Reason(o)',
         \A o \in Orders : Handed(o)' => Handed(o)
  PROVE  Harmless
  BY DEF Harmless

\* Every transaction but the completion of a lot operation.
Quiet ==
  \/ \E o \in Orders, a \in Accounts : AcceptOrder(o, a)
  \/ \E o \in Orders : BlockOrder(o) \/ PrepareRevoke(o) \/ SecurityEvent(o)
  \/ \E o \in Orders, kind \in LifecycleKind :
       \/ ClaimOperation(o, kind)
       \/ FailOperation(o, kind)
       \/ LeaseLapses(o, kind)
       \/ ClaimStartupRecovery(o, kind)
       \/ kind \notin LotKind /\ Complete(o, kind)
  \/ \E due \in SUBSET Orders : ExpireDue(due)
  \/ \E e \in OtpRequests, o \in Orders : SeeActiveRental(e, o)
  \/ \E e \in OtpRequests : OtpStep(e)
  \/ RecoverExpiredLeases
  \/ Reconcile
  \/ UNCHANGED vars

\* All of them are harmless.
LEMMA QuietIsHarmless ==
  ASSUME IInv, Quiet
  PROVE  Harmless
<1> USE DEF Reason, Handed, Unfinished, InFlight, LifecycleKind, AccountStatus
<1>0. /\ operation \in [Orders -> [LifecycleKind -> OperationStatus]]
      /\ account \in [Accounts -> AccountStatus]
  BY DEF IInv, TypeOK
<1>1. ASSUME NEW o \in Orders, NEW a \in Accounts, AcceptOrder(o, a) PROVE Harmless
  <2>1. \A k \in LifecycleKind : operation[o][k] = "NONE"
    BY <1>1 DEF AcceptOrder, IInv, LifecycleAgrees, RentalAgrees, OperationsAt
  <2> QED
    BY <1>0, <1>1, <2>1 DEF AcceptOrder, SetOperation, Harmless, IInv, TypeOK
<1>2. ASSUME NEW o \in Orders, BlockOrder(o) PROVE Harmless
  BY <1>2, RestIsHarmless DEF BlockOrder
<1>3. ASSUME NEW o \in Orders, PrepareRevoke(o) PROVE Harmless
  <2>1. rentedAccount[o] \in Accounts => account[rentedAccount[o]] # "AVAILABLE"
    BY <1>3 DEF PrepareRevoke, MayMoveAccount, AccountEdges
  <2> QED
    BY <1>3, <2>1, MovesAreHarmless DEF PrepareRevoke
<1>4. ASSUME NEW o \in Orders, NEW kind \in LifecycleKind,
             \/ ClaimOperation(o, kind)
             \/ FailOperation(o, kind)
             \/ LeaseLapses(o, kind)
             \/ ClaimStartupRecovery(o, kind)
             \/ kind \notin LotKind /\ Complete(o, kind)
      PROVE  Harmless
  <2>1. CASE ClaimOperation(o, kind) \/ LeaseLapses(o, kind) \/ ClaimStartupRecovery(o, kind)
    BY <1>0, <2>1, RestIsHarmless
    DEF ClaimOperation, LeaseLapses, ClaimStartupRecovery, SetOperation
  <2>2. CASE CompleteSendCredentials(o)
    <3>1. account[rentedAccount[o]] # "AVAILABLE"
      BY <2>2 DEF CompleteSendCredentials, MoveAccount, MayMoveAccount, AccountEdges
    <3>2. \A p \in Orders, k \in LifecycleKind :
            k # "SEND_CREDENTIALS" => operation'[p][k] = operation[p][k]
      BY <1>0, <2>2 DEF CompleteSendCredentials, SetOperation
    <3>3. \A p \in Orders : operation[p]["SEND_CREDENTIALS"] = "NONE" =>
            operation'[p]["SEND_CREDENTIALS"] = "NONE"
      BY <1>0, <2>2 DEF CompleteSendCredentials, InFlightOperation, SetOperation
    <3>4. \A p \in Orders : Reason(p) => Reason(p)'
      BY <3>2
    <3>5. \A p \in Orders : Handed(p)' => Handed(p)
      BY <3>2, <3>3
    <3>6. /\ account' = [account EXCEPT ![rentedAccount[o]] = "ACTIVE"]
          /\ UNCHANGED rentedAccount
      BY <2>2 DEF CompleteSendCredentials, MoveAccount
    <3> HIDE DEF Reason, Handed
    <3> QED
      BY <3>1, <3>4, <3>5, <3>6, MovesAreHarmless
  <2>3. CASE CompleteRevokeSessions(o)
    <3>1. account[rentedAccount[o]] # "AVAILABLE"
      BY <2>3 DEF CompleteRevokeSessions, MoveAccount, MayMoveAccount, AccountEdges
    <3> QED
      BY <1>0, <2>3, <3>1, MovesAreHarmless
      DEF CompleteRevokeSessions, MoveAccount, FinishAndStart
  <2>4. CASE CompleteRotatePassword(o)
    <3>1. account[rentedAccount[o]] # "AVAILABLE"
      BY <2>4 DEF CompleteRotatePassword, MoveAccount, MayMoveAccount, AccountEdges
    <3> QED
      BY <1>0, <2>4, <3>1, MovesAreHarmless
      DEF CompleteRotatePassword, MoveAccount, FinishAndStart
  <2>5. CASE FailOperation(o, kind)
    <3>1. account[rentedAccount[o]] # "AVAILABLE"
      BY <2>5 DEF FailOperation, ToManualReview, MoveAccount, MayMoveAccount, AccountEdges
    <3> QED
      BY <1>0, <2>5, <3>1, MovesAreHarmless
      DEF FailOperation, InFlightOperation, ToManualReview, MoveAccount, SetOperation
  <2> QED
    BY <1>4, <2>1, <2>2, <2>3, <2>4, <2>5 DEF Complete, LotKind
<1>5. ASSUME NEW due \in SUBSET Orders, ExpireDue(due) PROVE Harmless
  <2>1. \A a \in Accounts : account'[a] = account[a]
                              \/ (account[a] = "ACTIVE" /\ account'[a] = "EXPIRING")
    BY <1>5 DEF ExpireDue
  <2>2. \A o \in Orders, k \in LifecycleKind \ {"REVOKE_SESSIONS"} :
          operation'[o][k] = operation[o][k]
    BY <1>0, <1>5 DEF ExpireDue
  <2>3. UNCHANGED rentedAccount
    BY <1>5 DEF ExpireDue
  <2> QED
    BY <2>1, <2>2, <2>3 DEF Harmless
<1>6. ASSUME NEW o \in Orders, SecurityEvent(o) PROVE Harmless
  <2>1. \A p \in Orders, k \in LifecycleKind :
          k # "REVOKE_SESSIONS" => operation'[p][k] = operation[p][k]
    BY <1>0, <1>6 DEF SecurityEvent, SetOperation
  <2>2. \A p \in Orders : (Reason(p) => Reason(p)') /\ (Handed(p)' => Handed(p))
    BY <2>1
  <2>3. /\ account' = [account EXCEPT ![rentedAccount[o]] = "SECURITY_ALERT"]
        /\ account[rentedAccount[o]] = "ACTIVE"
        /\ UNCHANGED rentedAccount
    BY <1>6 DEF SecurityEvent, MoveAccount
  <2> HIDE DEF Reason, Handed
  <2> QED
    BY <2>2, <2>3, MovesAreHarmless
<1>7. ASSUME NEW e \in OtpRequests, NEW o \in Orders, SeeActiveRental(e, o)
      PROVE  Harmless
  BY <1>7, RestIsHarmless DEF SeeActiveRental
<1>8. ASSUME NEW e \in OtpRequests, OtpStep(e) PROVE Harmless
  <2>1. CASE FailOtp(e)
    <3>1. account[rentedAccount[otpRental[e]]] # "AVAILABLE"
      BY <2>1 DEF FailOtp, ToManualReview, MoveAccount, MayMoveAccount, AccountEdges
    <3> QED
      BY <2>1, <3>1, MovesAreHarmless DEF FailOtp, ToManualReview, MoveAccount
  <2>2. CASE ~FailOtp(e)
    BY <1>8, <2>2, RestIsHarmless DEF OtpStep, CreateSendOtp, ForgetSeen, ClaimOtp,
       WaitForBuyerOtp, CompleteOtp, OtpLeaseLapses, MoveOtp
  <2> QED
    BY <2>1, <2>2
<1>9. CASE RecoverExpiredLeases
  <2>1. \A a \in Accounts : account[a] = "AVAILABLE" => account'[a] = "AVAILABLE"
    BY <1>9 DEF RecoverExpiredLeases, Quarantinable, MayMoveAccount, AccountEdges
  <2>2. \A a \in Accounts : account'[a] \in {account[a], "MANUAL_REVIEW"}
    BY <1>9 DEF RecoverExpiredLeases
  <2>3. \A o \in Orders, k \in LifecycleKind :
          operation'[o][k] = IF operation[o][k] = "LAPSED" THEN "FAILED"
                             ELSE operation[o][k]
    BY <1>9 DEF RecoverExpiredLeases
  <2>4. ASSUME NEW o \in Orders, NEW k \in LifecycleKind, operation[o][k] = "LAPSED"
        PROVE  account'[rentedAccount[o]] = "MANUAL_REVIEW"
    <3>1. <<o, k>> \in LapsedRows /\ <<o, k>>[1] = o
      BY <2>4 DEF LapsedRows
    <3>2. rentedAccount[o] \in Accounts
      BY <2>4, NoRentalNoOperation
    <3> QED
      BY <1>9, <3>1, <3>2 DEF RecoverExpiredLeases
  <2>5. UNCHANGED rentedAccount
    BY <1>9 DEF RecoverExpiredLeases
  <2> QED
    BY <2>1, <2>2, <2>3, <2>4, <2>5 DEF Harmless
<1>10. CASE Reconcile
  BY <1>10, NothingOrphaned, RestIsHarmless DEF Reconcile, IInv, TypeOK
<1>11. CASE UNCHANGED vars
  BY <1>11, RestIsHarmless DEF vars
<1> QED
  BY <1>1, <1>2, <1>3, <1>4, <1>5, <1>6, <1>7, <1>8, <1>9, <1>10, <1>11 DEF Quiet

-----------------------------------------------------------------------------
\* The inductive invariant.

\* The operation whose call is made is still running, and what the call has
\* reported is what the lots are.
WorkAgrees ==
  /\ work # {} => up /\ todo = {}
  /\ work = {} => result = "None"
  /\ \A row \in work :
       /\ work = {row}
       /\ operation[row[1]][row[2]] = "RUNNING"
       /\ result = "Verified" => AsWanted(row[1], row[2])

LInv ==
  /\ IInv
  /\ LotTypeOK
  /\ WorkAgrees
  /\ OffSinceDelivery
  /\ AvailableIsOnSale
  /\ DriftIsExplained

\* A fresh installation has the invariant.
LEMMA LotInitInv == LotInit => LInv
<1> SUFFICES ASSUME LotInit PROVE LInv
  OBVIOUS
<1>1. Init
  BY DEF LotInit
<1>2. IInv
  BY <1>1, InitInv
<1>3. LotTypeOK
  BY <1>2 DEF LotInit, LotTypeOK, IInv
<1>4. WorkAgrees
  BY DEF LotInit, WorkAgrees
<1>5. OffSinceDelivery
  BY <1>1 DEF Init, OffSinceDelivery, LifecycleKind
<1>6. AvailableIsOnSale /\ DriftIsExplained
  BY <1>1 DEF Init, LotInit, AvailableIsOnSale, DriftIsExplained, Drifted
<1> QED
  BY <1>2, <1>3, <1>4, <1>5, <1>6 DEF LInv

\* Types of the lots are kept by every step.
LEMMA LotTypes ==
  ASSUME LotTypeOK, LotNext
  PROVE  LotTypeOK'
<1>1. TypeOK'
  BY StepOfRows, NextTypeOK DEF LotTypeOK
<1> USE DEF LotTypeOK, LotOperations
<1>2. ASSUME NEW o \in Orders, NEW kind \in LotKind,
             \/ ClaimLotOperation(o, kind)
             \/ \E lot \in Lots : SwitchLot(o, kind, lot)
             \/ CallReturns(o, kind)
             \/ CompleteLots(o, kind)
             \/ FailLots(o, kind)
             \/ RecoverLots(o, kind)
             \/ LotLeaseLapses(o, kind) /\ UNCHANGED lotVars
      PROVE  LotTypeOK'
  <2>1. CASE \E lot \in Lots : SwitchLot(o, kind, lot)
    <3>1. PICK lot \in Lots : SwitchLot(o, kind, lot)
      BY <2>1
    <3>2. on' \in [Accounts -> SUBSET Lots]
      BY <3>1 DEF SwitchLot
    <3>3. UNCHANGED <<up, todo, work, result>>
      BY <3>1 DEF SwitchLot
    <3> QED
      BY <1>1, <3>2, <3>3
  <2>2. CASE ClaimLotOperation(o, kind)
    BY <1>1, <2>2 DEF ClaimLotOperation
  <2>3. CASE CallReturns(o, kind)
    BY <1>1, <2>3 DEF CallReturns
  <2>4. CASE CompleteLots(o, kind) \/ FailLots(o, kind)
    BY <1>1, <2>4 DEF CompleteLots, FailLots, EndWork
  <2>5. CASE RecoverLots(o, kind)
    BY <1>1, <2>5 DEF RecoverLots, Settled
  <2>6. CASE UNCHANGED lotVars
    BY <1>1, <2>6 DEF lotVars
  <2> QED
    BY <1>2, <2>1, <2>2, <2>3, <2>4, <2>5, <2>6
<1>3. CASE AbandonLots \/ Kill \/ \E told \in SUBSET Lots : Start(told)
  BY <1>1, <1>3 DEF AbandonLots, EndWork, Kill, Start, LapsedLotOperations
<1>4. CASE UNCHANGED lotVars
  BY <1>1, <1>4 DEF lotVars
<1> QED
  BY <1>2, <1>3, <1>4 DEF LotNext

\* While no lot is switched, harmless transactions keep the three properties.
LEMMA HarmlessKeeps ==
  ASSUME LInv, Harmless, ReviewKept, TypeOK', UNCHANGED on
  PROVE  OffSinceDelivery' /\ AvailableIsOnSale' /\ DriftIsExplained'
<1> USE DEF LInv
<1>1. OffSinceDelivery'
  BY DEF OffSinceDelivery, Harmless, Handed
<1>2. AvailableIsOnSale'
  BY DEF AvailableIsOnSale, Harmless
<1>3. DriftIsExplained'
  <2> SUFFICES ASSUME NEW a \in Accounts, Drifted(a, Lots)', account'[a] # "MANUAL_REVIEW"
               PROVE  \E o \in Orders : rentedAccount'[o] = a /\ Reason(o)'
    BY DEF DriftIsExplained, Reason
  <2>1. CASE account[a] = "AVAILABLE"
    BY <2>1 DEF Harmless, Drifted
  <2>2. CASE account[a] # "AVAILABLE"
    <3>1. account[a] # "MANUAL_REVIEW"
      BY DEF ReviewKept
    <3>2. PICK o \in Orders : rentedAccount[o] = a /\ Reason(o)
      BY <2>2, <3>1 DEF Drifted, DriftIsExplained, Reason
    <3> QED
      BY <3>2 DEF Harmless
  <2> QED
    BY <2>1, <2>2
<1> QED
  BY <1>1, <1>2, <1>3

\* The rental of a lot operation that runs: its account is not for rent, and
\* nobody else has been handed that account and not returned it.
LEMMA RunningLots ==
  ASSUME IInv, NEW o \in Orders, NEW kind \in LotKind, operation[o][kind] \in Unfinished
  PROVE  /\ rentedAccount[o] \in Accounts
         /\ account[rentedAccount[o]] # "AVAILABLE"
         /\ \A p \in Orders : p # o /\ rentedAccount[p] = rentedAccount[o] => ~Handed(p)
<1> USE DEF LotKind, LifecycleKind, Unfinished
<1>1. rental[o] # "NONE" /\ rentedAccount[o] \in Accounts
  BY NoRentalNoOperation
<1>2. rental[o] # "FINISHED"
  BY DEF IInv, LifecycleAgrees, RentalAgrees, OperationsAt
<1>3. account[rentedAccount[o]] # "AVAILABLE"
  BY <1>1, <1>2, AvailableMeansReturned
<1>4. rental[o] \in UnsettledRental
  BY <1>1, <1>2 DEF IInv, TypeOK, RentalStatus, UnsettledRental, OpenRental,
     LifecycleAgrees, RentalAgrees
<1>5. ASSUME NEW p \in Orders, p # o, rentedAccount[p] = rentedAccount[o], Handed(p)
      PROVE  FALSE
  <2>1. rental[p] # "NONE"
    BY <1>5, NoRentalNoOperation DEF Handed
  <2>2. rental[p] # "FINISHED"
    BY <1>5 DEF Handed, IInv, LifecycleAgrees, RentalAgrees, OperationsAt
  <2>3. rental[p] \in UnsettledRental
    BY <2>1, <2>2 DEF IInv, TypeOK, RentalStatus, UnsettledRental, OpenRental,
       LifecycleAgrees, RentalAgrees
  <2> QED
    BY <1>4, <1>5, <2>3 DEF IInv, NoDoubleAllocation
<1> QED
  BY <1>1, <1>3, <1>5

\* A switched lot is explained by the operation that switches it.
LEMMA SwitchKeeps ==
  ASSUME LInv, NEW o \in Orders, NEW kind \in LotKind, NEW lot \in Lots,
         SwitchLot(o, kind, lot)
  PROVE  OffSinceDelivery' /\ AvailableIsOnSale' /\ DriftIsExplained'
<1> USE DEF LInv
<1> DEFINE b == rentedAccount[o]
<1>1. operation[o][kind] = "RUNNING" /\ kind \in LotKind
  BY DEF SwitchLot, WorkAgrees
<1>2. /\ b \in Accounts
      /\ account[b] # "AVAILABLE"
      /\ \A p \in Orders : p # o /\ rentedAccount[p] = b => ~Handed(p)
  BY <1>1, RunningLots DEF Unfinished
<1>3. /\ \A a \in Accounts : a # b => on'[a] = on[a]
      /\ on'[b] = IF kind = "ENABLE_LOTS" THEN on[b] \cup {lot} ELSE on[b] \ {lot}
      /\ UNCHANGED <<account, operation, rentedAccount>>
  BY <1>2 DEF SwitchLot, LotTypeOK, vars
<1>4. OffSinceDelivery'
  <2> SUFFICES ASSUME NEW p \in Orders, Handed(p) PROVE on'[rentedAccount[p]] = {}
    BY <1>3 DEF OffSinceDelivery, Handed
  <2>1. on[rentedAccount[p]] = {} /\ rentedAccount[p] \in Accounts
    BY NoRentalNoOperation DEF OffSinceDelivery, Handed, LifecycleKind
  <2>2. CASE rentedAccount[p] # b
    BY <1>3, <2>1, <2>2
  <2>3. CASE rentedAccount[p] = b
    <3>1. p = o
      BY <1>2, <2>3
    <3>2. kind # "ENABLE_LOTS"
      BY <1>1, <3>1 DEF Handed
    <3> QED
      BY <1>3, <2>1, <2>3, <3>2
  <2> QED
    BY <2>2, <2>3
<1>5. AvailableIsOnSale'
  BY <1>2, <1>3 DEF AvailableIsOnSale
<1>6. Reason(o)'
  BY <1>1, <1>3 DEF Reason, LotKind, Unfinished, InFlight
<1>7. DriftIsExplained'
  BY <1>3, <1>6 DEF DriftIsExplained, Drifted, Reason
<1> QED
  BY <1>4, <1>5, <1>7

\* An operation that is completed leaves the lots as the rows say.
LEMMA CompletionKeeps ==
  ASSUME LInv, LotTypeOK', NEW o \in Orders, NEW kind \in LotKind,
         Complete(o, kind), AsWanted(o, kind), UNCHANGED on
  PROVE  OffSinceDelivery' /\ AvailableIsOnSale' /\ DriftIsExplained'
<1> USE DEF LInv, LifecycleKind
<1> DEFINE b == rentedAccount[o]
<1>0. operation \in [Orders -> [LifecycleKind -> OperationStatus]]
  BY DEF LotTypeOK, TypeOK
<1>1. operation[o][kind] \in InFlight /\ b \in Accounts
  <2>1. operation[o][kind] \in InFlight
    BY DEF Complete, CompleteDisableLots, CompleteEnableLots, InFlightOperation, LotKind
  <2> QED
    BY <2>1, NoRentalNoOperation DEF InFlight, LotKind
<1>2. CASE kind = "DISABLE_LOTS"
  <2>1. on[b] = {} /\ UNCHANGED <<account, rentedAccount>>
    BY <1>2 DEF AsWanted, Wanted, Complete, CompleteDisableLots
  <2>2. \A p \in Orders : p # o => operation'[p] = operation[p]
    BY <1>0, <1>2 DEF Complete, CompleteDisableLots, FinishAndStart
  <2>3. operation'[o]["ENABLE_LOTS"] = operation[o]["ENABLE_LOTS"]
    BY <1>0, <1>2 DEF Complete, CompleteDisableLots, FinishAndStart
  <2>4. OffSinceDelivery'
    BY <2>1, <2>2 DEF OffSinceDelivery
  <2>5. AvailableIsOnSale'
    BY <2>1 DEF AvailableIsOnSale
  <2>6. DriftIsExplained'
    BY <2>1, <2>2 DEF DriftIsExplained, Drifted
  <2> QED
    BY <2>4, <2>5, <2>6
<1>3. CASE kind = "ENABLE_LOTS"
  <2>1. /\ on[b] = Lots /\ UNCHANGED rentedAccount
        /\ account' = [account EXCEPT ![b] = "AVAILABLE"]
    BY <1>3 DEF AsWanted, Wanted, Complete, CompleteEnableLots, MoveAccount
  <2>2. \A p \in Orders : p # o => operation'[p] = operation[p]
    BY <1>0, <1>3 DEF Complete, CompleteEnableLots, SetOperation
  <2>3. operation'[o]["ENABLE_LOTS"] = "COMPLETED"
    BY <1>0, <1>3 DEF Complete, CompleteEnableLots, SetOperation
  <2>4. OffSinceDelivery'
    BY <2>1, <2>2, <2>3 DEF OffSinceDelivery
  <2>5. AvailableIsOnSale'
    BY <1>1, <2>1 DEF AvailableIsOnSale, LotTypeOK, TypeOK
  <2>6. DriftIsExplained'
    <3>1. account'[b] = "AVAILABLE"
      BY <1>1, <2>1 DEF LotTypeOK, TypeOK
    <3>2. \A a \in Accounts : a # b => account'[a] = account[a]
      BY <2>1 DEF LotTypeOK, TypeOK
    <3>3. \A p \in Orders : rentedAccount[p] # b => operation'[p] = operation[p]
      BY <2>2
    <3> QED
      BY <2>1, <3>1, <3>2, <3>3 DEF DriftIsExplained, Drifted
  <2> QED
    BY <2>4, <2>5, <2>6
<1> QED
  BY <1>2, <1>3 DEF LotKind

\* What is known of a process that works at an operation.
LEMMA WorkRow ==
  ASSUME WorkAgrees, NEW o \in Orders, NEW kind \in LotKind, work = {<<o, kind>>}
  PROVE  /\ up /\ todo = {}
         /\ operation[o][kind] = "RUNNING"
         /\ result = "Verified" => AsWanted(o, kind)
<1>1. <<o, kind>>[1] = o /\ <<o, kind>>[2] = kind /\ <<o, kind>> \in work
  OBVIOUS
<1> QED
  BY <1>1 DEF WorkAgrees

\* What is to be shown of a process that works at an operation.
LEMMA WorkingAgrees ==
  ASSUME NEW o \in Orders, NEW kind \in LotKind,
         work' = {<<o, kind>>}, up', todo' = {},
         operation'[o][kind] = "RUNNING",
         result' = "Verified" => AsWanted(o, kind)'
  PROVE  WorkAgrees'
<1>1. <<o, kind>>[1] = o /\ <<o, kind>>[2] = kind
  OBVIOUS
<1>2. \A row \in work' : row = <<o, kind>>
  OBVIOUS
<1> QED
  BY <1>1, <1>2 DEF WorkAgrees, AsWanted, Wanted

\* The process works at one operation at a time, which nobody ends meanwhile.
LEMMA WorkKept ==
  ASSUME LInv, LotNext
  PROVE  WorkAgrees'
<1> USE DEF LInv, WorkAgrees
<1>0. operation \in [Orders -> [LifecycleKind -> OperationStatus]]
  BY DEF LotTypeOK, TypeOK
<1>1. ASSUME work' = {}, result' = "None" PROVE WorkAgrees'
  BY <1>1
<1>2. ASSUME NEW o \in Orders, NEW kind \in LotKind, ClaimLotOperation(o, kind)
      PROVE  WorkAgrees'
  <2>1. /\ work' = {<<o, kind>>} /\ up' /\ todo' = {} /\ result' = "None"
        /\ operation'[o][kind] = "RUNNING"
    BY <1>0, <1>2, LotKinds DEF ClaimLotOperation, Idle, ClaimOperation, SetOperation
  <2> QED
    BY <2>1, WorkingAgrees
<1>3. ASSUME NEW o \in Orders, NEW kind \in LotKind, NEW lot \in Lots,
             SwitchLot(o, kind, lot)
      PROVE  WorkAgrees'
  <2>1. /\ work = {<<o, kind>>} /\ result' = "None"
        /\ UNCHANGED <<operation, up, todo, work>>
    BY <1>3 DEF SwitchLot, vars
  <2>2. up /\ todo = {} /\ operation[o][kind] = "RUNNING"
    BY <2>1, WorkRow
  <2> QED
    BY <2>1, <2>2, WorkingAgrees
<1>4. ASSUME NEW o \in Orders, NEW kind \in LotKind, CallReturns(o, kind)
      PROVE  WorkAgrees'
  <2>1. /\ work = {<<o, kind>>}
        /\ result' = "Verified" => AsWanted(o, kind)
        /\ UNCHANGED <<on, rentedAccount, operation, up, todo, work>>
    BY <1>4 DEF CallReturns, vars
  <2>2. AsWanted(o, kind)' <=> AsWanted(o, kind)
    BY <2>1 DEF AsWanted, Wanted
  <2>3. up /\ todo = {} /\ operation[o][kind] = "RUNNING"
    BY <2>1, WorkRow
  <2> QED
    BY <2>1, <2>2, <2>3, WorkingAgrees
<1>5. ASSUME NEW o \in Orders, NEW kind \in LotKind,
             CompleteLots(o, kind) \/ FailLots(o, kind)
      PROVE  WorkAgrees'
  BY <1>1, <1>5 DEF CompleteLots, FailLots, EndWork
<1>6. ASSUME NEW o \in Orders, NEW kind \in LotKind, RecoverLots(o, kind)
      PROVE  WorkAgrees'
  <2>1. work = {} /\ result = "None" /\ UNCHANGED <<work, result>>
    BY <1>6 DEF RecoverLots, Settled
  <2> QED
    BY <1>1, <2>1
<1>7. ASSUME NEW o \in Orders, NEW kind \in LotKind,
             LotLeaseLapses(o, kind), UNCHANGED lotVars
      PROVE  WorkAgrees'
  <2>1. CASE work = {}
    BY <1>1, <1>7, <2>1 DEF lotVars
  <2>2. CASE work # {}
    <3>1. PICK p \in Orders, k \in LotKind : work = {<<p, k>>}
      BY <2>2 DEF LotTypeOK, LotOperations
    <3>2. up /\ todo = {} /\ operation[p][k] = "RUNNING"
          /\ (result = "Verified" => AsWanted(p, k))
      BY <3>1, WorkRow
    <3>3. <<p, k>> # <<o, kind>>
      BY <1>7, <3>1 DEF LotLeaseLapses
    <3>4. operation'[p][k] = operation[p][k] /\ UNCHANGED rentedAccount
      BY <1>0, <1>7, <3>3, LotKinds DEF LotLeaseLapses, LeaseLapses, SetOperation
    <3>5. UNCHANGED <<on, up, todo, work, result>>
      BY <1>7 DEF lotVars
    <3>6. AsWanted(p, k)' <=> AsWanted(p, k)
      BY <3>4, <3>5 DEF AsWanted, Wanted
    <3> QED
      BY <3>1, <3>2, <3>4, <3>5, <3>6, WorkingAgrees
  <2> QED
    BY <2>1, <2>2
<1>8. CASE AbandonLots \/ Kill
  BY <1>1, <1>8 DEF AbandonLots, EndWork, Kill
<1>9. ASSUME NEW told \in SUBSET Lots, Start(told) PROVE WorkAgrees'
  <2>1. work = {}
    BY <1>9 DEF Start
  <2> QED
    BY <1>1, <1>9, <2>1 DEF Start
<1>10. CASE (RecoverReceipts \/ OtherStep) /\ UNCHANGED lotVars
  BY <1>1, <1>10 DEF RecoverReceipts, OtherStep, Idle, lotVars
<1> QED
  BY <1>2, <1>3, <1>4, <1>5, <1>6, <1>7, <1>8, <1>9, <1>10 DEF LotNext

\* The steps of LotControl but the switches and the completions are quiet.
LEMMA StepIsQuiet ==
  ASSUME LotNext,
         \A o \in Orders, kind \in LotKind :
           /\ \A lot \in Lots : ~SwitchLot(o, kind, lot)
           /\ ~CompleteLots(o, kind)
           /\ ~(RecoverLots(o, kind) /\ Complete(o, kind) /\ AsWanted(o, kind))
  PROVE  Quiet /\ UNCHANGED on
<1> USE LotKinds
<1>1. ASSUME NEW o \in Orders, NEW kind \in LotKind,
             \/ ClaimLotOperation(o, kind)
             \/ FailLots(o, kind)
             \/ RecoverLots(o, kind)
             \/ LotLeaseLapses(o, kind) /\ UNCHANGED lotVars
      PROVE  Quiet /\ UNCHANGED on
  <2>1. UNCHANGED on
    BY <1>1 DEF ClaimLotOperation, FailLots, EndWork, RecoverLots, Settled, lotVars
  <2>2. ClaimOperation(o, kind) \/ FailOperation(o, kind) \/ LeaseLapses(o, kind)
    BY <1>1 DEF ClaimLotOperation, FailLots, RecoverLots, LotLeaseLapses
  <2> QED
    BY <2>1, <2>2 DEF Quiet
<1>2. ASSUME NEW o \in Orders, NEW kind \in LotKind, CallReturns(o, kind)
      PROVE  Quiet /\ UNCHANGED on
  BY <1>2 DEF CallReturns, Quiet
<1>3. CASE AbandonLots \/ Kill \/ \E told \in SUBSET Lots : Start(told)
  BY <1>3 DEF AbandonLots, EndWork, Kill, Start, Quiet
<1>4. CASE RecoverReceipts /\ UNCHANGED lotVars
  <2>1. "SEND_CREDENTIALS" \in LifecycleKind \ LotKind
    BY DEF LifecycleKind, LotKind
  <2>2. CASE \E o \in Orders : \/ Complete(o, "SEND_CREDENTIALS")
                               \/ FailOperation(o, "SEND_CREDENTIALS")
    BY <1>4, <2>1, <2>2 DEF Quiet, lotVars
  <2>3. CASE \E e \in OtpRequests : OtpStep(e)
    BY <1>4, <2>3 DEF Quiet, lotVars
  <2> QED
    BY <1>4, <2>2, <2>3 DEF RecoverReceipts, OtpStep
<1>5. CASE OtherStep /\ UNCHANGED lotVars
  <2>1. CASE \E o \in Orders, kind \in LifecycleKind \ LotKind : OperationStep(o, kind)
    BY <1>5, <2>1 DEF OperationStep, Quiet, lotVars
  <2>2. CASE ~\E o \in Orders, kind \in LifecycleKind \ LotKind : OperationStep(o, kind)
    BY <1>5, <2>2 DEF OtherStep, Quiet, lotVars
  <2> QED
    BY <2>1, <2>2
<1> QED
  BY <1>1, <1>2, <1>3, <1>4, <1>5 DEF LotNext

\* Every step keeps the invariant.
LEMMA LotNextInv == LInv /\ [LotNext]_<<vars, lotVars>> => LInv'
<1> SUFFICES ASSUME LInv, [LotNext]_<<vars, lotVars>> PROVE LInv'
  OBVIOUS
<1>1. CASE LotNext
  <2>1. IInv' /\ ReviewKept
    BY <1>1, StepOfRows, NextInv, NextKeepsReview DEF LInv
  <2>2. LotTypeOK' /\ WorkAgrees'
    BY <1>1, LotTypes, WorkKept DEF LInv
  <2>3. TypeOK'
    BY <2>1 DEF IInv
  <2>4. ASSUME NEW o \in Orders, NEW kind \in LotKind, NEW lot \in Lots,
               SwitchLot(o, kind, lot)
        PROVE  LInv'
    BY <2>1, <2>2, <2>4, SwitchKeeps DEF LInv
  <2>5. ASSUME NEW o \in Orders, NEW kind \in LotKind, CompleteLots(o, kind)
        PROVE  LInv'
    <3>1. Complete(o, kind) /\ AsWanted(o, kind) /\ UNCHANGED on
      BY <2>5, WorkRow DEF CompleteLots, EndWork, LInv
    <3> QED
      BY <2>1, <2>2, <3>1, CompletionKeeps DEF LInv
  <2>6. ASSUME NEW o \in Orders, NEW kind \in LotKind,
               RecoverLots(o, kind), Complete(o, kind), AsWanted(o, kind)
        PROVE  LInv'
    <3>1. UNCHANGED on
      BY <2>6 DEF RecoverLots, Settled
    <3> QED
      BY <2>1, <2>2, <2>6, <3>1, CompletionKeeps DEF LInv
  <2>7. CASE \A o \in Orders, kind \in LotKind :
               /\ \A lot \in Lots : ~SwitchLot(o, kind, lot)
               /\ ~CompleteLots(o, kind)
               /\ ~(RecoverLots(o, kind) /\ Complete(o, kind) /\ AsWanted(o, kind))
    <3>1. Quiet /\ UNCHANGED on
      BY <1>1, <2>7, StepIsQuiet
    <3>2. Harmless
      BY <3>1, QuietIsHarmless DEF LInv
    <3> QED
      BY <2>1, <2>2, <2>3, <3>1, <3>2, HarmlessKeeps DEF LInv
  <2> QED
    BY <2>4, <2>5, <2>6, <2>7
<1>2. CASE UNCHANGED <<vars, lotVars>>
  <2>1. IInv' /\ ReviewKept
    BY <1>2, NextInv, NextKeepsReview DEF LInv
  <2>2. TypeOK'
    BY <2>1 DEF IInv
  <2>3. UNCHANGED <<vars, on, up, todo, work, result>>
    BY <1>2 DEF lotVars
  <2>4. LotTypeOK'
    BY <2>2, <2>3 DEF LInv, LotTypeOK, LotOperations
  <2>5. WorkAgrees'
    BY <2>3 DEF LInv, WorkAgrees, AsWanted, Wanted, vars
  <2>6. Harmless
    BY <2>3, QuietIsHarmless DEF Quiet, LInv
  <2> QED
    BY <2>1, <2>2, <2>3, <2>4, <2>5, <2>6, HarmlessKeeps DEF LInv
<1> QED
  BY <1>1, <1>2

\* The invariant holds in every reachable state.
THEOREM LotInvariance == LotSpec => []LInv
<1> QED
  BY LotInitInv, LotNextInv, PTL DEF LotSpec

\* Rows, lots and the process always hold values of their types.
THEOREM LotTypesHold == LotSpec => []LotTypeOK
<1>1. LInv => LotTypeOK
  BY DEF LInv
<1> QED
  BY <1>1, LotInvariance, PTL

\* No lot of a delivered account is on sale before its lots are enabled again,
\* whatever fails, dies half-way or goes to review.
THEOREM DeliveredIsOffSale == LotSpec => []OffSinceDelivery
<1>1. LInv => OffSinceDelivery
  BY DEF LInv
<1> QED
  BY <1>1, LotInvariance, PTL

\* An account for rent is on sale with all its lots.
THEOREM ForRentIsOnSale == LotSpec => []AvailableIsOnSale
<1>1. LInv => AvailableIsOnSale
  BY DEF LInv
<1> QED
  BY <1>1, LotInvariance, PTL

\* Lots that are on for an account that is not for rent are explained by its
\* review or by a lot operation of the bot that is not over.
THEOREM DriftHasReason == LotSpec => []DriftIsExplained
<1>1. LInv => DriftIsExplained
  BY DEF LInv
<1> QED
  BY <1>1, LotInvariance, PTL

=============================================================================
