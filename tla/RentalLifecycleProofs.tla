------------------------ MODULE RentalLifecycleProofs ------------------------
(***************************************************************************)
(* Theorems about RentalLifecycle for any accounts, orders and requests:   *)
(* type correctness and the inductive invariant IInv.                      *)
(***************************************************************************)
EXTENDS RentalLifecycle, TLAPS

\* An account in the middle of a life has an open rental.
AccountsInUse ==
  \A a \in Accounts :
    account[a] \notin {"AVAILABLE", "MANUAL_REVIEW"} =>
      \E o \in Orders : rentedAccount[o] = a /\ rental[o] \in OpenRental

\* Rentals of one account were given different password generations.
GenerationsDiffer ==
  \A o1, o2 \in Orders :
    /\ rental[o1] # "NONE" /\ rental[o2] # "NONE"
    /\ rentedAccount[o1] = rentedAccount[o2]
    /\ o1 # o2
    => rentalVersion[o1] # rentalVersion[o2]

IInv ==
  /\ TypeOK
  /\ NoDoubleAllocation
  /\ LifecycleAgrees
  /\ AccountsInUse
  /\ GenerationsAgree
  /\ GenerationsDiffer

-----------------------------------------------------------------------------
\* Type correctness.

\* A fresh database has its types.
LEMMA InitTypeOK == Init => TypeOK
  BY SentinelsAssumption DEF Init, TypeOK, AccountStatus, FulfillmentStatus, OperationStatus

\* Every transaction keeps the types of the rows.
LEMMA NextTypeOK == TypeOK /\ [Next]_vars => TypeOK'
<1> SUFFICES ASSUME TypeOK, [Next]_vars PROVE TypeOK'
  OBVIOUS
<1> USE DEF TypeOK, AccountStatus, FulfillmentStatus, RentalStatus,
            OperationStatus, LifecycleKind, SetOperation, FinishAndStart,
            MoveAccount, MoveRental, ToManualReview, RentalEdges
<1>1. ASSUME NEW o \in Orders, NEW a \in Accounts, AcceptOrder(o, a)
      PROVE  TypeOK'
  BY <1>1 DEF AcceptOrder
<1>2. ASSUME NEW o \in Orders, BlockOrder(o) PROVE TypeOK'
  BY <1>2 DEF BlockOrder
<1>3. ASSUME NEW o \in Orders, PrepareRevoke(o) PROVE TypeOK'
  BY <1>3 DEF PrepareRevoke, MayMoveRental
<1>4. ASSUME NEW o \in Orders, NEW kind \in LifecycleKind,
             OperationStep(o, kind)
      PROVE  TypeOK'
  <2>1. CASE ClaimOperation(o, kind)
    BY <2>1 DEF ClaimOperation
  <2>2. CASE Complete(o, kind)
    <3>1. CASE CompleteDisableLots(o)
      BY <3>1 DEF CompleteDisableLots
    <3>2. CASE CompleteSendCredentials(o)
      BY <3>2 DEF CompleteSendCredentials, MayMoveRental
    <3>3. CASE CompleteRevokeSessions(o)
      BY <3>3 DEF CompleteRevokeSessions, MayMoveRental
    <3>4. CASE CompleteRotatePassword(o)
      BY <3>4 DEF CompleteRotatePassword
    <3>5. CASE CompleteEnableLots(o)
      BY <3>5 DEF CompleteEnableLots, MayMoveRental
    <3> QED
      BY <2>2, <3>1, <3>2, <3>3, <3>4, <3>5 DEF Complete
  <2>3. CASE FailOperation(o, kind)
    BY <2>3 DEF FailOperation, MayMoveRental
  <2>4. CASE LeaseLapses(o, kind)
    BY <2>4 DEF LeaseLapses
  <2>5. CASE ClaimStartupRecovery(o, kind)
    BY <2>5 DEF ClaimStartupRecovery
  <2> QED
    BY <1>4, <2>1, <2>2, <2>3, <2>4, <2>5 DEF OperationStep
<1>5. ASSUME NEW due \in SUBSET Orders, ExpireDue(due) PROVE TypeOK'
  BY <1>5 DEF ExpireDue
<1>6. ASSUME NEW o \in Orders, SecurityEvent(o) PROVE TypeOK'
  BY <1>6 DEF SecurityEvent, MayMoveRental
<1>7. ASSUME NEW e \in OtpRequests, NEW o \in Orders, SeeActiveRental(e, o)
      PROVE  TypeOK'
  BY <1>7 DEF SeeActiveRental
<1>8. ASSUME NEW e \in OtpRequests, OtpStep(e) PROVE TypeOK'
  <2>1. CASE FailOtp(e)
    BY <2>1 DEF FailOtp, MayMoveRental, InFlight
  <2>2. CASE ~FailOtp(e)
    BY <1>8, <2>2 DEF OtpStep, CreateSendOtp, ForgetSeen, ClaimOtp, WaitForBuyerOtp,
       CompleteOtp, OtpLeaseLapses, MoveOtp, InFlight
  <2> QED
    BY <2>1, <2>2
<1>9. CASE RecoverExpiredLeases
  <2>1. \A row \in LapsedRows : rental[row[1]] # "NONE"
    BY <1>9 DEF RecoverExpiredLeases, Quarantinable, MayMoveRental
  <2> QED
    BY <1>9, <2>1 DEF RecoverExpiredLeases
<1>10. CASE Reconcile
  BY <1>10 DEF Reconcile
<1>11. CASE UNCHANGED vars
  BY <1>11 DEF vars
<1> QED
  BY <1>1, <1>2, <1>3, <1>4, <1>5, <1>6, <1>7, <1>8, <1>9, <1>10, <1>11
  DEF Next

\* The rows of the database always hold values of their declared types.
THEOREM TypeCorrect == Spec => []TypeOK
<1> QED
  BY InitTypeOK, NextTypeOK, PTL DEF Spec

-----------------------------------------------------------------------------
\* The inductive invariant.

\* An account that is AVAILABLE was returned by everyone it was let to.
LEMMA AvailableMeansReturned ==
  ASSUME IInv, NEW o \in Orders, rental[o] # "NONE",
         account[rentedAccount[o]] = "AVAILABLE"
  PROVE  rental[o] = "FINISHED"
  BY DEF IInv, TypeOK, LifecycleAgrees, RentalAgrees, RentalStatus

\* Beside an open rental its account has only finished ones.
LEMMA OthersFinished ==
  ASSUME IInv, NEW o \in Orders, NEW p \in Orders, p # o,
         rental[o] \in OpenRental, rental[p] # "NONE",
         rentedAccount[p] = rentedAccount[o]
  PROVE  rental[p] = "FINISHED"
  BY DEF IInv, TypeOK, LifecycleAgrees, RentalAgrees, RentalStatus,
         NoDoubleAllocation, UnsettledRental, OpenRental

\* A transaction that moves some open rentals and their accounts, and keeps
\* each of them consistent, keeps the whole database consistent.
LEMMA RentalsMove ==
  ASSUME IInv, TypeOK', NEW S \in SUBSET Orders,
         \A o \in S : rental[o] \in OpenRental,
         \A p \in Orders \ S :
           rental'[p] = rental[p] /\ operation'[p] = operation[p]
             /\ order'[p] = order[p],
         \A a \in Accounts :
           (\A o \in S : rentedAccount[o] # a) =>
             account'[a] = account[a],
         \A a \in Accounts :
           /\ credentialVersion'[a] >= credentialVersion[a]
           /\ (\A o \in S : rentedAccount[o] # a) =>
                credentialVersion'[a] = credentialVersion[a],
         rentedAccount' = rentedAccount, rentalVersion' = rentalVersion,
         \A o \in S : RentalAgrees(o)' /\ GenerationAgrees(o)',
         \A o \in S :
           \/ rental'[o] \in OpenRental
           \/ rental'[o] = "FINISHED" /\ account'[rentedAccount[o]] = "AVAILABLE"
           \/ rental'[o] = "MANUAL_REVIEW"
  PROVE  IInv'
<1>1. ASSUME NEW p \in Orders \ S, NEW o \in S, rental[p] # "NONE",
             rentedAccount[p] = rentedAccount[o]
      PROVE  rental[p] = "FINISHED"
  BY <1>1, OthersFinished
<1>2. \A o \in Orders : RentalAgrees(o)' /\ GenerationAgrees(o)'
  <2> TAKE o \in Orders
  <2>1. CASE o \in S
    BY <2>1
  <2>2. CASE o \notin S /\ rental[o] = "FINISHED"
    BY <2>2 DEF IInv, TypeOK, LifecycleAgrees, GenerationsAgree,
                RentalAgrees, GenerationAgrees, OperationsAt, OpenRental
  <2>3. CASE o \notin S /\ rental[o] = "NONE"
    BY <2>3 DEF IInv, TypeOK, LifecycleAgrees, GenerationsAgree,
                RentalAgrees, GenerationAgrees, OperationsAt, OpenRental
  <2>4. CASE o \notin S /\ rental[o] \notin {"FINISHED", "NONE"}
    <3>1. rentedAccount[o] \in Accounts /\ \A p \in S : rentedAccount[p] # rentedAccount[o]
      BY <2>4, <1>1 DEF IInv, TypeOK
    <3>2. /\ account'[rentedAccount[o]] = account[rentedAccount[o]]
          /\ credentialVersion'[rentedAccount[o]] = credentialVersion[rentedAccount[o]]
      BY <3>1
    <3> QED
      BY <2>4, <3>2 DEF IInv, LifecycleAgrees, GenerationsAgree,
                RentalAgrees, GenerationAgrees, OperationsAt
  <2> QED
    BY <2>1, <2>2, <2>3, <2>4
<1>3. NoDoubleAllocation'
  <2>1. ASSUME NEW o \in Orders, rental'[o] \in UnsettledRental
        PROVE  rental[o] \in UnsettledRental
    BY <2>1 DEF UnsettledRental
  <2> QED
    BY <2>1 DEF IInv, NoDoubleAllocation
<1>4. AccountsInUse'
  <2> SUFFICES ASSUME NEW a \in Accounts,
                      account'[a] \notin {"AVAILABLE", "MANUAL_REVIEW"}
               PROVE  \E o \in Orders : rentedAccount'[o] = a /\ rental'[o] \in OpenRental
    BY DEF AccountsInUse
  <2>1. CASE \E o \in S : rentedAccount[o] = a
    <3> PICK o \in S : rentedAccount[o] = a
      BY <2>1
    <3>1. account'[rentedAccount'[o]] # "MANUAL_REVIEW"
      OBVIOUS
    <3>2. RentalAgrees(o)'
      BY <1>2
    <3>3. rental'[o] # "MANUAL_REVIEW"
      BY <3>1, <3>2 DEF RentalAgrees
    <3>4. rental'[o] \in OpenRental
      BY <3>3
    <3> QED
      BY <3>4
  <2>2. CASE \A o \in S : rentedAccount[o] # a
    <3>1. PICK o \in Orders : rentedAccount[o] = a /\ rental[o] \in OpenRental
      BY <2>2 DEF IInv, AccountsInUse
    <3> QED
      BY <2>2, <3>1
  <2> QED
    BY <2>1, <2>2
<1>5. GenerationsDiffer'
  <2>1. ASSUME NEW o \in Orders, rental'[o] # "NONE"
        PROVE  rental[o] # "NONE"
    BY <2>1 DEF OpenRental
  <2> QED
    BY <2>1 DEF IInv, GenerationsDiffer
<1> QED
  BY <1>2, <1>3, <1>4, <1>5 DEF IInv, LifecycleAgrees, GenerationsAgree

\* A change of an unfinished operation that leaves it unfinished, and of
\* nothing else but login-code requests, disturbs nothing.
LEMMA OperationMoves ==
  ASSUME IInv, TypeOK',
         NEW o \in Orders, NEW k \in LifecycleKind, NEW s \in Unfinished,
         operation[o][k] \in Unfinished, SetOperation(o, k, s),
         UNCHANGED <<account, credentialVersion, order, rental,
                     rentedAccount, rentalVersion>>
  PROVE  IInv'
<1>1. \A p \in Orders, j \in LifecycleKind :
        \/ operation'[p][j] = operation[p][j]
        \/ operation[p][j] \in Unfinished /\ operation'[p][j] \in Unfinished
  BY DEF SetOperation, IInv, TypeOK
<1>2. \A p \in Orders : RentalAgrees(p)'
  <2> TAKE p \in Orders
  <2>1. \A done \in SUBSET LifecycleKind, current \in LifecycleKind \cup {"NONE"} :
          OperationsAt(p, done, current) => OperationsAt(p, done, current)'
    BY <1>1 DEF OperationsAt, Unfinished
  <2>2. /\ Delivered \in SUBSET LifecycleKind /\ Revoked \in SUBSET LifecycleKind
        /\ Rotated \in SUBSET LifecycleKind
        /\ {} \in SUBSET LifecycleKind /\ {"DISABLE_LOTS"} \in SUBSET LifecycleKind
        /\ LifecycleKind \in SUBSET LifecycleKind
        /\ {"DISABLE_LOTS", "SEND_CREDENTIALS", "REVOKE_SESSIONS",
            "ROTATE_PASSWORD", "ENABLE_LOTS"} \subseteq LifecycleKind
    BY DEF Delivered, Revoked, Rotated, LifecycleKind
  <2>3. \A j \in LifecycleKind : operation'[p][j] \in Unfinished =>
          operation[p][j] \in Unfinished
    BY <1>1
  <2>4. operation'[p]["SEND_CREDENTIALS"] = "COMPLETED" <=>
          operation[p]["SEND_CREDENTIALS"] = "COMPLETED"
    BY <1>1, <2>2 DEF Unfinished
  <2>5. RentalAgrees(p)
    BY DEF IInv, LifecycleAgrees
  <2> QED
    BY <2>1, <2>2, <2>3, <2>4, <2>5 DEF RentalAgrees
<1> QED
  BY <1>2 DEF IInv, LifecycleAgrees, GenerationsAgree, GenerationAgrees,
              NoDoubleAllocation, AccountsInUse, GenerationsDiffer

\* RentalsMove for one rental.
LEMMA OneRentalMoves ==
  ASSUME IInv, TypeOK', NEW o \in Orders, rental[o] \in OpenRental,
         \A p \in Orders \ {o} :
           rental'[p] = rental[p] /\ operation'[p] = operation[p]
             /\ order'[p] = order[p],
         \A a \in Accounts \ {rentedAccount[o]} :
           account'[a] = account[a] /\ credentialVersion'[a] = credentialVersion[a],
         credentialVersion'[rentedAccount[o]] >= credentialVersion[rentedAccount[o]],
         rentedAccount' = rentedAccount, rentalVersion' = rentalVersion,
         RentalAgrees(o)', GenerationAgrees(o)',
         \/ rental'[o] \in OpenRental
         \/ rental'[o] = "FINISHED" /\ account'[rentedAccount[o]] = "AVAILABLE"
         \/ rental'[o] = "MANUAL_REVIEW"
  PROVE  IInv'
<1> DEFINE S == {o}
<1>1. \A a \in Accounts : credentialVersion'[a] >= credentialVersion[a]
  <2> TAKE a \in Accounts
  <2>1. credentialVersion[a] \in Nat
    BY DEF IInv, TypeOK
  <2>2. CASE a = rentedAccount[o]
    BY <2>2
  <2>3. CASE a # rentedAccount[o]
    <3>1. credentialVersion'[a] = credentialVersion[a]
      BY <2>3
    <3> QED
      BY <2>1, <3>1
  <2> QED
    BY <2>2, <2>3
<1>2. S \in SUBSET Orders /\ \A p \in S : p = o
  OBVIOUS
<1>3. \A a \in Accounts :
        (\A p \in S : rentedAccount[p] # a) => a \in Accounts \ {rentedAccount[o]}
  OBVIOUS
<1>4. \A p \in Orders \ S : p \in Orders \ {o}
  OBVIOUS
<1>5. o \in S
  OBVIOUS
<1> HIDE DEF S
<1>6. \A p \in S : rental[p] \in OpenRental /\ RentalAgrees(p)' /\ GenerationAgrees(p)'
  BY <1>2
<1>7. \A p \in S :
        \/ rental'[p] \in OpenRental
        \/ rental'[p] = "FINISHED" /\ account'[rentedAccount[p]] = "AVAILABLE"
        \/ rental'[p] = "MANUAL_REVIEW"
  BY <1>2
<1>8. \A a \in Accounts :
        (\A p \in S : rentedAccount[p] # a) =>
          account'[a] = account[a] /\ credentialVersion'[a] = credentialVersion[a]
  BY <1>3
<1> QED
  BY <1>1, <1>2, <1>4, <1>6, <1>7, <1>8, RentalsMove

\* A fresh database satisfies the invariant.
LEMMA InitInv == Init => IInv
<1> SUFFICES ASSUME Init PROVE IInv
  OBVIOUS
<1>1. TypeOK
  BY InitTypeOK
<1>2. \A o \in Orders : RentalAgrees(o)
  BY DEF Init, RentalAgrees, OperationsAt, LifecycleKind
<1> QED
  BY <1>1, <1>2 DEF Init, IInv, NoDoubleAllocation, UnsettledRental, OpenRental,
     LifecycleAgrees, AccountsInUse, GenerationsAgree, GenerationAgrees,
     GenerationsDiffer

\* A rental that its operations can still fail is open, and takes its account
\* and its one unfinished operation to review.
LEMMA ReviewKeepsInv ==
  ASSUME IInv, TypeOK', NEW o \in Orders, ToManualReview(o),
         UNCHANGED <<credentialVersion, order, rentedAccount, rentalVersion>>,
         \/ operation' = operation
         \/ \E k \in LifecycleKind : SetOperation(o, k, "FAILED") /\ InFlightOperation(o, k)
  PROVE  IInv'
<1>1. rental[o] \in OpenRental
  BY DEF ToManualReview, MoveRental, MayMoveRental, RentalEdges, OpenRental
<1>2. /\ rental' = [rental EXCEPT ![o] = "MANUAL_REVIEW"]
      /\ account' = [account EXCEPT ![rentedAccount[o]] = "MANUAL_REVIEW"]
  BY DEF ToManualReview, MoveRental, MoveAccount
<1>3. rentedAccount[o] \in Accounts
  BY <1>1 DEF IInv, TypeOK, OpenRental
<1>4. \A p \in Orders \ {o} : operation'[p] = operation[p]
  BY DEF SetOperation, IInv, TypeOK
<1>5. \A k \in LifecycleKind :
        operation'[o][k] # operation[o][k] =>
          operation'[o][k] = "FAILED" /\ operation[o][k] \in InFlight
  BY DEF SetOperation, InFlightOperation, IInv, TypeOK
<1>6. RentalAgrees(o)'
  <2>1. RentalAgrees(o)
    BY DEF IInv, LifecycleAgrees
  <2>2. order[o] \notin {"NEW", "FULFILLMENT_BLOCKED"}
    BY <2>1, <1>1 DEF RentalAgrees, OpenRental
  <2>3. operation'[o]["SEND_CREDENTIALS"] = "COMPLETED" <=>
          operation[o]["SEND_CREDENTIALS"] = "COMPLETED"
    BY <1>5 DEF LifecycleKind, InFlight
  <2>4. \A j \in LifecycleKind : operation'[o][j] \in Unfinished =>
          operation[o][j] \in Unfinished
    BY <1>5 DEF Unfinished
  <2>5. \A j1, j2 \in LifecycleKind :
          operation[o][j1] \in Unfinished /\ operation[o][j2] \in Unfinished =>
            j1 = j2
    BY <2>1, <1>1 DEF RentalAgrees, OpenRental, OperationsAt, Unfinished
  <2>6. rental'[o] = "MANUAL_REVIEW" /\ account'[rentedAccount'[o]] = "MANUAL_REVIEW"
    BY <1>2, <1>3 DEF IInv, TypeOK
  <2>7. order'[o] = "ACTIVATED" <=> operation'[o]["SEND_CREDENTIALS"] = "COMPLETED"
    BY <2>1, <2>3 DEF RentalAgrees
  <2> QED
    BY <2>2, <2>4, <2>5, <2>6, <2>7 DEF RentalAgrees
<1>7. GenerationAgrees(o)'
  <2>1. GenerationAgrees(o)
    BY DEF IInv, GenerationsAgree
  <2>2. RentalAgrees(o)
    BY DEF IInv, LifecycleAgrees
  <2>3. rentalVersion[o] <= credentialVersion[rentedAccount[o]]
    BY <1>1, <1>3, <2>1, <2>2 DEF GenerationAgrees, RentalAgrees, OpenRental, IInv, TypeOK
  <2> QED
    BY <1>2, <2>3 DEF GenerationAgrees, OpenRental, IInv, TypeOK
<1>8. /\ \A p \in Orders \ {o} : rental'[p] = rental[p] /\ order'[p] = order[p]
      /\ \A a \in Accounts \ {rentedAccount[o]} :
           account'[a] = account[a] /\ credentialVersion'[a] = credentialVersion[a]
      /\ credentialVersion'[rentedAccount[o]] >= credentialVersion[rentedAccount[o]]
      /\ rental'[o] = "MANUAL_REVIEW"
  BY <1>2, <1>3 DEF IInv, TypeOK
<1> QED
  BY <1>1, <1>4, <1>6, <1>7, <1>8, OneRentalMoves

\* An accepted order starts a life on an account that nobody else holds.
LEMMA AcceptKeepsInv ==
  ASSUME IInv, TypeOK', NEW o \in Orders, NEW a \in Accounts, AcceptOrder(o, a)
  PROVE  IInv'
<1>1. /\ account' = [account EXCEPT ![a] = "RESERVED"]
      /\ rental' = [rental EXCEPT ![o] = "RESERVED"]
      /\ rentedAccount' = [rentedAccount EXCEPT ![o] = a]
      /\ rentalVersion' = [rentalVersion EXCEPT ![o] = credentialVersion[a]]
      /\ order' = [order EXCEPT ![o] = "PENDING"]
      /\ operation' = [operation EXCEPT ![o]["DISABLE_LOTS"] = "PENDING"]
      /\ credentialVersion' = credentialVersion
      /\ order[o] = "NEW" /\ account[a] = "AVAILABLE"
  BY DEF AcceptOrder, SetOperation
<1>2. rental[o] = "NONE" /\ OperationsAt(o, {}, "NONE")
  BY <1>1 DEF IInv, LifecycleAgrees, RentalAgrees
<1>3. \A p \in Orders : rental[p] # "NONE" /\ rentedAccount[p] = a =>
        rental[p] = "FINISHED"
  BY <1>1, AvailableMeansReturned
<1>4. /\ rental'[o] = "RESERVED" /\ rentedAccount'[o] = a /\ account'[a] = "RESERVED"
      /\ rentalVersion'[o] = credentialVersion[a] /\ order'[o] = "PENDING"
  BY <1>1 DEF IInv, TypeOK
<1>5. ASSUME NEW p \in Orders \ {o}
      PROVE  /\ rental'[p] = rental[p] /\ rentedAccount'[p] = rentedAccount[p]
             /\ rentalVersion'[p] = rentalVersion[p] /\ order'[p] = order[p]
             /\ operation'[p] = operation[p]
  BY <1>1 DEF IInv, TypeOK
<1>6. ASSUME NEW b \in Accounts \ {a} PROVE account'[b] = account[b]
  BY <1>1 DEF IInv, TypeOK
<1>7. \A p \in Orders : RentalAgrees(p)' /\ GenerationAgrees(p)'
  <2> TAKE p \in Orders
  <2>1. CASE p = o
    <3>1. OperationsAt(o, {}, "DISABLE_LOTS")'
      BY <1>1, <1>2 DEF OperationsAt, IInv, TypeOK, LifecycleKind, Unfinished
    <3>2. operation'[o]["SEND_CREDENTIALS"] # "COMPLETED"
      BY <3>1 DEF OperationsAt, LifecycleKind
    <3>3. RentalAgrees(o)'
      BY <1>4, <3>1, <3>2 DEF RentalAgrees
    <3>4. GenerationAgrees(o)'
      BY <1>1, <1>4 DEF GenerationAgrees, OpenRental
    <3> QED
      BY <2>1, <3>3, <3>4
  <2>2. CASE p # o /\ rental[p] = "FINISHED"
    BY <1>1, <1>5, <2>2 DEF IInv, TypeOK, LifecycleAgrees, GenerationsAgree,
       RentalAgrees, GenerationAgrees, OperationsAt, OpenRental
  <2>3. CASE p # o /\ rental[p] = "NONE"
    BY <1>1, <1>5, <2>3 DEF IInv, TypeOK, LifecycleAgrees, GenerationsAgree,
       RentalAgrees, GenerationAgrees, OperationsAt, OpenRental
  <2>4. CASE p # o /\ rental[p] \notin {"FINISHED", "NONE"}
    <3>1. rentedAccount[p] \in Accounts \ {a}
      BY <1>3, <2>4 DEF IInv, TypeOK
    <3>2. account'[rentedAccount[p]] = account[rentedAccount[p]]
      BY <1>6, <3>1
    <3> QED
      BY <1>1, <1>5, <2>4, <3>2 DEF IInv, LifecycleAgrees, GenerationsAgree,
         RentalAgrees, GenerationAgrees, OperationsAt
  <2> QED
    BY <2>1, <2>2, <2>3, <2>4
<1>8. NoDoubleAllocation'
  <2> SUFFICES ASSUME NEW p \in Orders, NEW q \in Orders,
                      rental'[p] \in UnsettledRental,
                      rental'[q] \in UnsettledRental,
                      rentedAccount'[p] = rentedAccount'[q], p # q
               PROVE  FALSE
    BY DEF NoDoubleAllocation
  <2>1. CASE p = o
    BY <1>3, <1>4, <1>5, <2>1 DEF UnsettledRental, OpenRental
  <2>2. CASE q = o
    BY <1>3, <1>4, <1>5, <2>2 DEF UnsettledRental, OpenRental
  <2>3. CASE p # o /\ q # o
    BY <1>5, <2>3 DEF IInv, NoDoubleAllocation
  <2> QED
    BY <2>1, <2>2, <2>3
<1>9. AccountsInUse'
  <2> SUFFICES ASSUME NEW b \in Accounts,
                      account'[b] \notin {"AVAILABLE", "MANUAL_REVIEW"}
               PROVE  \E p \in Orders : rentedAccount'[p] = b /\ rental'[p] \in OpenRental
    BY DEF AccountsInUse
  <2>1. CASE b = a
    BY <1>4, <2>1 DEF OpenRental
  <2>2. CASE b # a
    <3>1. PICK p \in Orders : rentedAccount[p] = b /\ rental[p] \in OpenRental
      BY <1>6, <2>2 DEF IInv, AccountsInUse
    <3> QED
      BY <1>2, <1>5, <3>1 DEF OpenRental
  <2> QED
    BY <2>1, <2>2
<1>10. GenerationsDiffer'
  <2>1. \A p \in Orders \ {o} : rental[p] # "NONE" /\ rentedAccount[p] = a =>
          rentalVersion[p] # credentialVersion[a]
    BY <1>3 DEF IInv, TypeOK, GenerationsAgree, GenerationAgrees
  <2> SUFFICES ASSUME NEW p \in Orders, NEW q \in Orders, p # q,
                      rental'[p] # "NONE", rental'[q] # "NONE",
                      rentedAccount'[p] = rentedAccount'[q]
               PROVE  rentalVersion'[p] # rentalVersion'[q]
    BY DEF GenerationsDiffer
  <2>2. CASE p = o
    BY <1>4, <1>5, <2>1, <2>2
  <2>3. CASE q = o
    BY <1>4, <1>5, <2>1, <2>3
  <2>4. CASE p # o /\ q # o
    BY <1>5, <2>4 DEF IInv, GenerationsDiffer
  <2> QED
    BY <2>2, <2>3, <2>4
<1> QED
  BY <1>7, <1>8, <1>9, <1>10 DEF IInv, LifecycleAgrees, GenerationsAgree

\* Startup never finds an account that its operations have abandoned.
LEMMA NothingOrphaned == IInv => \A a \in Accounts : ~Orphaned(a)
<1> SUFFICES ASSUME IInv, NEW a \in Accounts, Orphaned(a) PROVE FALSE
  OBVIOUS
<1>1. PICK o \in Orders : rentedAccount[o] = a /\ rental[o] \in OpenRental
  BY DEF IInv, AccountsInUse, Orphaned
<1>2. RentalAgrees(o)
  BY DEF IInv, LifecycleAgrees
<1>3. rental[o] # "ACTIVE"
  BY <1>1, <1>2 DEF RentalAgrees, Orphaned
<1>4. \E k \in LifecycleKind : operation[o][k] \in Unfinished
  BY <1>1, <1>2, <1>3 DEF RentalAgrees, OpenRental, OperationsAt, Delivered,
     Revoked, Rotated, LifecycleKind
<1> QED
  BY <1>1, <1>4 DEF Orphaned, HasUnfinishedOperation

\* What a step of rental o alone does to the rest of the database: nothing.
LEMMA OthersUntouched ==
  ASSUME IInv, NEW o \in Orders, NEW r, NEW s, NEW w,
         rental[o] # "NONE",
         rental' = [rental EXCEPT ![o] = r],
         account' = [account EXCEPT ![rentedAccount[o]] = s],
         operation' = [operation EXCEPT ![o] = w]
  PROVE  /\ rentedAccount[o] \in Accounts
         /\ rental'[o] = r /\ account'[rentedAccount[o]] = s /\ operation'[o] = w
         /\ \A p \in Orders \ {o} :
              rental'[p] = rental[p] /\ operation'[p] = operation[p]
         /\ \A a \in Accounts \ {rentedAccount[o]} : account'[a] = account[a]
  BY DEF IInv, TypeOK

\* A revocation that starts moves both rows of its rental to REVOKING.
LEMMA PrepareRevokeKeepsInv ==
  ASSUME IInv, TypeOK', NEW o \in Orders, PrepareRevoke(o)
  PROVE  IInv'
<1>1. RentalAgrees(o) /\ GenerationAgrees(o)
  BY DEF IInv, LifecycleAgrees, GenerationsAgree
<1>2. operation[o]["REVOKE_SESSIONS"] \in InFlight
  BY DEF PrepareRevoke, InFlightOperation
<1>3. rental[o] \in {"EXPIRING", "SECURITY_TERMINATED", "REVOKING"}
  <2>1. rental[o] \in {"ACTIVE", "EXPIRING", "SECURITY_TERMINATED", "REVOKING"}
    BY DEF PrepareRevoke, MayMoveRental, RentalEdges
  <2>2. rental[o] # "ACTIVE"
    BY <1>1, <1>2 DEF RentalAgrees, OperationsAt, Delivered, LifecycleKind, InFlight
  <2> QED
    BY <2>1, <2>2
<1>4. /\ rental' = [rental EXCEPT ![o] = "REVOKING"]
      /\ account' = [account EXCEPT ![rentedAccount[o]] = "REVOKING"]
      /\ operation' = [operation EXCEPT ![o] = operation[o]]
      /\ UNCHANGED <<credentialVersion, order, rentedAccount, rentalVersion>>
  BY DEF PrepareRevoke, IInv, TypeOK
<1>5. /\ rentedAccount[o] \in Accounts
      /\ rental'[o] = "REVOKING" /\ account'[rentedAccount[o]] = "REVOKING"
      /\ operation'[o] = operation[o]
      /\ \A p \in Orders \ {o} :
           rental'[p] = rental[p] /\ operation'[p] = operation[p]
      /\ \A a \in Accounts \ {rentedAccount[o]} : account'[a] = account[a]
  BY <1>3, <1>4, OthersUntouched
<1>6. RentalAgrees(o)'
  BY <1>1, <1>3, <1>4, <1>5 DEF RentalAgrees, OperationsAt
<1>7. GenerationAgrees(o)'
  BY <1>1, <1>3, <1>4, <1>5 DEF GenerationAgrees, OpenRental
<1>8. credentialVersion'[rentedAccount[o]] >= credentialVersion[rentedAccount[o]]
  BY <1>4, <1>5 DEF IInv, TypeOK
<1>9. rental[o] \in OpenRental /\ rental'[o] \in OpenRental
  BY <1>3, <1>5 DEF OpenRental
<1> QED
  BY <1>4, <1>5, <1>6, <1>7, <1>8, <1>9, OneRentalMoves

\* A security alert ends an ACTIVE rental and queues its revocation.
LEMMA SecurityEventKeepsInv ==
  ASSUME IInv, TypeOK', NEW o \in Orders, SecurityEvent(o)
  PROVE  IInv'
<1>1. RentalAgrees(o) /\ GenerationAgrees(o)
  BY DEF IInv, LifecycleAgrees, GenerationsAgree
<1>2. rental[o] = "ACTIVE"
  BY DEF SecurityEvent
<1> DEFINE w == [operation[o] EXCEPT !["REVOKE_SESSIONS"] = "PENDING"]
<1>3. /\ rental' = [rental EXCEPT ![o] = "SECURITY_TERMINATED"]
      /\ account' = [account EXCEPT ![rentedAccount[o]] = "SECURITY_ALERT"]
      /\ operation' = [operation EXCEPT ![o] = w]
      /\ UNCHANGED <<credentialVersion, order, rentedAccount, rentalVersion>>
  BY DEF SecurityEvent, MoveRental, MoveAccount, SetOperation
<1>4. /\ rentedAccount[o] \in Accounts
      /\ rental'[o] = "SECURITY_TERMINATED"
      /\ account'[rentedAccount[o]] = "SECURITY_ALERT"
      /\ operation'[o] = w
      /\ \A p \in Orders \ {o} :
           rental'[p] = rental[p] /\ operation'[p] = operation[p]
      /\ \A a \in Accounts \ {rentedAccount[o]} : account'[a] = account[a]
  BY <1>2, <1>3, OthersUntouched
<1>5. /\ w["REVOKE_SESSIONS"] = "PENDING"
      /\ \A k \in LifecycleKind \ {"REVOKE_SESSIONS"} : w[k] = operation[o][k]
  BY DEF IInv, TypeOK, LifecycleKind
<1> HIDE DEF w
<1>6. OperationsAt(o, Delivered, "NONE")
  BY <1>1, <1>2 DEF RentalAgrees
<1>7. OperationsAt(o, Delivered, "REVOKE_SESSIONS")'
  BY <1>4, <1>5, <1>6 DEF OperationsAt, Delivered, Unfinished, LifecycleKind
<1>8. w["SEND_CREDENTIALS"] = operation[o]["SEND_CREDENTIALS"]
  BY <1>5 DEF LifecycleKind
<1>9. RentalAgrees(o)'
  BY <1>1, <1>2, <1>3, <1>4, <1>7, <1>8 DEF RentalAgrees
<1>10. GenerationAgrees(o)'
  BY <1>1, <1>2, <1>3, <1>4 DEF GenerationAgrees, OpenRental
<1>11. credentialVersion'[rentedAccount[o]] >= credentialVersion[rentedAccount[o]]
  BY <1>3, <1>4 DEF IInv, TypeOK
<1>12. rental[o] \in OpenRental /\ rental'[o] \in OpenRental
  BY <1>2, <1>4 DEF OpenRental
<1> QED
  BY <1>3, <1>4, <1>9, <1>10, <1>11, <1>12, OneRentalMoves

\* Delivered credentials make the rental and its account ACTIVE.
LEMMA SendCredentialsKeepsInv ==
  ASSUME IInv, TypeOK', NEW o \in Orders, CompleteSendCredentials(o)
  PROVE  IInv'
<1>1. RentalAgrees(o) /\ GenerationAgrees(o)
  BY DEF IInv, LifecycleAgrees, GenerationsAgree
<1>2. rental[o] = "RESERVED" /\ operation[o]["SEND_CREDENTIALS"] \in InFlight
  BY DEF CompleteSendCredentials, MoveRental, MayMoveRental, RentalEdges,
         InFlightOperation
<1> DEFINE w == [operation[o] EXCEPT !["SEND_CREDENTIALS"] = "COMPLETED"]
<1>3. /\ rental' = [rental EXCEPT ![o] = "ACTIVE"]
      /\ account' = [account EXCEPT ![rentedAccount[o]] = "ACTIVE"]
      /\ operation' = [operation EXCEPT ![o] = w]
      /\ order' = [order EXCEPT ![o] = "ACTIVATED"]
      /\ UNCHANGED <<credentialVersion, rentedAccount, rentalVersion>>
  BY DEF CompleteSendCredentials, MoveRental, MoveAccount, SetOperation
<1>4. /\ rentedAccount[o] \in Accounts
      /\ rental'[o] = "ACTIVE" /\ account'[rentedAccount[o]] = "ACTIVE"
      /\ operation'[o] = w
      /\ \A p \in Orders \ {o} :
           rental'[p] = rental[p] /\ operation'[p] = operation[p]
      /\ \A a \in Accounts \ {rentedAccount[o]} : account'[a] = account[a]
  BY <1>2, <1>3, OthersUntouched
<1>5. /\ w["SEND_CREDENTIALS"] = "COMPLETED"
      /\ \A k \in LifecycleKind \ {"SEND_CREDENTIALS"} : w[k] = operation[o][k]
  BY DEF IInv, TypeOK, LifecycleKind
<1> HIDE DEF w
<1>6. OperationsAt(o, {"DISABLE_LOTS"}, "SEND_CREDENTIALS")
  BY <1>1, <1>2 DEF RentalAgrees, OperationsAt, LifecycleKind, InFlight
<1>7. OperationsAt(o, Delivered, "NONE")'
  BY <1>4, <1>5, <1>6 DEF OperationsAt, Delivered, LifecycleKind
<1>8. order'[o] = "ACTIVATED" /\ \A p \in Orders \ {o} : order'[p] = order[p]
  BY <1>3 DEF IInv, TypeOK
<1>9. RentalAgrees(o)'
  BY <1>3, <1>4, <1>5, <1>7, <1>8 DEF RentalAgrees
<1>10. GenerationAgrees(o)'
  BY <1>1, <1>2, <1>3, <1>4 DEF GenerationAgrees, OpenRental
<1>11. credentialVersion'[rentedAccount[o]] >= credentialVersion[rentedAccount[o]]
  BY <1>3, <1>4 DEF IInv, TypeOK
<1>12. rental[o] \in OpenRental /\ rental'[o] \in OpenRental
  BY <1>2, <1>4 DEF OpenRental
<1> QED
  BY <1>3, <1>4, <1>8, <1>9, <1>10, <1>11, <1>12, OneRentalMoves

\* Revoked sessions lead to the rotation of the password.
LEMMA RevokeSessionsKeepsInv ==
  ASSUME IInv, TypeOK', NEW o \in Orders, CompleteRevokeSessions(o)
  PROVE  IInv'
<1>1. RentalAgrees(o) /\ GenerationAgrees(o)
  BY DEF IInv, LifecycleAgrees, GenerationsAgree
<1>2. rental[o] = "REVOKING"
  BY DEF CompleteRevokeSessions, MoveRental, MayMoveRental, RentalEdges
<1> DEFINE w == [operation[o] EXCEPT !["REVOKE_SESSIONS"] = "COMPLETED",
                                     !["ROTATE_PASSWORD"] = "PENDING"]
<1>3. /\ rental' = [rental EXCEPT ![o] = "PASSWORD_ROTATION"]
      /\ account' = [account EXCEPT ![rentedAccount[o]] = "ROTATING_PASSWORD"]
      /\ operation' = [operation EXCEPT ![o] = w]
      /\ UNCHANGED <<credentialVersion, order, rentedAccount, rentalVersion>>
  BY DEF CompleteRevokeSessions, MoveRental, MoveAccount, FinishAndStart, IInv, TypeOK
<1>4. /\ rentedAccount[o] \in Accounts
      /\ rental'[o] = "PASSWORD_ROTATION"
      /\ account'[rentedAccount[o]] = "ROTATING_PASSWORD"
      /\ operation'[o] = w
      /\ \A p \in Orders \ {o} :
           rental'[p] = rental[p] /\ operation'[p] = operation[p]
      /\ \A a \in Accounts \ {rentedAccount[o]} : account'[a] = account[a]
  BY <1>2, <1>3, OthersUntouched
<1>5. /\ w["REVOKE_SESSIONS"] = "COMPLETED" /\ w["ROTATE_PASSWORD"] = "PENDING"
      /\ \A k \in LifecycleKind \ {"REVOKE_SESSIONS", "ROTATE_PASSWORD"} :
           w[k] = operation[o][k]
  BY DEF IInv, TypeOK, LifecycleKind
<1> HIDE DEF w
<1>6. OperationsAt(o, Delivered, "REVOKE_SESSIONS")
  BY <1>1, <1>2 DEF RentalAgrees
<1>7. OperationsAt(o, Revoked, "ROTATE_PASSWORD")'
  BY <1>4, <1>5, <1>6 DEF OperationsAt, Delivered, Revoked, Unfinished, LifecycleKind
<1>8. w["SEND_CREDENTIALS"] = operation[o]["SEND_CREDENTIALS"]
  BY <1>5 DEF LifecycleKind
<1>9. RentalAgrees(o)'
  BY <1>1, <1>2, <1>3, <1>4, <1>7, <1>8 DEF RentalAgrees
<1>10. GenerationAgrees(o)'
  BY <1>1, <1>2, <1>3, <1>4 DEF GenerationAgrees, OpenRental
<1>11. credentialVersion'[rentedAccount[o]] >= credentialVersion[rentedAccount[o]]
  BY <1>3, <1>4 DEF IInv, TypeOK
<1>12. rental[o] \in OpenRental /\ rental'[o] \in OpenRental
  BY <1>2, <1>4 DEF OpenRental
<1> QED
  BY <1>3, <1>4, <1>9, <1>10, <1>11, <1>12, OneRentalMoves

\* A rotation brings the next generation into force.
LEMMA RotatePasswordKeepsInv ==
  ASSUME IInv, TypeOK', NEW o \in Orders, CompleteRotatePassword(o)
  PROVE  IInv'
<1>1. RentalAgrees(o) /\ GenerationAgrees(o)
  BY DEF IInv, LifecycleAgrees, GenerationsAgree
<1>2. /\ operation[o]["ROTATE_PASSWORD"] \in InFlight
      /\ operation[o]["ENABLE_LOTS"] = "NONE"
      /\ account[rentedAccount[o]] = "ROTATING_PASSWORD"
  BY DEF CompleteRotatePassword, InFlightOperation, FinishAndStart, MoveAccount,
         MayMoveAccount, AccountEdges
<1>3. rental[o] = "PASSWORD_ROTATION" /\ OperationsAt(o, Revoked, "ROTATE_PASSWORD")
  <2>1. rental[o] \in {"PASSWORD_ROTATION", "MANUAL_REVIEW"}
    BY <1>1, <1>2 DEF RentalAgrees, OperationsAt, Delivered, LifecycleKind,
       InFlight, IInv, TypeOK, RentalStatus
  <2> QED
    BY <1>1, <1>2, <2>1 DEF RentalAgrees
<1> DEFINE w == [operation[o] EXCEPT !["ROTATE_PASSWORD"] = "COMPLETED",
                                     !["ENABLE_LOTS"] = "PENDING"]
<1>4. /\ rental' = [rental EXCEPT ![o] = "PASSWORD_ROTATION"]
      /\ account' = [account EXCEPT ![rentedAccount[o]] = "AVAILABLE_OFFLINE"]
      /\ operation' = [operation EXCEPT ![o] = w]
      /\ UNCHANGED <<order, rentedAccount, rentalVersion>>
  BY <1>3 DEF CompleteRotatePassword, MoveAccount, FinishAndStart, IInv, TypeOK
<1>5. /\ w["ROTATE_PASSWORD"] = "COMPLETED" /\ w["ENABLE_LOTS"] = "PENDING"
      /\ \A k \in LifecycleKind \ {"ROTATE_PASSWORD", "ENABLE_LOTS"} :
           w[k] = operation[o][k]
  BY DEF IInv, TypeOK, LifecycleKind
<1> HIDE DEF w
<1>6. /\ rentedAccount[o] \in Accounts
      /\ rental'[o] = "PASSWORD_ROTATION"
      /\ account'[rentedAccount[o]] = "AVAILABLE_OFFLINE"
      /\ operation'[o] = w
      /\ \A p \in Orders \ {o} :
           rental'[p] = rental[p] /\ operation'[p] = operation[p]
      /\ \A a \in Accounts \ {rentedAccount[o]} : account'[a] = account[a]
  BY <1>3, <1>4 DEF IInv, TypeOK
<1>7. /\ credentialVersion[rentedAccount[o]] \in Nat
      /\ rentalVersion[o] = credentialVersion[rentedAccount[o]]
      /\ credentialVersion'[rentedAccount[o]] = credentialVersion[rentedAccount[o]] + 1
      /\ \A a \in Accounts \ {rentedAccount[o]} :
           credentialVersion'[a] = credentialVersion[a]
  BY <1>1, <1>2, <1>3, <1>6 DEF GenerationAgrees, CompleteRotatePassword, IInv, TypeOK
<1>8. OperationsAt(o, Rotated, "ENABLE_LOTS")'
  BY <1>3, <1>6, <1>5 DEF OperationsAt, Delivered, Revoked, Rotated, Unfinished,
     LifecycleKind
<1>9. w["SEND_CREDENTIALS"] = operation[o]["SEND_CREDENTIALS"]
  BY <1>5 DEF LifecycleKind
<1>10. RentalAgrees(o)'
  BY <1>1, <1>3, <1>4, <1>6, <1>8, <1>9 DEF RentalAgrees
<1>11. GenerationAgrees(o)'
  BY <1>4, <1>6, <1>7 DEF GenerationAgrees, OpenRental
<1>12. rental[o] \in OpenRental /\ rental'[o] \in OpenRental
  BY <1>3, <1>6 DEF OpenRental
<1>13. credentialVersion'[rentedAccount[o]] >= credentialVersion[rentedAccount[o]]
  BY <1>7
<1> QED
  BY <1>4, <1>6, <1>7, <1>10, <1>11, <1>12, <1>13, OneRentalMoves

\* Enabled lots finish the rental and free the account.
LEMMA EnableLotsKeepsInv ==
  ASSUME IInv, TypeOK', NEW o \in Orders, CompleteEnableLots(o)
  PROVE  IInv'
<1>1. RentalAgrees(o) /\ GenerationAgrees(o)
  BY DEF IInv, LifecycleAgrees, GenerationsAgree
<1>2. /\ rental[o] = "PASSWORD_ROTATION"
      /\ operation[o]["ENABLE_LOTS"] \in InFlight
  BY DEF CompleteEnableLots, InFlightOperation, MoveRental, MayMoveRental,
         RentalEdges
<1>3. account[rentedAccount[o]] = "AVAILABLE_OFFLINE"
      /\ OperationsAt(o, Rotated, "ENABLE_LOTS")
  BY <1>1, <1>2 DEF RentalAgrees, OperationsAt, Revoked, Delivered, LifecycleKind,
     InFlight
<1> DEFINE w == [operation[o] EXCEPT !["ENABLE_LOTS"] = "COMPLETED"]
<1>4. /\ rental' = [rental EXCEPT ![o] = "FINISHED"]
      /\ account' = [account EXCEPT ![rentedAccount[o]] = "AVAILABLE"]
      /\ operation' = [operation EXCEPT ![o] = w]
      /\ UNCHANGED <<credentialVersion, order, rentedAccount, rentalVersion>>
  BY DEF CompleteEnableLots, MoveRental, MoveAccount, SetOperation
<1>5. /\ rentedAccount[o] \in Accounts
      /\ rental'[o] = "FINISHED" /\ account'[rentedAccount[o]] = "AVAILABLE"
      /\ operation'[o] = w
      /\ \A p \in Orders \ {o} :
           rental'[p] = rental[p] /\ operation'[p] = operation[p]
      /\ \A a \in Accounts \ {rentedAccount[o]} : account'[a] = account[a]
  BY <1>2, <1>4, OthersUntouched
<1>6. /\ w["ENABLE_LOTS"] = "COMPLETED"
      /\ \A k \in LifecycleKind \ {"ENABLE_LOTS"} : w[k] = operation[o][k]
  BY DEF IInv, TypeOK, LifecycleKind
<1> HIDE DEF w
<1>7. OperationsAt(o, LifecycleKind, "NONE")'
  BY <1>3, <1>5, <1>6 DEF OperationsAt, Delivered, Revoked, Rotated, LifecycleKind
<1>8. w["SEND_CREDENTIALS"] = operation[o]["SEND_CREDENTIALS"]
  BY <1>6 DEF LifecycleKind
<1>9. RentalAgrees(o)'
  BY <1>1, <1>2, <1>4, <1>5, <1>7, <1>8 DEF RentalAgrees
<1>10. GenerationAgrees(o)'
  BY <1>1, <1>2, <1>3, <1>4, <1>5 DEF GenerationAgrees, OpenRental
<1>11. rental[o] \in OpenRental
  BY <1>2 DEF OpenRental
<1>12. credentialVersion'[rentedAccount[o]] >= credentialVersion[rentedAccount[o]]
  BY <1>4, <1>5 DEF IInv, TypeOK
<1> QED
  BY <1>4, <1>5, <1>9, <1>10, <1>11, <1>12, OneRentalMoves

\* Disabled lots lead to the delivery of the credentials.
LEMMA DisableLotsKeepsInv ==
  ASSUME IInv, TypeOK', NEW o \in Orders, CompleteDisableLots(o)
  PROVE  IInv'
<1>1. RentalAgrees(o) /\ GenerationAgrees(o)
  BY DEF IInv, LifecycleAgrees, GenerationsAgree
<1>2. /\ operation[o]["DISABLE_LOTS"] \in InFlight
      /\ operation[o]["SEND_CREDENTIALS"] = "NONE"
      /\ UNCHANGED <<account, credentialVersion, order, rental, rentedAccount,
                     rentalVersion>>
  BY DEF CompleteDisableLots, InFlightOperation, FinishAndStart
<1>3. /\ operation'[o]["DISABLE_LOTS"] = "COMPLETED"
      /\ operation'[o]["SEND_CREDENTIALS"] = "PENDING"
      /\ \A k \in LifecycleKind \ {"DISABLE_LOTS", "SEND_CREDENTIALS"} :
           operation'[o][k] = operation[o][k]
      /\ \A p \in Orders \ {o} : operation'[p] = operation[p]
  BY DEF CompleteDisableLots, FinishAndStart, IInv, TypeOK, LifecycleKind
<1>4. rental[o] \in {"RESERVED", "MANUAL_REVIEW"}
  BY <1>1, <1>2 DEF RentalAgrees, OperationsAt, Delivered, Revoked, Rotated,
     LifecycleKind, InFlight, IInv, TypeOK, RentalStatus
<1>5. RentalAgrees(o)'
  <2>1. CASE rental[o] = "RESERVED"
    <3>1. OperationsAt(o, {}, "DISABLE_LOTS")
      BY <1>1, <1>2, <2>1 DEF RentalAgrees, OperationsAt, LifecycleKind, InFlight
    <3>2. OperationsAt(o, {"DISABLE_LOTS"}, "SEND_CREDENTIALS")'
      BY <1>3, <3>1 DEF OperationsAt, LifecycleKind, Unfinished
    <3> QED
      BY <1>1, <1>2, <1>3, <2>1, <3>2 DEF RentalAgrees
  <2>2. CASE rental[o] = "MANUAL_REVIEW"
    <3>1. \A k \in LifecycleKind \ {"DISABLE_LOTS"} : operation[o][k] \notin Unfinished
      BY <1>1, <1>2, <2>2 DEF RentalAgrees, LifecycleKind, InFlight, Unfinished
    <3>2. \A k \in LifecycleKind :
            operation'[o][k] \in Unfinished => k = "SEND_CREDENTIALS"
      BY <1>3, <3>1 DEF Unfinished
    <3> QED
      BY <1>1, <1>2, <1>3, <2>2, <3>2 DEF RentalAgrees
  <2> QED
    BY <1>4, <2>1, <2>2
<1>6. \A p \in Orders : RentalAgrees(p)'
  <2> TAKE p \in Orders
  <2>1. CASE p # o
    <3>1. operation'[p] = operation[p]
      BY <1>3, <2>1
    <3> QED
      BY <1>2, <3>1 DEF IInv, LifecycleAgrees, RentalAgrees, OperationsAt
  <2> QED
    BY <1>5, <2>1
<1> QED
  BY <1>2, <1>6 DEF IInv, LifecycleAgrees, GenerationsAgree, GenerationAgrees,
     NoDoubleAllocation, AccountsInUse, GenerationsDiffer

\* The rentals that end together are on different accounts.
LEMMA ExpiryKeepsInv ==
  ASSUME IInv, TypeOK', NEW due \in SUBSET Orders, ExpireDue(due)
  PROVE  IInv'
<1>1. \A o \in due :
        /\ rental[o] = "ACTIVE" /\ account[rentedAccount[o]] = "ACTIVE"
        /\ RentalAgrees(o) /\ GenerationAgrees(o) /\ rentedAccount[o] \in Accounts
        /\ OperationsAt(o, Delivered, "NONE")
  BY DEF ExpireDue, IInv, TypeOK, LifecycleAgrees, GenerationsAgree, RentalAgrees
<1>2. /\ rental' = [o \in Orders |-> IF o \in due THEN "EXPIRING" ELSE rental[o]]
      /\ account' = [a \in Accounts |->
                       IF \E o \in due : rentedAccount[o] = a
                       THEN "EXPIRING" ELSE account[a]]
      /\ operation' = [o \in Orders |->
                         IF o \in due
                         THEN [operation[o] EXCEPT !["REVOKE_SESSIONS"] = "PENDING"]
                         ELSE operation[o]]
      /\ UNCHANGED <<credentialVersion, order, rentedAccount, rentalVersion>>
  BY <1>1 DEF ExpireDue
<1>3. ASSUME NEW o \in due PROVE RentalAgrees(o)' /\ GenerationAgrees(o)'
  <2>1. /\ rental'[o] = "EXPIRING"
        /\ account'[rentedAccount'[o]] = "EXPIRING"
        /\ operation'[o] = [operation[o] EXCEPT !["REVOKE_SESSIONS"] = "PENDING"]
    BY <1>1, <1>2
  <2>2. /\ operation'[o]["REVOKE_SESSIONS"] = "PENDING"
        /\ \A k \in LifecycleKind \ {"REVOKE_SESSIONS"} :
             operation'[o][k] = operation[o][k]
    BY <2>1 DEF IInv, TypeOK, LifecycleKind
  <2>3. operation'[o]["SEND_CREDENTIALS"] = operation[o]["SEND_CREDENTIALS"]
    BY <2>2 DEF LifecycleKind
  <2>4. OperationsAt(o, Delivered, "REVOKE_SESSIONS")'
    BY <1>1, <2>2 DEF OperationsAt, Delivered, Unfinished, LifecycleKind
  <2>5. RentalAgrees(o)'
    BY <1>1, <1>2, <2>1, <2>3, <2>4 DEF RentalAgrees
  <2>6. GenerationAgrees(o)'
    BY <1>1, <1>2, <2>1 DEF GenerationAgrees, OpenRental
  <2> QED
    BY <2>5, <2>6
<1>4. \A o \in due : rental[o] \in OpenRental /\ rental'[o] \in OpenRental
  BY <1>1, <1>2 DEF OpenRental
<1>5. \A p \in Orders \ due :
        rental'[p] = rental[p] /\ operation'[p] = operation[p] /\ order'[p] = order[p]
  BY <1>2
<1>6. \A a \in Accounts :
        /\ credentialVersion'[a] >= credentialVersion[a]
        /\ credentialVersion'[a] = credentialVersion[a]
        /\ (\A o \in due : rentedAccount[o] # a) => account'[a] = account[a]
  BY <1>2 DEF IInv, TypeOK
<1> QED
  BY <1>2, <1>3, <1>4, <1>5, <1>6, RentalsMove

\* The quarantine of lapsed work takes its rentals to review together.
LEMMA QuarantineKeepsInv ==
  ASSUME IInv, TypeOK', RecoverExpiredLeases
  PROVE  IInv'
<1> DEFINE S == {row[1] : row \in LapsedRows}
<1>1. S \in SUBSET Orders
  BY DEF LapsedRows, IInv, TypeOK
<1>2. ASSUME NEW o \in S
      PROVE  rental[o] \in OpenRental /\ rentedAccount[o] \in Accounts
  BY <1>1 DEF RecoverExpiredLeases, Quarantinable, MayMoveRental, RentalEdges,
     OpenRental, IInv, TypeOK
<1>3. /\ account' = [a \in Accounts |->
                       IF \E o \in S : rentedAccount[o] = a
                       THEN "MANUAL_REVIEW" ELSE account[a]]
      /\ rental' = [o \in Orders |->
                      IF o \in S THEN "MANUAL_REVIEW" ELSE rental[o]]
      /\ operation' = [o \in Orders |-> [k \in LifecycleKind |->
                         IF operation[o][k] = "LAPSED" THEN "FAILED"
                         ELSE operation[o][k]]]
      /\ UNCHANGED <<credentialVersion, order, rentedAccount, rentalVersion>>
  BY DEF RecoverExpiredLeases
<1>4. \A p \in Orders, k \in LifecycleKind : operation[p][k] = "LAPSED" => p \in S
  <2> TAKE p \in Orders, k \in LifecycleKind
  <2> HAVE operation[p][k] = "LAPSED"
  <2>1. <<p, k>> \in LapsedRows
    BY DEF LapsedRows
  <2> QED
    BY <2>1
<1> HIDE DEF S
<1>5. \A p \in Orders \ S :
        rental'[p] = rental[p] /\ operation'[p] = operation[p] /\ order'[p] = order[p]
  <2> TAKE p \in Orders \ S
  <2>1. operation'[p] = [k \in LifecycleKind |-> operation[p][k]]
    BY <1>3, <1>4
  <2>2. operation[p] \in [LifecycleKind -> OperationStatus]
    BY DEF IInv, TypeOK
  <2> QED
    BY <1>3, <2>1, <2>2
<1>6. \A a \in Accounts :
        /\ credentialVersion'[a] >= credentialVersion[a]
        /\ credentialVersion'[a] = credentialVersion[a]
        /\ (\A o \in S : rentedAccount[o] # a) => account'[a] = account[a]
  BY <1>3 DEF IInv, TypeOK
<1>7. ASSUME NEW o \in S PROVE RentalAgrees(o)' /\ GenerationAgrees(o)'
  <2>1. RentalAgrees(o) /\ GenerationAgrees(o)
    BY <1>1 DEF IInv, LifecycleAgrees, GenerationsAgree
  <2>2. rental'[o] = "MANUAL_REVIEW" /\ account'[rentedAccount'[o]] = "MANUAL_REVIEW"
    BY <1>1, <1>2, <1>3
  <2>3. \A k \in LifecycleKind :
          /\ operation'[o][k] \in Unfinished => operation[o][k] \in Unfinished
          /\ operation'[o][k] = "COMPLETED" <=> operation[o][k] = "COMPLETED"
    BY <1>1, <1>3 DEF Unfinished
  <2>4. \A j1, j2 \in LifecycleKind :
          operation[o][j1] \in Unfinished /\ operation[o][j2] \in Unfinished =>
            j1 = j2
    BY <1>2, <2>1 DEF RentalAgrees, OpenRental, OperationsAt, Unfinished
  <2>5. order[o] \notin {"NEW", "FULFILLMENT_BLOCKED"}
    BY <1>2, <2>1 DEF RentalAgrees, OpenRental
  <2>6. order'[o] = "ACTIVATED" <=> operation'[o]["SEND_CREDENTIALS"] = "COMPLETED"
    BY <1>3, <2>1, <2>3 DEF RentalAgrees, LifecycleKind
  <2>7. RentalAgrees(o)'
    BY <1>3, <2>2, <2>3, <2>4, <2>5, <2>6 DEF RentalAgrees
  <2>8. rentalVersion[o] <= credentialVersion[rentedAccount[o]]
    BY <1>1, <1>2, <2>1 DEF GenerationAgrees, RentalAgrees, OpenRental, IInv, TypeOK
  <2>9. GenerationAgrees(o)'
    BY <1>3, <2>2, <2>8 DEF GenerationAgrees, OpenRental
  <2> QED
    BY <2>7, <2>9
<1>8. \A o \in S : rental'[o] = "MANUAL_REVIEW"
  BY <1>1, <1>3
<1> QED
  BY <1>1, <1>2, <1>3, <1>5, <1>6, <1>7, <1>8, RentalsMove

\* Every transaction keeps the invariant.
LEMMA NextInv == IInv /\ [Next]_vars => IInv'
<1> SUFFICES ASSUME IInv, [Next]_vars PROVE IInv'
  OBVIOUS
<1>0. TypeOK'
  BY NextTypeOK DEF IInv
<1> USE <1>0
<1>1. ASSUME UNCHANGED <<account, credentialVersion, order, rental, rentedAccount,
                         rentalVersion, operation>>
      PROVE  IInv'
  BY <1>1 DEF IInv, NoDoubleAllocation, LifecycleAgrees, RentalAgrees, OperationsAt,
     AccountsInUse, GenerationsAgree, GenerationAgrees, GenerationsDiffer
<1>2. ASSUME NEW o \in Orders, NEW a \in Accounts, AcceptOrder(o, a) PROVE IInv'
  BY <1>2, AcceptKeepsInv
<1>3. ASSUME NEW o \in Orders, BlockOrder(o) PROVE IInv'
  <2>1. \A p \in Orders : RentalAgrees(p)'
    BY <1>3 DEF BlockOrder, IInv, TypeOK, LifecycleAgrees, RentalAgrees, OperationsAt,
       LifecycleKind
  <2> QED
    BY <1>3, <2>1 DEF BlockOrder, IInv, NoDoubleAllocation, LifecycleAgrees,
       AccountsInUse, GenerationsAgree, GenerationAgrees, GenerationsDiffer
<1>4. ASSUME NEW o \in Orders, PrepareRevoke(o) PROVE IInv'
  BY <1>4, PrepareRevokeKeepsInv
<1>5. ASSUME NEW o \in Orders, NEW kind \in LifecycleKind, OperationStep(o, kind)
      PROVE  IInv'
  <2>1. CASE ClaimOperation(o, kind)
    BY <2>1, OperationMoves DEF ClaimOperation, Unfinished
  <2>2. CASE Complete(o, kind)
    BY <2>2, DisableLotsKeepsInv, SendCredentialsKeepsInv, RevokeSessionsKeepsInv,
       RotatePasswordKeepsInv, EnableLotsKeepsInv DEF Complete
  <2>3. CASE FailOperation(o, kind)
    BY <2>3, ReviewKeepsInv DEF FailOperation
  <2>4. CASE LeaseLapses(o, kind)
    BY <2>4, OperationMoves DEF LeaseLapses, Unfinished
  <2>5. CASE ClaimStartupRecovery(o, kind)
    BY <2>5, OperationMoves DEF ClaimStartupRecovery, Unfinished
  <2> QED
    BY <1>5, <2>1, <2>2, <2>3, <2>4, <2>5 DEF OperationStep
<1>6. ASSUME NEW due \in SUBSET Orders, ExpireDue(due) PROVE IInv'
  BY <1>6, ExpiryKeepsInv
<1>7. ASSUME NEW o \in Orders, SecurityEvent(o) PROVE IInv'
  BY <1>7, SecurityEventKeepsInv
<1>8. ASSUME NEW e \in OtpRequests, NEW o \in Orders, SeeActiveRental(e, o) PROVE IInv'
  BY <1>8, <1>1 DEF SeeActiveRental
<1>9. ASSUME NEW e \in OtpRequests, OtpStep(e) PROVE IInv'
  <2>1. CASE FailOtp(e)
    <3>1. otpRental[e] \in Orders
      BY <2>1 DEF FailOtp, InFlight, IInv, TypeOK
    <3> QED
      BY <2>1, <3>1, ReviewKeepsInv DEF FailOtp
  <2>2. CASE ~FailOtp(e)
    BY <1>1, <1>9, <2>2 DEF OtpStep, CreateSendOtp, ForgetSeen, ClaimOtp,
       WaitForBuyerOtp, CompleteOtp, OtpLeaseLapses, MoveOtp
  <2> QED
    BY <2>1, <2>2
<1>10. CASE RecoverExpiredLeases
  BY <1>10, QuarantineKeepsInv
<1>11. CASE Reconcile
  <2>1. account' = [a \in Accounts |-> account[a]]
    BY <1>11, NothingOrphaned DEF Reconcile
  <2>2. account' = account
    BY <2>1 DEF IInv, TypeOK
  <2> QED
    BY <1>1, <1>11, <2>2 DEF Reconcile
<1>12. CASE UNCHANGED vars
  BY <1>1, <1>12 DEF vars
<1> QED
  BY <1>2, <1>3, <1>4, <1>5, <1>6, <1>7, <1>8, <1>9, <1>10, <1>11, <1>12 DEF Next

\* The rows are consistent in every state, whatever failed on the way.
THEOREM Invariance == Spec => []IInv
<1> QED
  BY InitInv, NextInv, PTL DEF Spec

-----------------------------------------------------------------------------
\* What the invariant is for.

\* One account is never let to two buyers at once.
THEOREM OneBuyerAtATime == Spec => []NoDoubleAllocation
<1>1. IInv => NoDoubleAllocation
  BY DEF IInv
<1> QED
  BY <1>1, Invariance, PTL

\* The rows of a rental always tell one story.
THEOREM RowsAgree == Spec => []LifecycleAgrees
<1>1. IInv => LifecycleAgrees
  BY DEF IInv
<1> QED
  BY <1>1, Invariance, PTL

\* No account is left in the middle of a life that nothing continues.
THEOREM NobodyStranded == Spec => []NoOrphanedAccount
<1>1. IInv => NoOrphanedAccount
  BY NothingOrphaned DEF IInv, AccountsInUse, NoOrphanedAccount
<1> QED
  BY <1>1, Invariance, PTL

\* The password generation of a rental is the one in force until its rotation.
THEOREM GenerationsInForce == Spec => []GenerationsAgree
<1>1. IInv => GenerationsAgree
  BY DEF IInv
<1> QED
  BY <1>1, Invariance, PTL

\* No two buyers get the same password and nobody knows that of an account
\* which is for rent.
THEOREM PasswordsAreFresh == Spec => []FreshCredentials
<1>1. ASSUME IInv PROVE FreshCredentials
  <2> SUFFICES ASSUME NEW o1 \in Orders, NEW o2 \in Orders,
                      rental[o1] # "NONE", rental[o2] # "NONE",
                      rentedAccount[o1] = rentedAccount[o2]
               PROVE  /\ o1 # o2 => rentalVersion[o1] # rentalVersion[o2]
                      /\ account[rentedAccount[o1]] = "AVAILABLE" =>
                           rentalVersion[o1] < credentialVersion[rentedAccount[o1]]
    BY DEF FreshCredentials
  <2>1. o1 # o2 => rentalVersion[o1] # rentalVersion[o2]
    BY <1>1 DEF IInv, GenerationsDiffer
  <2>2. account[rentedAccount[o1]] = "AVAILABLE" => rental[o1] = "FINISHED"
    BY <1>1, AvailableMeansReturned
  <2>3. GenerationAgrees(o1)
    BY <1>1 DEF IInv, GenerationsAgree
  <2> QED
    BY <2>1, <2>2, <2>3 DEF GenerationAgrees
<1> QED
  BY <1>1, Invariance, PTL

\* A crash at any point leaves lifecycle rows that startup does not refuse.
THEOREM StartupIsNotRefused == Spec => []StartupGateAccepts
<1>1. ASSUME IInv PROVE StartupGateAccepts
  <2> USE <1>1
  <2> DEFINE rentalsOf(a) == {o \in Orders : rentedAccount[o] = a}
             unfinished(a) == {row \in rentalsOf(a) \X LifecycleKind :
                                 /\ row[2] # "SEND_CREDENTIALS"
                                 /\ operation[row[1]][row[2]] \in Unfinished}
  <2> SUFFICES ASSUME NEW a \in Accounts
               PROVE
        /\ \A o1, o2 \in rentalsOf(a) :
             rental[o1] = "ACTIVE" /\ rental[o2] = "ACTIVE" => o1 = o2
        /\ account[a] = "ACTIVE" => \E o \in rentalsOf(a) : rental[o] = "ACTIVE"
        /\ account[a] = "AVAILABLE" =>
             /\ \A o \in rentalsOf(a) : rental[o] # "ACTIVE"
             /\ \A row \in unfinished(a) :
                  row[2] \notin {"REVOKE_SESSIONS", "ROTATE_PASSWORD"}
        /\ \A row1, row2 \in unfinished(a) : row1 = row2
    BY DEF StartupGateAccepts
  <2>1. ASSUME NEW o \in Orders, NEW k \in LifecycleKind, operation[o][k] \in Unfinished
        PROVE  /\ rental[o] \in UnsettledRental
               /\ \A j \in LifecycleKind : operation[o][j] \in Unfinished => j = k
    <3>1. RentalAgrees(o) /\ rental[o] \in RentalStatus \cup {"NONE"}
      BY DEF IInv, TypeOK, LifecycleAgrees
    <3>2. rental[o] \in UnsettledRental
      <4>1. rental[o] # "NONE"
        BY <2>1, <3>1 DEF RentalAgrees, OperationsAt, Unfinished, LifecycleKind
      <4>2. rental[o] # "FINISHED"
        BY <2>1, <3>1 DEF RentalAgrees, OperationsAt, Unfinished
      <4>3. rental[o] # "CANCELLED"
        BY <3>1 DEF RentalAgrees
      <4> QED
        BY <3>1, <4>1, <4>2, <4>3 DEF RentalStatus, UnsettledRental, OpenRental
    <3>3. CASE rental[o] = "MANUAL_REVIEW"
      BY <2>1, <3>1, <3>2, <3>3 DEF RentalAgrees
    <3>4. CASE rental[o] \in OpenRental
      BY <2>1, <3>1, <3>2, <3>4 DEF RentalAgrees, OpenRental, OperationsAt, Unfinished
    <3> QED
      BY <3>2, <3>3, <3>4 DEF UnsettledRental
  <2>2. \A o1, o2 \in rentalsOf(a) :
          rental[o1] = "ACTIVE" /\ rental[o2] = "ACTIVE" => o1 = o2
    BY DEF IInv, NoDoubleAllocation, UnsettledRental, OpenRental
  <2>3. account[a] = "ACTIVE" => \E o \in rentalsOf(a) : rental[o] = "ACTIVE"
    BY DEF IInv, AccountsInUse, LifecycleAgrees, RentalAgrees, OpenRental
  <2>4. account[a] = "AVAILABLE" =>
          \A o \in rentalsOf(a) : rental[o] \in {"NONE", "FINISHED"}
    BY AvailableMeansReturned
  <2>5. \A row \in unfinished(a) :
          /\ row = <<row[1], row[2]>>
          /\ row[1] \in Orders /\ rentedAccount[row[1]] = a
          /\ row[2] \in LifecycleKind /\ operation[row[1]][row[2]] \in Unfinished
    OBVIOUS
  <2>6. account[a] = "AVAILABLE" => unfinished(a) = {}
    <3> SUFFICES ASSUME account[a] = "AVAILABLE", NEW row \in unfinished(a) PROVE FALSE
      OBVIOUS
    <3>1. rental[row[1]] \in UnsettledRental
      BY <2>1, <2>5
    <3>2. rental[row[1]] \in {"NONE", "FINISHED"}
      BY <2>4, <2>5
    <3> QED
      BY <3>1, <3>2 DEF UnsettledRental, OpenRental
  <2>7. ASSUME NEW row1 \in unfinished(a), NEW row2 \in unfinished(a)
        PROVE  row1 = row2
    <3>1. row1[1] = row2[1]
      BY <2>1, <2>5 DEF IInv, NoDoubleAllocation
    <3>2. row1[2] = row2[2]
      BY <2>1, <2>5, <3>1
    <3> QED
      BY <2>5, <3>1, <3>2
  <2> HIDE DEF unfinished
  <2> QED
    BY <2>2, <2>3, <2>4, <2>6, <2>7
<1> QED
  BY <1>1, Invariance, PTL

-----------------------------------------------------------------------------
\* Unfinished work.

\* An unfinished operation is the only one of its rental, and the rental the
\* only one of its account that is not finished.
LEMMA UnfinishedAlone ==
  ASSUME IInv, NEW o \in Orders, NEW k \in LifecycleKind, operation[o][k] \in Unfinished
  PROVE  /\ rentedAccount[o] \in Accounts
         /\ rental[o] \in UnsettledRental
         /\ \A j \in LifecycleKind : operation[o][j] \in Unfinished => j = k
         /\ \A p \in Orders :
              p # o /\ rentedAccount[p] = rentedAccount[o] =>
                /\ rental[p] = "FINISHED"
                /\ \A j \in LifecycleKind : operation[p][j] = "COMPLETED"
<1>1. RentalAgrees(o) /\ rental[o] \in RentalStatus \cup {"NONE"}
  BY DEF IInv, LifecycleAgrees, TypeOK
<1>2. rental[o] \in UnsettledRental
  BY <1>1 DEF RentalAgrees, OperationsAt, Unfinished, UnsettledRental, OpenRental,
              RentalStatus, LifecycleKind
<1>3. rentedAccount[o] \in Accounts
  BY <1>2 DEF IInv, TypeOK, UnsettledRental, OpenRental
<1>4. ASSUME NEW j \in LifecycleKind, operation[o][j] \in Unfinished PROVE j = k
  BY <1>1, <1>2, <1>4 DEF RentalAgrees, OperationsAt, Unfinished, UnsettledRental,
                          OpenRental, Delivered, Revoked, Rotated
<1>5. ASSUME NEW p \in Orders, p # o, rentedAccount[p] = rentedAccount[o]
      PROVE  /\ rental[p] = "FINISHED"
             /\ \A j \in LifecycleKind : operation[p][j] = "COMPLETED"
  <2>1. rental[p] \notin UnsettledRental
    BY <1>2, <1>5 DEF IInv, NoDoubleAllocation
  <2>2. RentalAgrees(p) /\ rental[p] \in RentalStatus
    BY <1>3, <1>5, SentinelsAssumption DEF IInv, LifecycleAgrees, TypeOK
  <2>3. rental[p] = "FINISHED"
    BY <2>1, <2>2 DEF RentalAgrees, RentalStatus, UnsettledRental, OpenRental
  <2> QED BY <2>2, <2>3 DEF RentalAgrees, OperationsAt
<1> QED BY <1>2, <1>3, <1>4, <1>5

-----------------------------------------------------------------------------
\* What a step may never do.

\* What is under review stays there, in one step.
ReviewKept ==
  /\ \A a \in Accounts :
       account[a] = "MANUAL_REVIEW" => account'[a] = "MANUAL_REVIEW"
  /\ \A o \in Orders :
       rental[o] = "MANUAL_REVIEW" => rental'[o] = "MANUAL_REVIEW"

\* A move of the two rows of one rental takes neither out of review, for an
\* account of a rental that may still move is not under review itself.
LEMMA MovesKeepReview ==
  ASSUME IInv, NEW o \in Orders, NEW ra, NEW rr,
         MoveAccount(o, ra), MoveRental(o, rr)
  PROVE  ReviewKept
<1>1. rental[o] # "MANUAL_REVIEW" /\ rental[o] # "NONE" /\ rental[o] # "FINISHED"
  BY DEF MoveRental, MayMoveRental, RentalEdges
<1>2. rentedAccount[o] \in Accounts /\ RentalAgrees(o)
      /\ rental[o] \in RentalStatus \cup {"NONE"}
  BY <1>1 DEF IInv, TypeOK, LifecycleAgrees
<1>3. rental[o] \in OpenRental
  BY <1>1, <1>2 DEF RentalEdges, MoveRental, MayMoveRental, OpenRental
<1>4. account[rentedAccount[o]] # "MANUAL_REVIEW"
  BY <1>2, <1>3 DEF RentalAgrees, OpenRental
<1>5. /\ account' = [account EXCEPT ![rentedAccount[o]] = ra]
      /\ rental' = [rental EXCEPT ![o] = rr]
  BY DEF MoveAccount, MoveRental
<1> QED
  BY <1>1, <1>4, <1>5 DEF ReviewKept, IInv, TypeOK

\* No transaction takes anything out of review.
LEMMA NextKeepsReview == IInv /\ [Next]_vars => ReviewKept
<1> SUFFICES ASSUME IInv, [Next]_vars PROVE ReviewKept
  OBVIOUS
<1> USE DEF IInv, TypeOK
<1>0. ASSUME UNCHANGED <<account, rental>> PROVE ReviewKept
  BY <1>0 DEF ReviewKept
<1>1. ASSUME NEW o \in Orders, NEW a \in Accounts, AcceptOrder(o, a) PROVE ReviewKept
  <2>1. account[a] # "MANUAL_REVIEW" /\ rental[o] # "MANUAL_REVIEW"
    BY <1>1 DEF AcceptOrder, LifecycleAgrees, RentalAgrees
  <2> QED
    BY <1>1, <2>1 DEF AcceptOrder, ReviewKept
<1>2. ASSUME NEW o \in Orders, BlockOrder(o) PROVE ReviewKept
  BY <1>0, <1>2 DEF BlockOrder
<1>3. ASSUME NEW o \in Orders, PrepareRevoke(o) PROVE ReviewKept
  BY <1>3 DEF PrepareRevoke, ReviewKept, MayMoveAccount, MayMoveRental,
     AccountEdges, RentalEdges
<1>4. ASSUME NEW o \in Orders, NEW kind \in LifecycleKind, OperationStep(o, kind)
      PROVE  ReviewKept
  <2>1. CASE ClaimOperation(o, kind) \/ LeaseLapses(o, kind)
              \/ ClaimStartupRecovery(o, kind) \/ CompleteDisableLots(o)
    BY <1>0, <2>1 DEF ClaimOperation, LeaseLapses, ClaimStartupRecovery,
       CompleteDisableLots
  <2>2. CASE CompleteSendCredentials(o)
    BY <2>2, MovesKeepReview DEF CompleteSendCredentials
  <2>3. CASE CompleteRevokeSessions(o)
    BY <2>3, MovesKeepReview DEF CompleteRevokeSessions
  <2>4. CASE CompleteRotatePassword(o)
    BY <2>4 DEF CompleteRotatePassword, MoveAccount, MayMoveAccount, AccountEdges,
       ReviewKept
  <2>5. CASE CompleteEnableLots(o)
    BY <2>5, MovesKeepReview DEF CompleteEnableLots
  <2>6. CASE FailOperation(o, kind)
    BY <2>6, MovesKeepReview DEF FailOperation, ToManualReview
  <2> QED
    BY <1>4, <2>1, <2>2, <2>3, <2>4, <2>5, <2>6 DEF OperationStep, Complete
<1>5. ASSUME NEW due \in SUBSET Orders, ExpireDue(due) PROVE ReviewKept
  BY <1>5 DEF ExpireDue, ReviewKept
<1>6. ASSUME NEW o \in Orders, SecurityEvent(o) PROVE ReviewKept
  BY <1>6, MovesKeepReview DEF SecurityEvent
<1>7. ASSUME NEW e \in OtpRequests, NEW o \in Orders, SeeActiveRental(e, o)
      PROVE  ReviewKept
  BY <1>0, <1>7 DEF SeeActiveRental
<1>8. ASSUME NEW e \in OtpRequests, OtpStep(e) PROVE ReviewKept
  <2>1. CASE FailOtp(e)
    <3>1. otpRental[e] \in Orders
      BY <2>1 DEF FailOtp, InFlight
    <3> QED
      BY <2>1, <3>1, MovesKeepReview DEF FailOtp, ToManualReview
  <2>2. CASE ~FailOtp(e)
    BY <1>0, <1>8, <2>2 DEF OtpStep, CreateSendOtp, ForgetSeen, ClaimOtp,
       WaitForBuyerOtp, CompleteOtp, OtpLeaseLapses, MoveOtp
  <2> QED
    BY <2>1, <2>2
<1>9. CASE RecoverExpiredLeases
  BY <1>9 DEF RecoverExpiredLeases, ReviewKept
<1>10. CASE Reconcile
  BY <1>10 DEF Reconcile, ReviewKept
<1>11. CASE UNCHANGED vars
  BY <1>0, <1>11 DEF vars
<1> QED
  BY <1>1, <1>2, <1>3, <1>4, <1>5, <1>6, <1>7, <1>8, <1>9, <1>10, <1>11 DEF Next

\* Only a person takes an account or a rental out of review: no transaction of
\* the bot does, although the account table allows MANUAL_REVIEW -> AVAILABLE.
THEOREM ReviewIsFinal == Spec => ManualReviewIsKept
<1>1. IInv /\ [Next]_vars =>
        [/\ \A a \in Accounts :
              account[a] = "MANUAL_REVIEW" => account'[a] = "MANUAL_REVIEW"
         /\ \A o \in Orders :
              rental[o] = "MANUAL_REVIEW" => rental'[o] = "MANUAL_REVIEW"]_vars
  BY NextKeepsReview DEF ReviewKept
<1> QED
  BY <1>1, Invariance, PTL DEF Spec, ManualReviewIsKept

-----------------------------------------------------------------------------
\* What may keep the quarantine transaction from committing.

\* A login code that failed has taken its rental to review, and an operation
\* that goes on under review was left to do so by such a code.
CodesAgree ==
  /\ \A e \in OtpRequests : otp[e] = "FAILED" => rental[otpRental[e]] = "MANUAL_REVIEW"
  /\ \A o \in Orders :
       /\ rental[o] = "MANUAL_REVIEW"
       /\ \E k \in LifecycleKind : operation[o][k] \in Unfinished
       => \E e \in OtpRequests : otp[e] = "FAILED" /\ otpRental[e] = o

\* A code that failed stays so, for the same rental.
LEMMA FailedCodesStay ==
  ASSUME TypeOK, [Next]_vars, NEW e \in OtpRequests, otp[e] = "FAILED"
  PROVE  otp'[e] = "FAILED" /\ otpRental'[e] = otpRental[e]
<1> USE DEF TypeOK
<1>1. CASE UNCHANGED <<otp, otpRental>>
  BY <1>1
<1>2. ASSUME NEW x \in OtpRequests, NEW o \in Orders, SeeActiveRental(x, o)
      PROVE  otp'[e] = "FAILED" /\ otpRental'[e] = otpRental[e]
  BY <1>2 DEF SeeActiveRental
<1>3. ASSUME NEW x \in OtpRequests, OtpStep(x)
      PROVE  otp'[e] = "FAILED" /\ otpRental'[e] = otpRental[e]
  <2>1. UNCHANGED otpRental /\ \E to : otp' = [otp EXCEPT ![x] = to] /\ otp[x] # "FAILED"
    BY <1>3 DEF OtpStep, CreateSendOtp, ForgetSeen, ClaimOtp, WaitForBuyerOtp,
       CompleteOtp, OtpLeaseLapses, MoveOtp, FailOtp, InFlight
  <2> QED BY <2>1
<1>4. CASE RecoverExpiredLeases
  BY <1>4 DEF RecoverExpiredLeases
<1>5. ASSUME NEW o \in Orders, NEW k \in LifecycleKind, OperationStep(o, k)
      PROVE  UNCHANGED <<otp, otpRental>>
  BY <1>5 DEF OperationStep, ClaimOperation, FailOperation, LeaseLapses,
     ClaimStartupRecovery, Complete, CompleteDisableLots, CompleteSendCredentials,
     CompleteRevokeSessions, CompleteRotatePassword, CompleteEnableLots
<1> QED
  BY <1>1, <1>2, <1>3, <1>4, <1>5 DEF Next, AcceptOrder, BlockOrder, PrepareRevoke,
     ExpireDue, SecurityEvent, Reconcile, vars

\* A code fails together with its rental.
LEMMA FailedCodesReview ==
  ASSUME IInv, CodesAgree, [Next]_vars, NEW e \in OtpRequests, otp'[e] = "FAILED"
  PROVE  rental'[otpRental'[e]] = "MANUAL_REVIEW"
<1>0. TypeOK /\ ReviewKept
  BY NextKeepsReview DEF IInv
<1>1. CASE otp[e] = "FAILED"
  BY <1>0, <1>1, FailedCodesStay DEF CodesAgree, ReviewKept, TypeOK
<1>2. CASE otp[e] # "FAILED"
  <2>1. ASSUME NEW x \in OtpRequests, NEW o \in Orders, SeeActiveRental(x, o) PROVE FALSE
    BY <1>0, <1>2, <2>1 DEF SeeActiveRental, TypeOK
  <2>2. ASSUME NEW x \in OtpRequests, OtpStep(x), ~FailOtp(x) PROVE FALSE
    <3>1. \E to \in {"PENDING", "NONE", "RUNNING", "COMPLETED", "LAPSED"} :
            otp' = [otp EXCEPT ![x] = to]
      BY <2>2 DEF OtpStep, CreateSendOtp, ForgetSeen, ClaimOtp, WaitForBuyerOtp,
         CompleteOtp, OtpLeaseLapses, MoveOtp
    <3> QED BY <1>0, <1>2, <3>1 DEF TypeOK
  <2>3. ASSUME NEW x \in OtpRequests, FailOtp(x)
        PROVE  rental'[otpRental'[e]] = "MANUAL_REVIEW"
    <3>1. x = e /\ otp[e] # "NONE"
      BY <1>0, <1>2, <2>3 DEF FailOtp, TypeOK, InFlight
    <3> QED BY <1>0, <2>3, <3>1 DEF FailOtp, ToManualReview, MoveRental, TypeOK
  <2>4. ASSUME RecoverExpiredLeases PROVE rental'[otpRental'[e]] = "MANUAL_REVIEW"
    <3>1. otp[e] = "LAPSED" /\ otpRental[e] \in Orders /\ otpRental'[e] = otpRental[e]
      BY <1>0, <1>2, <2>4 DEF RecoverExpiredLeases, TypeOK
    <3>2. <<otpRental[e], e>> \in LapsedRows
      BY <3>1 DEF LapsedRows
    <3> QED BY <2>4, <3>1, <3>2 DEF RecoverExpiredLeases
  <2>5. ASSUME NEW o \in Orders, NEW k \in LifecycleKind, OperationStep(o, k)
        PROVE  UNCHANGED otp
    BY <2>5 DEF OperationStep, ClaimOperation, FailOperation, LeaseLapses,
       ClaimStartupRecovery, Complete, CompleteDisableLots, CompleteSendCredentials,
       CompleteRevokeSessions, CompleteRotatePassword, CompleteEnableLots
  <2>6. CASE UNCHANGED otp
    BY <1>2, <2>6
  <2> QED
    BY <2>1, <2>2, <2>3, <2>4, <2>5, <2>6 DEF Next, AcceptOrder, BlockOrder,
       PrepareRevoke, ExpireDue, SecurityEvent, Reconcile, vars
<1> QED BY <1>1, <1>2

\* A step after which each rental under review with work left was so before, or
\* has a code that failed.
LEMMA LeftoversStay ==
  ASSUME IInv, CodesAgree, [Next]_vars,
         \A o \in Orders, k \in LifecycleKind :
           rental'[o] = "MANUAL_REVIEW" /\ operation'[o][k] \in Unfinished =>
             \/ rental[o] = "MANUAL_REVIEW" /\ \E j \in LifecycleKind : operation[o][j] \in Unfinished
             \/ \E e \in OtpRequests : otp'[e] = "FAILED" /\ otpRental'[e] = o
  PROVE  CodesAgree'
<1>1. \A e \in OtpRequests : otp[e] = "FAILED" =>
        otp'[e] = "FAILED" /\ otpRental'[e] = otpRental[e]
  BY FailedCodesStay DEF IInv
<1>2. \A e \in OtpRequests : otp'[e] = "FAILED" => rental'[otpRental'[e]] = "MANUAL_REVIEW"
  BY FailedCodesReview
<1>3. ASSUME NEW o \in Orders, NEW k \in LifecycleKind,
             rental'[o] = "MANUAL_REVIEW", operation'[o][k] \in Unfinished
      PROVE  \E e \in OtpRequests : otp'[e] = "FAILED" /\ otpRental'[e] = o
  BY <1>1, <1>3 DEF CodesAgree
<1> QED BY <1>2, <1>3 DEF CodesAgree

\* Every transaction keeps it so.
LEMMA CodesStayAgreed ==
  ASSUME IInv, CodesAgree, [Next]_vars
  PROVE  CodesAgree'
<1> USE DEF Unfinished, InFlight
<1>0. /\ operation \in [Orders -> [LifecycleKind -> OperationStatus]]
      /\ rental \in [Orders -> RentalStatus \cup {"NONE"}]
      /\ otp \in [OtpRequests -> OperationStatus \cup {"SEEN"}]
      /\ \A e \in OtpRequests : otp[e] # "NONE" => otpRental[e] \in Orders
  BY DEF IInv, TypeOK
<1>2. ASSUME NEW o \in Orders, NEW a \in Accounts, AcceptOrder(o, a) PROVE CodesAgree'
  <2>1. rental'[o] = "RESERVED"
    BY <1>0, <1>2 DEF AcceptOrder
  <2>2. \A p \in Orders \ {o} : rental'[p] = rental[p] /\ operation'[p] = operation[p]
    BY <1>0, <1>2 DEF AcceptOrder, SetOperation
  <2> QED BY <2>1, <2>2, LeftoversStay
<1>3. ASSUME UNCHANGED <<rental, operation>> PROVE CodesAgree'
  BY <1>3, LeftoversStay
<1>4. ASSUME NEW o \in Orders, PrepareRevoke(o) PROVE CodesAgree'
  <2>1. \A p \in Orders : rental'[p] = "MANUAL_REVIEW" => rental[p] = "MANUAL_REVIEW"
    BY <1>0, <1>4 DEF PrepareRevoke
  <2> QED BY <1>4, <2>1, LeftoversStay DEF PrepareRevoke
<1>5. ASSUME NEW o \in Orders, NEW k \in LifecycleKind, OperationStep(o, k) PROVE CodesAgree'
  <2>1. CASE ClaimOperation(o, k) \/ LeaseLapses(o, k) \/ ClaimStartupRecovery(o, k)
    <3>1. UNCHANGED rental
      BY <2>1 DEF ClaimOperation, LeaseLapses, ClaimStartupRecovery
    <3>2. \A p \in Orders, j \in LifecycleKind :
            operation'[p][j] \in Unfinished => operation[p][j] \in Unfinished
      BY <1>0, <2>1 DEF ClaimOperation, LeaseLapses, ClaimStartupRecovery, SetOperation
    <3> QED BY <3>1, <3>2, LeftoversStay
  <2>2. CASE Complete(o, k)
    <3>1. operation[o][k] \in Unfinished
      BY <2>2 DEF Complete, CompleteDisableLots, CompleteSendCredentials,
         CompleteRevokeSessions, CompleteRotatePassword, CompleteEnableLots, InFlightOperation
    <3>2. \A p \in Orders \ {o} : rental'[p] = rental[p] /\ operation'[p] = operation[p]
      BY <1>0, <2>2 DEF Complete, CompleteDisableLots, CompleteSendCredentials,
         CompleteRevokeSessions, CompleteRotatePassword, CompleteEnableLots,
         FinishAndStart, SetOperation, MoveRental
    <3>3. rental'[o] \in {rental[o], "ACTIVE", "PASSWORD_ROTATION", "FINISHED"}
      BY <1>0, <2>2 DEF Complete, CompleteDisableLots, CompleteSendCredentials,
         CompleteRevokeSessions, CompleteRotatePassword, CompleteEnableLots, MoveRental
    <3> QED BY <3>1, <3>2, <3>3, LeftoversStay
  <2>3. CASE FailOperation(o, k)
    <3>1. operation[o][k] \in Unfinished /\ operation' = [operation EXCEPT ![o][k] = "FAILED"]
      BY <2>3 DEF FailOperation, InFlightOperation, SetOperation
    <3>2. \A p \in Orders \ {o} : rental'[p] = rental[p] /\ operation'[p] = operation[p]
      BY <1>0, <2>3, <3>1 DEF FailOperation, ToManualReview, MoveRental
    <3>3. ASSUME NEW j \in LifecycleKind PROVE operation'[o][j] \notin Unfinished
      <4>1. j = k => operation'[o][j] = "FAILED"
        BY <1>0, <3>1
      <4>2. j # k => operation'[o][j] = operation[o][j] /\ operation[o][j] \notin Unfinished
        BY <1>0, <3>1, UnfinishedAlone
      <4> QED BY <4>1, <4>2
    <3> QED BY <3>2, <3>3, LeftoversStay
  <2> QED BY <1>5, <2>1, <2>2, <2>3 DEF OperationStep
<1>6. ASSUME NEW due \in SUBSET Orders, ExpireDue(due) PROVE CodesAgree'
  <2>1. ASSUME NEW p \in Orders, rental'[p] = "MANUAL_REVIEW"
        PROVE  rental[p] = "MANUAL_REVIEW" /\ operation'[p] = operation[p]
    <3>1. p \notin due
      BY <1>6, <2>1 DEF ExpireDue
    <3> QED BY <1>6, <2>1, <3>1 DEF ExpireDue
  <2> QED BY <2>1, LeftoversStay
<1>7. ASSUME NEW o \in Orders, SecurityEvent(o) PROVE CodesAgree'
  <2>1. rental'[o] = "SECURITY_TERMINATED"
    BY <1>0, <1>7 DEF SecurityEvent, MoveRental
  <2>2. \A p \in Orders \ {o} : rental'[p] = rental[p] /\ operation'[p] = operation[p]
    BY <1>0, <1>7 DEF SecurityEvent, SetOperation, MoveRental
  <2> QED BY <2>1, <2>2, LeftoversStay
<1>8. CASE RecoverExpiredLeases
  <2>1. \A p \in Orders, j \in LifecycleKind :
          operation'[p][j] = IF operation[p][j] = "LAPSED" THEN "FAILED" ELSE operation[p][j]
    BY <1>8 DEF RecoverExpiredLeases
  <2>2. ASSUME NEW p \in Orders, NEW j \in LifecycleKind,
               rental'[p] = "MANUAL_REVIEW", operation'[p][j] \in Unfinished
        PROVE  \/ rental[p] = "MANUAL_REVIEW" /\ operation[p][j] \in Unfinished
               \/ \E e \in OtpRequests : otp'[e] = "FAILED" /\ otpRental'[e] = p
    <3>1. operation[p][j] \in Unfinished /\ operation[p][j] # "LAPSED"
      BY <2>1, <2>2
    <3>2. ASSUME NEW i \in LifecycleKind, operation[p][i] = "LAPSED" PROVE FALSE
      BY <3>1, <3>2, UnfinishedAlone
    <3>3. ASSUME NEW e \in OtpRequests, otp[e] = "LAPSED", otpRental[e] = p
          PROVE  otp'[e] = "FAILED" /\ otpRental'[e] = p
      BY <1>8, <3>3 DEF RecoverExpiredLeases
    <3>4. CASE ~\E row \in LapsedRows : row[1] = p
      BY <1>8, <2>2, <3>1, <3>4 DEF RecoverExpiredLeases
    <3>5. CASE \E row \in LapsedRows : row[1] = p
      BY <3>2, <3>3, <3>5 DEF LapsedRows
    <3> QED BY <3>4, <3>5
  <2> QED BY <2>2, LeftoversStay
<1>9. ASSUME NEW e \in OtpRequests, FailOtp(e) PROVE CodesAgree'
  <2>1. /\ otpRental[e] \in Orders /\ UNCHANGED <<operation, otpRental>>
        /\ otp'[e] = "FAILED"
        /\ \A p \in Orders \ {otpRental[e]} : rental'[p] = rental[p]
    BY <1>0, <1>9 DEF FailOtp, ToManualReview, MoveRental
  <2> QED BY <2>1, LeftoversStay
<1>10. ASSUME NEW e \in OtpRequests, OtpStep(e), ~FailOtp(e)
       PROVE  UNCHANGED <<rental, operation>>
  BY <1>10 DEF OtpStep, CreateSendOtp, ForgetSeen, ClaimOtp, WaitForBuyerOtp,
     CompleteOtp, OtpLeaseLapses, MoveOtp
<1>11. CASE \/ Reconcile \/ UNCHANGED vars \/ \E o \in Orders : BlockOrder(o)
            \/ \E e \in OtpRequests, o \in Orders : SeeActiveRental(e, o)
  BY <1>3, <1>11 DEF Reconcile, vars, BlockOrder, SeeActiveRental
<1> QED
  BY <1>2, <1>3, <1>4, <1>5, <1>6, <1>7, <1>8, <1>9, <1>10, <1>11 DEF Next

\* A code that stands in the way of the quarantine keeps it from committing.
LEMMA CodesBlock ==
  ASSUME IInv, CodesAgree, NEW e \in OtpRequests, BlocksQuarantine(e)
  PROVE  ~Quarantinable
<1> DEFINE o == otpRental[e]
<1>1. ASSUME otp[e] = "LAPSED" PROVE <<o, e>> \in LapsedRows
  BY <1>1 DEF LapsedRows
<1>2. \A p : MayMoveRental(p, "MANUAL_REVIEW") => rental[p] \in OpenRental
  BY DEF MayMoveRental, RentalEdges, OpenRental
<1>3. CASE otp[e] = "LAPSED" /\ rental[o] \notin OpenRental
  BY <1>1, <1>2, <1>3 DEF Quarantinable
<1>4. CASE otp[e] = "LAPSED" /\ \E row \in LapsedRows : row[1] = o /\ row # <<o, e>>
  BY <1>1, <1>4 DEF Quarantinable
<1>5. ASSUME otp[e] = "FAILED", NEW k \in LifecycleKind, operation[o][k] = "LAPSED"
      PROVE  ~Quarantinable
  <2>1. o \in Orders /\ rental[o] = "MANUAL_REVIEW"
    BY <1>5 DEF CodesAgree, IInv, TypeOK
  <2>2. <<o, k>> \in LapsedRows
    BY <1>5, <2>1 DEF LapsedRows
  <2> QED BY <1>2, <2>1, <2>2 DEF Quarantinable, OpenRental
<1> QED BY <1>3, <1>4, <1>5 DEF BlocksQuarantine

\* The row of an open rental may move to review.
LEMMA OpenMayMove ==
  ASSUME IInv, NEW o \in Orders, rental[o] \in OpenRental
  PROVE  MayMoveAccount(o, "MANUAL_REVIEW") /\ MayMoveRental(o, "MANUAL_REVIEW")
<1>1. MayMoveRental(o, "MANUAL_REVIEW")
  BY DEF OpenRental, MayMoveRental, RentalEdges
<1>2. account[rentedAccount[o]] \in
        {"RESERVED", "ACTIVE", "EXPIRING", "SECURITY_ALERT", "REVOKING",
         "ROTATING_PASSWORD", "AVAILABLE_OFFLINE"}
  BY DEF IInv, LifecycleAgrees, RentalAgrees, OpenRental
<1> QED BY <1>1, <1>2 DEF MayMoveAccount, AccountEdges

\* Where no code stands in the way, all the lapsed rows belong to open rentals
\* of different accounts.
LEMMA NothingElseBlocks ==
  ASSUME IInv, CodesAgree, \A e \in OtpRequests : ~BlocksQuarantine(e)
  PROVE  Quarantinable
<1>1. ASSUME NEW o \in Orders, NEW k \in LifecycleKind, operation[o][k] = "LAPSED"
      PROVE  rental[o] \in OpenRental
  <2>1. operation[o][k] \in Unfinished
    BY <1>1 DEF Unfinished
  <2>2. rental[o] \in UnsettledRental
    BY <2>1, UnfinishedAlone
  <2>3. rental[o] # "MANUAL_REVIEW"
    BY <1>1, <2>1 DEF CodesAgree, BlocksQuarantine
  <2> QED BY <2>2, <2>3 DEF UnsettledRental
<1>2. ASSUME NEW row \in LapsedRows
      PROVE  /\ row[1] \in Orders /\ rental[row[1]] \in OpenRental
             /\ \/ /\ row[2] \in LifecycleKind /\ row = <<row[1], row[2]>>
                   /\ operation[row[1]][row[2]] = "LAPSED"
                \/ \E e \in OtpRequests :
                     otp[e] = "LAPSED" /\ row = <<otpRental[e], e>>
  <2>1. CASE /\ row[1] \in Orders /\ row[2] \in LifecycleKind /\ row = <<row[1], row[2]>>
             /\ operation[row[1]][row[2]] = "LAPSED"
    BY <1>1, <2>1
  <2>2. ASSUME NEW e \in OtpRequests, otp[e] = "LAPSED", row = <<otpRental[e], e>>
        PROVE  row[1] \in Orders /\ rental[row[1]] \in OpenRental
    BY <2>2 DEF BlocksQuarantine, IInv, TypeOK
  <2> QED BY <2>1, <2>2 DEF LapsedRows
<1>3. ASSUME NEW row \in LapsedRows, NEW other \in LapsedRows,
             rentedAccount[other[1]] = rentedAccount[row[1]]
      PROVE  other = row
  <2>1. other[1] = row[1]
    BY <1>2, <1>3 DEF IInv, NoDoubleAllocation, UnsettledRental
  <2>2. ASSUME NEW e \in OtpRequests, otp[e] = "LAPSED",
               row = <<otpRental[e], e>> \/ other = <<otpRental[e], e>>
        PROVE  other = row
    BY <2>1, <2>2 DEF BlocksQuarantine
  <2>3. CASE /\ row[2] \in LifecycleKind /\ row = <<row[1], row[2]>>
             /\ operation[row[1]][row[2]] = "LAPSED"
             /\ other[2] \in LifecycleKind /\ other = <<other[1], other[2]>>
             /\ operation[other[1]][other[2]] = "LAPSED"
    <3>1. operation[row[1]][row[2]] \in Unfinished /\ operation[row[1]][other[2]] \in Unfinished
      BY <2>1, <2>3 DEF Unfinished
    <3>2. other[2] = row[2]
      BY <1>2, <2>3, <3>1, UnfinishedAlone
    <3> QED BY <2>1, <2>3, <3>2
  <2> QED BY <1>2, <2>2, <2>3
<1> QED BY <1>2, <1>3, OpenMayMove DEF Quarantinable

\* The one transaction that quarantines all lapsed operations can commit exactly
\* when no login code stands in its way: whatever lapses, fails or comes late
\* in the lives of the rentals themselves never keeps it from committing.
THEOREM QuarantineCommits == Spec => []OnlyCodesBlockQuarantine
<1>1. Init => CodesAgree
  BY DEF Init, CodesAgree
<1>2. IInv /\ CodesAgree /\ [Next]_vars => CodesAgree'
  BY CodesStayAgreed
<1>3. IInv /\ CodesAgree => OnlyCodesBlockQuarantine
  BY CodesBlock, NothingElseBlocks DEF OnlyCodesBlockQuarantine
<1> QED BY <1>1, <1>2, <1>3, Invariance, PTL DEF Spec

-----------------------------------------------------------------------------
\* RentalLifecycle implements ExclusiveRental.

\* What ExclusiveRental sees of the database is not changed by this step.
Unnoticed ==
  /\ \A o \in Orders : ServicePhase(o)' = ServicePhase(o)
  /\ UNCHANGED <<rentedAccount, rentalVersion, credentialVersion>>

\* A step that is not noticed is a stuttering step of the promise.
LEMMA UnnoticedStutters == Unnoticed => UNCHANGED Promise!vars
  BY DEF Unnoticed, Promise!vars

\* A fresh database has promised nothing.
LEMMA PromiseInit == Init => Promise!Init
  BY DEF Init, Promise!Init, ServicePhase

\* The life of one rental goes on: it is held before and after.
LEMMA HeldStutters ==
  ASSUME IInv, NEW o \in Orders, rental[o] \in OpenRental,
         \/ UNCHANGED rental
         \/ \E status \in OpenRental : rental' = [rental EXCEPT ![o] = status],
         UNCHANGED <<rentedAccount, rentalVersion, credentialVersion>>
  PROVE  UNCHANGED Promise!vars
<1>1. \A p \in Orders : ServicePhase(p)' = ServicePhase(p)
  BY DEF ServicePhase, OpenRental, IInv, TypeOK
<1> QED
  BY <1>1, UnnoticedStutters DEF Unnoticed

\* Rentals that go to review, one or many, are a quarantine of the promise.
LEMMA ReviewIsQuarantine ==
  ASSUME IInv, NEW S \in SUBSET Orders,
         \A o \in S : MayMoveRental(o, "MANUAL_REVIEW"),
         rental' = [o \in Orders |-> IF o \in S THEN "MANUAL_REVIEW" ELSE rental[o]],
         UNCHANGED <<rentedAccount, rentalVersion, credentialVersion>>
  PROVE  Promise!Next
<1>1. \A o \in S : ServicePhase(o) = "Held"
  BY DEF MayMoveRental, RentalEdges, ServicePhase
<1>2. \A o \in Orders :
        ServicePhase(o)' = IF o \in S THEN "Review" ELSE ServicePhase(o)
  BY DEF ServicePhase
<1>3. Promise!Quarantine(S)
  BY <1>1, <1>2 DEF Promise!Quarantine
<1> QED
  BY <1>3 DEF Promise!Next

\* The review of one rental, which FailOperation and FailOtp make.
LEMMA OneReviewIsQuarantine ==
  ASSUME IInv, NEW o \in Orders, MoveRental(o, "MANUAL_REVIEW"),
         UNCHANGED <<rentedAccount, rentalVersion, credentialVersion>>
  PROVE  Promise!Next
<1>1. rental' = [p \in Orders |-> IF p \in {o} THEN "MANUAL_REVIEW" ELSE rental[p]]
  BY DEF MoveRental, IInv, TypeOK
<1> QED
  BY <1>1, ReviewIsQuarantine DEF MoveRental

\* Accepting an order lets the account.
LEMMA AcceptLets ==
  ASSUME IInv, NEW o \in Orders, NEW a \in Accounts, AcceptOrder(o, a)
  PROVE  Promise!Let(o, a)
<1> USE DEF IInv, TypeOK
<1>1. rental[o] = "NONE"
  BY DEF AcceptOrder, LifecycleAgrees, RentalAgrees
<1>2. \A p \in Orders : rentedAccount[p] = a => ServicePhase(p) = "Returned"
  <2> SUFFICES ASSUME NEW p \in Orders, rentedAccount[p] = a
               PROVE  ServicePhase(p) = "Returned"
    OBVIOUS
  <2>1. account[rentedAccount[p]] = "AVAILABLE"
    BY DEF AcceptOrder
  <2>2. rental[p] # "NONE"
    OBVIOUS
  <2> QED
    BY <2>1, <2>2, AvailableMeansReturned DEF ServicePhase
<1>3. [p \in Orders |-> ServicePhase(p)]'
        = [[p \in Orders |-> ServicePhase(p)] EXCEPT ![o] = "Held"]
  BY DEF AcceptOrder, ServicePhase
<1> QED
  BY <1>1, <1>2, <1>3 DEF Promise!Let, AcceptOrder, ServicePhase

\* A rotation that completes belongs to a rental whose account is rotating.
LEMMA RotatingMeansRotation ==
  ASSUME IInv, NEW o \in Orders, CompleteRotatePassword(o)
  PROVE  rental[o] = "PASSWORD_ROTATION" /\ account[rentedAccount[o]] = "ROTATING_PASSWORD"
<1>1. RentalAgrees(o)
  BY DEF IInv, LifecycleAgrees
<1>2. /\ operation[o]["ROTATE_PASSWORD"] \in InFlight
      /\ account[rentedAccount[o]] = "ROTATING_PASSWORD"
  BY DEF CompleteRotatePassword, InFlightOperation, MoveAccount, MayMoveAccount,
     AccountEdges
<1>3. rental[o] \in {"PASSWORD_ROTATION", "MANUAL_REVIEW"}
  BY <1>1, <1>2 DEF RentalAgrees, OperationsAt, Delivered, LifecycleKind, InFlight, IInv,
     TypeOK, RentalStatus
<1> QED
  BY <1>1, <1>2, <1>3 DEF RentalAgrees

\* Completing a rotation changes the password.
LEMMA RotationRekeys ==
  ASSUME IInv, NEW o \in Orders, CompleteRotatePassword(o)
  PROVE  Promise!Next
<1>1. rental[o] = "PASSWORD_ROTATION" /\ account[rentedAccount[o]] = "ROTATING_PASSWORD"
  BY RotatingMeansRotation
<1>2. rentalVersion[o] = credentialVersion[rentedAccount[o]]
  BY <1>1 DEF IInv, GenerationsAgree, GenerationAgrees
<1>3. Promise!Rekey(o)
  BY <1>1, <1>2 DEF Promise!Rekey, CompleteRotatePassword, ServicePhase
<1> QED
  BY <1>3 DEF Promise!Next

\* Completing ENABLE_LOTS returns the account.
LEMMA EnableReturns ==
  ASSUME IInv, NEW o \in Orders, CompleteEnableLots(o)
  PROVE  Promise!Next
<1> USE DEF IInv, TypeOK
<1>1. rental[o] = "PASSWORD_ROTATION"
  BY DEF CompleteEnableLots, MoveRental, MayMoveRental, RentalEdges
<1>2. account[rentedAccount[o]] = "AVAILABLE_OFFLINE"
  BY <1>1 DEF CompleteEnableLots, InFlightOperation, InFlight, LifecycleAgrees,
     RentalAgrees, OperationsAt, Revoked, Delivered, LifecycleKind, Unfinished
<1>3. rentalVersion[o] < credentialVersion[rentedAccount[o]]
  BY <1>1, <1>2 DEF GenerationsAgree, GenerationAgrees
<1>4. [p \in Orders |-> ServicePhase(p)]'
        = [[p \in Orders |-> ServicePhase(p)] EXCEPT ![o] = "Returned"]
  BY DEF CompleteEnableLots, MoveRental, ServicePhase
<1>5. Promise!Return(o)
  BY <1>1, <1>3, <1>4 DEF Promise!Return, CompleteEnableLots, ServicePhase
<1> QED
  BY <1>5 DEF Promise!Next

\* Every transaction is a step of the promise or leaves it as it is.
LEMMA NextImplements == IInv /\ [Next]_vars => [Promise!Next]_(Promise!vars)
<1> SUFFICES ASSUME IInv, [Next]_vars PROVE Promise!Next \/ UNCHANGED Promise!vars
  OBVIOUS
<1>0. ASSUME UNCHANGED <<rental, rentedAccount, rentalVersion, credentialVersion>>
      PROVE  UNCHANGED Promise!vars
  BY <1>0, UnnoticedStutters DEF Unnoticed, ServicePhase
<1>1. ASSUME NEW o \in Orders, NEW a \in Accounts, AcceptOrder(o, a) PROVE Promise!Next
  BY <1>1, AcceptLets DEF Promise!Next
<1>2. ASSUME NEW o \in Orders, BlockOrder(o) PROVE UNCHANGED Promise!vars
  BY <1>0, <1>2 DEF BlockOrder
<1>3. ASSUME NEW o \in Orders, PrepareRevoke(o) PROVE UNCHANGED Promise!vars
  <2>1. rental[o] \in OpenRental
    BY <1>3 DEF PrepareRevoke, MayMoveRental, RentalEdges, OpenRental
  <2> QED
    BY <1>3, <2>1, HeldStutters DEF PrepareRevoke, OpenRental
<1>4. ASSUME NEW o \in Orders, NEW kind \in LifecycleKind, OperationStep(o, kind)
      PROVE  Promise!Next \/ UNCHANGED Promise!vars
  <2>1. CASE ClaimOperation(o, kind) \/ LeaseLapses(o, kind)
              \/ ClaimStartupRecovery(o, kind) \/ CompleteDisableLots(o)
    BY <1>0, <2>1 DEF ClaimOperation, LeaseLapses, ClaimStartupRecovery,
       CompleteDisableLots
  <2>2. CASE CompleteSendCredentials(o)
    <3>1. rental[o] \in OpenRental
      BY <2>2 DEF CompleteSendCredentials, MoveRental, MayMoveRental, RentalEdges, OpenRental
    <3> QED
      BY <2>2, <3>1, HeldStutters DEF CompleteSendCredentials, MoveRental, OpenRental
  <2>3. CASE CompleteRevokeSessions(o)
    <3>1. rental[o] \in OpenRental
      BY <2>3 DEF CompleteRevokeSessions, MoveRental, MayMoveRental, RentalEdges, OpenRental
    <3> QED
      BY <2>3, <3>1, HeldStutters DEF CompleteRevokeSessions, MoveRental, OpenRental
  <2>4. CASE CompleteRotatePassword(o)
    BY <2>4, RotationRekeys
  <2>5. CASE CompleteEnableLots(o)
    BY <2>5, EnableReturns
  <2>6. CASE FailOperation(o, kind)
    BY <2>6, OneReviewIsQuarantine DEF FailOperation, ToManualReview
  <2> QED
    BY <1>4, <2>1, <2>2, <2>3, <2>4, <2>5, <2>6 DEF OperationStep, Complete
<1>5. ASSUME NEW due \in SUBSET Orders, ExpireDue(due) PROVE UNCHANGED Promise!vars
  <2>1. \A o \in Orders : ServicePhase(o)' = ServicePhase(o)
    BY <1>5 DEF ExpireDue, ServicePhase
  <2> QED
    BY <1>5, <2>1, UnnoticedStutters DEF ExpireDue, Unnoticed
<1>6. ASSUME NEW o \in Orders, SecurityEvent(o) PROVE UNCHANGED Promise!vars
  <2>1. rental[o] \in OpenRental
    BY <1>6 DEF SecurityEvent, OpenRental
  <2> QED
    BY <1>6, <2>1, HeldStutters DEF SecurityEvent, MoveRental, OpenRental
<1>7. ASSUME NEW e \in OtpRequests, NEW o \in Orders, SeeActiveRental(e, o)
      PROVE  UNCHANGED Promise!vars
  BY <1>0, <1>7 DEF SeeActiveRental
<1>8. ASSUME NEW e \in OtpRequests, OtpStep(e)
      PROVE  Promise!Next \/ UNCHANGED Promise!vars
  <2>1. CASE FailOtp(e)
    <3>1. otpRental[e] \in Orders
      BY <2>1 DEF FailOtp, InFlight, IInv, TypeOK
    <3> QED
      BY <2>1, <3>1, OneReviewIsQuarantine DEF FailOtp, ToManualReview
  <2>2. CASE ~FailOtp(e)
    BY <1>0, <1>8, <2>2 DEF OtpStep, CreateSendOtp, ForgetSeen, ClaimOtp,
       WaitForBuyerOtp, CompleteOtp, OtpLeaseLapses, MoveOtp
  <2> QED
    BY <2>1, <2>2
<1>9. ASSUME RecoverExpiredLeases PROVE Promise!Next
  <2> DEFINE S == {row[1] : row \in LapsedRows}
  <2>1. \A row \in LapsedRows : row[1] \in Orders
    BY DEF LapsedRows, IInv, TypeOK
  <2>2. S \in SUBSET Orders
    BY <2>1
  <2>3. \A o \in S : MayMoveRental(o, "MANUAL_REVIEW")
    BY <1>9 DEF RecoverExpiredLeases, Quarantinable
  <2>4. rental' = [o \in Orders |-> IF o \in S THEN "MANUAL_REVIEW" ELSE rental[o]]
    BY <1>9 DEF RecoverExpiredLeases
  <2> QED
    BY <1>9, <2>2, <2>3, <2>4, ReviewIsQuarantine DEF RecoverExpiredLeases
<1>10. ASSUME Reconcile PROVE UNCHANGED Promise!vars
  BY <1>0, <1>10 DEF Reconcile
<1>11. ASSUME UNCHANGED vars PROVE UNCHANGED Promise!vars
  BY <1>0, <1>11 DEF vars
<1> QED
  BY <1>1, <1>2, <1>3, <1>4, <1>5, <1>6, <1>7, <1>8, <1>9, <1>10, <1>11 DEF Next

\* The rental database implements the promise to its buyers: one buyer at a
\* time, a password of his own, changed before the account is let again.
THEOREM PromiseIsKept == Spec => KeepsPromise
<1> QED
  BY PromiseInit, NextImplements, Invariance, PTL DEF Spec, KeepsPromise, Promise!Spec

-----------------------------------------------------------------------------
\* RentalLifecycle implements OrderLife.

\* A fresh database has taken no order.
LEMMA LifeInit == Init => Lives!Init
  BY DEF Init, Lives!Init, LifeOf, StageOf

\* The life of an order is read off two of its columns.
LEMMA LifeStutters ==
  ASSUME UNCHANGED <<order, rental>>
  PROVE  [o \in Orders |-> LifeOf(o)]' = [o \in Orders |-> LifeOf(o)]
  BY DEF LifeOf, StageOf

\* What a rental may leave by the table is an order that was taken.
LEMMA MovableIsTaken ==
  ASSUME IInv, NEW o \in Orders, rental[o] # "NONE"
  PROVE  /\ order[o] \notin {"NEW", "FULFILLMENT_BLOCKED"}
         /\ LifeOf(o) = IF rental[o] = "RESERVED" THEN "Reserved"
                        ELSE IF rental[o] = "ACTIVE" THEN "Active" ELSE "Over"
  BY DEF IInv, LifecycleAgrees, RentalAgrees, LifeOf, StageOf

\* Rentals that leave RESERVED, ACTIVE or what follows end, or had ended.
LEMMA LivesEnd ==
  ASSUME IInv, NEW S \in SUBSET Orders,
         \A o \in S : rental[o] # "NONE",
         UNCHANGED order,
         \A o \in S : rental'[o] \notin {"RESERVED", "ACTIVE"},
         \A o \in Orders \ S : rental'[o] = rental[o]
  PROVE  Lives!Next
<1> DEFINE T == {o \in S : rental[o] \in {"RESERVED", "ACTIVE"}}
<1>1. \A o \in T : LifeOf(o) \in {"Reserved", "Active"}
  BY MovableIsTaken
<1>2. \A o \in Orders : LifeOf(o)' = IF o \in T THEN "Over" ELSE LifeOf(o)
  <2> SUFFICES ASSUME NEW o \in Orders
               PROVE  LifeOf(o)' = IF o \in T THEN "Over" ELSE LifeOf(o)
    OBVIOUS
  <2>1. CASE o \in S
    BY <2>1, MovableIsTaken DEF LifeOf, StageOf
  <2>2. CASE o \notin S
    BY <2>2 DEF LifeOf, StageOf
  <2> QED BY <2>1, <2>2
<1>3. Lives!End(T)
  BY <1>1, <1>2 DEF Lives!End
<1> QED BY <1>3 DEF Lives!Next

\* The same of one rental.
LEMMA LifeEnds ==
  ASSUME IInv, NEW o \in Orders, NEW status, MoveRental(o, status),
         status \notin {"RESERVED", "ACTIVE"}, UNCHANGED order
  PROVE  Lives!Next
<1>1. rental[o] # "NONE" /\ rental'[o] = status
  BY DEF MoveRental, MayMoveRental, RentalEdges, IInv, TypeOK
<1>2. \A p \in Orders \ {o} : rental'[p] = rental[p]
  BY DEF MoveRental, IInv, TypeOK
<1>3. {o} \in SUBSET Orders
  OBVIOUS
<1>4. \A p \in {o} : rental[p] # "NONE" /\ rental'[p] \notin {"RESERVED", "ACTIVE"}
  BY <1>1
<1> QED BY <1>2, <1>3, <1>4, LivesEnd

\* An order that has no row is taken, with an account or without.
LEMMA AcceptTakesOrder ==
  ASSUME IInv, NEW o \in Orders, NEW a \in Accounts, AcceptOrder(o, a)
  PROVE  Lives!Next
<1>1. LifeOf(o) = "None"
  BY DEF AcceptOrder, LifeOf, StageOf
<1>2. [p \in Orders |-> LifeOf(p)]'
        = [[p \in Orders |-> LifeOf(p)] EXCEPT ![o] = "Reserved"]
  BY DEF AcceptOrder, LifeOf, StageOf, IInv, TypeOK
<1>3. Lives!Take(o, "Reserved")
  BY <1>1, <1>2 DEF Lives!Take
<1> QED BY <1>3 DEF Lives!Next

LEMMA BlockTakesOrder ==
  ASSUME IInv, NEW o \in Orders, BlockOrder(o)
  PROVE  Lives!Next
<1>1. LifeOf(o) = "None"
  BY DEF BlockOrder, LifeOf, StageOf
<1>2. [p \in Orders |-> LifeOf(p)]'
        = [[p \in Orders |-> LifeOf(p)] EXCEPT ![o] = "Blocked"]
  BY DEF BlockOrder, LifeOf, StageOf, IInv, TypeOK
<1>3. Lives!Take(o, "Blocked")
  BY <1>1, <1>2 DEF Lives!Take
<1> QED BY <1>3 DEF Lives!Next

\* Only a reserved rental becomes active.
LEMMA SendDelivers ==
  ASSUME IInv, NEW o \in Orders, CompleteSendCredentials(o)
  PROVE  Lives!Next
<1>1. rental[o] = "RESERVED"
  BY DEF CompleteSendCredentials, MoveRental, MayMoveRental, RentalEdges
<1>2. LifeOf(o) = "Reserved"
  BY <1>1, MovableIsTaken
<1>3. [p \in Orders |-> LifeOf(p)]'
        = [[p \in Orders |-> LifeOf(p)] EXCEPT ![o] = "Active"]
  BY DEF CompleteSendCredentials, MoveRental, LifeOf, StageOf, IInv, TypeOK
<1>4. Lives!Deliver(o)
  BY <1>2, <1>3 DEF Lives!Deliver
<1> QED BY <1>4 DEF Lives!Next

\* Every transaction is a step of OrderLife or leaves the orders as they are.
LEMMA NextKeepsOrderLife ==
  ASSUME IInv, [Next]_vars
  PROVE  Lives!Next \/ UNCHANGED [o \in Orders |-> LifeOf(o)]
<1>1. ASSUME NEW o \in Orders, NEW a \in Accounts, AcceptOrder(o, a) PROVE Lives!Next
  BY <1>1, AcceptTakesOrder
<1>2. ASSUME NEW o \in Orders, BlockOrder(o) PROVE Lives!Next
  BY <1>2, BlockTakesOrder
<1>3. ASSUME NEW o \in Orders, PrepareRevoke(o) PROVE Lives!Next
  <2>1. rental[o] # "NONE" /\ rental'[o] = "REVOKING"
    BY <1>3 DEF PrepareRevoke, MayMoveRental, RentalEdges, IInv, TypeOK
  <2>2. \A p \in Orders \ {o} : rental'[p] = rental[p]
    BY <1>3 DEF PrepareRevoke, IInv, TypeOK
  <2>3. {o} \in SUBSET Orders
    OBVIOUS
  <2>4. /\ \A p \in {o} : rental[p] # "NONE" /\ rental'[p] \notin {"RESERVED", "ACTIVE"}
        /\ UNCHANGED order
    BY <1>3, <2>1 DEF PrepareRevoke
  <2> QED BY <2>2, <2>3, <2>4, LivesEnd
<1>4. ASSUME NEW o \in Orders, NEW kind \in LifecycleKind, OperationStep(o, kind)
      PROVE  Lives!Next \/ UNCHANGED <<order, rental>>
  <2>1. CASE \/ ClaimOperation(o, kind) \/ LeaseLapses(o, kind)
             \/ ClaimStartupRecovery(o, kind) \/ CompleteDisableLots(o)
             \/ CompleteRotatePassword(o)
    BY <2>1 DEF ClaimOperation, LeaseLapses, ClaimStartupRecovery,
       CompleteDisableLots, CompleteRotatePassword
  <2>2. CASE CompleteSendCredentials(o)
    BY <2>2, SendDelivers
  <2>3. CASE CompleteRevokeSessions(o)
    BY <2>3, LifeEnds DEF CompleteRevokeSessions
  <2>4. CASE CompleteEnableLots(o)
    BY <2>4, LifeEnds DEF CompleteEnableLots
  <2>5. CASE FailOperation(o, kind)
    BY <2>5, LifeEnds DEF FailOperation, ToManualReview
  <2> QED
    BY <1>4, <2>1, <2>2, <2>3, <2>4, <2>5 DEF OperationStep, Complete
<1>5. ASSUME NEW due \in SUBSET Orders, ExpireDue(due) PROVE Lives!Next
  <2>1. \A o \in due : rental[o] # "NONE" /\ rental'[o] = "EXPIRING"
    BY <1>5 DEF ExpireDue
  <2>2. \A o \in Orders \ due : rental'[o] = rental[o]
    BY <1>5 DEF ExpireDue
  <2>3. UNCHANGED order
    BY <1>5 DEF ExpireDue
  <2> QED BY <2>1, <2>2, <2>3, LivesEnd
<1>6. ASSUME NEW o \in Orders, SecurityEvent(o) PROVE Lives!Next
  BY <1>6, LifeEnds DEF SecurityEvent
<1>7. ASSUME NEW e \in OtpRequests, NEW o \in Orders, SeeActiveRental(e, o)
      PROVE  UNCHANGED <<order, rental>>
  BY <1>7 DEF SeeActiveRental
<1>8. ASSUME NEW e \in OtpRequests, OtpStep(e)
      PROVE  Lives!Next \/ UNCHANGED <<order, rental>>
  <2>1. CASE FailOtp(e)
    <3>1. otpRental[e] \in Orders
      BY <2>1 DEF FailOtp, InFlight, IInv, TypeOK
    <3> QED BY <2>1, <3>1, LifeEnds DEF FailOtp, ToManualReview
  <2>2. CASE ~FailOtp(e)
    BY <1>8, <2>2 DEF OtpStep, CreateSendOtp, ForgetSeen, ClaimOtp,
       WaitForBuyerOtp, CompleteOtp, OtpLeaseLapses, MoveOtp
  <2> QED BY <2>1, <2>2
<1>9. ASSUME RecoverExpiredLeases PROVE Lives!Next
  <2> DEFINE S == {row[1] : row \in LapsedRows}
  <2>1. S \in SUBSET Orders
    BY DEF LapsedRows, IInv, TypeOK
  <2>2. \A o \in S : rental[o] # "NONE" /\ rental'[o] = "MANUAL_REVIEW"
    BY <1>9, <2>1 DEF RecoverExpiredLeases, Quarantinable, MayMoveRental, RentalEdges
  <2>3. \A o \in Orders \ S : rental'[o] = rental[o]
    BY <1>9 DEF RecoverExpiredLeases
  <2>4. UNCHANGED order
    BY <1>9 DEF RecoverExpiredLeases
  <2> HIDE DEF S
  <2> QED BY <2>1, <2>2, <2>3, <2>4, LivesEnd
<1>10. ASSUME Reconcile PROVE UNCHANGED <<order, rental>>
  BY <1>10 DEF Reconcile
<1>11. Lives!Next \/ UNCHANGED <<order, rental>>
  BY <1>1, <1>2, <1>3, <1>4, <1>5, <1>6, <1>7, <1>8, <1>9, <1>10 DEF Next, vars
<1> QED BY <1>11, LifeStutters

\* The transactions keep what the intake of events assumes of them: an order is
\* taken once, only a reserved one is delivered, and one that is over stays so,
\* however late a completion comes (reserve_order, operation_completed,
\* operation_failed, expire_due, recover_expired_leases).
THEOREM OrderLifeIsKept == Spec => KeepsOrderLife
<1>1. IInv /\ [Next]_vars => [Lives!Next]_[o \in Orders |-> LifeOf(o)]
  BY NextKeepsOrderLife
<1> QED BY <1>1, LifeInit, Invariance, PTL DEF Spec, KeepsOrderLife, Lives!Spec
=============================================================================
