--------------------------- MODULE RentalLifecycle ---------------------------
(***************************************************************************)
(* The business database of the rental bot: accounts, orders, rentals and  *)
(* the durable operations that move a rental from its reservation to the   *)
(* return of the account (app/persistence/repositories.py).  Every action  *)
(* is one transaction of Repository; a transaction that raises rolls back  *)
(* and is no step at all.  Transactions of several workers, of startup     *)
(* recovery and of the e-mail and FunPay dispatchers interleave freely.    *)
(*                                                                         *)
(* A rental is named by its order (rentals.order_id is unique) and a       *)
(* lifecycle operation by its rental and kind (idempotency_key is          *)
(* "kind:rental" and unique).  Time is abstract: a RUNNING operation whose *)
(* lease, or whose wait deadline, has passed is "LAPSED", and any ACTIVE   *)
(* rental may be found due.  Claim tokens are in OperationLease.           *)
(***************************************************************************)
EXTENDS States, Naturals

CONSTANTS
  Accounts,     \* the accounts for rent
  Orders,       \* the paid FunPay orders the bot may be told of
  OtpRequests,  \* the buyer messages that ask for a login code
  NoAccount,    \* the account of an order that has no rental
  NoOrder       \* the rental of a login-code request that was not made

ASSUME SentinelsAssumption == NoAccount \notin Accounts /\ NoOrder \notin Orders

VARIABLES
  account,            \* accounts.status
  credentialVersion,  \* accounts.credential_version
  order,              \* orders.fulfillment_status, "NEW" before the row exists
  rental,             \* rentals.status, "NONE" before the row exists
  rentedAccount,      \* rentals.account_id
  rentalVersion,      \* rentals.credential_version
  operation,          \* operations.status of the rental's five kinds
  otp,                \* operations.status of the SEND_OTP operations, "SEEN"
                      \* while the dispatcher is about to insert one
  otpRental           \* operations.rental_id of the SEND_OTP operations

vars == <<account, credentialVersion, order, rental, rentedAccount,
          rentalVersion, operation, otp, otpRental>>

OperationStatus ==
  {"NONE", "PENDING", "RUNNING", "LAPSED", "COMPLETED", "FAILED"}

TypeOK ==
  /\ account \in [Accounts -> AccountStatus]
  /\ credentialVersion \in [Accounts -> Nat]
  /\ order \in [Orders -> FulfillmentStatus \cup {"NEW"}]
  /\ rental \in [Orders -> RentalStatus \cup {"NONE"}]
  /\ rentedAccount \in [Orders -> Accounts \cup {NoAccount}]
  /\ rentalVersion \in [Orders -> Nat]
  /\ operation \in [Orders -> [LifecycleKind -> OperationStatus]]
  /\ otp \in [OtpRequests -> OperationStatus \cup {"SEEN"}]
  /\ otpRental \in [OtpRequests -> Orders \cup {NoOrder}]
  /\ \A o \in Orders : rental[o] # "NONE" <=> rentedAccount[o] \in Accounts
  /\ \A e \in OtpRequests : otp[e] # "NONE" => otpRental[e] \in Orders

-----------------------------------------------------------------------------
\* Helpers.

InFlight == {"RUNNING", "LAPSED"}       \* the row's status is RUNNING
Unfinished == {"PENDING", "RUNNING", "LAPSED"}

MayMoveAccount(o, target) ==
  <<account[rentedAccount[o]], target>> \in AccountEdges
MayMoveRental(o, target) == <<rental[o], target>> \in RentalEdges

MoveAccount(o, target) ==
  /\ MayMoveAccount(o, target)
  /\ account' = [account EXCEPT ![rentedAccount[o]] = target]
MoveRental(o, target) ==
  /\ MayMoveRental(o, target)
  /\ rental' = [rental EXCEPT ![o] = target]

\* The outcome of work that did not succeed: nobody touches it but a person.
ToManualReview(o) ==
  /\ MoveAccount(o, "MANUAL_REVIEW")
  /\ MoveRental(o, "MANUAL_REVIEW")

SetOperation(o, kind, status) ==
  operation' = [operation EXCEPT ![o][kind] = status]

\* Mutant of FinishAndStart: the next operation is never queued.
FinishOnly(o, kind, next) ==
  /\ operation[o][next] = "NONE"
  /\ SetOperation(o, kind, "COMPLETED")

\* Completes one operation and inserts the next; a second insertion under
\* the same key violates its uniqueness and rolls the transaction back.
FinishAndStart(o, kind, next) ==
  /\ operation[o][next] = "NONE"
  /\ operation' = [operation EXCEPT ![o][kind] = "COMPLETED",
                                    ![o][next] = "PENDING"]

InFlightOperation(o, kind) == operation[o][kind] \in InFlight

-----------------------------------------------------------------------------
Init ==
  /\ account = [a \in Accounts |-> "AVAILABLE"]
  /\ credentialVersion = [a \in Accounts |-> 1]
  /\ order = [o \in Orders |-> "NEW"]
  /\ rental = [o \in Orders |-> "NONE"]
  /\ rentedAccount = [o \in Orders |-> NoAccount]
  /\ rentalVersion = [o \in Orders |-> 0]
  /\ operation = [o \in Orders |-> [k \in LifecycleKind |-> "NONE"]]
  /\ otp = [e \in OtpRequests |-> "NONE"]
  /\ otpRental = [e \in OtpRequests |-> NoOrder]

\* Mutants of AcceptOrder: an account that is not AVAILABLE is taken as well;
\* the password generation is not copied from the account.
AcceptBusyAccount(o, a) ==
  /\ order[o] = "NEW"
  /\ account' = [account EXCEPT ![a] = "RESERVED"]
  /\ order' = [order EXCEPT ![o] = "PENDING"]
  /\ rental' = [rental EXCEPT ![o] = "RESERVED"]
  /\ rentedAccount' = [rentedAccount EXCEPT ![o] = a]
  /\ rentalVersion' = [rentalVersion EXCEPT ![o] = credentialVersion[a]]
  /\ SetOperation(o, "DISABLE_LOTS", "PENDING")
  /\ UNCHANGED <<credentialVersion, otp, otpRental>>

AcceptFirstGeneration(o, a) ==
  /\ order[o] = "NEW"
  /\ account[a] = "AVAILABLE"
  /\ account' = [account EXCEPT ![a] = "RESERVED"]
  /\ order' = [order EXCEPT ![o] = "PENDING"]
  /\ rental' = [rental EXCEPT ![o] = "RESERVED"]
  /\ rentedAccount' = [rentedAccount EXCEPT ![o] = a]
  /\ rentalVersion' = [rentalVersion EXCEPT ![o] = 1]
  /\ SetOperation(o, "DISABLE_LOTS", "PENDING")
  /\ UNCHANGED <<credentialVersion, otp, otpRental>>

\* reserve_order: the order takes an AVAILABLE account (the first by code in
\* the source, any of them here) and the rental's first operation is queued.
\* An order that has a row already is answered from it and changes nothing.
AcceptOrder(o, a) ==
  /\ order[o] = "NEW"
  /\ account[a] = "AVAILABLE"
  /\ account' = [account EXCEPT ![a] = "RESERVED"]
  /\ order' = [order EXCEPT ![o] = "PENDING"]
  /\ rental' = [rental EXCEPT ![o] = "RESERVED"]
  /\ rentedAccount' = [rentedAccount EXCEPT ![o] = a]
  /\ rentalVersion' = [rentalVersion EXCEPT ![o] = credentialVersion[a]]
  /\ SetOperation(o, "DISABLE_LOTS", "PENDING")
  /\ UNCHANGED <<credentialVersion, otp, otpRental>>

\* Mutant of BlockOrder: it is not asked whether the order has a row.
BlockAgain(o) ==
  /\ \A a \in Accounts : account[a] # "AVAILABLE"
  /\ order' = [order EXCEPT ![o] = "FULFILLMENT_BLOCKED"]
  /\ UNCHANGED <<account, credentialVersion, rental, rentedAccount,
                 rentalVersion, operation, otp, otpRental>>

BlockOrder(o) ==
  /\ order[o] = "NEW"
  /\ \A a \in Accounts : account[a] # "AVAILABLE"
  /\ order' = [order EXCEPT ![o] = "FULFILLMENT_BLOCKED"]
  /\ UNCHANGED <<account, credentialVersion, rental, rentedAccount,
                 rentalVersion, operation, otp, otpRental>>

ClaimOperation(o, kind) ==
  /\ operation[o][kind] = "PENDING"
  /\ SetOperation(o, kind, "RUNNING")
  /\ UNCHANGED <<account, credentialVersion, order, rental, rentedAccount,
                 rentalVersion, otp, otpRental>>

\* prepare_operation of a REVOKE_SESSIONS: both rows are REVOKING before the
\* first external call.  It is repeated by startup recovery.
PrepareRevoke(o) ==
  /\ InFlightOperation(o, "REVOKE_SESSIONS")
  /\ account[rentedAccount[o]] = "REVOKING" \/ MayMoveAccount(o, "REVOKING")
  /\ rental[o] = "REVOKING" \/ MayMoveRental(o, "REVOKING")
  /\ account' = [account EXCEPT ![rentedAccount[o]] = "REVOKING"]
  /\ rental' = [rental EXCEPT ![o] = "REVOKING"]
  /\ UNCHANGED <<credentialVersion, order, rentedAccount, rentalVersion,
                 operation, otp, otpRental>>

\* operation_completed and complete_recovery_operation, one action per kind.
CompleteDisableLots(o) ==
  /\ InFlightOperation(o, "DISABLE_LOTS")
  /\ FinishAndStart(o, "DISABLE_LOTS", "SEND_CREDENTIALS")
  /\ UNCHANGED <<account, credentialVersion, order, rental, rentedAccount,
                 rentalVersion, otp, otpRental>>

\* Mutant of CompleteSendCredentials: the account stays RESERVED.
SendCredentialsRentalOnly(o) ==
  /\ InFlightOperation(o, "SEND_CREDENTIALS")
  /\ MoveRental(o, "ACTIVE")
  /\ order' = [order EXCEPT ![o] = "ACTIVATED"]
  /\ SetOperation(o, "SEND_CREDENTIALS", "COMPLETED")
  /\ UNCHANGED <<account, credentialVersion, rentedAccount, rentalVersion, otp,
                 otpRental>>

CompleteSendCredentials(o) ==
  /\ InFlightOperation(o, "SEND_CREDENTIALS")
  /\ MoveRental(o, "ACTIVE")
  /\ MoveAccount(o, "ACTIVE")
  /\ order' = [order EXCEPT ![o] = "ACTIVATED"]
  /\ SetOperation(o, "SEND_CREDENTIALS", "COMPLETED")
  /\ UNCHANGED <<credentialVersion, rentedAccount, rentalVersion, otp,
                 otpRental>>

CompleteRevokeSessions(o) ==
  /\ InFlightOperation(o, "REVOKE_SESSIONS")
  /\ MoveAccount(o, "ROTATING_PASSWORD")
  /\ MoveRental(o, "PASSWORD_ROTATION")
  /\ FinishAndStart(o, "REVOKE_SESSIONS", "ROTATE_PASSWORD")
  /\ UNCHANGED <<credentialVersion, order, rentedAccount, rentalVersion, otp,
                 otpRental>>

\* Mutant of CompleteRotatePassword: the new password has the old version.
RotateSameGeneration(o) ==
  /\ InFlightOperation(o, "ROTATE_PASSWORD")
  /\ MoveAccount(o, "AVAILABLE_OFFLINE")
  /\ FinishAndStart(o, "ROTATE_PASSWORD", "ENABLE_LOTS")
  /\ UNCHANGED <<credentialVersion, order, rental, rentedAccount, rentalVersion,
                 otp, otpRental>>

CompleteRotatePassword(o) ==
  /\ InFlightOperation(o, "ROTATE_PASSWORD")
  /\ MoveAccount(o, "AVAILABLE_OFFLINE")
  /\ credentialVersion' = [credentialVersion EXCEPT ![rentedAccount[o]] = @ + 1]
  /\ FinishAndStart(o, "ROTATE_PASSWORD", "ENABLE_LOTS")
  /\ UNCHANGED <<order, rental, rentedAccount, rentalVersion, otp, otpRental>>

CompleteEnableLots(o) ==
  /\ InFlightOperation(o, "ENABLE_LOTS")
  /\ MoveAccount(o, "AVAILABLE")
  /\ MoveRental(o, "FINISHED")
  /\ SetOperation(o, "ENABLE_LOTS", "COMPLETED")
  /\ UNCHANGED <<credentialVersion, order, rentedAccount, rentalVersion, otp,
                 otpRental>>

\* Mutant of FailOperation: the row stays RUNNING.
FailRentalOnly(o, kind) ==
  /\ InFlightOperation(o, kind)
  /\ ToManualReview(o)
  /\ UNCHANGED <<credentialVersion, order, rentedAccount, rentalVersion,
                 operation, otp, otpRental>>

\* operation_failed and fail_recovery_operation.
FailOperation(o, kind) ==
  /\ InFlightOperation(o, kind)
  /\ ToManualReview(o)
  /\ SetOperation(o, kind, "FAILED")
  /\ UNCHANGED <<credentialVersion, order, rentedAccount, rentalVersion, otp,
                 otpRental>>

-----------------------------------------------------------------------------
\* The end of a rental.

\* Mutant of ExpireDue: the accounts of the due rentals stay ACTIVE.
ExpireRentalOnly(due) ==
  /\ due # {}
  /\ \A o \in due : rental[o] = "ACTIVE"
  /\ rental' = [o \in Orders |-> IF o \in due THEN "EXPIRING" ELSE rental[o]]
  /\ operation' = [o \in Orders |->
                     IF o \in due
                     THEN [operation[o] EXCEPT !["REVOKE_SESSIONS"] = "PENDING"]
                     ELSE operation[o]]
  /\ UNCHANGED <<account, credentialVersion, order, rentedAccount, rentalVersion,
                 otp, otpRental>>

\* expire_due: every due rental in one transaction.  The rentals of `due` are
\* on different accounts (NoDoubleAllocation).
ExpireDue(due) ==
  LET ended == {o \in due : account[rentedAccount[o]] = "ACTIVE"}
  IN  /\ due # {}
      /\ \A o \in due : rental[o] = "ACTIVE"
      /\ \A o \in ended : operation[o]["REVOKE_SESSIONS"] = "NONE"
      /\ rental' = [o \in Orders |-> IF o \in due THEN "EXPIRING" ELSE rental[o]]
      /\ account' = [a \in Accounts |->
                       IF \E o \in ended : rentedAccount[o] = a
                       THEN "EXPIRING" ELSE account[a]]
      /\ operation' = [o \in Orders |->
                         IF o \in ended
                         THEN [operation[o] EXCEPT !["REVOKE_SESSIONS"] = "PENDING"]
                         ELSE operation[o]]
      /\ UNCHANGED <<credentialVersion, order, rentedAccount, rentalVersion,
                     otp, otpRental>>

\* record_active_security_event: an unexpected security e-mail ends the
\* rental at once and queues the same revoke operation as expiry does.
SecurityEvent(o) ==
  /\ rental[o] = "ACTIVE"
  /\ account[rentedAccount[o]] = "ACTIVE"
  /\ operation[o]["REVOKE_SESSIONS"] = "NONE"
  /\ MoveAccount(o, "SECURITY_ALERT")
  /\ MoveRental(o, "SECURITY_TERMINATED")
  /\ SetOperation(o, "REVOKE_SESSIONS", "PENDING")
  /\ UNCHANGED <<credentialVersion, order, rentedAccount, rentalVersion, otp,
                 otpRental>>

-----------------------------------------------------------------------------
\* Login codes a buyer asks for while the rental runs.

\* Mutant of SeeActiveRental: what is seen is not tied to its rental.
SeeNobody(e, o) ==
  /\ otp[e] = "NONE"
  /\ rental[o] = "ACTIVE"
  /\ account[rentedAccount[o]] = "ACTIVE"
  /\ otp' = [otp EXCEPT ![e] = "SEEN"]
  /\ UNCHANGED <<account, credentialVersion, order, rental, rentedAccount,
                 rentalVersion, operation, otpRental>>

\* _handle_buyer_message reads the rental and its account ...
SeeActiveRental(e, o) ==
  /\ otp[e] = "NONE"
  /\ rental[o] = "ACTIVE"
  /\ account[rentedAccount[o]] = "ACTIVE"
  /\ otp' = [otp EXCEPT ![e] = "SEEN"]
  /\ otpRental' = [otpRental EXCEPT ![e] = o]
  /\ UNCHANGED <<account, credentialVersion, order, rental, rentedAccount,
                 rentalVersion, operation>>

MoveOtp(e, from, to) ==
  /\ otp[e] \in from
  /\ otp' = [otp EXCEPT ![e] = to]
  /\ UNCHANGED <<account, credentialVersion, order, rental, rentedAccount,
                 rentalVersion, operation, otpRental>>

\* ... and create_send_otp, a transaction of its own, does not read them again.
CreateSendOtp(e) == MoveOtp(e, {"SEEN"}, "PENDING")

\* The dispatcher dies in between; the event will be claimed and read again.
ForgetSeen(e) == MoveOtp(e, {"SEEN"}, "NONE")

ClaimOtp(e) == MoveOtp(e, {"PENDING"}, "RUNNING")
WaitForBuyerOtp(e) == MoveOtp(e, InFlight, "PENDING")
CompleteOtp(e) == MoveOtp(e, InFlight, "COMPLETED")
OtpLeaseLapses(e) == MoveOtp(e, {"RUNNING"}, "LAPSED")

\* operation_failed of a SEND_OTP takes the rental and its account along.
FailOtp(e) ==
  /\ otp[e] \in InFlight
  /\ ToManualReview(otpRental[e])
  /\ otp' = [otp EXCEPT ![e] = "FAILED"]
  /\ UNCHANGED <<credentialVersion, order, rentedAccount, rentalVersion,
                 operation, otpRental>>

-----------------------------------------------------------------------------
\* Crashes, restarts and the quarantine of abandoned work.

\* The worker died, or its call outlived its lease or its wait deadline.
LeaseLapses(o, kind) ==
  /\ operation[o][kind] = "RUNNING"
  /\ SetOperation(o, kind, "LAPSED")
  /\ UNCHANGED <<account, credentialVersion, order, rental, rentedAccount,
                 rentalVersion, otp, otpRental>>

\* claim_startup_recovery gives an abandoned security operation a new lease.
ClaimStartupRecovery(o, kind) ==
  /\ kind \in {"REVOKE_SESSIONS", "ROTATE_PASSWORD"}
  /\ operation[o][kind] = "LAPSED"
  /\ SetOperation(o, kind, "RUNNING")
  /\ UNCHANGED <<account, credentialVersion, order, rental, rentedAccount,
                 rentalVersion, otp, otpRental>>

\* Mutant of LapsedRows: only security operations are looked for.
LapsedSecurityRows ==
  {row \in Orders \X {"REVOKE_SESSIONS", "ROTATE_PASSWORD"} :
     operation[row[1]][row[2]] = "LAPSED"}

\* The abandoned operations, each with the rental it belongs to.
LapsedRows ==
  {row \in Orders \X LifecycleKind : operation[row[1]][row[2]] = "LAPSED"}
    \cup {<<otpRental[e], e>> : e \in {x \in OtpRequests : otp[x] = "LAPSED"}}

\* All rows are quarantined by one transaction, in sequence: it commits only
\* if every account and every rental may still move, so no account twice.
Quarantinable ==
  \A row \in LapsedRows :
    /\ MayMoveAccount(row[1], "MANUAL_REVIEW")
    /\ MayMoveRental(row[1], "MANUAL_REVIEW")
    /\ \A other \in LapsedRows :
         rentedAccount[other[1]] = rentedAccount[row[1]] => other = row

RecoverExpiredLeases ==
  LET lapsedRentals == {row[1] : row \in LapsedRows}
  IN  /\ LapsedRows # {}
      /\ Quarantinable
      /\ account' = [a \in Accounts |->
                       IF \E o \in lapsedRentals : rentedAccount[o] = a
                       THEN "MANUAL_REVIEW" ELSE account[a]]
      /\ rental' = [o \in Orders |->
                      IF o \in lapsedRentals THEN "MANUAL_REVIEW" ELSE rental[o]]
      /\ operation' = [o \in Orders |-> [k \in LifecycleKind |->
                         IF operation[o][k] = "LAPSED" THEN "FAILED"
                         ELSE operation[o][k]]]
      /\ otp' = [e \in OtpRequests |->
                   IF otp[e] = "LAPSED" THEN "FAILED" ELSE otp[e]]
      /\ UNCHANGED <<credentialVersion, order, rentedAccount, rentalVersion,
                     otpRental>>

HasUnfinishedOperation(a) ==
  \/ \E o \in Orders : /\ rentedAccount[o] = a
                       /\ \E k \in LifecycleKind : operation[o][k] \in Unfinished
  \/ \E e \in OtpRequests : /\ otp[e] \in Unfinished
                            /\ rentedAccount[otpRental[e]] = a

\* The accounts startup takes for abandoned: in the middle of a life that
\* no operation is going to continue.
Orphaned(a) ==
  /\ account[a] \in {"RESERVED", "REVOKING", "ROTATING_PASSWORD",
                     "SECURITY_ALERT", "AVAILABLE_OFFLINE"}
  /\ ~HasUnfinishedOperation(a)

\* reconcile, the last transaction of startup.
Reconcile ==
  /\ account' = [a \in Accounts |->
                   IF Orphaned(a) THEN "MANUAL_REVIEW" ELSE account[a]]
  /\ UNCHANGED <<credentialVersion, order, rental, rentedAccount,
                 rentalVersion, operation, otp, otpRental>>

-----------------------------------------------------------------------------
Complete(o, kind) ==
  \/ kind = "DISABLE_LOTS" /\ CompleteDisableLots(o)
  \/ kind = "SEND_CREDENTIALS" /\ CompleteSendCredentials(o)
  \/ kind = "REVOKE_SESSIONS" /\ CompleteRevokeSessions(o)
  \/ kind = "ROTATE_PASSWORD" /\ CompleteRotatePassword(o)
  \/ kind = "ENABLE_LOTS" /\ CompleteEnableLots(o)

OperationStep(o, kind) ==
  \/ ClaimOperation(o, kind)
  \/ Complete(o, kind)
  \/ FailOperation(o, kind)
  \/ LeaseLapses(o, kind)
  \/ ClaimStartupRecovery(o, kind)

OtpStep(e) ==
  \/ CreateSendOtp(e)
  \/ ForgetSeen(e)
  \/ ClaimOtp(e)
  \/ WaitForBuyerOtp(e)
  \/ CompleteOtp(e)
  \/ OtpLeaseLapses(e)
  \/ FailOtp(e)

Next ==
  \/ \E o \in Orders, a \in Accounts : AcceptOrder(o, a)
  \/ \E o \in Orders : BlockOrder(o)
  \/ \E o \in Orders : PrepareRevoke(o)
  \/ \E o \in Orders, kind \in LifecycleKind : OperationStep(o, kind)
  \/ \E due \in SUBSET Orders : ExpireDue(due)
  \/ \E o \in Orders : SecurityEvent(o)
  \/ \E e \in OtpRequests, o \in Orders : SeeActiveRental(e, o)
  \/ \E e \in OtpRequests : OtpStep(e)
  \/ RecoverExpiredLeases
  \/ Reconcile

Spec == Init /\ [][Next]_vars

-----------------------------------------------------------------------------
\* Properties.

OpenRental ==
  {"RESERVED", "ACTIVE", "EXPIRING", "SECURITY_TERMINATED", "REVOKING",
   "PASSWORD_ROTATION"}

UnsettledRental == OpenRental \cup {"MANUAL_REVIEW"}

\* An account is never let to two buyers at once, nor let again while a rental
\* of it is under review: reserve_order only takes an AVAILABLE account and no
\* path makes one AVAILABLE before its last rental is FINISHED.
NoDoubleAllocation ==
  \A o1, o2 \in Orders :
    /\ rental[o1] \in UnsettledRental
    /\ rental[o2] \in UnsettledRental
    /\ rentedAccount[o1] = rentedAccount[o2]
    => o1 = o2

\* The operations of rental o: `done` are COMPLETED, `current` is unfinished
\* and the others have not been created.
OperationsAt(o, done, current) ==
  \A k \in LifecycleKind :
    operation[o][k] \in (IF k \in done THEN {"COMPLETED"}
                         ELSE IF k = current THEN Unfinished
                         ELSE {"NONE"})

Delivered == {"DISABLE_LOTS", "SEND_CREDENTIALS"}
Revoked == Delivered \cup {"REVOKE_SESSIONS"}
Rotated == Revoked \cup {"ROTATE_PASSWORD"}

RentalAgrees(o) ==
  LET status == account[rentedAccount[o]]
  IN  /\ rental[o] # "CANCELLED"
      /\ rental[o] = "NONE" <=> order[o] \in {"NEW", "FULFILLMENT_BLOCKED"}
      /\ order[o] = "ACTIVATED" <=>
           operation[o]["SEND_CREDENTIALS"] = "COMPLETED"
      /\ rental[o] = "NONE" => OperationsAt(o, {}, "NONE")
      /\ rental[o] = "RESERVED" =>
           /\ status = "RESERVED"
           /\ \/ OperationsAt(o, {}, "DISABLE_LOTS")
              \/ OperationsAt(o, {"DISABLE_LOTS"}, "SEND_CREDENTIALS")
      /\ rental[o] = "ACTIVE" =>
           status = "ACTIVE" /\ OperationsAt(o, Delivered, "NONE")
      /\ rental[o] = "EXPIRING" =>
           status = "EXPIRING" /\ OperationsAt(o, Delivered, "REVOKE_SESSIONS")
      /\ rental[o] = "SECURITY_TERMINATED" =>
           /\ status = "SECURITY_ALERT"
           /\ OperationsAt(o, Delivered, "REVOKE_SESSIONS")
      /\ rental[o] = "REVOKING" =>
           status = "REVOKING" /\ OperationsAt(o, Delivered, "REVOKE_SESSIONS")
      /\ rental[o] = "PASSWORD_ROTATION" =>
           \/ /\ status = "ROTATING_PASSWORD"
              /\ OperationsAt(o, Revoked, "ROTATE_PASSWORD")
           \/ /\ status = "AVAILABLE_OFFLINE"
              /\ OperationsAt(o, Rotated, "ENABLE_LOTS")
      /\ rental[o] = "FINISHED" => OperationsAt(o, LifecycleKind, "NONE")
      /\ rental[o] = "MANUAL_REVIEW" =>
           /\ status = "MANUAL_REVIEW"
           /\ \A k1, k2 \in LifecycleKind :
                /\ operation[o][k1] \in Unfinished
                /\ operation[o][k2] \in Unfinished
                => k1 = k2

\* The rows of one rental tell one story: while a rental is open its account
\* is in the matching status and exactly the operation that moves it on is
\* unfinished, whatever failed, lapsed or was retried in between; a rental
\* under review keeps its account under review; an order is ACTIVATED exactly
\* when its credentials were delivered.
LifecycleAgrees == \A o \in Orders : RentalAgrees(o)

\* No account is stranded: an account in the middle of a life has an open
\* rental, so an operation that will move it, and the sweep of reconcile at
\* the end of startup has nothing to take away.
NoOrphanedAccount ==
  \A a \in Accounts :
    /\ account[a] \notin {"AVAILABLE", "MANUAL_REVIEW"} =>
         \E o \in Orders : rentedAccount[o] = a /\ rental[o] \in OpenRental
    /\ ~Orphaned(a)

\* No two buyers are ever given the same generation of an account's password,
\* and when an account is back for rent nobody it was let to before knows the
\* current one (credential_version of accounts and of rentals).
FreshCredentials ==
  \A o1, o2 \in Orders :
    /\ rental[o1] # "NONE" /\ rental[o2] # "NONE"
    /\ rentedAccount[o1] = rentedAccount[o2]
    => /\ o1 # o2 => rentalVersion[o1] # rentalVersion[o2]
       /\ account[rentedAccount[o1]] = "AVAILABLE" =>
            rentalVersion[o1] < credentialVersion[rentedAccount[o1]]

GenerationAgrees(o) ==
  LET inForce == credentialVersion[rentedAccount[o]]
      status == account[rentedAccount[o]]
  IN  /\ rental[o] \in OpenRental \ {"PASSWORD_ROTATION"} =>
           rentalVersion[o] = inForce
      /\ rental[o] = "PASSWORD_ROTATION" /\ status = "ROTATING_PASSWORD" =>
           rentalVersion[o] = inForce
      /\ rental[o] = "PASSWORD_ROTATION" /\ status = "AVAILABLE_OFFLINE" =>
           rentalVersion[o] < inForce
      /\ rental[o] = "FINISHED" => rentalVersion[o] < inForce
      /\ rental[o] = "MANUAL_REVIEW" => rentalVersion[o] <= inForce

\* The generation of the password a buyer was given is the one in force until
\* the rotation of that very rental, and an older one ever after: the rotation
\* is neither skipped nor done twice on the way back to rent.
GenerationsAgree == \A o \in Orders : GenerationAgrees(o)

\* The lifecycle rows never contradict the checks that production start-up
\* refuses to run on (consistency_checks of app/production.py: duplicate_active,
\* account_without_rental, rental_available, incomplete_available and
\* conflicting_lifecycle), so a crash at any point leaves a startable database.
StartupGateAccepts ==
  LET rentalsOf(a) == {o \in Orders : rentedAccount[o] = a}
      unfinished(a) == {row \in rentalsOf(a) \X LifecycleKind :
                          /\ row[2] # "SEND_CREDENTIALS"
                          /\ operation[row[1]][row[2]] \in Unfinished}
  IN  \A a \in Accounts :
        /\ \A o1, o2 \in rentalsOf(a) :
             rental[o1] = "ACTIVE" /\ rental[o2] = "ACTIVE" => o1 = o2
        /\ account[a] = "ACTIVE" => \E o \in rentalsOf(a) : rental[o] = "ACTIVE"
        /\ account[a] = "AVAILABLE" =>
             /\ \A o \in rentalsOf(a) : rental[o] # "ACTIVE"
             /\ \A row \in unfinished(a) :
                  row[2] \notin {"REVOKE_SESSIONS", "ROTATE_PASSWORD"}
        /\ \A row1, row2 \in unfinished(a) : row1 = row2

\* Only a person takes an account or a rental out of review: the transition
\* MANUAL_REVIEW -> AVAILABLE is legal for an account, and a late completion
\* of its ENABLE_LOTS would take it were the rental not refused.
ManualReviewIsKept ==
  [][/\ \A a \in Accounts :
          account[a] = "MANUAL_REVIEW" => account'[a] = "MANUAL_REVIEW"
     /\ \A o \in Orders :
          rental[o] = "MANUAL_REVIEW" => rental'[o] = "MANUAL_REVIEW"]_vars

\* "Expired critical work is never blindly retried: quarantine it
\* fail-closed" (recover_expired_leases): whatever has lapsed, the quarantine
\* transaction can commit.
LapsedWorkCanBeQuarantined == Quarantinable

\* It can unless a login code stands in its way: one that lapsed though its
\* rental is over, or beside other lapsed work of its rental, or one whose
\* failure took a rental to review whose operation went on and lapsed later.
BlocksQuarantine(e) ==
  LET o == otpRental[e]
  IN  \/ /\ otp[e] = "LAPSED"
         /\ \/ rental[o] \notin OpenRental
            \/ \E row \in LapsedRows : row[1] = o /\ row # <<o, e>>
      \/ /\ otp[e] = "FAILED"
         /\ \E k \in LifecycleKind : operation[o][k] = "LAPSED"

\* The lapsed work of a rental's life never keeps the quarantine transaction
\* from committing, whatever died or failed in whatever order: it rolls back
\* for a login code in its way and for nothing else.
OnlyCodesBlockQuarantine ==
  Quarantinable <=> \A e \in OtpRequests : ~BlocksQuarantine(e)

\* Every accepted order ends: the account is back for rent or under review.
RentalEnds ==
  \A o \in Orders :
    rental[o] = "RESERVED" ~> rental[o] \in {"FINISHED", "MANUAL_REVIEW"}

\* The account of a rental seen as a promise to its buyer.
ServicePhase(o) ==
  CASE rental[o] = "NONE" -> "None"
    [] rental[o] = "FINISHED" -> "Returned"
    [] rental[o] = "MANUAL_REVIEW" -> "Review"
    [] OTHER -> "Held"

Promise == INSTANCE ExclusiveRental WITH
  phase <- [o \in Orders |-> ServicePhase(o)],
  leased <- rentedAccount,
  given <- rentalVersion,
  secret <- credentialVersion

\* The database implements the promise: every transaction is a step of
\* ExclusiveRental or leaves what it speaks of unchanged.
KeepsPromise == Promise!Spec

\* An order as those see it who take it and who serve its buyer's messages.
StageOf(o) ==
  CASE rental[o] = "RESERVED" -> "Reserved"
    [] rental[o] = "ACTIVE" -> "Active"
    [] OTHER -> "Over"

LifeOf(o) ==
  CASE order[o] = "NEW" -> "None"
    [] order[o] = "FULFILLMENT_BLOCKED" -> "Blocked"
    [] OTHER -> StageOf(o)

Lives == INSTANCE OrderLife WITH life <- [o \in Orders |-> LifeOf(o)]

\* What FunPayIntake assumes of the rentals: an order is taken once, only a
\* reserved one is delivered, and one that is over, after whatever lapse or
\* late completion, is never active again for a buyer to ask for codes.
KeepsOrderLife == Lives!Spec
=============================================================================
