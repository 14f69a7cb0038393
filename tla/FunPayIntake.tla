----------------------------- MODULE FunPayIntake -----------------------------
(***************************************************************************)
(* How paid orders and buyer messages get from FunPay into the bot:        *)
(* FunPayEventPoller, FunPayEventRepository and FunPayEventDispatcher,     *)
(* inside the cycle of ApplicationRuntime.                                 *)
(*                                                                         *)
(* FunPay's events form a list that only grows; at[e] is the place of e in *)
(* the order of received_at.  A runtime remembers the place up to which it *)
(* has polled (last_poll_at) in memory only.  A claim token is named by    *)
(* the runtime that made it: within one dispatch a runtime claims an event *)
(* once, and it forgets the claim when the dispatch ends.                  *)
(***************************************************************************)
EXTENDS Naturals

CONSTANTS
  Runtimes,       \* the processes that share the database
  NoRuntime,      \* a claim_token column that is NULL
  Events,         \* external_event_id
  Orders,         \* funpay_order_id
  PaidEvents,     \* the events of type PAID_ORDER
  CodeEvents,     \* the buyer messages whose text is the code command
  Incomplete,     \* the events that lack a field their handler needs
  OrderOf         \* the order each event names

ASSUME IntakeAssumption ==
  /\ NoRuntime \notin Runtimes
  /\ PaidEvents \subseteq Events /\ CodeEvents \subseteq Events
  /\ PaidEvents \cap CodeEvents = {}
  /\ Incomplete \subseteq Events
  /\ OrderOf \in [Events -> Orders]

VARIABLES
  at,             \* FunPay: the place of each event, 0 while it is not there
  posts,          \* FunPay: how many events there are
  ready,          \* FunPay: health() is READY
  rental,         \* what has become of each order
  otpOps,         \* the messages that have a SEND_OTP operation
  status,         \* funpay_events.processing_status, NONE without a row
  token,          \* funpay_events.claim_token
  aged,           \* the rows whose claimed_at or updated_at is 30 s ago
  pc,             \* the step of its cycle each runtime is at
  cursor,         \* last_poll_at
  began,          \* `now` of the cycle
  found,          \* the polled events that are still to be ingested
  claims,         \* the claimed events that are still to be dispatched
  outcome,        \* what the handler made of the current claim
  due         \* history: the events each runtime must still store

fun == <<at, posts, ready>>
business == <<rental, otpOps>>
rows == <<status, token, aged>>
local == <<cursor, began, found, claims, outcome>>
vars == <<fun, business, rows, pc, local, due>>

Final == {"PROCESSED", "FAILED_CLOSED"}
Stored(e) == status[e] # "NONE"

TypeOK ==
  /\ at \in [Events -> Nat] /\ posts \in Nat /\ ready \in BOOLEAN
  /\ rental \in [Orders -> {"None", "Blocked", "Reserved", "Active", "Over"}]
  /\ otpOps \subseteq Events
  /\ status \in [Events -> Final \cup {"NONE", "PENDING", "CLAIMED",
                                       "RETRY_PENDING"}]
  /\ token \in [Events -> Runtimes \cup {NoRuntime}]
  /\ aged \subseteq Events
  /\ pc \in [Runtimes -> {"Down", "Idle", "Poll", "Store", "Dispatch",
                          "Insert", "Mark"}]
  /\ cursor \in [Runtimes -> Nat] /\ began \in [Runtimes -> Nat]
  /\ found \in [Runtimes -> SUBSET Events]
  /\ claims \in [Runtimes -> SUBSET Events]
  /\ outcome \in [Runtimes -> {"None", "processed", "retryable", "failed"}]
  /\ due \in [Runtimes -> SUBSET Events]

Init ==
  /\ at = [e \in Events |-> 0] /\ posts = 0 /\ ready = TRUE
  /\ rental = [o \in Orders |-> "None"] /\ otpOps = {}
  /\ status = [e \in Events |-> "NONE"]
  /\ token = [e \in Events |-> NoRuntime] /\ aged = {}
  /\ pc = [r \in Runtimes |-> "Down"]
  /\ cursor = [r \in Runtimes |-> 0] /\ began = [r \in Runtimes |-> 0]
  /\ found = [r \in Runtimes |-> {}] /\ claims = [r \in Runtimes |-> {}]
  /\ outcome = [r \in Runtimes |-> "None"]
  /\ due = [r \in Runtimes |-> {}]

Goto(r, step) == pc' = [pc EXCEPT ![r] = step]

-----------------------------------------------------------------------------
\* FunPay, the rentals and time.

\* History: an event is due to a runtime that was up when it came, as long as
\* FunPay stays READY, the runtime does not stop and no one has stored it.
Post(e) ==
  /\ at[e] = 0
  /\ at' = [at EXCEPT ![e] = posts + 1]
  /\ posts' = posts + 1
  /\ due' = [r \in Runtimes |->
                   IF ready /\ pc[r] # "Down" THEN due[r] \cup {e}
                                              ELSE due[r]]
  /\ UNCHANGED <<ready, business, rows, pc, local>>

LoseHealth ==
  /\ ready /\ ready' = FALSE
  /\ due' = [r \in Runtimes |-> {}]
  /\ UNCHANGED <<at, posts, business, rows, pc, local>>

RegainHealth ==
  /\ ~ready /\ ready' = TRUE
  /\ UNCHANGED <<at, posts, business, rows, pc, local, due>>

\* The rest of a rental's life, of which only this much matters here.
Lives == INSTANCE OrderLife WITH life <- rental

RentalsMove ==
  /\ \/ \E o \in Orders : Lives!Deliver(o)
     \/ \E S \in SUBSET Orders : Lives!End(S)
  /\ UNCHANGED <<fun, otpOps, rows, pc, local, due>>

LeaseSecondsPass(e) ==
  /\ status[e] \in {"CLAIMED", "RETRY_PENDING"} /\ e \notin aged
  /\ aged' = aged \cup {e}
  /\ UNCHANGED <<fun, business, status, token, pc, local, due>>

-----------------------------------------------------------------------------
\* The cycle of a runtime.

Forget(r) ==
  /\ found' = [found EXCEPT ![r] = {}]
  /\ claims' = [claims EXCEPT ![r] = {}]
  /\ outcome' = [outcome EXCEPT ![r] = "None"]
  /\ began' = [began EXCEPT ![r] = 0]

\* last_poll_at starts at the time of the start.
Start(r) ==
  /\ pc[r] = "Down" /\ Goto(r, "Idle")
  /\ cursor' = [cursor EXCEPT ![r] = posts]
  /\ UNCHANGED <<fun, business, rows, began, found, claims, outcome, due>>

Crash(r) ==
  /\ pc[r] # "Down" /\ Goto(r, "Down")
  /\ Forget(r)
  /\ cursor' = [cursor EXCEPT ![r] = 0]
  /\ due' = [due EXCEPT ![r] = {}]
  /\ UNCHANGED <<fun, business, rows>>

\* Whatever raises inside a cycle ends it; the supervisor runs another one.
FailCycle(r) ==
  /\ pc[r] \notin {"Down", "Idle"} /\ Goto(r, "Idle")
  /\ Forget(r)
  /\ UNCHANGED <<fun, business, rows, cursor, due>>

BeginCycle(r) ==
  /\ pc[r] = "Idle" /\ Goto(r, "Poll")
  /\ began' = [began EXCEPT ![r] = posts]
  /\ UNCHANGED <<fun, business, rows, cursor, found, claims, outcome, due>>

PollNotReady(r) ==
  /\ pc[r] = "Poll" /\ ~ready /\ Goto(r, "Store")
  /\ UNCHANGED <<fun, business, rows, local, due>>

PollEvents(r) ==
  /\ pc[r] = "Poll" /\ ready /\ Goto(r, "Store")
  /\ found' = [found EXCEPT ![r] = {e \in Events : at[e] > cursor[r]}]
  /\ UNCHANGED <<fun, business, rows, cursor, began, claims, outcome, due>>

\* external_event_id is unique: an event that is there already stays as it is.
Ingest(r) ==
  /\ pc[r] = "Store"
  /\ \E e \in found[r] :
       /\ found' = [found EXCEPT ![r] = @ \ {e}]
       /\ status' = [status EXCEPT ![e] = IF Stored(e) THEN @ ELSE "PENDING"]
       /\ due' = [q \in Runtimes |-> due[q] \ {e}]
  /\ UNCHANGED <<fun, business, token, aged, pc, cursor, began, claims, outcome>>

\* Mutant of Claimable: a postponed event is not claimed again.
ClaimableOnce(e) == status[e] = "PENDING" \/ (status[e] = "CLAIMED" /\ e \in aged)

Claimable(e) ==
  \/ status[e] = "PENDING"
  \/ status[e] \in {"RETRY_PENDING", "CLAIMED"} /\ e \in aged

\* One transaction claims all that is claimable.
ClaimEvents(r) ==
  /\ pc[r] = "Store" /\ found[r] = {} /\ Goto(r, "Dispatch")
  /\ LET claimed == {e \in Events : Claimable(e)} IN
       /\ claims' = [claims EXCEPT ![r] = claimed]
       /\ status' = [e \in Events |-> IF e \in claimed THEN "CLAIMED" ELSE status[e]]
       /\ token' = [e \in Events |-> IF e \in claimed THEN r ELSE token[e]]
       /\ aged' = aged \ claimed
  /\ UNCHANGED <<fun, business, cursor, began, found, outcome, due>>

\* Claims are dispatched in the order of received_at.
Current(r, e) == e \in claims[r] /\ \A f \in claims[r] : at[e] <= at[f]

-----------------------------------------------------------------------------
\* Handlers.

Dispatching(r, e) == pc[r] = "Dispatch" /\ Current(r, e)

Conclude(r, result) ==
  /\ Goto(r, "Mark")
  /\ outcome' = [outcome EXCEPT ![r] = result]
  /\ UNCHANGED <<fun, rows, cursor, began, found, claims, due>>

\* Mutant of PostponePaidOrder: FunPay's answer is not waited for.
DropPaidOrder(r, e) ==
  /\ Dispatching(r, e) /\ e \in PaidEvents /\ ~ready
  /\ Conclude(r, "failed") /\ UNCHANGED business

PostponePaidOrder(r, e) ==
  /\ Dispatching(r, e) /\ e \in PaidEvents /\ ~ready
  /\ Conclude(r, "retryable") /\ UNCHANGED business

RefuseIncomplete(r, e) ==
  /\ Dispatching(r, e) /\ ready /\ e \in Incomplete
  /\ e \in PaidEvents \cup CodeEvents
  /\ Conclude(r, "failed") /\ UNCHANGED business

\* accept_order: an order that is there already keeps its row.
AcceptPaidOrder(r, e) ==
  /\ Dispatching(r, e) /\ ready /\ e \in PaidEvents \ Incomplete
  /\ \E result \in {"Reserved", "Blocked"} :
       rental' = [rental EXCEPT ![OrderOf[e]] = IF @ = "None" THEN result ELSE @]
  /\ Conclude(r, "processed") /\ UNCHANGED otpOps

RefuseCode(r, e) ==
  /\ Dispatching(r, e) /\ e \in CodeEvents /\ ~ready
  /\ Conclude(r, "failed") /\ UNCHANGED business

\* Events of other types, other messages, and codes for a rental not active.
Ignore(r, e) ==
  /\ Dispatching(r, e) /\ e \notin PaidEvents
  /\ e \in CodeEvents =>
       ready /\ e \notin Incomplete /\ rental[OrderOf[e]] # "Active"
  /\ Conclude(r, "processed") /\ UNCHANGED business

\* Mutant of SeeActiveRental: any order of the buyer will do.
SeeAnyRental(r, e) ==
  /\ Dispatching(r, e) /\ ready /\ e \in CodeEvents \ Incomplete
  /\ rental[OrderOf[e]] # "None"
  /\ Goto(r, "Insert")
  /\ UNCHANGED <<fun, business, rows, local, due>>

SeeActiveRental(r, e) ==
  /\ Dispatching(r, e) /\ ready /\ e \in CodeEvents \ Incomplete
  /\ rental[OrderOf[e]] = "Active"
  /\ Goto(r, "Insert")
  /\ UNCHANGED <<fun, business, rows, local, due>>

\* Mutant of CreateSendOtp: the idempotency key is the order's id.
CreateSendOtpByOrder(r, e) ==
  /\ pc[r] = "Insert" /\ Current(r, e)
  /\ otpOps' = otpOps \cup {OrderOf[e]}
  /\ Conclude(r, IF OrderOf[e] \in otpOps THEN "failed" ELSE "processed")
  /\ UNCHANGED rental

\* create_send_otp, in a transaction after the one that saw the rental; the
\* operation's idempotency key is the event's id.
CreateSendOtp(r, e) ==
  /\ pc[r] = "Insert" /\ Current(r, e)
  /\ otpOps' = otpOps \cup {e}
  /\ Conclude(r, IF e \in otpOps THEN "failed" ELSE "processed")
  /\ UNCHANGED rental

Handle(r) ==
  \E e \in Events :
    \/ PostponePaidOrder(r, e)
    \/ RefuseIncomplete(r, e)
    \/ AcceptPaidOrder(r, e)
    \/ RefuseCode(r, e)
    \/ Ignore(r, e)
    \/ SeeActiveRental(r, e)
    \/ CreateSendOtp(r, e)

-----------------------------------------------------------------------------
\* Marks, each in a transaction of its own after the handler's.

NextClaim(r, e) ==
  /\ pc[r] = "Mark" /\ Current(r, e) /\ Goto(r, "Dispatch")
  /\ claims' = [claims EXCEPT ![r] = @ \ {e}]
  /\ outcome' = [outcome EXCEPT ![r] = "None"]
  /\ UNCHANGED <<fun, business, cursor, began, found, due>>

Owns(r, e) == status[e] = "CLAIMED" /\ token[e] = r

MarkProcessed(r, e) ==
  /\ outcome[r] = "processed" /\ NextClaim(r, e)
  /\ status' = [status EXCEPT ![e] = IF Owns(r, e) THEN "PROCESSED" ELSE @]
  /\ UNCHANGED <<token, aged>>

\* Mutant of MarkRetryable: the claim is not looked at.
MarkRetryableUnowned(r, e) ==
  /\ outcome[r] = "retryable" /\ NextClaim(r, e)
  /\ status' = [status EXCEPT ![e] = "RETRY_PENDING"]
  /\ token' = [token EXCEPT ![e] = NoRuntime]
  /\ aged' = aged \ {e}

MarkRetryable(r, e) ==
  /\ outcome[r] = "retryable" /\ NextClaim(r, e)
  /\ IF Owns(r, e)
     THEN /\ status' = [status EXCEPT ![e] = "RETRY_PENDING"]
          /\ token' = [token EXCEPT ![e] = NoRuntime]
          /\ aged' = aged \ {e}
     ELSE UNCHANGED rows

\* mark_failed_closed looks at the token only, not at the status.
MarkFailedClosed(r, e) ==
  /\ outcome[r] = "failed" /\ NextClaim(r, e)
  /\ status' = [status EXCEPT ![e] = IF token[e] = r THEN "FAILED_CLOSED" ELSE @]
  /\ UNCHANGED <<token, aged>>

Mark(r) ==
  \E e \in Events : \/ MarkProcessed(r, e)
                    \/ MarkRetryable(r, e)
                    \/ MarkFailedClosed(r, e)

\* Mutant of EndCycle: last_poll_at is the time at which the cycle ends.
EndCycleNow(r) ==
  /\ pc[r] = "Dispatch" /\ claims[r] = {} /\ Goto(r, "Idle")
  /\ cursor' = [cursor EXCEPT ![r] = posts]
  /\ Forget(r)
  /\ UNCHANGED <<fun, business, rows, due>>

\* The e-mail and operation steps of the cycle change nothing of this module.
EndCycle(r) ==
  /\ pc[r] = "Dispatch" /\ claims[r] = {} /\ Goto(r, "Idle")
  /\ cursor' = [cursor EXCEPT ![r] = began[r]]
  /\ Forget(r)
  /\ UNCHANGED <<fun, business, rows, due>>

CycleStep(r) ==
  \/ BeginCycle(r)
  \/ PollNotReady(r)
  \/ PollEvents(r)
  \/ Ingest(r)
  \/ ClaimEvents(r)
  \/ Handle(r)
  \/ Mark(r)
  \/ EndCycle(r)

Next ==
  \/ \E e \in Events : Post(e) \/ LeaseSecondsPass(e)
  \/ LoseHealth
  \/ RegainHealth
  \/ RentalsMove
  \/ \E r \in Runtimes : \/ Start(r)
                         \/ Crash(r)
                         \/ FailCycle(r)
                         \/ CycleStep(r)

Spec == Init /\ [][Next]_vars

\* The host restarts a runtime that stopped, its loop runs on, time passes.
Fairness ==
  /\ \A e \in Events : WF_vars(LeaseSecondsPass(e))
  /\ \A r \in Runtimes : WF_vars(Start(r)) /\ WF_vars(CycleStep(r))

FairSpec == Spec /\ Fairness

-----------------------------------------------------------------------------
\* Properties.

Complete(e) == e \in PaidEvents \ Incomplete

\* A paid order whose event is closed, in whatever way, has its order row: no
\* outage of FunPay, crash or second claimant closes the event of an order
\* that was not taken (dispatch_pending marks after the handler's commit).
ClosedPaidHasOrder ==
  \A e \in Events :
    Complete(e) /\ status[e] \in Final => rental[OrderOf[e]] # "None"

\* A login code is only ever asked for an order whose rental has started; the
\* check and the insertion are two transactions (_handle_buyer_message).
OtpForStartedRental ==
  \A e \in otpOps : rental[OrderOf[e]] \in {"Active", "Over"}

\* An event that came while the runtime was up, and FunPay READY ever since,
\* is in the database when last_poll_at passes it: what comes during a cycle,
\* or before a cycle that fails, is polled by the next one.
NothingPassedOver ==
  \A r \in Runtimes : \A e \in due[r] : at[e] > cursor[r]

\* A closed event stays as it was closed, even when the claimant that lost it
\* finishes late (the tokens of mark_processed, mark_retryable and
\* mark_failed_closed).
ClosedIsFinal ==
  [][\A e \in Events : status[e] \in Final => status'[e] = status[e]]_vars

\* FunPay is READY from some time on and the runtimes neither crash nor raise
\* (with nothing left to do and no event since, a cycle that raises is one
\* that ends).
Settled ==
  /\ <>[]ready
  /\ <>[][\A r \in Runtimes : ~Crash(r) /\ (FailCycle(r) => EndCycle(r))]_vars

\* Once things have settled, every paid order that was ever stored is taken
\* or blocked: no crash, failed cycle, outage or delayed retry loses it.
PaidOrderIsTaken ==
  Settled => \A e \in Events :
    (Complete(e) /\ Stored(e)) ~> (rental[OrderOf[e]] # "None")

=============================================================================
