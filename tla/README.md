# WarThunder-rent-bot: a TLA+ model of the rental lifecycle

The bot rents out War Thunder accounts that are sold as FunPay lots. A paid
order reserves an account, takes its lots off sale, sends the buyer the
credentials and, when the time is over or a security e-mail comes in, revokes
the Pixel Storm sessions, changes the password and puts the lots back on sale.
Everything that the bot must not forget is a row of one SQLite database; every
external effect runs outside of a transaction, under a claim token with a lease.
Whatever the bot is not sure of ends in `MANUAL_REVIEW`, where only a person
goes on.

This directory holds TLA+ modules of that behaviour, the TLC configurations that
check them and the TLAPS proofs about them. `PROJECT.json` is the index: runs,
theorems, the source lines of every definition, hazards and findings.

    tlc -workers 2 -config MCRentalLifecycle.cfg MCRentalLifecycle
    tlapm RentalLifecycleProofs.tla

## 1. Inventory of the system

| Component (under `src/app`) | State it keeps | Operations | Status |
|---|---|---|---|
| Domain state machine: `domain/states.py`, `domain/transitions.py` | none; two tables of legal transitions | `require_account_transition`, `require_rental_transition` | `States` |
| Rental lifecycle: `persistence/repositories.py` | `accounts`, `orders`, `rentals`, `operations` | `reserve_order`, `claim_operation`, `prepare_operation`, `operation_completed`, `operation_failed`, `expire_due`, `record_active_security_event`, `reconcile`, `extend_active_rental` | `RentalLifecycle` (without the extension) |
| Claims and leases: `repositories.py`, `application/lease_guard.py` | `lease_until`, the two claim tokens, `security_state` and the request times of an operation; a heartbeat thread per call | claims, fences, heartbeat, waits, `recover_expired_leases` | `OperationLease` |
| Operation execution: `application/rental_manager.py` | none | `run_operations`, `recover_message_receipts`, the senders | control in `RentalLifecycle` and `OperationLease`, lots in `LotControl`, the credentials it sends in `CredentialCustody` |
| Pixel Storm security: `application/pixelstorm_security.py` | `security_state`; the remote password; pending and current secret | `execute_revoke`, `execute_rotate` | rotation in `CredentialCustody`, the use of the claim in `OperationLease` |
| Startup: `application/startup_reconciliation.py` | none | receipts, lots, recovery claims, quarantine, sweep | rows, claims, lots, receipts and rotations, each in its module |
| FunPay intake: `application/funpay_dispatcher.py`, `persistence/funpay_events.py` | `funpay_events`, `message_receipts` | ingest, claim, dispatch, retry | `FunPayIntake`; receipts in `CredentialCustody` |
| Scheduler, runtime: `application/runtime.py`, `scheduler.py` | `last_poll_at` | `run_once`, `reconcile_startup` | each step an action, the cycle is the fairness; the cursor in `FunPayIntake` |
| E-mail and login codes: `gmail_watcher.py`, `otp_service.py`, `pixelstorm_otp.py`, `password_rotator.py`, `email_event_dispatcher.py`, `security_monitor.py`, `persistence/classified_email_events.py` | `classified_email_events`, `processed_messages`, `otp_requests`, the ephemeral secret store | ingest, claim, consume, security events | `EmailPipeline` |
| Lot publication: the lot operations of `rental_manager.py`, `startup_reconciliation.py`, `lot_drift_check` | on/off of each lot at FunPay | disable, enable, verify, the drift gate | `LotControl` |
| Secret vault: `adapters/production_stores.py` | one encrypted file | get, set, promote | credentials in `CredentialCustody`, e-mail secrets in `EmailPipeline` |
| Production host: `production.py`, `main.py` | instance lock, back-off, health | start, cycles, shutdown, checks, back-up, clean-up | row checks as properties, the drift gate in `LotControl`, crash and start everywhere |
| Adapters, fakes, sandbox, settings, migrations, templates | — | transports, parsing, test doubles, DDL, wording | not modelled |

**How they interact.** One cycle (`ApplicationRuntime.run_once`) quarantines what
has lapsed, polls FunPay and dispatches its events, polls Gmail and dispatches
its security events, expires due rentals and runs the pending operations, all
with one `now`. The parts share nothing but the database: a cycle of another
process, a startup, or a step left over from a worker that stalled may come
between any two transactions. The two external facts that come back on their own
are FunPay events and e-mails.

**What is hard.** (1) Transactions of several workers and of startup interleave,
and rows are read in one and used in the next. (2) An external call cannot be
rolled back; a worker may die or stall before, during and after it, and another
one takes over when the lease has passed. (3) A cycle's `now` grows stale while
its calls take time; only the fences read the clock anew. (4) A security
operation gives its row back while it waits for an e-mail, and is resumed by
whoever comes first. (5) Quarantine treats everything that lapsed in one
transaction. (6) Two stores, database and vault, change in an order a crash may
cut anywhere. `PROJECT.json` lists each of these hazards at its line.

**What makes each component correct.**

- *Lifecycle*: one buyer per account; the rows of a rental agree; nothing is
  stranded; a new password between two buyers; review is final; every accepted
  order ends; what lapsed can be quarantined; the rows pass the checks of start-up.
- *Claims*: by its own token only the last claimant acts; guarded calls do not meet unless
  a claim is passed by; no running operation out of the quarantine's reach; every
  running operation ends; tokens do not outlive it; a wait can be resumed.
- *Lots*: off from delivery until the account is put back on sale; all on when it can be
  rented; on otherwise only where the rows say why.
- *Rotation and delivery*: the password change is requested at most once; the vault
  holds the password in force; the buyer of a running rental has it, and nobody
  who had the account before; every rental ends.
- *Intake*: an event counts once and stays closed; a paid order is closed only when
  it was taken, and taken in the end; polling passes nothing over while FunPay is READY.
- *E-mail*: a code or link is used once, by the one it was meant for as far as the
  cycle's time tells, and is not left behind; a security mail is not forgotten while its
  buyer goes on.

## 2. Modules

| Module | What it is |
|---|---|
| `States` | statuses and transition tables |
| `RentalLifecycle` | the business rows; one action per transaction |
| `ExclusiveRental` | what the bot promises, over four variables; `RentalLifecycle` implements it |
| `OrderLife` | how an order may go on: what `FunPayIntake` assumes of the rentals and `RentalLifecycle` implements |
| `RentalLifecycleProofs` | TLAPS proofs about `RentalLifecycle` |
| `OperationLease` | the claim of one security operation by several workers |
| `OperationLeaseProofs` | TLAPS proofs about `OperationLease` |
| `FunPayIntake` | FunPay's events, from the poll to the mark |
| `FunPayIntakeProofs` | TLAPS proofs about `FunPayIntake` |
| `EmailPipeline` | the mails of one account, from Gmail to who uses them |
| `EmailPipelineProofs` | TLAPS proofs about `EmailPipeline` |
| `LotControl` | the lots at FunPay and the process that switches them, composed with `RentalLifecycle` |
| `LotControlProofs` | TLAPS proofs about `LotControl` |
| `CredentialCustody` | the passwords at Pixel Storm, in the vault and with the buyers, composed with `RentalLifecycle` |
| `CredentialCustodyProofs` | TLAPS proofs about `CredentialCustody` |
| `PasswordPromiseProofs` | TLAPS proofs that its passwords implement `ExclusiveRental` |
| `MCRentalLifecycle`, `MCCredentialCustody`, `MCOperationLease`, `MCFunPayIntake`, `MCEmailPipeline`, `MCLotControl` | the instances TLC checks |

### RentalLifecycle

| Variable | Code |
|---|---|
| `account`, `credentialVersion` | `accounts.status`, `accounts.credential_version` |
| `order` | `orders.fulfillment_status`, `"NEW"` before the row exists |
| `rental`, `rentedAccount`, `rentalVersion` | `rentals.status`, `.account_id`, `.credential_version` |
| `operation` | `operations.status` of the five kinds of a rental, which `idempotency_key` makes unique |
| `otp`, `otpRental` | `operations.status` and `.rental_id` of the `SEND_OTP` operations, one per buyer message |

Every action is a whole transaction. A transaction that raises, because a
transition is not in its table or a key exists already, rolls back and is no
step; so the tables appear as guards (`MoveAccount`, `MoveRental`,
`FinishAndStart`). SQLite runs writers one after the other, and the
compare-and-set of `_transition_account` and of each claim rejects a stale
reader, hence one atomic step per transaction; where the code reads in one
transaction and writes in another, there are two actions (`SeeActiveRental`,
`CreateSendOtp`).

Two abstractions: time, where `RUNNING` becomes `"LAPSED"` when the lease, or the
deadline of a wait, has passed and an `ACTIVE` rental may be due at any moment;
and the identity of the worker, which is `OperationLease`'s subject. Completion
and failure are therefore allowed of any `RUNNING` row, lapsed or not: this
covers the recovery by receipts and by lot states at startup, which passes no
token at all. A lapsed operation may hence also be taken back by recovery.
The sweep of `reconcile` may run at any time, not only at startup; the runs show
that it never has anything to do. Not in the module: the expiry times, so not
`extend_active_rental`; `state_version`, which repeats what the status shows
within one transaction; `cleanup_metadata`, which deletes old completed rows.

`ExclusiveRental` says what this is all for in four actions: an account is `Let`
when everyone before has returned it, `Rekey`ed once in a rental, `Return`ed after
that, or put under review. `KeepsPromise` is the refinement: `phase` is read off
the rental's status, the other three variables are columns.

`OrderLife` is an interface: an order is taken once (`Reserved`, or `Blocked` when no
account is free), a reserved one is delivered, several may be over at once, and none goes
back. `RentalLifecycle` implements it (`KeepsOrderLife`, with `LifeOf` read off `orders` and `rentals`), and
`RentalsMove` of `FunPayIntake`, the rest of the bot as seen from the events, is made of its actions.

### OperationLease

| Variable | Code |
|---|---|
| `status`, `lease`, `normalToken`, `recoveryToken` | the columns of the `operations` row |
| `waiting` | `security_state`, as far as it is a wait |
| `requested` | `maintenance_login_requested_at`, `password_change_requested_at`, as ages |
| `pc`, `role`, `token`, `guard` | where a worker is in `run_operations` or `StartupReconciliation.run`, and the tokens in its local variables |
| `age` | how stale its `now` is |
| `heart` | the heartbeat thread of the call in flight: beating, `SideEffectLeaseGuard._lost` set, or dead |
| `covered`, `owner`, `breach` | history: the lease the call last wrote, the last claimant, whether a claim was passed by |

Times are relative to the clock: `Tick` shortens every lease and ages every
`now`. All differences that the code compares are kept exactly, up to the
bounds after which they compare the same for ever (`Oldest`, `NoTime`), so the
state space is finite without a bound on the length of a run. A worker is one
cycle, or one start: it takes the operation once and is then `"Done"`, as the code
makes a new token for every claim. `RecoverExpiredLeases` takes a stale `now`
of its own, because any process calls it in every cycle without a claim.

`Decide`, `RecordRequest`, `SetProgress`, `StartCall` and `Wait` are the steps from
which `revoke`, `rotate` and `_ensure_authenticated` are made, in any order the
row's marks permit; what the calls do to the remote account is left to
`CredentialCustody`.

`"Calling"` is a call under `SideEffectLeaseGuard`, with its fence and its heartbeat. `health`,
`inspect_security_capabilities`, `verify_credentials` and `verify_revocation` have neither: they
are part of `"Working"`, in which a worker may stay while any lease runs out, and write the row
without a fence afterwards. A claim may be made with a `now` that is older than its lease
(`MaxAge` is larger than `NormalLease`), and is then born lapsed.

That only one worker is ever at work, or in a call, is therefore *not* so. There are three ways past a
claim, which `breach` records (`Breaching`): an overtaken worker marks progress or waits, which moves
the lease or clears the token of the one that took over; `prepare_operation` hands a worker a token it has not
claimed with; and a heartbeat whose renewal raises ends its thread without setting
`_lost`. `ExclusiveUnlessBreached` says that there is no fourth, and
`LatestClaimActs` what even the late worker cannot do: by the token of its claim it begins no guarded call and ends no
operation once another has claimed. `lease_stalls` shows the second way at work. In production the
instance lock keeps two processes apart, so that an overtaken worker is a rare guest; the lock is
not the claims' doing, and the documentation calls the claims the authority.

### CredentialCustody

| Variable | Code |
|---|---|
| `remote` | Pixel Storm: the password that opens an account |
| `link`, `requests` | the reset mail of a rotation; history: how often it has asked for a change |
| `current`, `pending`, `minted` | the vault's `credentials:` and `pending-credentials:` entries; the last password `generate` made for the account |
| `mark`, `asked`, `held` | `security_state`, `password_change_requested_at` and the claim tokens of the rotation's row |
| `told`, `receipt` | FunPay: the password in the message to a buyer, and what it says of that message |
| `up`, `work`, `step`, `recovery` | the process, the operation it executes, where it is in it, and whether as startup recovery |

A composition again: the rows change by the transactions of `RentalLifecycle` only,
which counts generations of passwords; here are the passwords themselves. Three
stores (Pixel Storm, vault, database) and FunPay change one after the other: each
remote call, each write of the vault's file and each transaction of `rotate` and
`_send_credentials` is an action of its own, and `Kill` and `Abandon` may come
between any two. `promote_pending_credentials` is two of them. Passwords are numbers
in the order they were made, since the generator repeats itself with negligible
probability. Only the bot changes a password, as the confirming mail goes to it;
a buyer's sessions are a matter of `REVOKE_SESSIONS` and not in here.

Pixel Storm may refuse any check, change the password and answer that it did not, or
ask for a mail that never comes; FunPay may deliver without a receipt. A session
that is good spares `Authenticate` the login. One process, the holder of the instance lock, works
here, and it quarantines before it executes: it never judges the lease of what it is executing,
however late that is, so this lease need not lapse here; that of anything else may at any time. Two workers
that overtake each other are `OperationLease`'s subject. The passes of a start (receipts, recovery claims, quarantine) may come in any
order, and a start may pass over what the code would have recovered: more
behaviours than the code has. The start-up checks that refuse a database
(`lease_claims`, and `waiting_without_time`) are left out: here a start always comes about.

`PasswordPromise` is `ExclusiveRental` once more, with Pixel Storm's password in the
place of the counted generation: that the count and the password change hand in
hand, seen from outside, is what the composition has to show. With code requests, as the bot
always has them: `FailOtp` may send a rental to review while its rotation runs, and the password is changed after
that, so `Rekey` is a step of a rental under review as well, once as of any other.

Three things that reading the code for it brought up and no property calls wrong. After an unclean
start with a pending password the code verifies it and may complete the rotation, where
`docs/phase_0_architecture.md` demands an immediate review: `FormerBuyersLockedOut` says that
this is safe. A recovery that comes after the promotion and finds its session lost overwrites the
mark by `WAITING_LOGIN_OTP`; when it is resumed nothing tells it that the work is done,
it makes a new pending password, does not ask for a second change since it
asked once, waits for a mail that is used up, and ends under review by its
deadline. The same document has `PROMOTED --> COMPLETED` as the only way on. And a process that
dies after it has resumed a wait leaves its token there: neither a cycle nor a start
may take the wait up again, though the comment at
`startup_reconciliation.py:58` says that the regular worker will; only its deadline ends it
(`StrandedByDeathOnly`, `EveryRentalEnds`).

### FunPayIntake

| Variable | Code |
|---|---|
| `at`, `posts`, `ready` | FunPay: its events in the order of `received_at`, and `health()` |
| `status`, `token`, `aged` | `funpay_events.processing_status`, `.claim_token`; whether `claimed_at` (or `updated_at` of a retry) is 30 s ago |
| `rental`, `otpOps` | what the handlers read and write: the rental of each order, the `SEND_OTP` keys |
| `pc`, `found`, `claims`, `outcome` | where a runtime is in `run_once` and its local variables |
| `cursor`, `began` | `last_poll_at`, the cycle's `now`; both as places in FunPay's list |
| `due` | history: the events a runtime has yet to store |

Each transaction is an action: every single `ingest`, the claim of all that is
claimable, each handler, each mark. `CreateSendOtp` follows `SeeActiveRental` in a
transaction of its own. `FailCycle` may happen anywhere in a cycle, `Crash` too; the
supervisor and the host start again. Claim tokens are named by the runtime: within
a dispatch it claims an event once, and when it claims again all older claims
are forgotten. `mark_failed_closed` looks at the token only, as the code does. The
`attempt_count`, which nothing reads, and the notifications are left out. This module
knows of a rental only how far it is; the rest of its life is `RentalsMove`.

### EmailPipeline

| Variable | Code |
|---|---|
| `phase`, `rental`, `asked`, `turned` | the account: rented, revoking, rotating; which requests the running operation has marked; whether this cycle has begun a rental or ended a rotation |
| `recent` | the mails that came since the `now` of the running cycle |
| `type`, `heard`, `since` | a mail: its classification; when it came (history); which milestones `received_at` is not before, within the window |
| `state`, `claimedBy`, `token`, `correlation` | columns of `classified_email_events` |
| `security`, `secToken`, `aged` | its `security_*` columns; whether `security_claimed_at` is 30 s ago |
| `payload`, `expired`, `orphans` | the secret store: of events, and of what no event names |
| `step`, `on`, `answer`, `secClaims` | the local variables of a runtime |
| `given`, `takes`, `alerts` | history of secrets handed out; the audit rows of alerts |

Database and secret store are separate, so every use of a secret is three steps
(claim, `consume_once`, mark) and `Stop` may come between any two. `SeeMessage` reads
the correlation before the event is stored, as `poll_once` does. A mail is seen again
any number of times. The queries' oldest-first order, the look-back and the
request interval of a buyer only narrow what may be claimed and are left open.
`NextOperation` stands for the completions that `RentalLifecycle` has in full.

The code dates everything with the `now` that `run_once` was called with: `started_at`
(`repositories.py:840`), the request of a login code (`pixelstorm_security.py:289`) and of a reset
(`pixelstorm_security.py:195`). So a mail that came after the cycle began and before
the step counts as later than it (`recent`, `Requested`, `StartRental`), and a login
looks at mail up to that `now` only. The other way round, `heard` tells mail of the cycle that began a rental
(`"Starting"`) or ended it (`"Ending"`) from mail of the rental itself. One process moves the account, as it
holds the instance lock: `BeginCycle` comes when its last cycle is over, orders are accepted before the
operations of a cycle and rentals expire before them. The workers that see, claim and dispatch mail
overlap without regard to its cycles.

### LotControl

| Variable | Code |
|---|---|
| `on` | FunPay: which lots of an account are on sale |
| `up` | a `ProductionRuntime` runs, with the instance lock |
| `todo` | where the loop over `running_operations` of `StartupReconciliation.run` is |
| `work`, `result` | where `run_operations` is in a lot operation, and what its call has returned |

A composition: every action is one of `RentalLifecycle`, with what it does to the lots,
or a step of a call that leaves the rows alone. `disable_lots` and `enable_lots` are
not atomic: they switch a lot at a time (`SwitchLot`), may stop anywhere (`CallReturns`,
`AbandonLots`, `Kill`), and report success only when all lots have been seen as
wanted. As one process holds the lock and its cycle is sequential, the rest of the
bot (`OtherStep`) rests while a call is made; a step of another process that stalls is
`OperationLease`'s subject. Recovery of message receipts comes before the lots in the
code; `RecoverReceipts` may also come between them. A FunPay that tells the states of some lots
only, or of none, is the parameter of `Start`. Nobody else is assumed to switch lots, and no
switch to take effect after its call has returned. `enabled_expected` is never changed and is left out.

## 3. Runs

Bounds: every constant of a run is in its `.cfg`.

| Run | Instance | What it shows |
|---|---|---|
| `rental_lifecycle` | 2 accounts, 3 orders, 2 code requests, symmetric | all safety properties, `OnlyCodesBlockQuarantine`, `KeepsPromise` and `KeepsOrderLife`; 162 406 states |
| `credential_custody` | 2 accounts, 2 orders, 1 code request, symmetric | the safety properties of the passwords and `KeepsPasswordPromise`; 2 836 965 states |
| `custody_ends` | 1 account, 2 orders, no code request | `EveryRentalEnds` under fairness; 13 839 states |
| `otp_poison` (violation) | 1 account, 1 order, 1 code request | the quarantine cannot commit any more |
| `operation_lease` | 2 workers, leases of 2 and 3 ticks, wait of 2, `now` up to 3 ticks old | who may act, when calls can meet, deadlines, termination, who strands a wait; 143 212 states |
| `lease_stalls` (violation) | the same with 3 workers | an operation is ended by a worker that does not own it: a claim that is born lapsed is enough |
| `lease_claims` (violation) | the same with 3 workers | a token outlives its operation, and the next start is refused |
| `funpay_intake` | 2 runtimes, 1 paid order, 1 code message | the safety properties of intake; 4.3 million states |
| `funpay_retry` | 1 runtime, 2 paid orders, one of them incomplete | `PaidOrderIsTaken` under fairness; 26 010 states |
| `email_pipeline` | 2 runtimes, 1 mail of any type, 2 rentals | the safety properties of the mail; 1 544 817 states |
| `lot_control` | 2 accounts of 2 lots, 3 orders, 1 code request, symmetric | the safety properties of the lots; 119 352 states |
| `review_lots` (violation) | 1 account of 1 lot, 1 order, 1 code request | lots that are put on sale under review |

Three orders on two accounts make an account be let again while another rental
of it is finished, and two rentals run side by side; the third rental is what a
violation of `NoDoubleAllocation` or of the generations needs after a first
return. A third account would behave as the second does: accounts do not
interact but through `RecoverExpiredLeases` and `ExpireDue`, for which two are
enough. Two code requests put a lapsed `SEND_OTP` beside a lapsed lifecycle
operation and beside another `SEND_OTP` of the same rental. The theorems say the
same for any number.

In `operation_lease` the recovery lease is longer than the normal one, as in the
code (five minutes against thirty seconds), and a `now` may be older than either lease: a claim may be born lapsed, and
a look at the site may outlast what the worker has written. Two workers are
an overtaken, or dead, one and the one that took its operation over; quarantine is a third actor,
and a worker that gives up before its claim (`EndCycle`) is fresh again. The violation runs have three.
The safety properties are proved for any number and any ages. No symmetry is used in
runs with a liveness property.

In `funpay_intake` the paid order and the message name the same order, so that the
message may overtake the order, and each event may be polled, claimed and marked by
both runtimes, each of which may be late by any number of the other's cycles. A third
runtime finds what a second one finds: claims of one event exclude or outdate each
other in pairs. The proofs are for any numbers. In `email_pipeline` one mail is
enough, as all properties speak of one mail and mails meet only in `phase`,
which moves freely; two rentals give the former and the next buyer, two runtimes
the dead or late claimant and its successor.

In `lot_control` two lots are what a call needs to stop half-way; a third adds no other
kind of state (none, some, all). Two accounts show a switch at the wrong one, three
orders an account that is let again, and the code request a failure that sends an account to
review beside a lot operation.

In `credential_custody` two orders let one account twice (a former buyer and the next)
or two accounts at once, and the code request sends an account to review beside a rotation; a third order would
need the account to be let and returned a third time, with the same vault, where only the greatest
password and the last one matter. The proofs are for any number. `custody_ends` needs one account, since
rentals of different accounts meet only in the process they share and in the quarantine, and no code request,
since with one the quarantine may never commit (`otp_poison`), nor then would a lapsed
rental end.

In `rental_lifecycle` deadlock is checked too: `Reconcile` is enabled always, so
this says nothing of progress, which `EveryRentalEnds` is about.

### Fairness

- `CustodyFairness`: a process that is down is started and a start comes to its end (weak
  fairness); an operation that is executed goes on to its end, as every call has a timeout
  (weak); each rental's next operation is claimed in some cycle, its due time comes, a
  lease or the deadline of a wait that nobody keeps up passes, and lapsed work is
  quarantined (strong, since the process is busy with other work in between and a start
  may take lapsed work back, though not for ever). FunPay is READY. That any step *succeeds* is not
  assumed, nor that any mail comes. `EveryRentalEnds` itself assumes that the process is
  killed finitely often.
- `OperationLease!Fairness`: time passes; a cycle with a fresh `now` quarantines;
  a worker that is not dead goes on; an external call returns (every adapter call
  has a timeout) and an operation makes finitely many of them (strong fairness of
  `Decide`). Workers are not assumed to survive: `Crash` is possible anywhere.
- `Timely`, in `TimelySpec`: the clock does not pass the lease of a guarded call while the thread of its
  heartbeat lives. It renews every five seconds a lease of thirty, or of five minutes. Nothing is
  assumed of a worker outside a guarded call, however long it looks at the site, nor of a call whose heartbeat has died,
  or seen its claim gone. `ExclusiveUnlessBreached` needs it; `LatestClaimActs`, `StrandedByDeathOnly` and
  `HasDeadline` are proved without it.
- `FunPayIntake!Fairness`: time passes, a runtime that is down is started, its loop
  runs on (`run_forever`). `PaidOrderIsTaken` further assumes, in its own statement
  (`Settled`), that FunPay is READY and cycles neither crash nor raise from some time on.

### What the drift gate does

`DriftIsExplained` says when lots are on for an account that is not `AVAILABLE`: under
review, before `DISABLE_LOTS` is over, or while `ENABLE_LOTS` runs. All of these are
reachable, which has two consequences that the documentation does not mention. `start`
asks `lot_drift_check` *before* `reconcile_startup`, so after a crash in one of these states
it is refused as long as FunPay answers, and the recovery of
`tests/integration/test_phase3_startup_recovery.py` does not come to its turn. And
lots do not always "stay off" in `MANUAL_REVIEW` (`docs/phase_6_production_hardening.md:56`):
a `DISABLE_LOTS` that is refused, and an `ENABLE_LOTS` that is not verified, leave some on,
and `review_lots` shows that the bot even puts some on.

### Findings

1. **One late login-code request blocks the quarantine** (`otp_poison`). A
   `SEND_OTP` may outlive its rental. Once it lapses, `recover_expired_leases`
   tries to move a `FINISHED` or reviewed rental to `MANUAL_REVIEW`, raises, and
   rolls back the quarantine of all other lapsed work as well, on every cycle and
   on every start. Nothing else can stop it: `OnlyCodesBlockQuarantine` names the codes that do,
   in `rental_lifecycle` and, for any number of them, in `QuarantineCommits`.
2. **An overtaken worker ends what it does not own** (`lease_stalls`). The token a
   worker works with is read after its claim, and a NULL is compared with nothing. No
   stall is needed: late in a long cycle a claim is written with a lease that is over
   already, so that recovery may take it before `prepare_operation`.
3. **Recovered operations keep a token** (`lease_claims`), which the consistency
   check of the next production start calls critical.
4. **Lots go on sale under review** (`review_lots`). A `SEND_OTP` that fails, or is
   quarantined, while `ENABLE_LOTS` is pending sends the account to `MANUAL_REVIEW`;
   `prepare_operation` does not look at the account, so the next cycle executes
   `ENABLE_LOTS`. Its completion raises (the rental may not become `FINISHED` any more)
   and rolls back: the lots stay on sale, the operation lapses and blocks the
   quarantine as in 1, and the drift gate refuses the next start.

Six more that no run is spent on. `put` of the secret store writes a payload and then its expiry,
and `purge_expired` goes by the expiries: a crash in between leaves a code or a reset link in
the store for ever (the `orphans` of `EmailPipeline`), where `docs/phase_0_architecture.md:67` says
that the TTL purge removes it. And `waiting_without_time` (`production.py:787`) refuses to start on a
`WAITING_` state without a request time, which `wait_for_buyer_otp`
(`repositories.py:490`) writes as a matter of course.

Two are about mail, and are what `EmailPipeline` allows where one might wish for more. The docstring of
`claim_maintenance_login_otp` (`classified_email_events.py:246`) promises a code "without touching
buyer-rental OTPs". As the request is dated at the cycle's `now` (`pixelstorm_security.py:289`), a code
the buyer had sent for himself after the cycle began, and before the operation of that
cycle that asks for the bot's, is a candidate when the next cycle looks; `HandedToItsParty` allows
the mail of that one cycle (`"Ending"`, and `"Starting"` at the other end) and no more. And nothing ties a security mail to the
rental it came in: one whose dispatch failed is tried again, and if its buyer's rental is
over by then it ends that of the next buyer (`Alert`).

The last two concern times, which `RentalLifecycle` leaves out. `_send_credentials` formats
`rental.expires_at` into the buyer's message (`rental_manager.py:223`) before the completion sets it:
until then it is the moment of the reservation (`repositories.py:159`; the duration is added at
`repositories.py:843`), so the message says "Доступ активирован до" a moment already past. And
`expire_due` selects the due rentals first, while its conditional update asks only for the status
(`repositories.py:627-643`): an extension committed between the two would be ended with
the old expiry. Only tests call `extend_rental` at this commit.

## 4. Proofs

**RentalLifecycleProofs** assumes only `SentinelsAssumption`: the two stand-ins for
"no account" and "no rental" are not accounts or orders. No set need be finite.

The safety properties are not inductive one by one. That an account is let once
needs to know why an account is `AVAILABLE`, hence that each open rental has its
account in the matching status; this needs that each operation that may be
completed belongs to a rental in the right status, and that each operation
that has not been created really has not; and the generations need all of it.
`IInv` is the conjunction of the type invariant, of `NoDoubleAllocation`,
`LifecycleAgrees`, of the agreement of the generations, and of what finished
and reviewed rentals leave behind. It is close to what the runs check: once the
rows of a rental agree, the invariant is almost its own strengthening.
`Invariance` proves it by one lemma per action. Most actions touch one rental and
its account; the lemmas share the fact that all others are on other accounts
or are settled. `RecoverExpiredLeases` and `ExpireDue` treat many rows at once.
The theorems that follow take a conjunct each; `ReviewIsFinal` is an action
property proved from the invariant (the transition `MANUAL_REVIEW` → `AVAILABLE` is in
the table, so it is the rental that stops it), and `PromiseIsKept` proves the
refinement: each action is a step of `ExclusiveRental` or a stutter, `IInv`
supplying that the account's earlier rentals are returned, and that the
generation in force is the one that was given. `OrderLifeIsKept` proves the interface: `IInv`
is needed there because the tables speak of rentals, and only the agreement of the rows
tells that what may still move is neither a new order nor a blocked one.

`QuarantineCommits` says exactly when the transaction that quarantines all lapsed work can commit, for any code
requests: `BlocksQuarantine` lists what a code may do to stop it. One direction is a look at the tables
(`CodesBlock`). The other (`NothingElseBlocks`) needs that no operation of a rental's life lapses under review on its own:
`CodesAgree` is the invariant that such an operation was left to run by a code that failed, as
`operation_failed` and the quarantine otherwise end the only operation that is in flight.

**CredentialCustodyProofs** assumes nothing beyond `SentinelsAssumption`. `RowsBehave` shows that
`CustodySpec` implements `Spec` of `RentalLifecycle`, so `IInv` holds of the rows. None of the four
properties is inductive. `CInv` adds what ties the stores together between the steps: a password
that is pending is the last one made and newer than any that was sent (`VaultAgrees`, `ToldAgrees`); the
buyers of an account have different, and older, passwords (`ToldApart`); a returned account has nothing
pending (`ReturnedIsClean`); until its revocation is over a rental has the current password and nobody prepares
another (`UseAgrees`); a mark beyond the remote change, with nothing pending, means that
the buyer's password is outdated (`MarkAgrees`, which is what lets a recovery complete without a change); and
what each step of the executing process has established (`WorkAgrees`). The proof has a lemma for
all steps that only move passwords of one account during its rotation (`VaultMoves`), and one for
those that leave the stores alone; what remains are the transactions, of which only the
completions of `SEND_CREDENTIALS`, of `REVOKE_SESSIONS` and of `ROTATE_PASSWORD` need more than that the rows agree.

**PasswordPromiseProofs** goes on from there. That the password and the generation the rows count change
hand in hand is false between the change at Pixel Storm and the completion, or for ever when the
rotation ends under review in between. `PasswordsAreCounted` says how far they may drift:
the password in force is the counted one or the next, and the next only on an account that is rotating
or under review (`PasswordsCount`). It is inductive with what the rotation's row and mail tell of the change
(`RotationsCount`: a change that was made was asked for, and leaves no link to make another; before it nothing is
marked as promoted) and with what the executing process knows (`StepsCount`). For the refinement, then, the change
itself is `Rekey`, the completion that counts it is a stutter, and an account that is let has the password that is counted,
so `AcceptOrder` is `Let`. What is left is a rotation that goes on under review. There the rows no longer
agree, but `RotationsDue` says that as long as the rotation is open, in review or not, its rental has the generation that is
counted: nobody is let that account, and another rotation of it is not open. So the change under review is the
one `Rekey` of that rental. `PasswordPromiseIsKept` has no premise.

**OperationLeaseProofs** assumes `LeaseAssumption` (natural lease lengths, the
recovery lease at least as long as the normal one) and nothing of `MaxAge`. `TypeCorrect` is more than
typing: it says that the saturating clocks keep their ranges. For `NothingWaitsForEver` the
invariant needs, besides the types, that a `PENDING` operation has not begun to wait.

All but one of the theorems are about `Spec`, which assumes nothing of time: workers, looks and heartbeats may
be as late as they like. `LInv` is what remains true of tokens then. A token in the row, a
recovery's before a normal one, is the latest claimant's (`TokensAreLatest`); it is that of a worker that has claimed, and of that
kind (`TokensAreClaimed`); the latest claimant finishes with its own token or none
(`OwnerFinishes`); a recovery that is about to release has cleared the other token (`ReleaseHolds`). None of them is inductive alone.
`OnlyTheLatestActs` follows, since the fences and the two ends compare tokens; so does `OnlyDeathStrands`.

`CallsMeetOnlyAfterABreach` is about `TimelySpec`. While nothing was breached, a call in
flight has the row's token and a lease that outlasts what it has written (`CallsAreHeld`), since
nobody else writes the row; and nobody else is granted a claim while they are there (`HeldIsAlone`). `Timely` is
used in one step, `Tick`. A worker that was quarantined may still be in its call, but nobody else can claim a
row that is not `RUNNING`.

**FunPayIntakeProofs** assumes `IntakeAssumption` (the kinds of events, the sentinel).
`ClosedPaidHasOrder` needs that an outcome `processed` means that the handler's
transaction has committed (`HandlerTruth`), and that a late `failed` of one claimant
cannot meet the token of another: a runtime that still has a claim in hand holds
an event that has not been closed under its token (`ClaimAlive`), which also gives
`ClosedEventsStayClosed`, though `mark_failed_closed` does not look at the status.
`NothingPassedOver` needs to know where in its cycle a runtime is: what it polled is
in `found`, what came later is newer than the cycle's `now` (`DueIsAhead`). `EventsKeepOrderLife` and
`OrderLifeIsKept` are the two sides of one interface: the events and the transactions move orders
only as `OrderLife` allows, so what is proved of the events does not depend on a rental that
does something else. The composition of the two modules itself is not modelled.

**LotControlProofs** proves that the composition implements `RentalLifecycle`
(`RowsBehave`): a lot operation is claimed and ended in no other way than there, and the
steps of a call leave the rows alone. So all theorems of `RentalLifecycleProofs` hold of it,
and `IInv` serves as the part of the invariant that speaks of the rows. `LInv` adds the three
properties of the lots and `WorkAgrees`: the operation that is worked at is `RUNNING`, and a
call that has reported success has left the lots as wanted. The argument splits the steps in
three: a switch, which needs that nobody else was handed the account and has not returned it
(`RunningLots`, from `NoDoubleAllocation`); a completion, which needs what the call or the
recovery has seen; and all others, which are `Harmless` to the lots. `LotsAssumption` (an
account has lots) is not needed by any proof.

**EmailPipelineProofs** assumes `MailAssumption`. `HandedToItsParty` compares what is handed out with the
moment the mail came (`heard`), which the code does not store: it sees request times, dated at the start of a
cycle, and correlations. `RecentAgrees` says what is known of the mail of the running cycle: it came in this state
of the account, or in the one the cycle has ended. With it `SinceAgrees` says what the request times tell of
a mail, `EventAgrees` the same of a correlation that was read before the event was stored, and `WorkerAgrees` that
whoever is between its claim and the mark still has the only claim of an open event, so that a secret
that has left the store is delivered once or lost. The steps that give an account away relabel the mail of their
cycle; `MailsKept` is what all steps keep of a mail that has come, so that the rest is proved once (`OthersKeepOn`).
`SecurityMailIsKept` rests on what a worker has done before its mark: it passed the mail over when
nobody rented the account, or ended the rental.

**Model-checked only.** `EveryRentalEnds`, `OperationEnds` and `PaidOrderIsTaken` are liveness under
fairness, which the prover does not reach.

## 5. What is not modelled

The sessions that `revoke` ends at Pixel Storm and the message of a login code are choices of
outcomes. Of the mail, the request interval and the link from `SEND_OTP` to the claim are not modelled; of the vault,
the read-modify-write of its file by two processes, which the instance lock excludes; of the host,
preflight, the length of back-offs, the cool-down of notifications and the clean-up of old rows. Expiry times are not
modelled, so neither is `extend_active_rental`. Transports, DOM
scripting, e-mail classification, settings, migrations, the command line and the
wording of messages are left out: they keep no state that the properties speak of.
The fakes and the sandbox stand for services which the models take as
nondeterministic. Notifications and audit rows are left out: they have no effect on
control. `DISABLED` accounts and the public `transition_account` are not reached by
any workflow.

## 6. What is left

1. Expiry times: extension against expiry, with two open transactions and `state_version`.
2. A composition of `FunPayIntake` and `EmailPipeline` with `RentalLifecycle`, whose rentals are a view of
   theirs, and a `SEND_OTP` that waits for a mail, with the start-up check on waits without a time.
3. The supervision of the host: start order, back-off, clean-up against idempotency keys.
