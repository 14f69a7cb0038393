---------------------------- MODULE OperationLease ----------------------------
(***************************************************************************)
(* The claim of one security operation (REVOKE_SESSIONS, ROTATE_PASSWORD)  *)
(* by the workers that may run it: normal cycles, which take it under a    *)
(* normal claim token, and startup recovery, which takes an abandoned one  *)
(* under a recovery token (app/persistence/repositories.py, run_operations,*)
(* StartupReconciliation, SideEffectLeaseGuard, PixelStormSecurityService).*)
(* Workers are threads of any process; each may stall anywhere or crash.   *)
(* "Calling" is a call made under SideEffectLeaseGuard (authenticate,      *)
(* revoke_sessions, the three password calls).  Looking at the site        *)
(* (health, inspect_security_capabilities, verify_credentials,             *)
(* verify_revocation) is not guarded and has no heartbeat: it is part of   *)
(* "Working", which may last as long as it likes.                          *)
(*                                                                         *)
(* Only differences of times matter, so times are kept relative to the     *)
(* clock: a lease by what is left of it, a moment in the past by its age.  *)
(* A worker's `now` is read when its cycle starts and grows stale; only    *)
(* the fences of an external call read the clock again.  A claim token is  *)
(* named by the worker it was made for: tokens are unique and a worker     *)
(* here is one cycle, or one start, that takes the operation at most once. *)
(***************************************************************************)
EXTENDS Integers

CONSTANTS
  Workers,
  NoWorker,       \* a token column that is NULL
  NormalLease,    \* lease_seconds of a normal claim
  RecoveryLease,  \* the five minutes of a recovery claim or a progress mark
  WaitWindow,     \* how long an awaited e-mail may take
  MaxAge          \* bound: a worker's `now` is at most this stale

ASSUME LeaseAssumption ==
  /\ NoWorker \notin Workers
  /\ NormalLease \in Nat /\ RecoveryLease \in Nat
  /\ WaitWindow \in Nat /\ MaxAge \in Nat
  /\ NormalLease <= RecoveryLease

VARIABLES
  status,         \* operations.status
  lease,          \* what is left of lease_until, NoTime if NULL
  normalToken,    \* normal_claim_token
  recoveryToken,  \* recovery_claim_token
  waiting,        \* security_state: which e-mail is waited for, "No" otherwise
  requested,      \* age of the request each kind of e-mail answers, or NoTime
  pc,             \* where each worker is
  role,           \* the kind of claim each worker works under
  age,            \* the age of each worker's `now`
  token,          \* the claim token each worker finishes with
  guard,          \* the claim token its call in flight is fenced with
  heart,          \* the heartbeat of the call in flight
  covered,        \* history: what is left of the lease that call last wrote
  owner,          \* history: the worker of the latest claim
  breach          \* history: the claim has been passed by (see Breaching)

row == <<status, lease, normalToken, recoveryToken, waiting, requested>>
local == <<role, age, token, guard, heart, covered>>
history == <<owner, breach>>
vars == <<row, pc, local, history>>

NoTime == RecoveryLease + WaitWindow + MaxAge + 1   \* NULL, beyond every time
Oldest == -(MaxAge + 1)        \* a lease this long past is lapsed for everyone
Mail == {"Login", "Password"}
Times == (Oldest..RecoveryLease) \cup {NoTime}
Ages == (0..(WaitWindow + MaxAge)) \cup {NoTime}

TypeOK ==
  /\ status \in {"PENDING", "RUNNING", "COMPLETED", "FAILED"}
  /\ lease \in Times
  /\ normalToken \in Workers \cup {NoWorker}
  /\ recoveryToken \in Workers \cup {NoWorker}
  /\ waiting \in Mail \cup {"No"}
  /\ requested \in [Mail -> Ages]
  /\ pc \in [Workers -> {"Idle", "Cycle", "Recovery", "Claimed", "Working",
                         "Calling", "Succeeded", "Failed", "Release",
                         "Done"}]
  /\ role \in [Workers -> {"Normal", "Recovery"}]
  /\ age \in [Workers -> 0..MaxAge]
  /\ token \in [Workers -> Workers \cup {NoWorker}]
  /\ guard \in [Workers -> Workers \cup {NoWorker}]
  /\ heart \in [Workers -> {"Beating", "Lost", "Dead"}]
  /\ covered \in [Workers -> 0..RecoveryLease]
  /\ owner \in Workers \cup {NoWorker}
  /\ breach \in BOOLEAN

-----------------------------------------------------------------------------
Running == status = "RUNNING"

\* lease_until < now, for a `now` that is `old` (comparison with NULL is false).
LapsedAt(old) == lease # NoTime /\ lease < -old

\* requested_at + window > now of a worker.
AwaitedAt(mail, old) ==
  requested[mail] # NoTime /\ requested[mail] < WaitWindow + old

Goto(w, label) == pc' = [pc EXCEPT ![w] = label]

\* The three ways past a claim that the code leaves open: a worker that has been
\* overtaken writes the row without a fence, a worker finds a token in the row
\* that it has not claimed with, and the thread of a heartbeat dies.
Breaching(happens) == breach' = (breach \/ happens)

Init ==
  /\ status = "PENDING"
  /\ lease = NoTime
  /\ normalToken = NoWorker
  /\ recoveryToken = NoWorker
  /\ waiting = "No"
  /\ requested = [m \in Mail |-> NoTime]
  /\ pc = [w \in Workers |-> "Idle"]
  /\ role = [w \in Workers |-> "Normal"]
  /\ age = [w \in Workers |-> 0]
  /\ token = [w \in Workers |-> NoWorker]
  /\ guard = [w \in Workers |-> NoWorker]
  /\ heart = [w \in Workers |-> "Beating"]
  /\ covered = [w \in Workers |-> 0]
  /\ owner = NoWorker
  /\ breach = FALSE

-----------------------------------------------------------------------------
\* Time and failure.

Older(t, oldest) == IF t = NoTime \/ t = oldest THEN t ELSE t + 1
Shorter(t) == IF t = NoTime \/ t = Oldest THEN t ELSE t - 1

Tick ==
  /\ lease' = Shorter(lease)
  /\ requested' = [m \in Mail |-> Older(requested[m], WaitWindow + MaxAge)]
  /\ age' = [w \in Workers |->
               IF pc[w] \in {"Idle", "Done"} THEN 0 ELSE Older(age[w], MaxAge)]
  /\ covered' = [w \in Workers |-> IF covered[w] > 0 THEN covered[w] - 1 ELSE 0]
  /\ UNCHANGED <<status, normalToken, recoveryToken, waiting, pc, role, token,
                 guard, heart, history>>

\* A worker that is done, or dead, remembers nothing and is not back.
Rest(w) ==
  /\ Goto(w, "Done")
  /\ role' = [role EXCEPT ![w] = "Normal"]
  /\ age' = [age EXCEPT ![w] = 0]
  /\ token' = [token EXCEPT ![w] = NoWorker]
  /\ guard' = [guard EXCEPT ![w] = NoWorker]
  /\ heart' = [heart EXCEPT ![w] = "Beating"]
  /\ covered' = [covered EXCEPT ![w] = 0]
  /\ UNCHANGED owner

Crash(w) ==
  /\ pc[w] \notin {"Idle", "Done"}
  /\ Rest(w)
  /\ UNCHANGED <<row, breach>>

-----------------------------------------------------------------------------
\* Claims.

\* A cycle of the runtime starts; its claims re-check all that it has read.
StartCycle(w) ==
  /\ pc[w] = "Idle"
  /\ Goto(w, "Cycle")
  /\ UNCHANGED <<row, local, history>>

\* StartupReconciliation reads the row: an operation that waits is left alone.
StartRecovery(w) ==
  /\ pc[w] = "Idle"
  /\ Running /\ waiting = "No"
  /\ Goto(w, "Recovery")
  /\ UNCHANGED <<row, local, history>>

NormalClaim(w) ==
  /\ lease' = NormalLease - age[w]
  /\ normalToken' = w
  /\ owner' = w
  /\ Goto(w, "Claimed")
  /\ UNCHANGED <<recoveryToken, waiting, requested, local, breach>>

ClaimOperation(w) ==
  /\ pc[w] = "Cycle"
  /\ status = "PENDING"
  /\ status' = "RUNNING"
  /\ NormalClaim(w)

ClaimWaitingSecurityOperation(w) ==
  /\ pc[w] = "Cycle"
  /\ Running /\ waiting # "No"
  /\ normalToken = NoWorker /\ recoveryToken = NoWorker
  /\ NormalClaim(w)
  /\ UNCHANGED status

\* prepare_operation reads the row once more; the worker goes on with the
\* token it finds there, which need not be the one it has claimed with.  A
\* revocation that may not start is failed with the claimed one.
PrepareOperation(w) ==
  /\ pc[w] = "Claimed"
  /\ \/ /\ Running
        /\ \/ /\ token' = [token EXCEPT ![w] = normalToken]
              /\ Goto(w, "Working")
              /\ Breaching(normalToken # w)
           \/ /\ token' = [token EXCEPT ![w] = w]
              /\ Goto(w, "Failed")
              /\ UNCHANGED breach
        /\ UNCHANGED <<role, age, guard, heart, covered, owner>>
     \/ ~Running /\ Rest(w) /\ UNCHANGED breach
  /\ UNCHANGED row

\* The claim does not look at security_state again.
ClaimStartupRecovery(w) ==
  /\ pc[w] = "Recovery"
  /\ Running
  /\ lease = NoTime \/ LapsedAt(age[w])
  /\ lease' = RecoveryLease - age[w]
  /\ recoveryToken' = w
  /\ owner' = w
  /\ role' = [role EXCEPT ![w] = "Recovery"]
  /\ token' = [token EXCEPT ![w] = w]
  /\ Goto(w, "Working")
  /\ UNCHANGED <<status, normalToken, waiting, requested, age, guard, heart,
                 covered, breach>>

EndCycle(w) ==
  /\ pc[w] \in {"Cycle", "Recovery"}
  /\ Goto(w, "Idle")
  /\ age' = [age EXCEPT ![w] = 0]
  /\ UNCHANGED <<row, role, token, guard, heart, covered, history>>

\* Mutant of RecoverExpiredLeases: an operation that waits is left to wait.
RecoverLeasesOnly(old) ==
  /\ Running
  /\ waiting = "No" /\ LapsedAt(old)
  /\ status' = "FAILED"
  /\ lease' = NoTime
  /\ normalToken' = NoWorker
  /\ UNCHANGED <<recoveryToken, waiting, requested, pc, local, history>>

\* recover_expired_leases, in every cycle and at the end of startup, with a
\* `now` that is `old`.  It needs no claim and asks for none.
RecoverExpiredLeases(old) ==
  /\ Running
  /\ \/ waiting # "No" /\ ~AwaitedAt(waiting, old)
     \/ waiting = "No" /\ LapsedAt(old)
  /\ status' = "FAILED"
  /\ lease' = NoTime
  /\ normalToken' = NoWorker
  /\ UNCHANGED <<recoveryToken, waiting, requested, pc, local, history>>

-----------------------------------------------------------------------------
\* The work itself: fenced external calls and marks of progress.

\* fence_normal_side_effect and fence_recovery_side_effect, with a fresh clock.
Owned(w, t) ==
  /\ Running
  /\ lease # NoTime /\ lease >= 0
  /\ t # NoWorker
  /\ IF role[w] = "Normal" THEN normalToken = t /\ recoveryToken = NoWorker
                           ELSE recoveryToken = t

\* Mutant of Renew: the claim is verified and its lease is left to run out.
RenewNothing(w, t) ==
  /\ Owned(w, t)
  /\ covered' = [covered EXCEPT ![w] = NormalLease]
  /\ UNCHANGED row

Renew(w, t) ==
  LET length == IF role[w] = "Normal" THEN NormalLease ELSE RecoveryLease
  IN  /\ Owned(w, t)
      /\ lease' = length
      /\ covered' = [covered EXCEPT ![w] = length]
      /\ UNCHANGED <<status, normalToken, recoveryToken, waiting, requested>>

\* _external_side_effect and SideEffectLeaseGuard.run: a worker without a
\* token takes the one of the row, and the guard fences before the call.
StartCall(w) ==
  LET t == IF token[w] = NoWorker THEN normalToken ELSE token[w]
  IN  /\ pc[w] = "Working"
      /\ \/ /\ Renew(w, t)
            /\ guard' = [guard EXCEPT ![w] = t]
            /\ Goto(w, "Calling")
         \/ ~Owned(w, t) /\ Goto(w, "Failed") /\ UNCHANGED <<row, guard, covered>>
      /\ UNCHANGED <<role, age, token, heart, history>>

Heartbeat(w) ==
  /\ pc[w] = "Calling" /\ heart[w] = "Beating"
  /\ \/ Renew(w, guard[w]) /\ UNCHANGED heart
     \/ /\ ~Owned(w, guard[w])
        /\ heart' = [heart EXCEPT ![w] = "Lost"]
        /\ UNCHANGED <<row, covered>>
  /\ UNCHANGED <<pc, role, age, token, guard, history>>

\* A renewal that raises ends its thread, and _lost stays unset.
HeartbeatDies(w) ==
  /\ pc[w] = "Calling" /\ heart[w] = "Beating"
  /\ heart' = [heart EXCEPT ![w] = "Dead"]
  /\ Breaching(TRUE)
  /\ UNCHANGED <<row, pc, role, age, token, guard, covered, owner>>

\* A call that was seen to outlive its claim is a failure, whatever it did.
EndCall(w) ==
  /\ pc[w] = "Calling"
  /\ IF heart[w] = "Lost" THEN Goto(w, "Failed") ELSE Goto(w, "Working")
  /\ guard' = [guard EXCEPT ![w] = NoWorker]
  /\ heart' = [heart EXCEPT ![w] = "Beating"]
  /\ covered' = [covered EXCEPT ![w] = 0]
  /\ UNCHANGED <<row, role, age, token, history>>

Decide(w) ==
  /\ pc[w] = "Working"
  /\ \E outcome \in {"Succeeded", "Failed"} : Goto(w, outcome)
  /\ UNCHANGED <<row, local, history>>

\* record_maintenance_login_requested and record_password_change_requested;
\* neither looks at a token.  The first is repeated, the second is not.
RecordRequest(w, mail) ==
  /\ pc[w] = "Working"
  /\ Running
  /\ IF mail = "Login" THEN waiting # "Login" ELSE requested[mail] = NoTime
  /\ requested' = [requested EXCEPT ![mail] = age[w]]
  /\ UNCHANGED <<status, lease, normalToken, recoveryToken, waiting, pc, local,
                 history>>

\* Mutants of SetProgress: the five minutes are added to the wrong moment; the
\* lease is cleared as it is for a wait.
SetProgressAhead(w) ==
  /\ pc[w] = "Working"
  /\ Running
  /\ waiting' = "No"
  /\ lease' = RecoveryLease + age[w]
  /\ Breaching(owner # w)
  /\ UNCHANGED <<status, normalToken, recoveryToken, requested, pc, local, owner>>

SetProgressUnleased(w) ==
  /\ pc[w] = "Working"
  /\ Running
  /\ waiting' = "No"
  /\ lease' = NoTime
  /\ Breaching(owner # w)
  /\ UNCHANGED <<status, normalToken, recoveryToken, requested, pc, local, owner>>

\* set_security_state of a mark of progress; it does not look at a token either.
SetProgress(w) ==
  /\ pc[w] = "Working"
  /\ Running
  /\ waiting' = "No"
  /\ lease' = RecoveryLease - age[w]
  /\ Breaching(owner # w)
  /\ UNCHANGED <<status, normalToken, recoveryToken, requested, pc, local, owner>>

\* Mutant of Wait: the row is given back with the token.
WaitHolding(w, mail) ==
  /\ pc[w] = "Working"
  /\ requested[mail] # NoTime \/ ~Running
  /\ IF Running
     THEN waiting' = mail /\ lease' = NoTime /\ UNCHANGED normalToken
     ELSE UNCHANGED <<waiting, lease, normalToken>>
  /\ UNCHANGED <<status, recoveryToken, requested>>
  /\ Breaching(Running /\ owner # w)
  /\ IF role[w] = "Normal" THEN Rest(w)
     ELSE Goto(w, "Release") /\ UNCHANGED <<local, owner>>

\* _wait: set_security_state gives the row back until the e-mail has arrived.
Wait(w, mail) ==
  /\ pc[w] = "Working"
  /\ requested[mail] # NoTime \/ ~Running
  /\ IF Running
     THEN /\ waiting' = mail
          /\ lease' = NoTime
          /\ normalToken' = NoWorker
     ELSE UNCHANGED <<waiting, lease, normalToken>>
  /\ UNCHANGED <<status, recoveryToken, requested>>
  /\ Breaching(Running /\ owner # w)
  /\ IF role[w] = "Normal" THEN Rest(w)
     ELSE Goto(w, "Release") /\ UNCHANGED <<local, owner>>

ReleaseRecoveryClaim(w) ==
  /\ pc[w] = "Release"
  /\ IF Running /\ recoveryToken = w /\ waiting # "No"
     THEN recoveryToken' = NoWorker /\ lease' = NoTime
     ELSE UNCHANGED <<recoveryToken, lease>>
  /\ Rest(w)
  /\ UNCHANGED <<status, normalToken, waiting, requested, breach>>

-----------------------------------------------------------------------------
\* The end of the operation.

\* Mutant of MayFinish: a normal worker does not ask for a recovery.
MayFinishOvertaken(w) ==
  /\ Running
  /\ IF role[w] = "Normal"
     THEN token[w] \in {normalToken, NoWorker}
     ELSE recoveryToken = token[w]

MayFinish(w) ==
  /\ Running
  /\ IF role[w] = "Normal"
     THEN /\ recoveryToken = NoWorker
          /\ token[w] \in {normalToken, NoWorker}   \* no token, no comparison
     ELSE recoveryToken = token[w]

\* operation_completed or complete_recovery_operation.
Complete(w) ==
  /\ pc[w] = "Succeeded"
  /\ IF MayFinish(w)
     THEN /\ status' = "COMPLETED"
          /\ lease' = NoTime
          /\ recoveryToken' = NoWorker
          /\ IF role[w] = "Normal" THEN normalToken' = NoWorker
                                   ELSE UNCHANGED normalToken
     ELSE UNCHANGED <<status, lease, normalToken, recoveryToken>>
  /\ Rest(w)
  /\ UNCHANGED <<waiting, requested, breach>>

\* operation_failed or fail_recovery_operation, which leaves the lease.
Fail(w) ==
  /\ pc[w] = "Failed"
  /\ IF MayFinish(w)
     THEN /\ status' = "FAILED"
          /\ recoveryToken' = NoWorker
          /\ IF role[w] = "Normal" THEN normalToken' = NoWorker /\ lease' = NoTime
                                   ELSE UNCHANGED <<normalToken, lease>>
     ELSE UNCHANGED <<status, lease, normalToken, recoveryToken>>
  /\ Rest(w)
  /\ UNCHANGED <<waiting, requested, breach>>

-----------------------------------------------------------------------------
Claim(w) ==
  \/ ClaimOperation(w)
  \/ ClaimWaitingSecurityOperation(w)
  \/ PrepareOperation(w)
  \/ ClaimStartupRecovery(w)

Work(w) ==
  \/ StartCall(w)
  \/ Heartbeat(w)
  \/ HeartbeatDies(w)
  \/ EndCall(w)
  \/ Decide(w)
  \/ \E mail \in Mail : RecordRequest(w, mail) \/ Wait(w, mail)
  \/ SetProgress(w)

Finish(w) ==
  \/ ReleaseRecoveryClaim(w)
  \/ Complete(w)
  \/ Fail(w)

WorkerStep(w) ==
  \/ StartCycle(w)
  \/ StartRecovery(w)
  \/ Claim(w)
  \/ EndCycle(w)
  \/ Work(w)
  \/ Finish(w)
  \/ Crash(w)

Next ==
  \/ Tick
  \/ \E w \in Workers : WorkerStep(w)
  \/ \E old \in 0..MaxAge : RecoverExpiredLeases(old)

Spec == Init /\ [][Next]_vars

\* A worker between its claim and its last write of the row.
Busy == {"Claimed", "Working", "Calling", "Succeeded", "Failed", "Release"}

\* A heartbeat comes every five seconds and renews a lease of thirty, or of five
\* minutes: while its thread lives, the clock does not pass the lease of the call.
\* Of a worker outside a guarded call it assumes nothing.
Timely ==
  \A w \in Workers :
    pc[w] = "Calling" /\ heart[w] = "Beating" => covered[w] > 0

TimelyNext ==
  \/ Tick /\ Timely
  \/ \E w \in Workers : WorkerStep(w)
  \/ \E old \in 0..MaxAge : RecoverExpiredLeases(old)

\* Calls are bounded and so is the number of them in one operation: whoever is
\* at work comes to an outcome.  A cycle with a fresh `now` comes ever again.
Fairness ==
  /\ WF_vars(Tick /\ Timely)
  /\ WF_vars(RecoverExpiredLeases(0))
  /\ \A w \in Workers :
       /\ WF_vars(PrepareOperation(w) \/ Finish(w))
       /\ WF_vars(Heartbeat(w))
       /\ WF_vars(EndCall(w))
       /\ SF_vars(Decide(w))

TimelySpec == Init /\ [][TimelyNext]_vars /\ Fairness

-----------------------------------------------------------------------------
\* Properties.

\* Whoever acts by the token of its own claim is the latest claimant: however
\* late a worker comes, and though the marks and waits of others move lease and
\* token, it begins no guarded call, and brings no operation to its end, once
\* another has claimed (the fences, operation_completed, operation_failed and
\* their recovery counterparts).
LatestClaimActs ==
  [][\A w \in Workers :
       /\ token[w] = w
       /\ \/ pc[w] = "Working" /\ pc'[w] = "Calling"
          \/ pc[w] \in {"Succeeded", "Failed"} /\ pc'[w] = "Done" /\ status' # status
       => owner = w]_vars

\* "Existing SQLite claims, tokens, and side-effect lease heartbeats remain the
\* concurrency authority": unless the claim was passed by in one of the three ways
\* the code leaves open, no two guarded calls are ever in flight at once, though
\* claims are born lapsed, workers crash and looks at the site outlast the lease.
ExclusiveUnlessBreached ==
  ~breach => \A v, w \in Workers : pc[v] = "Calling" /\ pc[w] = "Calling" => v = w

\* An operation is ended by the worker that claimed it last, or by the
\* quarantine: what an overtaken worker brings home late is discarded.
FinishedByOwner ==
  [][\A w \in Workers :
       /\ pc[w] \in {"Succeeded", "Failed"} /\ pc'[w] = "Done"
       /\ status' # status
       => owner = w]_vars

\* recover_expired_leases looks at the lease of a RUNNING operation, or at the
\* request it waits for an answer to, and passes over a NULL: every RUNNING
\* operation has the one it is judged by, so none is out of its reach.
HasDeadline ==
  Running => IF waiting = "No" THEN lease # NoTime ELSE requested[waiting] # NoTime

\* A RUNNING operation ends, whoever of its workers dies, and however often it
\* is given back to wait.
OperationEnds == Running ~> ~Running

\* No token outlives its operation: consistency_checks calls a token on an
\* operation that is not RUNNING an invalid_claim, and start-up refuses it.
ClaimsAreReleased ==
  ~Running => normalToken = NoWorker /\ recoveryToken = NoWorker

\* "Waiting for a durably-correlated email is valid work ... the regular worker
\* will resume it later" (StartupReconciliation): while nobody is at work on a
\* waiting operation, a cycle may claim it.
Resumable ==
  /\ Running /\ waiting # "No"
  /\ \A w \in Workers : pc[w] \notin Busy
  => normalToken = NoWorker /\ recoveryToken = NoWorker

\* Only the death of a worker, or the late end of an overtaken one, takes that
\* away: no wait, no release and no completion of the latest claimant leaves a
\* token on an operation that waits (set_security_state, release_recovery_claim).
StrandedByDeathOnly ==
  [][Resumable /\ ~Resumable'
     => \E w \in Workers : Crash(w) \/ (owner # w /\ pc[w] \in Busy /\ pc'[w] = "Done")]_vars
=============================================================================
