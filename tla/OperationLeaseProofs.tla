------------------------- MODULE OperationLeaseProofs -------------------------
(***************************************************************************)
(* Proofs about OperationLease for any set of workers, any lengths of the  *)
(* leases and of the wait, and clocks as stale as one likes.               *)
(***************************************************************************)
EXTENDS OperationLease, TLAPS

\* The lengths are naturals and NoTime is none of the times a row may hold.
LEMMA TimesAreTimes ==
  /\ RecoveryLease \in Int /\ NormalLease \in Int /\ MaxAge \in Int
  /\ WaitWindow \in Int /\ NoTime \in Int /\ Oldest \in Int
  /\ NormalLease \in Oldest..RecoveryLease
  /\ RecoveryLease \in Oldest..RecoveryLease
  /\ {0, NormalLease, RecoveryLease} \subseteq 0..RecoveryLease
  /\ \A t \in Oldest..RecoveryLease : t # NoTime
  /\ \A old \in 0..MaxAge :
       /\ NormalLease - old \in Oldest..RecoveryLease
       /\ RecoveryLease - old \in Oldest..RecoveryLease
       /\ old \in 0..(WaitWindow + MaxAge)
       /\ old # NoTime
  BY LeaseAssumption DEF NoTime, Oldest

\* The clock keeps a time a time and NULL a NULL, however long it runs.
LEMMA TimePasses ==
  /\ \A t \in Times : Shorter(t) \in Times /\ (Shorter(t) = NoTime <=> t = NoTime)
  /\ \A t \in 0..RecoveryLease :
       (IF t > 0 THEN t - 1 ELSE 0) \in 0..RecoveryLease
  /\ \A t \in Ages : /\ Older(t, WaitWindow + MaxAge) \in Ages
                     /\ Older(t, WaitWindow + MaxAge) = NoTime <=> t = NoTime
  /\ \A t \in 0..MaxAge : Older(t, MaxAge) \in 0..MaxAge
  BY LeaseAssumption DEF NoTime, Oldest, Times, Ages, Shorter, Older

\* An operation that was never claimed is not waiting for anything.
FreshDoesNotWait == status = "PENDING" => waiting = "No"

\* The inductive invariant: a claim leaves security_state as it is, so the
\* deadline needs the state that a claim starts from.
IInv == TypeOK /\ HasDeadline /\ FreshDoesNotWait

\* A fresh operation satisfies it.
LEMMA InitInv == Init => IInv
  <1> SUFFICES ASSUME Init PROVE IInv
    OBVIOUS
  <1>1. covered \in [Workers -> 0..RecoveryLease] /\ age \in [Workers -> 0..MaxAge]
    BY LeaseAssumption DEF Init
  <1>2. TypeOK
    BY <1>1, TimesAreTimes DEF Init, TypeOK, Times, Ages, Mail
  <1> QED BY <1>2 DEF Init, IInv, HasDeadline, FreshDoesNotWait, Running

\* A worker that forgets everything, as it does at its end and in a crash,
\* leaves its own variables in their types.
LEMMA RestKeepsTypes ==
  ASSUME TypeOK, NEW w \in Workers, Rest(w)
  PROVE  /\ pc' \in [Workers -> {"Idle", "Cycle", "Recovery", "Claimed", "Working",
                                 "Calling", "Succeeded", "Failed", "Release", "Done"}]
         /\ role' \in [Workers -> {"Normal", "Recovery"}]
         /\ age' \in [Workers -> 0..MaxAge]
         /\ token' \in [Workers -> Workers \cup {NoWorker}]
         /\ guard' \in [Workers -> Workers \cup {NoWorker}]
         /\ heart' \in [Workers -> {"Beating", "Lost", "Dead"}]
         /\ covered' \in [Workers -> 0..RecoveryLease]
         /\ owner' \in Workers \cup {NoWorker}
  BY LeaseAssumption DEF Rest, Goto, TypeOK

\* The clock keeps the invariant.
LEMMA TickKeepsInv == IInv /\ Tick => IInv'
  <1> SUFFICES ASSUME IInv, Tick PROVE IInv'
    OBVIOUS
  <1> USE DEF IInv, TypeOK
  <1>1. lease' \in Times /\ (lease' = NoTime <=> lease = NoTime)
    BY TimePasses DEF Tick
  <1>2. /\ requested' \in [Mail -> Ages]
        /\ \A m \in Mail : requested'[m] = NoTime <=> requested[m] = NoTime
    BY TimePasses DEF Tick
  <1>3. age' \in [Workers -> 0..MaxAge]
    BY TimePasses, LeaseAssumption DEF Tick
  <1>4. covered' \in [Workers -> 0..RecoveryLease]
    BY TimePasses DEF Tick
  <1>5. TypeOK'
    BY <1>1, <1>2, <1>3, <1>4 DEF Tick, history
  <1>6. HasDeadline'
    BY <1>1, <1>2 DEF Tick, HasDeadline, FreshDoesNotWait, Running
  <1>7. FreshDoesNotWait'
    BY DEF Tick, FreshDoesNotWait
  <1> QED BY <1>5, <1>6, <1>7

\* What a worker does keeps the invariant.
LEMMA WorkerStepKeepsInv ==
  ASSUME IInv, NEW w \in Workers, WorkerStep(w)
  PROVE  IInv'
  <1> USE DEF IInv
  <1>1. CASE StartCycle(w) \/ StartRecovery(w) \/ EndCycle(w) \/ Crash(w)
    <2>1. UNCHANGED row
      BY <1>1 DEF StartCycle, StartRecovery, EndCycle, Crash
    <2>2. TypeOK'
      BY <1>1, <2>1, RestKeepsTypes, LeaseAssumption
      DEF StartCycle, StartRecovery, EndCycle, Crash, TypeOK, row, local, history, Goto
    <2> QED BY <2>1, <2>2 DEF HasDeadline, FreshDoesNotWait, Running, row
  <1>2. CASE ClaimOperation(w)
    <2>1. lease' \in Oldest..RecoveryLease
      BY <1>2, TimesAreTimes DEF ClaimOperation, NormalClaim, TypeOK
    <2>2. TypeOK'
      BY <1>2, <2>1, TimesAreTimes
      DEF ClaimOperation, NormalClaim, TypeOK, Times, Goto, local
    <2>3. FreshDoesNotWait'
      BY <1>2 DEF ClaimOperation, FreshDoesNotWait
    <2>4. HasDeadline'
      <3>1. lease' # NoTime
        BY <2>1, TimesAreTimes
      <3>2. waiting' = "No"
        BY <1>2 DEF ClaimOperation, NormalClaim, FreshDoesNotWait
      <3> QED BY <3>1, <3>2 DEF HasDeadline
    <2> QED BY <2>2, <2>3, <2>4
  <1>3. CASE ClaimWaitingSecurityOperation(w)
    BY <1>3, TimesAreTimes
    DEF ClaimWaitingSecurityOperation, NormalClaim, TypeOK, HasDeadline, FreshDoesNotWait, Running, Times,
        Goto, local
  <1>4. CASE PrepareOperation(w)
    <2>1. UNCHANGED row
      BY <1>4 DEF PrepareOperation
    <2>2. breach' \in BOOLEAN
      <3>1. UNCHANGED breach \/ Breaching(normalToken # w)
        BY <1>4 DEF PrepareOperation
      <3>2. breach \in BOOLEAN
        BY DEF TypeOK
      <3> QED BY <3>1, <3>2 DEF Breaching
    <2>3. Running => TypeOK'
      <3> SUFFICES ASSUME Running PROVE TypeOK'
        OBVIOUS
      <3>1. /\ UNCHANGED <<role, age, guard, heart, covered, owner>>
            /\ \E t \in {normalToken, w} : token' = [token EXCEPT ![w] = t]
            /\ \E label \in {"Working", "Failed"} : pc' = [pc EXCEPT ![w] = label]
        BY <1>4 DEF PrepareOperation, Goto
      <3> QED BY <2>1, <2>2, <3>1 DEF TypeOK, row
    <2>4. ~Running => TypeOK'
      BY <1>4, <2>1, <2>2, RestKeepsTypes DEF PrepareOperation, TypeOK, row
    <2> QED BY <2>1, <2>3, <2>4 DEF HasDeadline, FreshDoesNotWait, Running, row
  <1>5. CASE ClaimStartupRecovery(w)
    BY <1>5, TimesAreTimes
    DEF ClaimStartupRecovery, TypeOK, HasDeadline, FreshDoesNotWait, Running, Times, Goto
  <1>6. CASE StartCall(w)
    <2>1. /\ UNCHANGED <<status, waiting, requested, normalToken, recoveryToken, breach>>
          /\ lease' \in Times /\ (lease # NoTime => lease' # NoTime)
          /\ covered' \in [Workers -> 0..RecoveryLease]
      BY <1>6, TimesAreTimes DEF StartCall, Renew, TypeOK, Times, row, history
    <2>2. TypeOK'
      BY <1>6, <2>1 DEF StartCall, TypeOK, Goto, history
    <2> QED BY <2>1, <2>2 DEF HasDeadline, FreshDoesNotWait, Running
  <1>7. CASE Heartbeat(w)
    <2>1. CASE Renew(w, guard[w])
      <3>1. /\ UNCHANGED <<status, waiting, requested, normalToken, recoveryToken, heart>>
            /\ lease' \in Times /\ lease' # NoTime
            /\ covered' \in [Workers -> 0..RecoveryLease]
        BY <1>7, <2>1, TimesAreTimes DEF Heartbeat, Renew, Owned, TypeOK, Times, row
      <3>2. TypeOK'
        BY <1>7, <3>1 DEF Heartbeat, TypeOK, history
      <3> QED BY <3>1, <3>2 DEF HasDeadline, FreshDoesNotWait, Running
    <2>2. CASE ~Owned(w, guard[w])
      BY <1>7, <2>2 DEF Heartbeat, Renew, TypeOK, HasDeadline, FreshDoesNotWait, Running, row,
        history
    <2> QED BY <1>7, <2>1, <2>2 DEF Heartbeat
  <1>8. CASE EndCall(w) \/ Decide(w) \/ HeartbeatDies(w)
    <2>1. UNCHANGED row /\ breach' \in BOOLEAN
      <3>1. UNCHANGED row /\ (UNCHANGED breach \/ Breaching(TRUE))
        BY <1>8 DEF EndCall, Decide, HeartbeatDies, history
      <3>2. breach \in BOOLEAN
        BY DEF TypeOK
      <3> QED BY <3>1, <3>2 DEF Breaching
    <2>2. TypeOK'
      <3>1. CASE EndCall(w)
        BY <2>1, <3>1, TimesAreTimes DEF EndCall, TypeOK, Goto, row, history
      <3>2. CASE Decide(w)
        BY <2>1, <3>2 DEF Decide, TypeOK, Goto, row, local, history
      <3>3. CASE HeartbeatDies(w)
        BY <2>1, <3>3 DEF HeartbeatDies, TypeOK, row
      <3> QED BY <1>8, <3>1, <3>2, <3>3
    <2> QED BY <2>1, <2>2 DEF HasDeadline, FreshDoesNotWait, Running, row
  <1>9. ASSUME NEW mail \in Mail, RecordRequest(w, mail)
        PROVE  IInv'
    BY <1>9, TimesAreTimes
    DEF RecordRequest, TypeOK, HasDeadline, FreshDoesNotWait, Running, Ages, Mail, local, history
  <1>10. ASSUME NEW mail \in Mail, Wait(w, mail)
         PROVE  IInv'
    <2>1. /\ waiting' \in Mail \cup {"No"} /\ lease' \in Times
          /\ normalToken' \in Workers \cup {NoWorker}
          /\ UNCHANGED <<status, recoveryToken, requested>>
      BY <1>10 DEF Wait, TypeOK, Times
    <2>2. TypeOK'
      BY <1>10, <2>1, RestKeepsTypes DEF Wait, TypeOK, Breaching, Goto, local, history
    <2>3. HasDeadline' /\ FreshDoesNotWait'
      BY <1>10 DEF Wait, HasDeadline, FreshDoesNotWait, Running, Mail
    <2> QED BY <2>2, <2>3
  <1>11. CASE SetProgress(w)
    BY <1>11, TimesAreTimes
    DEF SetProgress, TypeOK, HasDeadline, FreshDoesNotWait, Running, Times, Breaching, local
  <1>12. CASE ReleaseRecoveryClaim(w)
    <2>1. TypeOK'
      BY <1>12, RestKeepsTypes DEF ReleaseRecoveryClaim, TypeOK, Times
    <2>2. HasDeadline' /\ FreshDoesNotWait'
      BY <1>12 DEF ReleaseRecoveryClaim, HasDeadline, FreshDoesNotWait, Running
    <2> QED BY <2>1, <2>2
  <1>13. CASE Complete(w)
    <2>1. TypeOK'
      BY <1>13, RestKeepsTypes DEF Complete, TypeOK, Times
    <2>2. HasDeadline' /\ FreshDoesNotWait'
      BY <1>13 DEF Complete, HasDeadline, FreshDoesNotWait, Running
    <2> QED BY <2>1, <2>2
  <1>14. CASE Fail(w)
    <2>1. TypeOK'
      BY <1>14, RestKeepsTypes DEF Fail, TypeOK, Times
    <2>2. HasDeadline' /\ FreshDoesNotWait'
      BY <1>14 DEF Fail, HasDeadline, FreshDoesNotWait, Running
    <2> QED BY <2>1, <2>2
  <1> QED
    BY <1>1, <1>2, <1>3, <1>4, <1>5, <1>6, <1>7, <1>8, <1>9, <1>10, <1>11, <1>12, <1>13,
       <1>14
    DEF WorkerStep, Claim, Work, Finish

\* The quarantine keeps the invariant: what it ends needs no deadline.
LEMMA QuarantineKeepsInv ==
  ASSUME IInv, NEW old \in 0..MaxAge, RecoverExpiredLeases(old)
  PROVE  IInv'
  BY DEF RecoverExpiredLeases, IInv, TypeOK, HasDeadline, FreshDoesNotWait, Running, Times, local,
    history

\* The invariant is inductive.
LEMMA NextInv == IInv /\ [Next]_vars => IInv'
  <1> SUFFICES ASSUME IInv, [Next]_vars PROVE IInv'
    OBVIOUS
  <1>1. CASE Next
    BY <1>1, TickKeepsInv, WorkerStepKeepsInv, QuarantineKeepsInv DEF Next
  <1>2. CASE UNCHANGED vars
    BY <1>2 DEF vars, row, local, history, IInv, TypeOK, HasDeadline, FreshDoesNotWait, Running
  <1> QED BY <1>1, <1>2

\* The tokens, the leases and the marks of the workers keep their types,
\* however the workers stall and crash.
THEOREM TypeCorrect == Spec => []TypeOK
  <1>1. Spec => []IInv
    BY InitInv, NextInv, PTL DEF Spec
  <1> QED BY <1>1, PTL DEF IInv

\* No RUNNING operation is out of the reach of the quarantine
\* (recover_expired_leases skips a NULL lease and a missing request time),
\* even when workers stall past their leases and write the row unfenced.
THEOREM NothingWaitsForEver == Spec => []HasDeadline
  <1>1. Spec => []IInv
    BY InitInv, NextInv, PTL DEF Spec
  <1> QED BY <1>1, PTL DEF IInv
-----------------------------------------------------------------------------
(***************************************************************************)
(* Who the latest claimant is.  The row says it as long as the operation   *)
(* runs, however late other workers are and whatever they write: a mark    *)
(* and a wait may clear a token, and they put none there.  None of the     *)
(* parts is inductive alone: what a worker finds in the row depends on the *)
(* claims of the others, and these on what they have found.                *)
(***************************************************************************)

\* A token of the row is that of the latest claim, a recovery's before a normal one.
TokensAreLatest ==
  Running => /\ recoveryToken # NoWorker => owner = recoveryToken
             /\ recoveryToken = NoWorker /\ normalToken # NoWorker => owner = normalToken

\* A token is that of a worker that has claimed, and of the kind it has claimed.
TokensAreClaimed ==
  \A w \in Workers :
    /\ pc[w] \in {"Idle", "Cycle", "Recovery", "Claimed"} => role[w] = "Normal"
    /\ pc[w] = "Release" => role[w] = "Recovery"
    /\ recoveryToken = w => /\ pc[w] \notin {"Idle", "Cycle", "Recovery", "Claimed"}
                            /\ pc[w] # "Done" => role[w] = "Recovery"
    /\ normalToken = w => /\ pc[w] \notin {"Idle", "Cycle", "Recovery"}
                          /\ pc[w] # "Done" => role[w] = "Normal"
    /\ owner = w => pc[w] \notin {"Idle", "Cycle", "Recovery"}

\* Nobody is at work on an operation that was never claimed.
FreshIsFree ==
  status = "PENDING" => recoveryToken = NoWorker /\ \A w \in Workers : pc[w] \notin Busy

\* A recovery that waits to release its claim has cleared the normal one.
ReleaseHolds ==
  \A w \in Workers :
    pc[w] = "Release" /\ Running /\ recoveryToken = w => normalToken = NoWorker

\* The latest claimant finishes with its own token, or with none.
OwnerFinishes ==
  \A w \in Workers :
    /\ Running /\ owner = w /\ pc[w] \in Busy \ {"Claimed"} => token[w] \in {w, NoWorker}
    /\ role[w] = "Recovery" /\ pc[w] \in Busy => token[w] = w
    /\ pc[w] # "Calling" => heart[w] = "Beating"

LInv ==
  /\ TokensAreLatest /\ TokensAreClaimed /\ FreshIsFree /\ ReleaseHolds /\ OwnerFinishes

\* What a call in flight may rely on while no claim has been passed by: its fence
\* is its own, and while the operation runs the row keeps its token and a lease
\* that outlasts what it last wrote.
Held(w) ==
  /\ lease # NoTime /\ 0 <= covered[w] /\ covered[w] <= lease
  /\ IF role[w] = "Normal" THEN normalToken = w /\ recoveryToken = NoWorker
                           ELSE recoveryToken = w

CallsAreHeld ==
  ~breach =>
    \A w \in Workers :
      /\ pc[w] \in Busy \ {"Claimed"} => token[w] = w
      /\ pc[w] = "Calling" => /\ guard[w] = w
                              /\ heart[w] # "Dead"
                              /\ Running => heart[w] = "Beating" /\ Held(w)

\* Nobody has claimed a fresh operation.
LEMMA LInvInit == Init => LInv
  BY LeaseAssumption
  DEF Init, LInv, TokensAreLatest, TokensAreClaimed, FreshIsFree, ReleaseHolds, OwnerFinishes,
      Running, Busy

\* Time passes for the tokens without a trace.
LEMMA TickKeepsLInv == LInv /\ Tick => LInv'
  BY DEF Tick, history, LInv, TokensAreLatest, TokensAreClaimed, FreshIsFree, ReleaseHolds,
    OwnerFinishes, Running, Busy

\* A claim replaces the latest claimant by one that has not claimed before; what
\* a worker finds when it reads the row once more is its own token, or none,
\* unless another has claimed since.
LEMMA ClaimKeepsLInv ==
  ASSUME TypeOK, LInv, NEW w \in Workers,
         StartCycle(w) \/ StartRecovery(w) \/ Claim(w) \/ EndCycle(w)
  PROVE  LInv'
  <1> USE DEF LInv
  <1>1. CASE StartCycle(w) \/ StartRecovery(w) \/ EndCycle(w)
    BY <1>1 DEF StartCycle, StartRecovery, EndCycle, TypeOK, TokensAreLatest, TokensAreClaimed,
      FreshIsFree, ReleaseHolds, OwnerFinishes, Running, Busy, Goto, row, local, history
  <1>2. CASE ClaimOperation(w) \/ ClaimWaitingSecurityOperation(w)
    <2>1. /\ pc[w] = "Cycle" /\ pc' = [pc EXCEPT ![w] = "Claimed"]
          /\ normalToken' = w /\ owner' = w /\ w # NoWorker
          /\ status' = "RUNNING" /\ recoveryToken = NoWorker /\ recoveryToken' = NoWorker
          /\ UNCHANGED <<role, token, heart>>
      BY <1>2, LeaseAssumption DEF ClaimOperation, ClaimWaitingSecurityOperation, NormalClaim,
        FreshIsFree, Running, Goto, local
    <2>2. TokensAreLatest' /\ FreshIsFree'
      BY <2>1 DEF TokensAreLatest, FreshIsFree
    <2>3. TokensAreClaimed'
      BY <2>1 DEF TokensAreClaimed, TypeOK
    <2>4. ReleaseHolds'
      BY <2>1, LeaseAssumption DEF ReleaseHolds
    <2>5. OwnerFinishes'
      BY <2>1 DEF OwnerFinishes, TokensAreClaimed, TypeOK, Busy, Running
    <2> QED BY <2>2, <2>3, <2>4, <2>5
  <1>3. CASE PrepareOperation(w)
    <2>1. /\ pc[w] = "Claimed" /\ UNCHANGED <<row, owner>>
      BY <1>3 DEF PrepareOperation, Rest
    <2>2. CASE Running
      <3>1. PICK label \in {"Working", "Failed"}, t \in {normalToken, w} :
              /\ pc' = [pc EXCEPT ![w] = label]
              /\ token' = [token EXCEPT ![w] = t]
              /\ UNCHANGED <<role, guard, heart>>
        BY <1>3, <2>2 DEF PrepareOperation, Goto
      <3>2. role[w] = "Normal" /\ recoveryToken # w
        BY <2>1 DEF TokensAreClaimed
      <3>3. owner = w => normalToken \in {w, NoWorker}
        BY <2>2, <3>2 DEF TokensAreLatest
      <3>4. OwnerFinishes'
        BY <2>1, <2>2, <3>1, <3>2, <3>3 DEF OwnerFinishes, TypeOK, Busy, Running, row
      <3>5. TokensAreLatest' /\ FreshIsFree' /\ ReleaseHolds'
        BY <2>1, <2>2, <3>1 DEF TokensAreLatest, FreshIsFree, ReleaseHolds, TypeOK, Running, row
      <3>6. TokensAreClaimed'
        BY <2>1, <3>1, <3>2 DEF TokensAreClaimed, TypeOK, row
      <3> QED BY <3>4, <3>5, <3>6
    <2>3. CASE ~Running
      BY <1>3, <2>1, <2>3 DEF PrepareOperation, Rest, Goto, TypeOK, TokensAreLatest,
        TokensAreClaimed, FreshIsFree, ReleaseHolds, OwnerFinishes, Running, Busy, row
    <2> QED BY <2>2, <2>3
  <1>4. CASE ClaimStartupRecovery(w)
    <2>1. /\ pc[w] = "Recovery" /\ pc' = [pc EXCEPT ![w] = "Working"]
          /\ recoveryToken' = w /\ owner' = w /\ w # NoWorker
          /\ role' = [role EXCEPT ![w] = "Recovery"] /\ token' = [token EXCEPT ![w] = w]
          /\ status = "RUNNING"
          /\ UNCHANGED <<status, normalToken, heart>>
      BY <1>4, LeaseAssumption DEF ClaimStartupRecovery, Running, Goto
    <2>2. TokensAreLatest' /\ FreshIsFree'
      BY <2>1 DEF TokensAreLatest, FreshIsFree
    <2>3. TokensAreClaimed'
      BY <2>1 DEF TokensAreClaimed, TypeOK
    <2>4. ReleaseHolds'
      BY <2>1 DEF ReleaseHolds, TypeOK
    <2>5. OwnerFinishes'
      BY <2>1 DEF OwnerFinishes, TypeOK, Busy, Running
    <2> QED BY <2>2, <2>3, <2>4, <2>5
  <1> QED BY <1>1, <1>2, <1>3, <1>4 DEF Claim

\* A worker at work puts no token into the row: it may clear the normal one.
LEMMA WorkKeepsLInv ==
  ASSUME TypeOK, LInv, NEW w \in Workers, Work(w)
  PROVE  LInv'
  <1> USE DEF LInv
  <1>1. CASE StartCall(w) \/ EndCall(w) \/ Decide(w)
    <2>1. PICK label \in {"Calling", "Failed", "Working", "Succeeded"} :
            pc' = [pc EXCEPT ![w] = label]
      BY <1>1 DEF StartCall, EndCall, Decide, Goto
    <2>2. /\ pc[w] \in {"Working", "Calling"}
          /\ UNCHANGED <<status, normalToken, recoveryToken, role, token, owner>>
      BY <1>1 DEF StartCall, Renew, EndCall, Decide, row, local, history
    <2>3. pc'[w] # "Calling" => heart' = [heart EXCEPT ![w] = "Beating"]
      BY <1>1, <2>1, <2>2 DEF StartCall, EndCall, Decide, Goto, local, OwnerFinishes, TypeOK
    <2>4. pc'[w] = "Calling" => heart' = heart
      BY <1>1, <2>1, <2>2 DEF StartCall, EndCall, Decide, Goto, local, TypeOK
    <2>5. TokensAreLatest' /\ TokensAreClaimed' /\ FreshIsFree' /\ ReleaseHolds'
      BY <2>1, <2>2 DEF TokensAreLatest, TokensAreClaimed, FreshIsFree, ReleaseHolds, TypeOK,
        Running, Busy
    <2>6. OwnerFinishes'
      BY <2>1, <2>2, <2>3, <2>4 DEF OwnerFinishes, TypeOK, Running, Busy
    <2> QED BY <2>5, <2>6
  <1>2. CASE Heartbeat(w) \/ HeartbeatDies(w)
    <2>1. /\ pc[w] = "Calling"
          /\ UNCHANGED <<status, normalToken, recoveryToken, pc, role, token, owner>>
          /\ \A v \in Workers \ {w} : heart'[v] = heart[v]
      BY <1>2 DEF Heartbeat, HeartbeatDies, Renew, row, history, TypeOK
    <2> QED
      BY <2>1 DEF TokensAreLatest, TokensAreClaimed, FreshIsFree, ReleaseHolds, OwnerFinishes,
        Running, Busy
  <1>3. CASE SetProgress(w) \/ \E mail \in Mail : RecordRequest(w, mail)
    <2>1. UNCHANGED <<status, normalToken, recoveryToken, pc, role, token, heart, owner>>
      BY <1>3 DEF SetProgress, RecordRequest, local, history
    <2> QED
      BY <2>1 DEF TokensAreLatest, TokensAreClaimed, FreshIsFree, ReleaseHolds, OwnerFinishes,
        Running, Busy
  <1>4. ASSUME NEW mail \in Mail, Wait(w, mail)
        PROVE  LInv'
    <2>1. /\ pc[w] = "Working" /\ UNCHANGED <<status, recoveryToken, owner>>
          /\ Running => normalToken' = NoWorker
          /\ ~Running => normalToken' = normalToken
      BY <1>4 DEF Wait, Rest, history, local
    <2>2. TokensAreLatest'
      BY <2>1 DEF TokensAreLatest, Running
    <2>3. CASE role[w] = "Normal"
      <3>1. /\ pc' = [pc EXCEPT ![w] = "Done"] /\ role' = [role EXCEPT ![w] = "Normal"]
            /\ token' = [token EXCEPT ![w] = NoWorker]
            /\ heart' = [heart EXCEPT ![w] = "Beating"]
        BY <1>4, <2>3 DEF Wait, Rest, Goto
      <3> QED
        BY <2>1, <2>2, <3>1, LeaseAssumption DEF TokensAreClaimed, FreshIsFree, ReleaseHolds,
          OwnerFinishes, TypeOK, Running, Busy
    <2>4. CASE role[w] # "Normal"
      <3>1. /\ pc' = [pc EXCEPT ![w] = "Release"] /\ UNCHANGED <<role, token, heart>>
            /\ role[w] = "Recovery"
        BY <1>4, <2>4 DEF Wait, Goto, local, TypeOK
      <3> QED
        BY <2>1, <2>2, <3>1, LeaseAssumption DEF TokensAreClaimed, FreshIsFree, ReleaseHolds,
          OwnerFinishes, TypeOK, Running, Busy
    <2> QED BY <2>3, <2>4
  <1> QED BY <1>1, <1>2, <1>3, <1>4 DEF Work

\* A worker that ends, or dies, may clear tokens of an operation that it ends, or
\* its own.
LEMMA EndKeepsLInv ==
  ASSUME TypeOK, LInv, NEW w \in Workers, Finish(w) \/ Crash(w)
  PROVE  LInv'
  <1> USE DEF LInv
  <1>1. /\ pc' = [pc EXCEPT ![w] = "Done"] /\ role' = [role EXCEPT ![w] = "Normal"]
        /\ token' = [token EXCEPT ![w] = NoWorker] /\ heart' = [heart EXCEPT ![w] = "Beating"]
        /\ pc[w] \notin {"Idle", "Done"} /\ UNCHANGED owner
    BY DEF Finish, Crash, ReleaseRecoveryClaim, Complete, Fail, Rest, Goto
  <1>2. /\ \/ UNCHANGED status
           \/ status' \in {"COMPLETED", "FAILED"}
        /\ recoveryToken' \in {recoveryToken, NoWorker}
        /\ normalToken' \in {normalToken, NoWorker}
    BY DEF Finish, Crash, ReleaseRecoveryClaim, Complete, Fail, row
  <1>3. Running' /\ recoveryToken' # recoveryToken => normalToken' = NoWorker
    <2>1. CASE ReleaseRecoveryClaim(w)
      BY <2>1 DEF ReleaseRecoveryClaim, ReleaseHolds
    <2>2. CASE Complete(w) \/ Fail(w)
      BY <2>2 DEF Complete, Fail, Running
    <2>3. CASE Crash(w)
      BY <2>3 DEF Crash, row
    <2> QED BY <2>1, <2>2, <2>3 DEF Finish
  <1>4. TokensAreLatest'
    BY <1>1, <1>2, <1>3 DEF TokensAreLatest, Running
  <1>5. TokensAreClaimed' /\ OwnerFinishes'
    BY <1>1, <1>2, LeaseAssumption DEF TokensAreClaimed, OwnerFinishes, TypeOK, Running, Busy
  <1>6. FreshIsFree' /\ ReleaseHolds'
    BY <1>1, <1>2, LeaseAssumption DEF FreshIsFree, ReleaseHolds, TypeOK, Running, Busy
  <1> QED BY <1>4, <1>5, <1>6

\* The quarantine ends the operation, for whose end the row need say nothing.
LEMMA QuarantineKeepsLInv ==
  ASSUME LInv, NEW old \in 0..MaxAge, RecoverExpiredLeases(old)
  PROVE  LInv'
  BY LeaseAssumption DEF RecoverExpiredLeases, local, history, LInv, TokensAreLatest,
    TokensAreClaimed, FreshIsFree, ReleaseHolds, OwnerFinishes, Running, Busy

\* All steps keep it, those of stalled and overtaken workers too.
LEMMA NextLInv == TypeOK /\ LInv /\ [Next]_vars => LInv'
  <1> SUFFICES ASSUME TypeOK, LInv, [Next]_vars PROVE LInv'
    OBVIOUS
  <1>1. ASSUME NEW w \in Workers, WorkerStep(w)
        PROVE  LInv'
    BY <1>1, ClaimKeepsLInv, WorkKeepsLInv, EndKeepsLInv DEF WorkerStep
  <1>2. CASE UNCHANGED vars
    BY <1>2 DEF vars, row, local, history, LInv, TokensAreLatest, TokensAreClaimed, FreshIsFree,
      ReleaseHolds, OwnerFinishes, Running, Busy
  <1> QED BY <1>1, <1>2, TickKeepsLInv, QuarantineKeepsLInv DEF Next

\* The row knows its latest claimant, for any workers, leases and clocks.
THEOREM LeaseInvariance == Spec => [](IInv /\ LInv)
  <1>1. IInv /\ LInv /\ [Next]_vars => (IInv /\ LInv)'
    BY NextInv, NextLInv DEF IInv
  <1> QED BY InitInv, LInvInit, <1>1, PTL DEF Spec

\* What a worker does moves no other.
LEMMA OneMoves ==
  ASSUME TypeOK, NEW v \in Workers, WorkerStep(v)
  PROVE  \A w \in Workers \ {v} : pc'[w] = pc[w]
  <1>1. CASE StartCycle(v) \/ StartRecovery(v) \/ Claim(v) \/ EndCycle(v)
    BY <1>1 DEF StartCycle, StartRecovery, Claim, ClaimOperation, NormalClaim,
      ClaimWaitingSecurityOperation, PrepareOperation, ClaimStartupRecovery, EndCycle, Rest,
      Goto, TypeOK
  <1>2. CASE Work(v)
    BY <1>2 DEF Work, StartCall, Heartbeat, HeartbeatDies, EndCall, Decide, RecordRequest, Wait,
      SetProgress, Rest, Goto, TypeOK
  <1>3. CASE Finish(v) \/ Crash(v)
    BY <1>3 DEF Finish, ReleaseRecoveryClaim, Complete, Fail, Crash, Rest, Goto, TypeOK
  <1> QED BY <1>1, <1>2, <1>3 DEF WorkerStep

\* A worker that acts by the token of its own claim is the latest claimant: it
\* begins no guarded call and ends no operation after another has claimed, for
\* any workers, leases and clocks, however late they come.
THEOREM OnlyTheLatestActs == Spec => LatestClaimActs
  <1>1. ASSUME TypeOK, LInv, [Next]_vars, NEW w \in Workers, token[w] = w,
               \/ pc[w] = "Working" /\ pc'[w] = "Calling"
               \/ pc[w] \in {"Succeeded", "Failed"} /\ pc'[w] = "Done" /\ status' # status
        PROVE  owner = w
    <2>1. w # NoWorker
      BY LeaseAssumption
    <2>2. WorkerStep(w)
      <3>1. pc'[w] # pc[w]
        BY <1>1
      <3>2. ~Tick /\ ~(UNCHANGED vars) /\ \A old \in 0..MaxAge : ~RecoverExpiredLeases(old)
        BY <3>1 DEF Tick, vars, RecoverExpiredLeases
      <3> QED BY <1>1, <3>1, <3>2, OneMoves DEF Next
    <2>3. CASE pc[w] = "Working" /\ pc'[w] = "Calling"
      <3>1. StartCall(w)
        BY <1>1, <2>2, <2>3 DEF WorkerStep, StartCycle, StartRecovery, Claim, ClaimOperation,
          NormalClaim, ClaimWaitingSecurityOperation, PrepareOperation, ClaimStartupRecovery,
          EndCycle, Work, Heartbeat, HeartbeatDies, EndCall, Decide, RecordRequest, Wait,
          SetProgress, Finish, ReleaseRecoveryClaim, Complete, Fail, Crash, Rest, Goto, TypeOK
      <3>2. Owned(w, w)
        BY <1>1, <2>1, <2>3, <3>1 DEF StartCall, Renew, Goto, TypeOK
      <3> QED BY <1>1, <2>1, <3>2 DEF Owned, LInv, TokensAreLatest
    <2>4. CASE /\ pc[w] \in {"Succeeded", "Failed"} /\ pc'[w] = "Done" /\ status' # status
      <3>1. Complete(w) \/ Fail(w)
        BY <1>1, <2>2, <2>4 DEF WorkerStep, StartCycle, StartRecovery, Claim, ClaimOperation,
          ClaimWaitingSecurityOperation, PrepareOperation, ClaimStartupRecovery,
          EndCycle, Work, StartCall, Heartbeat, HeartbeatDies, EndCall, Decide, RecordRequest,
          Wait, SetProgress, Finish, ReleaseRecoveryClaim, Crash, row
      <3>2. MayFinish(w)
        BY <2>4, <3>1 DEF Complete, Fail
      <3> QED BY <1>1, <2>1, <3>2 DEF MayFinish, LInv, TokensAreLatest
    <2> QED BY <1>1, <2>3, <2>4
  <1>2. TypeOK /\ LInv /\ [Next]_vars
        => [\A w \in Workers :
              /\ token[w] = w
              /\ \/ pc[w] = "Working" /\ pc'[w] = "Calling"
                 \/ pc[w] \in {"Succeeded", "Failed"} /\ pc'[w] = "Done" /\ status' # status
              => owner = w]_vars
    BY <1>1
  <1>3. IInv /\ LInv => TypeOK /\ LInv
    BY DEF IInv
  <1> QED BY <1>2, <1>3, LeaseInvariance, PTL DEF Spec, LatestClaimActs

\* Only a death, or the late end of a worker that was overtaken, leaves a token
\* on an operation that waits: the latest claimant clears its own when it gives
\* the operation back, and ends the operation when it does not.
THEOREM OnlyDeathStrands == Spec => StrandedByDeathOnly
  <1>1. ASSUME TypeOK, LInv, [Next]_vars, Resumable, ~Resumable'
        PROVE  \E w \in Workers : Crash(w) \/ (owner # w /\ pc[w] \in Busy /\ pc'[w] = "Done")
    <2>1. /\ Running' /\ waiting' # "No"
          /\ \A v \in Workers : pc'[v] \notin Busy
          /\ normalToken' # NoWorker \/ recoveryToken' # NoWorker
      BY <1>1 DEF Resumable
    <2>2. ASSUME UNCHANGED row, \A v \in Workers : pc[v] \notin Busy
          PROVE  FALSE
      BY <1>1, <2>1, <2>2 DEF Resumable, Running, row
    <2>3. ~Tick
      <3>1. Tick => UNCHANGED <<status, waiting, pc, normalToken, recoveryToken>>
        BY DEF Tick
      <3> QED BY <1>1, <2>1, <3>1 DEF Resumable, Running
    <2>4. UNCHANGED vars => FALSE
      BY <2>1, <2>2 DEF vars, Busy
    <2>5. \A old \in 0..MaxAge : ~RecoverExpiredLeases(old)
      BY <2>1 DEF RecoverExpiredLeases, Running
    <2>6. PICK w \in Workers : WorkerStep(w)
      BY <1>1, <2>3, <2>4, <2>5 DEF Next
    <2>7. \A v \in Workers \ {w} : pc'[v] = pc[v]
      BY <1>1, <2>6, OneMoves
    <2>8. pc'[w] \notin Busy
      BY <2>1
    <2>9. CASE StartCycle(w) \/ StartRecovery(w) \/ EndCycle(w)
      BY <1>1, <2>1, <2>2, <2>7, <2>9 DEF StartCycle, StartRecovery, EndCycle, Busy
    <2>10. CASE ClaimOperation(w) \/ ClaimWaitingSecurityOperation(w) \/ ClaimStartupRecovery(w)
      BY <1>1, <2>8, <2>10 DEF ClaimOperation, ClaimWaitingSecurityOperation, NormalClaim,
        ClaimStartupRecovery, Goto, Busy, TypeOK
    <2>11. CASE PrepareOperation(w)
      <3>1. ~Running /\ UNCHANGED row
        BY <1>1, <2>8, <2>11 DEF PrepareOperation, Goto, Busy, TypeOK
      <3> QED BY <2>1, <3>1 DEF Running, row
    <2>12. CASE Work(w)
      <3>1. PICK mail \in Mail : Wait(w, mail)
        BY <1>1, <2>8, <2>12 DEF Work, StartCall, Heartbeat, HeartbeatDies, EndCall, Decide,
          RecordRequest, SetProgress, Goto, Busy, TypeOK, local
      <3>2. role[w] = "Normal" /\ pc[w] = "Working" /\ pc'[w] = "Done"
        BY <1>1, <2>8, <3>1 DEF Wait, Rest, Goto, Busy, TypeOK
      <3>3. normalToken' = NoWorker /\ UNCHANGED recoveryToken /\ Running
        BY <2>1, <3>1 DEF Wait, Running
      <3>4. owner = recoveryToken /\ recoveryToken # NoWorker
        BY <1>1, <2>1, <3>3 DEF LInv, TokensAreLatest
      <3>5. owner # w
        BY <1>1, <3>2, <3>4 DEF LInv, TokensAreClaimed
      <3> QED BY <3>2, <3>5 DEF Busy
    <2>13. CASE Complete(w) \/ Fail(w)
      <3>1. pc[w] \in {"Succeeded", "Failed"} /\ pc'[w] = "Done" /\ UNCHANGED row /\ ~MayFinish(w)
        BY <1>1, <2>1, <2>13 DEF Complete, Fail, Rest, Goto, Running, TypeOK, row
      <3>2. ASSUME owner = w
            PROVE  FALSE
        <4>1. Running /\ (normalToken # NoWorker \/ recoveryToken # NoWorker)
          BY <2>1, <3>1 DEF Running, row
        <4>2. CASE role[w] = "Normal"
          <5>1. recoveryToken = NoWorker
            BY <1>1, <3>1, <3>2, <4>1, <4>2 DEF LInv, TokensAreLatest, TokensAreClaimed
          <5>2. normalToken = w
            BY <1>1, <3>2, <4>1, <5>1 DEF LInv, TokensAreLatest
          <5>3. token[w] \in {w, NoWorker}
            BY <1>1, <3>1, <3>2, <4>1 DEF LInv, OwnerFinishes, Busy
          <5> QED BY <3>1, <4>1, <4>2, <5>1, <5>2, <5>3 DEF MayFinish
        <4>3. CASE role[w] = "Recovery"
          <5>1. token[w] = w
            BY <1>1, <3>1, <4>3 DEF LInv, OwnerFinishes, Busy
          <5>2. recoveryToken # w
            BY <3>1, <4>1, <4>3, <5>1 DEF MayFinish
          <5>3. normalToken = w
            BY <1>1, <3>2, <4>1, <5>2 DEF LInv, TokensAreLatest
          <5> QED BY <1>1, <3>1, <4>3, <5>3 DEF LInv, TokensAreClaimed
        <4> QED BY <1>1, <4>2, <4>3 DEF TypeOK
      <3> QED BY <3>1, <3>2 DEF Busy
    <2>14. CASE ReleaseRecoveryClaim(w)
      <3>1. pc[w] = "Release" /\ pc'[w] = "Done" /\ UNCHANGED <<status, normalToken, waiting>>
        BY <1>1, <2>14 DEF ReleaseRecoveryClaim, Rest, Goto, TypeOK
      <3>2. Running /\ waiting # "No"
        BY <2>1, <3>1 DEF Running
      <3>3. recoveryToken # w
        <4>1. SUFFICES ASSUME recoveryToken = w PROVE FALSE
          OBVIOUS
        <4>2. recoveryToken' = NoWorker /\ normalToken = NoWorker
          BY <1>1, <2>14, <3>1, <3>2, <4>1 DEF ReleaseRecoveryClaim, LInv, ReleaseHolds
        <4> QED BY <2>1, <3>1, <4>2
      <3>4. UNCHANGED recoveryToken
        BY <2>14, <3>3 DEF ReleaseRecoveryClaim
      <3>5. owner # w \/ normalToken = w
        BY <1>1, <2>1, <3>1, <3>2, <3>3, <3>4 DEF LInv, TokensAreLatest
      <3>6. CASE normalToken = w /\ owner = w
        <4>1. role[w] = "Normal"
          BY <1>1, <3>1, <3>6 DEF LInv, TokensAreClaimed
        <4> QED BY <1>1, <3>1, <4>1 DEF LInv, TokensAreClaimed
      <3> QED BY <3>1, <3>5, <3>6 DEF Busy
    <2>15. CASE Crash(w)
      BY <2>15
    <2> QED BY <2>6, <2>9, <2>10, <2>11, <2>12, <2>13, <2>14, <2>15
      DEF WorkerStep, Claim, Finish
  <1>2. TypeOK /\ LInv /\ [Next]_vars
        => [Resumable /\ ~Resumable'
            => \E w \in Workers :
                 Crash(w) \/ (owner # w /\ pc[w] \in Busy /\ pc'[w] = "Done")]_vars
    BY <1>1
  <1>3. IInv /\ LInv => TypeOK /\ LInv
    BY DEF IInv
  <1> QED BY <1>2, <1>3, LeaseInvariance, PTL DEF Spec, StrandedByDeathOnly
-----------------------------------------------------------------------------
(***************************************************************************)
(* What holds of a guarded call whose heartbeat comes in time (TimelyNext),*)
(* as long as no claim was passed by.  The lease of the call is in the row *)
(* because only the latest claimant writes it, and nobody else can claim   *)
(* because the lease is there.                                             *)
(***************************************************************************)

TInv == IInv /\ LInv /\ CallsAreHeld /\ ExclusiveUnlessBreached

\* No call is in flight at first.
LEMMA CallInit == Init => CallsAreHeld /\ ExclusiveUnlessBreached
  BY DEF Init, CallsAreHeld, ExclusiveUnlessBreached, Busy

\* A heartbeat that comes in time keeps the lease of its call in the future.
LEMMA TickKeepsCalls ==
  ASSUME TInv, Tick, Timely
  PROVE  CallsAreHeld' /\ ExclusiveUnlessBreached'
  <1> USE DEF TInv, IInv
  <1>1. UNCHANGED <<status, normalToken, recoveryToken, pc, role, token, guard, heart, breach>>
    BY DEF Tick, history
  <1>2. ASSUME NEW w \in Workers, Held(w), covered[w] > 0
        PROVE  Held(w)'
    <2>1. /\ lease \in Oldest..RecoveryLease /\ covered[w] \in 0..RecoveryLease
          /\ lease # NoTime /\ covered[w] <= lease
      BY <1>2 DEF Held, TypeOK, Times
    <2>2. lease # Oldest /\ lease - 1 # NoTime
      BY <1>2, <2>1, LeaseAssumption DEF NoTime, Oldest
    <2>3. lease' = lease - 1 /\ covered'[w] = covered[w] - 1
      BY <1>2, <2>1, <2>2 DEF Tick, Shorter
    <2>4. 0 <= covered'[w] /\ covered'[w] <= lease' /\ lease' # NoTime
      BY <1>2, <2>1, <2>2, <2>3, LeaseAssumption DEF Oldest
    <2> QED BY <1>1, <1>2, <2>4 DEF Held
  <1>3. CallsAreHeld'
    BY <1>1, <1>2 DEF CallsAreHeld, Timely, Running
  <1> QED BY <1>1, <1>3 DEF ExclusiveUnlessBreached

\* As long as a call that is held is in flight no other worker can claim, and
\* none may write the row without a breach.
LEMMA HeldIsAlone ==
  ASSUME TInv, ~breach, Running, NEW w \in Workers, pc[w] = "Calling", NEW v \in Workers
  PROVE  /\ owner = w
         /\ ~ClaimOperation(v) /\ ~ClaimWaitingSecurityOperation(v) /\ ~ClaimStartupRecovery(v)
  <1> USE DEF TInv, IInv
  <1>1. Held(w) /\ w # NoWorker
    BY LeaseAssumption DEF CallsAreHeld
  <1>2. owner = w
    BY <1>1 DEF Held, LInv, TokensAreLatest
  <1>3. ~ClaimOperation(v) /\ ~ClaimWaitingSecurityOperation(v)
    BY <1>1 DEF ClaimOperation, ClaimWaitingSecurityOperation, Held, Running
  <1>4. ~ClaimStartupRecovery(v)
    BY <1>1, TimesAreTimes DEF ClaimStartupRecovery, LapsedAt, Held, TypeOK, Times
  <1> QED BY <1>2, <1>3, <1>4

\* A claim, and what a worker reads after it, keep the calls in flight.
LEMMA ClaimKeepsCalls ==
  ASSUME TInv, NEW v \in Workers, StartCycle(v) \/ StartRecovery(v) \/ Claim(v) \/ EndCycle(v)
  PROVE  CallsAreHeld' /\ ExclusiveUnlessBreached'
  <1> USE DEF TInv, IInv
  <1>1. CASE StartCycle(v) \/ StartRecovery(v) \/ EndCycle(v)
    BY <1>1 DEF StartCycle, StartRecovery, EndCycle, TypeOK, CallsAreHeld,
      ExclusiveUnlessBreached, Held, Running, Busy, Goto, row, local, history
  <1>2. CASE ClaimOperation(v) \/ ClaimWaitingSecurityOperation(v) \/ ClaimStartupRecovery(v)
    <2>1. /\ \E label \in {"Claimed", "Working"} :
               /\ pc' = [pc EXCEPT ![v] = label]
               /\ label = "Working" => token' = [token EXCEPT ![v] = v]
               /\ label = "Claimed" => token' = token
          /\ UNCHANGED <<guard, heart, breach>>
      BY <1>2 DEF ClaimOperation, ClaimWaitingSecurityOperation, NormalClaim,
        ClaimStartupRecovery, Goto, local
    <2>2. status = "PENDING" \/ Running
      BY <1>2 DEF ClaimOperation, ClaimWaitingSecurityOperation, ClaimStartupRecovery
    <2>3. ~breach => \A w \in Workers : pc[w] # "Calling"
      BY <1>2, <2>2, HeldIsAlone DEF LInv, FreshIsFree, Busy
    <2> QED
      BY <2>1, <2>3 DEF CallsAreHeld, ExclusiveUnlessBreached, TypeOK, Busy
  <1>3. CASE PrepareOperation(v)
    <2>1. /\ UNCHANGED row
          /\ \A w \in Workers \ {v} : /\ pc'[w] = pc[w] /\ token'[w] = token[w]
                                      /\ guard'[w] = guard[w] /\ heart'[w] = heart[w]
                                      /\ role'[w] = role[w] /\ covered'[w] = covered[w]
          /\ pc'[v] \in {"Working", "Failed", "Done"}
          /\ breach => breach'
      BY <1>3 DEF PrepareOperation, Breaching, Rest, Goto, TypeOK
    <2>2. ~breach' /\ pc'[v] # "Done" => token'[v] = v
      BY <1>3 DEF PrepareOperation, Breaching, Rest, Goto, TypeOK
    <2> QED
      BY <2>1, <2>2 DEF CallsAreHeld, ExclusiveUnlessBreached, Held, Running, Busy, row
  <1> QED BY <1>1, <1>2, <1>3 DEF Claim

\* A worker at work keeps the calls of the others: the fence lets no second one
\* begin, and an unfenced write of a worker that is not the latest claimant is a
\* breach.
LEMMA WorkKeepsCalls ==
  ASSUME TInv, NEW v \in Workers, Work(v)
  PROVE  CallsAreHeld' /\ ExclusiveUnlessBreached'
  <1> USE DEF TInv, IInv
  <1>1. CASE StartCall(v)
    <2>1. /\ pc[v] = "Working" /\ heart[v] = "Beating"
          /\ UNCHANGED <<status, normalToken, recoveryToken, role, token, heart, breach>>
      BY <1>1 DEF StartCall, Renew, row, history, LInv, OwnerFinishes
    <2>2. SUFFICES ASSUME ~breach PROVE CallsAreHeld' /\ ExclusiveUnlessBreached'
      BY <2>1 DEF CallsAreHeld, ExclusiveUnlessBreached
    <2>3. token[v] = v /\ v # NoWorker
      BY <2>1, <2>2, LeaseAssumption DEF CallsAreHeld, Busy
    <2>4. CASE Renew(v, v) /\ guard' = [guard EXCEPT ![v] = v] /\ Goto(v, "Calling")
      <3>1. Running /\ \A w \in Workers : pc[w] # "Calling"
        <4>1. /\ Running
              /\ IF role[v] = "Normal" THEN normalToken = v /\ recoveryToken = NoWorker
                                       ELSE recoveryToken = v
          BY <2>4 DEF Renew, Owned
        <4>2. owner = v
          BY <2>3, <4>1 DEF LInv, TokensAreLatest
        <4> QED BY <2>1, <2>2, <4>1, <4>2, HeldIsAlone
      <3>2. Held(v)'
        <4>1. /\ lease' = covered'[v] /\ lease' \in 0..RecoveryLease
              /\ IF role[v] = "Normal" THEN normalToken = v /\ recoveryToken = NoWorker
                                       ELSE recoveryToken = v
          BY <2>4, TimesAreTimes DEF Renew, Owned, TypeOK
        <4>2. 0 <= lease' /\ lease' <= lease' /\ lease' # NoTime
          BY <4>1, LeaseAssumption DEF NoTime
        <4> QED BY <2>1, <4>1, <4>2 DEF Held
      <3>3. /\ \A w \in Workers : pc'[w] = IF w = v THEN "Calling" ELSE pc[w]
            /\ guard'[v] = v
        BY <2>4 DEF Goto, TypeOK
      <3>4. CallsAreHeld'
        BY <2>1, <2>2, <2>3, <3>1, <3>2, <3>3 DEF CallsAreHeld, Busy
      <3> QED BY <3>1, <3>3, <3>4 DEF ExclusiveUnlessBreached
    <2>5. CASE Goto(v, "Failed") /\ UNCHANGED <<row, guard, covered>>
      BY <2>1, <2>2, <2>5 DEF CallsAreHeld, ExclusiveUnlessBreached, Held, Goto, TypeOK,
        Running, Busy, row
    <2> QED BY <1>1, <2>3, <2>4, <2>5 DEF StartCall
  <1>2. CASE Heartbeat(v)
    <2>1. /\ pc[v] = "Calling"
          /\ UNCHANGED <<status, normalToken, recoveryToken, pc, role, token, guard, breach>>
      BY <1>2 DEF Heartbeat, Renew, row, history
    <2>2. SUFFICES ASSUME ~breach PROVE CallsAreHeld' /\ ExclusiveUnlessBreached'
      BY <2>1 DEF CallsAreHeld, ExclusiveUnlessBreached
    <2>3. guard[v] = v /\ v # NoWorker /\ \A w \in Workers : pc[w] = "Calling" => w = v
      BY <2>1, <2>2, LeaseAssumption DEF CallsAreHeld, ExclusiveUnlessBreached
    <2>4. CASE Renew(v, v) /\ UNCHANGED heart
      <3>1. Held(v)'
        <4>1. /\ lease' = covered'[v] /\ lease' \in 0..RecoveryLease
              /\ IF role[v] = "Normal" THEN normalToken = v /\ recoveryToken = NoWorker
                                       ELSE recoveryToken = v
          BY <2>4, TimesAreTimes DEF Renew, Owned, TypeOK
        <4>2. 0 <= lease' /\ lease' <= lease' /\ lease' # NoTime
          BY <4>1, LeaseAssumption DEF NoTime
        <4> QED BY <2>1, <4>1, <4>2 DEF Held
      <3> QED
        BY <2>1, <2>2, <2>3, <2>4, <3>1 DEF CallsAreHeld, ExclusiveUnlessBreached, Running
    <2>5. CASE ~Owned(v, v) /\ heart' = [heart EXCEPT ![v] = "Lost"]
      <3>1. ~Running
        <4>1. Running => Held(v)
          BY <2>1, <2>2 DEF CallsAreHeld
        <4>2. lease \in Oldest..RecoveryLease \/ lease = NoTime
          BY DEF TypeOK, Times
        <4> QED BY <2>3, <2>5, <4>1, <4>2, TimesAreTimes DEF Held, Owned, TypeOK
      <3> QED
        BY <2>1, <2>2, <2>3, <2>5, <3>1 DEF CallsAreHeld, ExclusiveUnlessBreached, Running,
          TypeOK
    <2> QED BY <1>2, <2>3, <2>4, <2>5 DEF Heartbeat
  <1>3. CASE HeartbeatDies(v)
    BY <1>3 DEF HeartbeatDies, Breaching, CallsAreHeld, ExclusiveUnlessBreached
  <1>4. CASE EndCall(v) \/ Decide(v)
    <2>1. /\ pc[v] \in {"Calling", "Working"} /\ pc'[v] # "Calling"
          /\ UNCHANGED <<status, lease, normalToken, recoveryToken, role, token, breach>>
          /\ \A w \in Workers \ {v} : /\ pc'[w] = pc[w] /\ guard'[w] = guard[w]
                                      /\ heart'[w] = heart[w] /\ covered'[w] = covered[w]
      BY <1>4 DEF EndCall, Decide, Goto, TypeOK, row, local, history
    <2> QED
      BY <2>1 DEF CallsAreHeld, ExclusiveUnlessBreached, Held, Running, Busy
  <1>5. ASSUME NEW mail \in Mail, RecordRequest(v, mail)
        PROVE  CallsAreHeld' /\ ExclusiveUnlessBreached'
    BY <1>5 DEF RecordRequest, CallsAreHeld, ExclusiveUnlessBreached, Held, Running, local, history
  <1>6. CASE SetProgress(v)
    <2>1. /\ pc[v] = "Working" /\ Running /\ Breaching(owner # v)
          /\ UNCHANGED <<status, normalToken, recoveryToken, pc, role, token, guard, heart>>
      BY <1>6 DEF SetProgress, local
    <2>2. SUFFICES ASSUME ~breach, owner = v
                   PROVE  CallsAreHeld' /\ ExclusiveUnlessBreached'
      BY <2>1 DEF CallsAreHeld, ExclusiveUnlessBreached, Breaching
    <2>3. \A w \in Workers : pc[w] # "Calling"
      BY <2>1, <2>2, HeldIsAlone
    <2> QED BY <2>1, <2>2, <2>3 DEF CallsAreHeld, ExclusiveUnlessBreached
  <1>7. ASSUME NEW mail \in Mail, Wait(v, mail)
        PROVE  CallsAreHeld' /\ ExclusiveUnlessBreached'
    <2>1. /\ pc[v] = "Working" /\ Breaching(Running /\ owner # v) /\ UNCHANGED status
          /\ pc'[v] \in {"Done", "Release"}
          /\ pc'[v] = "Release" => token'[v] = token[v]
          /\ \A w \in Workers \ {v} : /\ pc'[w] = pc[w] /\ guard'[w] = guard[w]
                                      /\ heart'[w] = heart[w] /\ token'[w] = token[w]
      BY <1>7 DEF Wait, Rest, Goto, TypeOK, local
    <2>2. SUFFICES ASSUME ~breach, Running => owner = v
                   PROVE  CallsAreHeld' /\ ExclusiveUnlessBreached'
      BY <2>1 DEF CallsAreHeld, ExclusiveUnlessBreached, Breaching
    <2>3. Running => \A w \in Workers : pc[w] # "Calling"
      BY <2>1, <2>2, HeldIsAlone
    <2> QED
      BY <2>1, <2>2, <2>3 DEF CallsAreHeld, ExclusiveUnlessBreached, Running, Busy
  <1> QED BY <1>1, <1>2, <1>3, <1>4, <1>5, <1>6, <1>7 DEF Work

\* A worker that ends, dies or gives its claim back touches no claim of another.
LEMMA EndKeepsCalls ==
  ASSUME TInv, NEW v \in Workers, Finish(v) \/ Crash(v)
  PROVE  CallsAreHeld' /\ ExclusiveUnlessBreached'
  <1> USE DEF TInv, IInv
  <1>1. /\ pc'[v] = "Done" /\ UNCHANGED breach
        /\ \A w \in Workers \ {v} : /\ pc'[w] = pc[w] /\ guard'[w] = guard[w]
                                    /\ heart'[w] = heart[w] /\ token'[w] = token[w]
                                    /\ role'[w] = role[w] /\ covered'[w] = covered[w]
    BY DEF Finish, ReleaseRecoveryClaim, Complete, Fail, Crash, Rest, Goto, TypeOK
  <1>2. Running' => Running
    BY DEF Finish, ReleaseRecoveryClaim, Complete, Fail, Crash, Running, row
  <1>3. CASE UNCHANGED <<lease, normalToken, recoveryToken>>
    BY <1>1, <1>2, <1>3 DEF CallsAreHeld, ExclusiveUnlessBreached, Held, Busy
  <1>4. CASE ~Running'
    BY <1>1, <1>4 DEF CallsAreHeld, ExclusiveUnlessBreached, Busy
  <1>5. CASE Running /\ recoveryToken = v /\ pc[v] = "Release"
    <2>1. v # NoWorker /\ owner = v
      BY <1>5, LeaseAssumption DEF LInv, TokensAreLatest
    <2>2. ~breach => \A w \in Workers : pc[w] # "Calling"
      BY <1>5, <2>1, HeldIsAlone
    <2> QED BY <1>1, <2>2 DEF CallsAreHeld, ExclusiveUnlessBreached, Busy
  <1> QED
    BY <1>3, <1>4, <1>5 DEF Finish, ReleaseRecoveryClaim, Complete, Fail, Crash, Running, row

\* Every timely step keeps the calls held and apart.
LEMMA TimelyKeepsCalls ==
  ASSUME TInv, [TimelyNext]_vars
  PROVE  CallsAreHeld' /\ ExclusiveUnlessBreached'
  <1>1. ASSUME NEW w \in Workers, WorkerStep(w)
        PROVE  CallsAreHeld' /\ ExclusiveUnlessBreached'
    BY <1>1, ClaimKeepsCalls, WorkKeepsCalls, EndKeepsCalls DEF WorkerStep
  <1>2. ASSUME NEW old \in 0..MaxAge, RecoverExpiredLeases(old)
        PROVE  CallsAreHeld' /\ ExclusiveUnlessBreached'
    BY <1>2 DEF RecoverExpiredLeases, local, history, TInv, CallsAreHeld, ExclusiveUnlessBreached,
      Running
  <1>3. CASE UNCHANGED vars
    BY <1>3 DEF vars, row, local, history, TInv, CallsAreHeld, ExclusiveUnlessBreached, Held,
      Running, Busy
  <1> QED BY <1>1, <1>2, <1>3, TickKeepsCalls DEF TimelyNext

\* Two guarded calls of Pixel Storm are in flight at once only after a claim was
\* passed by, for any number of workers, any leases, and clocks however stale: a
\* claim that is born lapsed or outlasted by a look at the site begins no call.
THEOREM CallsMeetOnlyAfterABreach == TimelySpec => []ExclusiveUnlessBreached
  <1>1. Init => TInv
    BY InitInv, LInvInit, CallInit DEF TInv
  <1>2. TInv /\ [TimelyNext]_vars => TInv'
    <2>1. TimelyNext => Next
      BY DEF TimelyNext, Next
    <2> QED BY <2>1, TimelyKeepsCalls, NextInv, NextLInv DEF TInv, IInv
  <1>3. TInv => ExclusiveUnlessBreached
    BY DEF TInv
  <1> QED BY <1>1, <1>2, <1>3, PTL DEF TimelySpec
=============================================================================
