-------------------------- MODULE FunPayIntakeProofs --------------------------
(***************************************************************************)
(* Safety of FunPayIntake for every set of runtimes, events and orders.    *)
(***************************************************************************)
EXTENDS FunPayIntake, TLAPS

\* What an action leaves alone is stated by these tuples.
USE DEF fun, business, rows, local

\* Every step keeps the types.
LEMMA TypeStep == TypeOK /\ [Next]_vars => TypeOK'
  <1> SUFFICES ASSUME TypeOK, [Next]_vars PROVE TypeOK'
    OBVIOUS
  <1> USE IntakeAssumption DEF TypeOK, Final, Goto, Forget
  <1>1. ASSUME NEW e \in Events, Post(e) PROVE TypeOK'
    BY <1>1 DEF Post
  <1>2. ASSUME NEW e \in Events, LeaseSecondsPass(e) PROVE TypeOK'
    BY <1>2 DEF LeaseSecondsPass
  <1>3. CASE LoseHealth
    BY <1>3 DEF LoseHealth
  <1>4. CASE RegainHealth
    BY <1>4 DEF RegainHealth
  <1>5. CASE RentalsMove
    BY <1>5 DEF RentalsMove, Lives!Deliver, Lives!End
  <1>6. ASSUME NEW r \in Runtimes, Start(r) \/ Crash(r) \/ FailCycle(r)
        PROVE  TypeOK'
    BY <1>6 DEF Start, Crash, FailCycle
  <1>7. ASSUME NEW r \in Runtimes, BeginCycle(r) \/ PollNotReady(r) \/ EndCycle(r)
        PROVE  TypeOK'
    BY <1>7 DEF BeginCycle, PollNotReady, EndCycle
  <1>8. ASSUME NEW r \in Runtimes, PollEvents(r) PROVE TypeOK'
    BY <1>8 DEF PollEvents
  <1>9. ASSUME NEW r \in Runtimes, Ingest(r) PROVE TypeOK'
    BY <1>9 DEF Ingest, Stored
  <1>10. ASSUME NEW r \in Runtimes, ClaimEvents(r) PROVE TypeOK'
    BY <1>10 DEF ClaimEvents
  <1>11. ASSUME NEW r \in Runtimes, Handle(r) PROVE TypeOK'
    <2> PICK e \in Events : \/ PostponePaidOrder(r, e) \/ RefuseIncomplete(r, e)
                            \/ AcceptPaidOrder(r, e) \/ RefuseCode(r, e)
                            \/ Ignore(r, e) \/ SeeActiveRental(r, e)
                            \/ CreateSendOtp(r, e)
      BY <1>11 DEF Handle
    <2>1. CASE PostponePaidOrder(r, e) \/ RefuseIncomplete(r, e) \/ RefuseCode(r, e)
               \/ Ignore(r, e)
      BY <2>1 DEF PostponePaidOrder, RefuseIncomplete, RefuseCode, Ignore, Conclude
    <2>2. CASE AcceptPaidOrder(r, e)
      BY <2>2 DEF AcceptPaidOrder, Conclude
    <2>3. CASE SeeActiveRental(r, e)
      BY <2>3 DEF SeeActiveRental
    <2>4. CASE CreateSendOtp(r, e)
      BY <2>4 DEF CreateSendOtp, Conclude
    <2> QED  BY <2>1, <2>2, <2>3, <2>4
  <1>12. ASSUME NEW r \in Runtimes, Mark(r) PROVE TypeOK'
    BY <1>12 DEF Mark, MarkProcessed, MarkRetryable, MarkFailedClosed, NextClaim
  <1>13. CASE UNCHANGED vars
    BY <1>13 DEF vars
  <1> QED
    BY <1>1, <1>2, <1>3, <1>4, <1>5, <1>6, <1>7, <1>8, <1>9, <1>10, <1>11, <1>12,
       <1>13 DEF Next, CycleStep

\* The type invariant of the intake of events, for any number of runtimes.
THEOREM TypeCorrect == Spec => []TypeOK
<1>1. Init => TypeOK
  BY IntakeAssumption DEF Init, TypeOK, Final
<1> QED
  BY <1>1, TypeStep, PTL DEF Spec

-----------------------------------------------------------------------------
\* An event has a row only once it is on FunPay's list, and only what has a row
\* is claimed.
RowsArePosted ==
  /\ \A e \in Events : at[e] <= posts /\ (Stored(e) => at[e] > 0)
  /\ \A e, f \in Events : at[e] = at[f] /\ at[e] > 0 => e = f
  /\ \A r \in Runtimes : \A e \in found[r] : at[e] > 0
  /\ \A r \in Runtimes : \A e \in claims[r] : Stored(e)

\* A runtime's token on an event it still holds means that its claim is alive.
ClaimAlive ==
  \A r \in Runtimes : \A e \in claims[r] : token[e] = r => status[e] = "CLAIMED"

\* What a handler reports is true of the order when the mark is made.
HandlerTruth ==
  \A r \in Runtimes : \A e \in claims[r] : Current(r, e) =>
    /\ pc[r] = "Insert" => e \in CodeEvents /\ rental[OrderOf[e]] \in {"Active", "Over"}
    /\ pc[r] = "Mark" /\ Complete(e) =>
         /\ outcome[r] # "failed"
         /\ outcome[r] = "processed" => rental[OrderOf[e]] # "None"

\* What a runtime has yet to store lies ahead of the poll it will do next.
DueIsAhead ==
  \A r \in Runtimes :
    /\ cursor[r] <= posts /\ began[r] <= posts
    /\ due[r] # {} => ready /\ pc[r] # "Down"
    /\ \A e \in due[r] :
         /\ ~Stored(e)
         /\ pc[r] = "Store" => e \in found[r] \/ at[e] > began[r]
         /\ pc[r] \in {"Dispatch", "Insert", "Mark"} => at[e] > began[r]

\* The inductive invariant.
IInv ==
  /\ TypeOK
  /\ RowsArePosted
  /\ ClaimAlive
  /\ HandlerTruth
  /\ DueIsAhead
  /\ NothingPassedOver
  /\ ClosedPaidHasOrder
  /\ OtpForStartedRental

\* A runtime works on one claim at a time.
LEMMA OneCurrent ==
  ASSUME TypeOK, RowsArePosted, NEW r \in Runtimes, NEW e \in Events, NEW f \in Events,
         Current(r, e), Current(r, f)
  PROVE  e = f
  BY DEF TypeOK, RowsArePosted, Current

\* The empty database satisfies the invariant.
LEMMA InitInv == Init => IInv
  BY IntakeAssumption DEF Init, IInv, TypeOK, Final, RowsArePosted, ClaimAlive,
    HandlerTruth, DueIsAhead, NothingPassedOver, ClosedPaidHasOrder,
    OtpForStartedRental, Stored, Complete

\* FunPay's list grows.
LEMMA PostKeepsInv ==
  ASSUME IInv, TypeOK', NEW x \in Events, Post(x)
  PROVE  IInv'
  <1> USE IntakeAssumption DEF IInv, TypeOK, Goto, Forget, Post
  <1>1. RowsArePosted'
    BY DEF RowsArePosted, Stored
  <1>2. ClaimAlive'
    BY DEF ClaimAlive, RowsArePosted, Stored
  <1>3. HandlerTruth'
    BY DEF HandlerTruth, RowsArePosted, Stored, Current, Complete
  <1>4. DueIsAhead'
    BY DEF DueIsAhead, RowsArePosted, NothingPassedOver, Stored
  <1>5. NothingPassedOver'
    BY DEF NothingPassedOver, DueIsAhead, RowsArePosted
  <1>6. ClosedPaidHasOrder'
    BY DEF ClosedPaidHasOrder, HandlerTruth, Complete, Stored, Final
  <1>7. OtpForStartedRental'
    BY DEF OtpForStartedRental, HandlerTruth
  <1> QED  BY <1>1, <1>2, <1>3, <1>4, <1>5, <1>6, <1>7

\* Health, rentals and time move on.
LEMMA WorldKeepsInv ==
  ASSUME IInv, TypeOK', LoseHealth \/ RegainHealth
         \/ RentalsMove \/ (\E x \in Events : LeaseSecondsPass(x))
  PROVE  IInv'
  <1> USE IntakeAssumption DEF IInv, TypeOK, Goto, Forget, LoseHealth, RegainHealth, RentalsMove, LeaseSecondsPass,
    Lives!Deliver, Lives!End
  <1>1. RowsArePosted'
    BY DEF RowsArePosted, Stored
  <1>2. ClaimAlive'
    BY DEF ClaimAlive, RowsArePosted, Stored
  <1>3. HandlerTruth'
    BY DEF HandlerTruth, RowsArePosted, Stored, Current, Complete
  <1>4. DueIsAhead'
    BY DEF DueIsAhead, RowsArePosted, NothingPassedOver, Stored
  <1>5. NothingPassedOver'
    BY DEF NothingPassedOver, DueIsAhead, RowsArePosted
  <1>6. ClosedPaidHasOrder'
    BY DEF ClosedPaidHasOrder, HandlerTruth, Complete, Stored, Final
  <1>7. OtpForStartedRental'
    BY DEF OtpForStartedRental, HandlerTruth
  <1> QED  BY <1>1, <1>2, <1>3, <1>4, <1>5, <1>6, <1>7

\* A runtime starts, stops or fails.
LEMMA StopKeepsInv ==
  ASSUME IInv, TypeOK', NEW q \in Runtimes, Start(q) \/ Crash(q) \/ FailCycle(q)
  PROVE  IInv'
  <1> USE IntakeAssumption DEF IInv, TypeOK, Goto, Forget, Start, Crash, FailCycle
  <1>1. RowsArePosted'
    <2>1. CASE Start(q)
      BY <2>1 DEF RowsArePosted, Stored
    <2>2. CASE Crash(q)
      BY <2>2 DEF RowsArePosted, Stored
    <2>3. CASE FailCycle(q)
      BY <2>3 DEF RowsArePosted, Stored
    <2> QED  BY <2>1, <2>2, <2>3
  <1>2. ClaimAlive'
    BY DEF ClaimAlive, RowsArePosted, Stored
  <1>3. HandlerTruth'
    BY DEF HandlerTruth, RowsArePosted, Stored, Current, Complete
  <1>4. DueIsAhead'
    BY DEF DueIsAhead, RowsArePosted, NothingPassedOver, Stored
  <1>5. NothingPassedOver'
    <2>1. CASE Start(q)
      BY <2>1 DEF NothingPassedOver, DueIsAhead, RowsArePosted
    <2>2. CASE Crash(q)
      BY <2>2 DEF NothingPassedOver, DueIsAhead, RowsArePosted
    <2>3. CASE FailCycle(q)
      BY <2>3 DEF NothingPassedOver, DueIsAhead, RowsArePosted
    <2> QED  BY <2>1, <2>2, <2>3
  <1>6. ClosedPaidHasOrder'
    BY DEF ClosedPaidHasOrder, HandlerTruth, Complete, Stored, Final
  <1>7. OtpForStartedRental'
    BY DEF OtpForStartedRental, HandlerTruth
  <1> QED  BY <1>1, <1>2, <1>3, <1>4, <1>5, <1>6, <1>7

\* A cycle begins, polls and ends.
LEMMA CycleKeepsInv ==
  ASSUME IInv, TypeOK', NEW q \in Runtimes,
         BeginCycle(q) \/ PollNotReady(q) \/ PollEvents(q) \/ EndCycle(q)
  PROVE  IInv'
  <1> USE IntakeAssumption DEF IInv, TypeOK, Goto, Forget, BeginCycle, PollNotReady, PollEvents, EndCycle
  <1>1. RowsArePosted'
    <2>1. CASE BeginCycle(q)
      BY <2>1 DEF RowsArePosted, Stored
    <2>2. CASE PollNotReady(q)
      BY <2>2 DEF RowsArePosted, Stored
    <2>3. CASE PollEvents(q)
      BY <2>3 DEF RowsArePosted, Stored
    <2>4. CASE EndCycle(q)
      BY <2>4 DEF RowsArePosted, Stored
    <2> QED  BY <2>1, <2>2, <2>3, <2>4
  <1>2. ClaimAlive'
    <2>1. token' = token /\ status' = status
      OBVIOUS
    <2>2. \A r \in Runtimes : claims'[r] \subseteq claims[r]
      OBVIOUS
    <2> QED  BY <2>1, <2>2 DEF ClaimAlive
  <1>3. HandlerTruth'
    BY DEF HandlerTruth, RowsArePosted, Stored, Current, Complete
  <1>4. DueIsAhead'
    BY DEF DueIsAhead, RowsArePosted, NothingPassedOver, Stored
  <1>5. NothingPassedOver'
    <2>1. CASE BeginCycle(q)
      BY <2>1 DEF NothingPassedOver, DueIsAhead, RowsArePosted
    <2>2. CASE PollNotReady(q)
      BY <2>2 DEF NothingPassedOver, DueIsAhead, RowsArePosted
    <2>3. CASE PollEvents(q)
      BY <2>3 DEF NothingPassedOver, DueIsAhead, RowsArePosted
    <2>4. CASE EndCycle(q)
      BY <2>4 DEF NothingPassedOver, DueIsAhead, RowsArePosted
    <2> QED  BY <2>1, <2>2, <2>3, <2>4
  <1>6. ClosedPaidHasOrder'
    BY DEF ClosedPaidHasOrder, HandlerTruth, Complete, Stored, Final
  <1>7. OtpForStartedRental'
    BY DEF OtpForStartedRental, HandlerTruth
  <1> QED  BY <1>1, <1>2, <1>3, <1>4, <1>5, <1>6, <1>7

\* An event is stored.
LEMMA IngestKeepsInv ==
  ASSUME IInv, TypeOK', NEW q \in Runtimes, Ingest(q)
  PROVE  IInv'
  <1> USE IntakeAssumption DEF IInv, TypeOK, Goto, Forget, Ingest
  <1>1. RowsArePosted'
    BY DEF RowsArePosted, Stored
  <1>2. ClaimAlive'
    BY DEF ClaimAlive, RowsArePosted, Stored
  <1>3. HandlerTruth'
    BY DEF HandlerTruth, RowsArePosted, Stored, Current, Complete
  <1>4. DueIsAhead'
    BY DEF DueIsAhead, RowsArePosted, NothingPassedOver, Stored
  <1>5. NothingPassedOver'
    BY DEF NothingPassedOver, DueIsAhead, RowsArePosted
  <1>6. ClosedPaidHasOrder'
    BY DEF ClosedPaidHasOrder, HandlerTruth, Complete, Stored, Final
  <1>7. OtpForStartedRental'
    BY DEF OtpForStartedRental, HandlerTruth
  <1> QED  BY <1>1, <1>2, <1>3, <1>4, <1>5, <1>6, <1>7

\* The claimable events are claimed.
LEMMA ClaimKeepsInv ==
  ASSUME IInv, TypeOK', NEW q \in Runtimes, ClaimEvents(q)
  PROVE  IInv'
  <1> USE IntakeAssumption DEF IInv, TypeOK, Goto, Forget, ClaimEvents, Claimable
  <1>1. RowsArePosted'
    BY DEF RowsArePosted, Stored
  <1>2. ClaimAlive'
    BY DEF ClaimAlive, RowsArePosted, Stored
  <1>3. HandlerTruth'
    BY DEF HandlerTruth, RowsArePosted, Stored, Current, Complete
  <1>4. DueIsAhead'
    BY DEF DueIsAhead, RowsArePosted, NothingPassedOver, Stored
  <1>5. NothingPassedOver'
    BY DEF NothingPassedOver, DueIsAhead, RowsArePosted
  <1>6. ClosedPaidHasOrder'
    BY DEF ClosedPaidHasOrder, HandlerTruth, Complete, Stored, Final
  <1>7. OtpForStartedRental'
    BY DEF OtpForStartedRental, HandlerTruth
  <1> QED  BY <1>1, <1>2, <1>3, <1>4, <1>5, <1>6, <1>7

\* A claim is handled.
LEMMA HandleKeepsInv ==
  ASSUME IInv, TypeOK', NEW q \in Runtimes, NEW x \in Events,
         \/ PostponePaidOrder(q, x) \/ RefuseIncomplete(q, x)
         \/ AcceptPaidOrder(q, x) \/ RefuseCode(q, x)
         \/ Ignore(q, x) \/ SeeActiveRental(q, x)
         \/ CreateSendOtp(q, x)
  PROVE  IInv'
  <1> USE IntakeAssumption DEF IInv, TypeOK, Goto, Forget, PostponePaidOrder, RefuseIncomplete,
      AcceptPaidOrder, RefuseCode, Ignore, SeeActiveRental, CreateSendOtp, Dispatching,
      Conclude
  <1>1. RowsArePosted'
    BY DEF RowsArePosted, Stored
  <1>2. ClaimAlive'
    BY DEF ClaimAlive, RowsArePosted, Stored
  <1>3. HandlerTruth'
    BY DEF HandlerTruth, RowsArePosted, Stored, Current, Complete
  <1>4. DueIsAhead'
    BY DEF DueIsAhead, RowsArePosted, NothingPassedOver, Stored
  <1>5. NothingPassedOver'
    BY DEF NothingPassedOver, DueIsAhead, RowsArePosted
  <1>6. ClosedPaidHasOrder'
    BY DEF ClosedPaidHasOrder, HandlerTruth, Complete, Stored, Final
  <1>7. OtpForStartedRental'
    <2>1. CASE CreateSendOtp(q, x)
      <3>1. rental[OrderOf[x]] \in {"Active", "Over"}
        BY <2>1 DEF HandlerTruth, Current
      <3> QED  BY <2>1, <3>1 DEF OtpForStartedRental
    <2>2. CASE AcceptPaidOrder(q, x)
      BY <2>2 DEF OtpForStartedRental, HandlerTruth
    <2>3. CASE ~CreateSendOtp(q, x) /\ ~AcceptPaidOrder(q, x)
      BY <2>3 DEF OtpForStartedRental, HandlerTruth
    <2> QED  BY <2>1, <2>2, <2>3
  <1> QED  BY <1>1, <1>2, <1>3, <1>4, <1>5, <1>6, <1>7

\* A handled claim is marked.
LEMMA MarkKeepsInv ==
  ASSUME IInv, TypeOK', NEW q \in Runtimes, NEW x \in Events,
         MarkProcessed(q, x) \/ MarkRetryable(q, x) \/ MarkFailedClosed(q, x)
  PROVE  IInv'
  <1> USE IntakeAssumption DEF IInv, TypeOK, Goto, Forget, MarkProcessed, MarkRetryable,
      MarkFailedClosed, NextClaim, Owns
  <1>a. x \in claims[q] /\ Stored(x) /\ at[x] > 0
    BY DEF RowsArePosted, Current
  <1>b. Complete(x) => /\ outcome[q] # "failed"
                       /\ outcome[q] = "processed" => rental[OrderOf[x]] # "None"
    BY <1>a DEF HandlerTruth
  <1>1. RowsArePosted'
    <2>1. CASE MarkProcessed(q, x)
      BY <2>1 DEF RowsArePosted, Stored
    <2>2. CASE MarkRetryable(q, x)
      BY <2>2 DEF RowsArePosted, Stored
    <2>3. CASE MarkFailedClosed(q, x)
      BY <2>3, <1>a DEF RowsArePosted, Stored
    <2> QED  BY <2>1, <2>2, <2>3
  <1>2. ClaimAlive'
    BY DEF ClaimAlive, RowsArePosted, Stored
  <1>3. HandlerTruth'
    BY DEF HandlerTruth, RowsArePosted, Stored, Current, Complete
  <1>4. DueIsAhead'
    <2>1. CASE MarkProcessed(q, x)
      BY <2>1 DEF DueIsAhead, RowsArePosted, NothingPassedOver, Stored
    <2>2. CASE MarkRetryable(q, x)
      BY <2>2 DEF DueIsAhead, RowsArePosted, NothingPassedOver, Stored
    <2>3. CASE MarkFailedClosed(q, x)
      BY <2>3, <1>a DEF DueIsAhead, RowsArePosted, NothingPassedOver, Stored
    <2> QED  BY <2>1, <2>2, <2>3
  <1>5. NothingPassedOver'
    BY DEF NothingPassedOver, DueIsAhead, RowsArePosted
  <1>6. ClosedPaidHasOrder'
    <2>1. CASE MarkProcessed(q, x)
      BY <2>1, <1>b DEF ClosedPaidHasOrder, HandlerTruth, Complete, Stored, Final
    <2>2. CASE MarkRetryable(q, x)
      BY <2>2, <1>b DEF ClosedPaidHasOrder, HandlerTruth, Complete, Stored, Final
    <2>3. CASE MarkFailedClosed(q, x)
      BY <2>3, <1>b DEF ClosedPaidHasOrder, HandlerTruth, Complete, Stored, Final
    <2> QED  BY <2>1, <2>2, <2>3
  <1>7. OtpForStartedRental'
    BY DEF OtpForStartedRental, HandlerTruth
  <1> QED  BY <1>1, <1>2, <1>3, <1>4, <1>5, <1>6, <1>7

-----------------------------------------------------------------------------
\* Every step of the system keeps the invariant.
LEMMA InvStep == IInv /\ [Next]_vars => IInv'
  <1> SUFFICES ASSUME IInv, [Next]_vars PROVE IInv'
    OBVIOUS
  <1>1. TypeOK'
    BY TypeStep DEF IInv
  <1>2. ASSUME NEW x \in Events, Post(x) PROVE IInv'
    BY <1>1, <1>2, PostKeepsInv
  <1>3. CASE \/ LoseHealth \/ RegainHealth
             \/ RentalsMove
             \/ (\E x \in Events : LeaseSecondsPass(x))
    BY <1>1, <1>3, WorldKeepsInv
  <1>4. ASSUME NEW q \in Runtimes, Start(q) \/ Crash(q) \/ FailCycle(q) PROVE IInv'
    BY <1>1, <1>4, StopKeepsInv
  <1>5. ASSUME NEW q \in Runtimes,
               BeginCycle(q) \/ PollNotReady(q) \/ PollEvents(q) \/ EndCycle(q)
        PROVE  IInv'
    BY <1>1, <1>5, CycleKeepsInv
  <1>6. ASSUME NEW q \in Runtimes, Ingest(q) PROVE IInv'
    BY <1>1, <1>6, IngestKeepsInv
  <1>7. ASSUME NEW q \in Runtimes, ClaimEvents(q) PROVE IInv'
    BY <1>1, <1>7, ClaimKeepsInv
  <1>8. ASSUME NEW q \in Runtimes, Handle(q) PROVE IInv'
    BY <1>1, <1>8, HandleKeepsInv DEF Handle
  <1>9. ASSUME NEW q \in Runtimes, Mark(q) PROVE IInv'
    BY <1>1, <1>9, MarkKeepsInv DEF Mark
  <1>10. CASE UNCHANGED vars
    BY <1>10 DEF vars, IInv, TypeOK, RowsArePosted, ClaimAlive, HandlerTruth,
      DueIsAhead, NothingPassedOver, ClosedPaidHasOrder, OtpForStartedRental, Stored,
      Current, Complete
  <1> QED
    BY <1>2, <1>3, <1>4, <1>5, <1>6, <1>7, <1>8, <1>9, <1>10 DEF Next, CycleStep

\* The invariant holds in every reachable state.
THEOREM Invariance == Spec => []IInv
  BY InitInv, InvStep, PTL DEF Spec

\* No outage, crash or second claimant closes the event of a paid order whose
\* order row was not written (dispatch_pending).
THEOREM ClosedEventsHaveOrders == Spec => []ClosedPaidHasOrder
  BY Invariance, PTL DEF IInv

\* A login code is asked only for a rental that has started.
THEOREM OtpNeedsStartedRental == Spec => []OtpForStartedRental
  BY Invariance, PTL DEF IInv

\* The polling cursor passes over nothing that the runtime could have polled.
THEOREM CursorPassesNothingOver == Spec => []NothingPassedOver
  BY Invariance, PTL DEF IInv

\* A claimant that lost its claim never reopens or recloses an event: its
\* token no longer matches.
THEOREM ClosedEventsStayClosed == Spec => ClosedIsFinal
<1>1. ASSUME IInv, [Next]_vars, NEW e \in Events, status[e] \in Final
      PROVE  status'[e] = status[e]
  <2> USE <1>1 DEF IInv, TypeOK, Final
  <2>1. CASE status' = status
    BY <2>1
  <2>2. ASSUME NEW q \in Runtimes, Ingest(q) PROVE status'[e] = status[e]
    BY <2>2 DEF Ingest, Stored
  <2>3. ASSUME NEW q \in Runtimes, ClaimEvents(q) PROVE status'[e] = status[e]
    BY <2>3 DEF ClaimEvents, Claimable
  <2>4. ASSUME NEW q \in Runtimes, Mark(q) PROVE status'[e] = status[e]
    <3> PICK x \in Events :
          MarkProcessed(q, x) \/ MarkRetryable(q, x) \/ MarkFailedClosed(q, x)
      BY <2>4 DEF Mark
    <3>1. x \in claims[q]
      BY DEF MarkProcessed, MarkRetryable, MarkFailedClosed, NextClaim, Current
    <3>2. token[x] = q => status[x] = "CLAIMED"
      BY <3>1 DEF ClaimAlive
    <3> QED
      BY <3>2 DEF MarkProcessed, MarkRetryable, MarkFailedClosed, Owns
  <2>5. \/ status' = status
        \/ \E q \in Runtimes : Ingest(q) \/ ClaimEvents(q) \/ Mark(q)
    BY DEF Next, CycleStep, Post, LeaseSecondsPass, LoseHealth, RegainHealth,
      RentalsMove, Start, Crash, FailCycle, BeginCycle, PollNotReady, PollEvents,
      EndCycle, Handle, PostponePaidOrder, RefuseIncomplete, AcceptPaidOrder, RefuseCode,
      Ignore, SeeActiveRental, CreateSendOtp, Conclude, vars
  <2> QED  BY <2>1, <2>2, <2>3, <2>4, <2>5
<1>2. IInv /\ [Next]_vars =>
        [\A e \in Events : status[e] \in Final => status'[e] = status[e]]_vars
  BY <1>1
<1> QED
  BY <1>2, Invariance, PTL DEF Spec, ClosedIsFinal

-----------------------------------------------------------------------------
\* Events as a client of OrderLife.

\* A paid order is taken by the first handler that commits.
LEMMA AcceptTakes ==
  ASSUME TypeOK, NEW r \in Runtimes, NEW e \in Events, AcceptPaidOrder(r, e)
  PROVE  Lives!Next \/ UNCHANGED rental
<1> DEFINE o == OrderOf[e]
<1>1. o \in Orders
  BY IntakeAssumption
<1>2. PICK result \in {"Reserved", "Blocked"} :
        rental' = [rental EXCEPT ![o] = IF @ = "None" THEN result ELSE @]
  BY DEF AcceptPaidOrder
<1>3. CASE rental[o] = "None"
  <2>1. Lives!Take(o, result)
    BY <1>1, <1>2, <1>3 DEF Lives!Take, TypeOK
  <2> QED BY <1>1, <2>1 DEF Lives!Next
<1>4. CASE rental[o] # "None"
  BY <1>1, <1>2, <1>4 DEF TypeOK
<1> QED BY <1>3, <1>4

\* However often an event is delivered, claimed and handled, by however many
\* runtimes, its order is taken once; with RentalLifecycle's OrderLifeIsKept,
\* what is proved here holds with the rentals as the transactions move them.
THEOREM EventsKeepOrderLife == Spec => Lives!Spec
<1>1. Init => Lives!Init
  BY DEF Init, Lives!Init
<1>2. TypeOK /\ [Next]_vars => [Lives!Next]_rental
  <2> SUFFICES ASSUME TypeOK, [Next]_vars PROVE Lives!Next \/ UNCHANGED rental
    OBVIOUS
  <2>1. CASE RentalsMove
    BY <2>1 DEF RentalsMove, Lives!Next
  <2>2. ASSUME NEW r \in Runtimes, NEW e \in Events, AcceptPaidOrder(r, e)
        PROVE  Lives!Next \/ UNCHANGED rental
    BY <2>2, AcceptTakes
  <2>3. \/ UNCHANGED rental
        \/ RentalsMove
        \/ \E r \in Runtimes, e \in Events : AcceptPaidOrder(r, e)
    BY DEF Next, CycleStep, Post, LeaseSecondsPass, LoseHealth, RegainHealth,
      Start, Crash, FailCycle, BeginCycle, PollNotReady, PollEvents, Ingest,
      ClaimEvents, EndCycle, Handle, PostponePaidOrder, RefuseIncomplete, RefuseCode,
      Ignore, SeeActiveRental, CreateSendOtp, Conclude, Mark, MarkProcessed,
      MarkRetryable, MarkFailedClosed, NextClaim, vars
  <2> QED BY <2>1, <2>2, <2>3
<1>3. Spec => []TypeOK
  BY TypeCorrect
<1> QED BY <1>1, <1>2, <1>3, PTL DEF Spec, Lives!Spec
=============================================================================
