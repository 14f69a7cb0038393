------------------------- MODULE PasswordPromiseProofs -------------------------
(***************************************************************************)
(* The password in force at Pixel Storm and the generation that the rows   *)
(* count (credential_version) never drift apart by more than the one       *)
(* change that a rotation is about to record, so the password itself keeps *)
(* the promise of ExclusiveRental.  What that needs beyond the invariant   *)
(* of CredentialCustodyProofs is proved here.                              *)
(***************************************************************************)
EXTENDS CredentialCustodyProofs

\* The password was changed, and the rows do not know it yet.
Rekeyed(a) == remote[a] # credentialVersion[a]

Changing == {"ROTATING_PASSWORD", "MANUAL_REVIEW"}

\* The password in force is the one the rows count or the one after it, which
\* only an account in rotation or under review has; the next one to be used is
\* the one after that in force.
PasswordsCount ==
  \A a \in Accounts :
    /\ remote[a] \in {credentialVersion[a], credentialVersion[a] + 1}
    /\ pending[a] = 0 => minted[a] = remote[a]
    /\ pending[a] # 0 => pending[a] \in {remote[a], remote[a] + 1}
    /\ Rekeyed(a) => account[a] \in Changing

\* What the row and the mail of a rotation tell of the change: once it is made
\* it was asked for and no link is left to make another; before, nothing is
\* marked as promoted and a prepared password is a new one.
RotationCount(o) ==
  LET a == rentedAccount[o]
  IN  IF Rekeyed(a)
      THEN asked[o] /\ link[o] \in {"None", "Used"}
      ELSE mark[o] \notin Promoted /\ pending[a] # remote[a]

RotationsCount ==
  \A o \in Orders :
    /\ link[o] # "None" => asked[o]
    /\ operation[o][Rotation] \in Unfinished => RotationCount(o)

\* The same of the step that is being executed.
StepCount(o) ==
  LET a == rentedAccount[o]
  IN  /\ step \in {"Record", "Request", "Answer", "Change"} => ~Rekeyed(a)
      /\ step \in {"Request", "Answer", "Change"} => asked[o]
      /\ step = "Change" => link[o] \in {"None", "Used"}
      /\ step \in {"MarkPromoted", "Succeeded"} => Rekeyed(a)

StepsCount == \A o \in Orders : work = {<<o, Rotation>>} => StepCount(o)

CountInv == PasswordsCount /\ RotationsCount /\ StepsCount

\* Fresh stores count from the same number.
LEMMA CountInit == CustodyInit => CountInv
<1> SUFFICES ASSUME CustodyInit PROVE CountInv
  OBVIOUS
<1>1. Init
  BY DEF CustodyInit
<1>2. PasswordsCount
  BY <1>1 DEF CustodyInit, Init, PasswordsCount, Rekeyed
<1>3. RotationsCount
  BY <1>1, CustodyKinds DEF CustodyInit, Init, RotationsCount, Unfinished
<1>4. StepsCount
  BY DEF CustodyInit, StepsCount
<1> QED BY <1>2, <1>3, <1>4 DEF CountInv

-----------------------------------------------------------------------------
\* The steps of a rotation.

\* What a rotation knows of the count when it takes a step.
LEMMA CountFacts ==
  ASSUME CInv, CountInv, NEW o \in Orders, work = {<<o, Rotation>>}
  PROVE  /\ rentedAccount[o] \in Accounts
         /\ RotationAgrees(o) /\ RotationCount(o) /\ StepCount(o)
         /\ link[o] # "None" => asked[o]
         /\ remote[rentedAccount[o]] \in Nat \ {0}
         /\ credentialVersion[rentedAccount[o]] \in Nat
         /\ pending[rentedAccount[o]] \in Nat
         /\ minted[rentedAccount[o]] \in Nat \ {0}
         /\ account[rentedAccount[o]] \in Changing
         /\ remote[rentedAccount[o]] \in
              {credentialVersion[rentedAccount[o]], credentialVersion[rentedAccount[o]] + 1}
         /\ pending[rentedAccount[o]] = 0 => minted[rentedAccount[o]] = remote[rentedAccount[o]]
         /\ pending[rentedAccount[o]] # 0 =>
              /\ pending[rentedAccount[o]] \in
                   {remote[rentedAccount[o]], remote[rentedAccount[o]] + 1}
              /\ pending[rentedAccount[o]] = minted[rentedAccount[o]]
<1>1. /\ operation[o][Rotation] = "RUNNING" /\ RotationAgrees(o)
      /\ rentedAccount[o] \in Accounts
      /\ pending[rentedAccount[o]] # 0 =>
           pending[rentedAccount[o]] = minted[rentedAccount[o]]
  BY RotationFacts
<1>2. operation[o][Rotation] \in Unfinished
  BY <1>1 DEF Unfinished
<1>3. account[rentedAccount[o]] \in Changing
  <2>1. RentalAgrees(o) /\ rental[o] \in UnsettledRental
    BY <1>2, CustodyKinds, UnfinishedAlone DEF CInv, IInv, LifecycleAgrees
  <2>2. rental[o] \in {"PASSWORD_ROTATION", "MANUAL_REVIEW"}
    BY <1>2, <2>1 DEF RentalAgrees, OperationsAt, Unfinished, Delivered, Rotation,
                      UnsettledRental, OpenRental, LifecycleKind
  <2> QED
    BY <1>2, <2>1, <2>2 DEF RentalAgrees, OperationsAt, Unfinished, Rotated, Rotation,
                            LifecycleKind, Changing
<1>4. RotationCount(o) /\ StepCount(o) /\ (link[o] # "None" => asked[o])
  BY <1>2 DEF CountInv, RotationsCount, StepsCount
<1>5. /\ remote[rentedAccount[o]] \in Nat \ {0}
      /\ credentialVersion[rentedAccount[o]] \in Nat
      /\ pending[rentedAccount[o]] \in Nat
      /\ minted[rentedAccount[o]] \in Nat \ {0}
  BY <1>1 DEF CInv, IInv, TypeOK, StoresTypeOK
<1> QED BY <1>1, <1>3, <1>4, <1>5 DEF CountInv, PasswordsCount

\* A step of one rotation disturbs the count of no other.
LEMMA CountMoves ==
  ASSUME CInv, CountInv, NEW o \in Orders, work = {<<o, Rotation>>}, UNCHANGED vars,
         \A b \in Accounts \ {rentedAccount[o]} :
           remote'[b] = remote[b] /\ pending'[b] = pending[b] /\ minted'[b] = minted[b],
         \A p \in Orders \ {o} :
           mark'[p] = mark[p] /\ link'[p] = link[p] /\ asked'[p] = asked[p],
         remote'[rentedAccount[o]] \in
           {credentialVersion[rentedAccount[o]], credentialVersion[rentedAccount[o]] + 1},
         pending'[rentedAccount[o]] = 0 =>
           minted'[rentedAccount[o]] = remote'[rentedAccount[o]],
         pending'[rentedAccount[o]] # 0 =>
           pending'[rentedAccount[o]] \in
             {remote'[rentedAccount[o]], remote'[rentedAccount[o]] + 1},
         link'[o] # "None" => asked'[o],
         RotationCount(o)',
         \/ work' = {}
         \/ work' = work /\ StepCount(o)'
  PROVE  CountInv'
<1> DEFINE a == rentedAccount[o]
<1>1. a \in Accounts /\ account[a] \in Changing /\ operation[o][Rotation] \in Unfinished
  BY CountFacts, RotationFacts DEF Unfinished
<1>2. UNCHANGED <<account, credentialVersion, rentedAccount, operation>>
  BY DEF vars
<1>3. ASSUME NEW p \in Orders \ {o}, operation[p][Rotation] \in Unfinished
      PROVE  rentedAccount[p] \in Accounts \ {a}
  BY <1>1, <1>3, CustodyKinds, UnfinishedAlone DEF CInv, Unfinished
<1> HIDE DEF a
<1>4. PasswordsCount'
  <2> SUFFICES ASSUME NEW b \in Accounts
               PROVE  /\ remote'[b] \in {credentialVersion[b], credentialVersion[b] + 1}
                      /\ pending'[b] = 0 => minted'[b] = remote'[b]
                      /\ pending'[b] # 0 => pending'[b] \in {remote'[b], remote'[b] + 1}
                      /\ remote'[b] # credentialVersion[b] => account[b] \in Changing
    BY <1>2 DEF PasswordsCount, Rekeyed
  <2>1. CASE b = a
    BY <1>1, <2>1 DEF a
  <2>2. CASE b # a
    BY <2>2 DEF a, CountInv, PasswordsCount, Rekeyed
  <2> QED BY <2>1, <2>2
<1>5. RotationsCount'
  <2> SUFFICES ASSUME NEW p \in Orders
               PROVE  /\ link'[p] # "None" => asked'[p]
                      /\ operation[p][Rotation] \in Unfinished => RotationCount(p)'
    BY <1>2 DEF RotationsCount
  <2>1. CASE p # o
    <3>1. link'[p] # "None" => asked'[p]
      BY <2>1 DEF CountInv, RotationsCount
    <3>2. ASSUME operation[p][Rotation] \in Unfinished PROVE RotationCount(p)'
      <4>1. RotationCount(p)
        BY <3>2 DEF CountInv, RotationsCount
      <4>2. rentedAccount[p] \in Accounts \ {a}
        BY <1>3, <2>1, <3>2
      <4> QED BY <1>2, <2>1, <4>1, <4>2 DEF RotationCount, Rekeyed, a
    <3> QED BY <3>1, <3>2
  <2> QED BY <2>1
<1>6. StepsCount'
  <2> SUFFICES ASSUME NEW p \in Orders, work' = {<<p, Rotation>>} PROVE StepCount(p)'
    BY DEF StepsCount
  <2>1. work' = work
    OBVIOUS
  <2>2. p = o
    BY <2>1, OneWork
  <2> QED BY <2>1, <2>2
<1> QED BY <1>4, <1>5, <1>6 DEF CountInv

\* A step that leaves the passwords alone: the marks of its own rotation and
\* where it goes are all that it has to account for.
LEMMA CountRests ==
  ASSUME CInv, CountInv, NEW o \in Orders, work = {<<o, Rotation>>},
         UNCHANGED <<vars, remote, pending, minted>>,
         \A p \in Orders \ {o} :
           mark'[p] = mark[p] /\ link'[p] = link[p] /\ asked'[p] = asked[p],
         asked[o] => asked'[o],
         link'[o] # "None" => asked'[o],
         Rekeyed(rentedAccount[o]) => link'[o] \in {"None", "Used"},
         ~Rekeyed(rentedAccount[o]) => mark'[o] \notin Promoted,
         \/ work' = {}
         \/ work' = work /\ StepCount(o)'
  PROVE  CountInv'
<1> DEFINE a == rentedAccount[o]
<1>1. UNCHANGED <<credentialVersion, rentedAccount>>
  BY DEF vars
<1>2. RotationCount(o)
  BY CountFacts
<1>3. RotationCount(o)'
  BY <1>1, <1>2 DEF RotationCount, Rekeyed
<1> QED BY <1>3, CountFacts, CountMoves

\* A wait is marked with what is not yet promoted, and gives the work back.
LEMMA WaitCounts ==
  ASSUME CInv, CountInv, NEW o \in Orders, work = {<<o, Rotation>>}, NEW state \in Waits,
         Wait(o, state), UNCHANGED <<vars, remote, pending, minted, asked>>,
         \/ UNCHANGED link
         \/ link' = [link EXCEPT ![o] = "Used"] /\ asked[o]
  PROVE  CountInv'
<1>1. /\ \A p \in Orders \ {o} : mark'[p] = mark[p] /\ link'[p] = link[p] /\ asked'[p] = asked[p]
      /\ mark'[o] \notin Promoted
      /\ link'[o] \in {link[o], "Used"}
  BY DEF Wait, Mark, Waits, Promoted, CInv, StoresTypeOK
<1>2. work' = {} \/ (work' = work /\ step' = "Release")
  BY DEF Wait, Goto, Leave
<1>3. step' = "Release" => StepCount(o)'
  BY DEF StepCount
<1> QED BY <1>1, <1>2, <1>3, CountFacts, CountRests DEF RotationCount

\* What a step of a rotation does when it only looks, asks or marks.
LEMMA LooksCount ==
  ASSUME CInv, CountInv, NEW o \in Orders,
         \/ Authenticate(o) \/ MarkProgress(o) \/ Verify(o) \/ RecordRequest(o)
         \/ RequestChange(o) \/ Answered(o) \/ TakeLink(o) \/ FinalizeChange(o)
         \/ PromoteCurrent(o) \/ ReleaseRecovery(o)
  PROVE  CountInv'
<1> DEFINE a == rentedAccount[o]
<1>0. work = {<<o, Rotation>>}
  BY DEF Authenticate, MarkProgress, Verify, RecordRequest, RequestChange, Answered,
     TakeLink, FinalizeChange, PromoteCurrent, ReleaseRecovery, Rotating
<1> USE <1>0
<1>1. UNCHANGED <<vars, remote, pending, minted>>
  BY DEF Authenticate, MarkProgress, Verify, RecordRequest, RequestChange, Answered,
     TakeLink, FinalizeChange, PromoteCurrent, ReleaseRecovery, remoteVars, vault
<1>2. UNCHANGED <<credentialVersion, rentedAccount>>
  BY <1>1 DEF vars
<1>3. /\ link \in [Orders -> {"None", "Due", "Mailed", "Used"}]
      /\ mark \in [Orders -> SecurityState] /\ asked \in [Orders -> BOOLEAN]
  BY DEF CInv, StoresTypeOK
<1>4. Waits = {"WAITING_LOGIN_OTP", "WAITING_PASSWORD_CHANGE_EMAIL"}
  BY DEF Waits
<1>5. Rekeyed(a)' <=> Rekeyed(a)
  BY <1>1, <1>2 DEF Rekeyed
<1>6. ASSUME UNCHANGED <<link, mark, asked>>, NEW s, Goto(s),
             s \in {"Record", "Request", "Answer", "Change"} => ~Rekeyed(a),
             s \in {"Request", "Answer", "Change"} => asked[o],
             s = "Change" => link[o] \in {"None", "Used"},
             s \in {"MarkPromoted", "Succeeded"} => Rekeyed(a)
      PROVE  CountInv'
  <2>1. StepCount(o)' /\ work' = work
    BY <1>2, <1>5, <1>6 DEF StepCount, Goto
  <2> QED BY <1>1, <1>6, <2>1, CountFacts, CountRests DEF RotationCount
<1>7. CASE Authenticate(o)
  <2>1. CASE (Goto("Decide") \/ Goto("Failed")) /\ UNCHANGED <<mark, held>>
    BY <1>6, <1>7, <2>1 DEF Authenticate, remoteVars
  <2>2. CASE Wait(o, "WAITING_LOGIN_OTP")
    BY <1>1, <1>4, <1>7, <2>2, WaitCounts DEF Authenticate, remoteVars
  <2> QED BY <1>7, <2>1, <2>2 DEF Authenticate
<1>8. CASE MarkProgress(o)
  <2>1. UNCHANGED <<link, asked>>
    BY <1>8 DEF MarkProgress, remoteVars
  <2>2. CASE step = "MarkPending"
    <3>1. /\ Mark(o, "PENDING_READY") /\ Goto("Verify")
      BY <1>8, <2>2 DEF MarkProgress, Rotating
    <3>2. StepCount(o)' /\ work' = work
      BY <3>1 DEF StepCount, Goto
    <3>3. mark'[o] \notin Promoted /\ \A p \in Orders \ {o} : mark'[p] = mark[p]
      BY <1>3, <3>1 DEF Mark, Promoted
    <3> QED BY <1>1, <2>1, <3>2, <3>3, CountFacts, CountRests DEF RotationCount
  <2>3. CASE step = "MarkVerified" \/ step = "MarkPromoted"
    <3>1. Rekeyed(a)
      BY <2>3, CountFacts DEF RotationAgrees, RotationCount, StepCount, Prepared
    <3>2. /\ \A p \in Orders \ {o} : mark'[p] = mark[p]
          /\ Goto("SetCurrent") \/ Goto("Succeeded")
      BY <1>3, <1>8, <2>3 DEF MarkProgress, Rotating, Mark
    <3>3. StepCount(o)' /\ work' = work
      BY <1>2, <1>5, <3>1, <3>2 DEF StepCount, Goto
    <3> QED BY <1>1, <2>1, <3>1, <3>2, <3>3, CountFacts, CountRests DEF RotationCount
  <2> QED BY <1>8, <2>2, <2>3 DEF MarkProgress, Rotating
<1>9. CASE Verify(o)
  <2>1. CASE Goto("MarkVerified") \/ Goto("Failed")
    <3>1. UNCHANGED <<link, asked>> /\ ~(Goto("Record"))
      BY <1>9, <2>1 DEF Verify, remoteVars, Goto
    <3>2. UNCHANGED mark
      BY <1>9, <2>1, <3>1 DEF Verify, Wait, Goto, Leave
    <3> QED BY <1>6, <2>1, <3>1, <3>2
  <2>2. CASE asked[o] /\ Wait(o, "WAITING_PASSWORD_CHANGE_EMAIL")
    BY <1>1, <1>4, <1>9, <2>2, WaitCounts DEF Verify, remoteVars
  <2>3. CASE ~asked[o] /\ Goto("Record") /\ UNCHANGED <<mark, held>>
    <3>1. ~Rekeyed(a)
      BY <2>3, CountFacts DEF RotationCount
    <3> QED BY <1>6, <1>9, <2>3, <3>1 DEF Verify, remoteVars
  <2> QED BY <1>9, <2>1, <2>2, <2>3 DEF Verify
<1>10. CASE RecordRequest(o)
  <2>1. asked' = [asked EXCEPT ![o] = TRUE] /\ Goto("Request") /\ step = "Record"
    BY <1>10 DEF RecordRequest, Rotating
  <2>2. asked'[o] /\ \A p \in Orders \ {o} : asked'[p] = asked[p]
    BY <1>3, <2>1
  <2>3. StepCount(o)' /\ work' = work
    BY <1>2, <1>5, <2>1, <2>2, CountFacts DEF StepCount, Goto
  <2>4. UNCHANGED <<link, mark>>
    BY <1>10 DEF RecordRequest, remoteVars
  <2> QED BY <1>1, <2>2, <2>3, <2>4, CountFacts, CountRests DEF RotationCount
<1>11. CASE RequestChange(o)
  <2>1. /\ ~Rekeyed(a) /\ asked[o] /\ UNCHANGED <<mark, asked>>
    BY <1>11, CountFacts DEF RequestChange, Rotating, StepCount, marks
  <2>2. CASE UNCHANGED link
    <3>1. Goto("Answer") \/ Goto("Failed")
      BY <1>11 DEF RequestChange
    <3> QED BY <1>6, <2>1, <2>2, <3>1
  <2>3. CASE Goto("Answer") /\ \E mail \in {"None", "Due"} : link' = [link EXCEPT ![o] = mail]
    <3>1. \A p \in Orders \ {o} : link'[p] = link[p]
      BY <1>3, <2>3
    <3>2. StepCount(o)' /\ work' = work
      BY <1>2, <1>5, <2>1, <2>3 DEF StepCount, Goto
    <3> QED BY <1>1, <2>1, <3>1, <3>2, CountFacts, CountRests DEF RotationCount
  <2> QED BY <1>11, <2>2, <2>3 DEF RequestChange
<1>12. CASE Answered(o)
  <2>1. ~Rekeyed(a) /\ asked[o] /\ UNCHANGED <<link, mark, asked>>
    BY <1>12, CountFacts DEF Answered, Rotating, StepCount, marks, remoteVars
  <2>2. \/ link[o] = "None" /\ Goto("Change")
        \/ Goto("Confirm") \/ Goto("Failed")
    BY <1>12 DEF Answered
  <2> QED BY <1>6, <2>1, <2>2
<1>13. CASE TakeLink(o)
  <2>1. UNCHANGED asked
    BY <1>13 DEF TakeLink
  <2>2. CASE Wait(o, "WAITING_PASSWORD_CHANGE_EMAIL")
    <3>1. \/ UNCHANGED link
          \/ link' = [link EXCEPT ![o] = "Used"] /\ asked[o]
      BY <1>13, CountFacts DEF TakeLink
    <3> QED BY <1>1, <1>4, <2>1, <2>2, <3>1, WaitCounts
  <2>3. CASE /\ link[o] = "Mailed" /\ link' = [link EXCEPT ![o] = "Used"]
             /\ Goto("Change") /\ UNCHANGED mark
    <3>1. asked[o] /\ ~Rekeyed(a)
      BY <2>3, CountFacts DEF RotationCount
    <3>2. link'[o] = "Used" /\ \A p \in Orders \ {o} : link'[p] = link[p]
      BY <1>3, <2>3
    <3>3. StepCount(o)' /\ work' = work
      BY <1>2, <1>5, <2>1, <2>3, <3>1, <3>2 DEF StepCount, Goto
    <3> QED BY <1>1, <2>1, <2>3, <3>1, <3>2, <3>3, CountFacts, CountRests DEF RotationCount
  <2> QED BY <1>13, <2>2, <2>3 DEF TakeLink
<1>14. CASE FinalizeChange(o) \/ PromoteCurrent(o)
  <2>1. UNCHANGED <<link, mark, asked>>
    BY <1>14 DEF FinalizeChange, PromoteCurrent, remoteVars, marks
  <2>2. Goto("MarkVerified") \/ Goto("Failed") \/ Goto("DropPending")
    BY <1>14 DEF FinalizeChange, PromoteCurrent
  <2> QED BY <1>6, <2>1, <2>2
<1>15. CASE ReleaseRecovery(o)
  <2>1. UNCHANGED <<link, mark, asked>> /\ work' = {}
    BY <1>15 DEF ReleaseRecovery, remoteVars, Leave
  <2> QED BY <1>1, <2>1, CountFacts, CountRests DEF RotationCount
<1> QED
  BY <1>7, <1>8, <1>9, <1>10, <1>11, <1>12, <1>13, <1>14, <1>15

\* A password is prepared as the one after that in force; a recovery that
\* finds everything promoted has the change behind it.
LEMMA DecideCounts ==
  ASSUME CInv, CountInv, NEW o \in Orders, Decide(o)
  PROVE  CountInv'
<1> DEFINE a == rentedAccount[o]
<1>1. work = {<<o, Rotation>>} /\ UNCHANGED <<vars, remote, link, mark, asked>>
  BY DEF Decide, Rotating, remoteVars, marks
<1>2. UNCHANGED <<credentialVersion, rentedAccount>>
  BY <1>1 DEF vars
<1>3. RotationCount(o) /\ (link[o] # "None" => asked[o]) /\ remote[a] \in Nat \ {0}
  BY <1>1, CountFacts
<1>4. CASE UNCHANGED vault
  <2>1. PICK s : Goto(s) /\ s \in {"Confirm", "Verify", "Succeeded", "MarkPending", "Failed"}
                 /\ (s = "Succeeded" => mark[o] \in Promoted)
    BY <1>4 DEF Decide
  <2>2. StepCount(o)' /\ work' = work
    BY <1>1, <1>2, <1>3, <2>1 DEF StepCount, RotationCount, Rekeyed, Goto
  <2>3. UNCHANGED <<pending, minted>>
    BY <1>4 DEF vault
  <2> QED BY <1>1, <1>3, <2>2, <2>3, CountRests DEF RotationCount
<1>5. CASE /\ pending[a] = 0 /\ Goto("MarkPending")
           /\ minted' = [minted EXCEPT ![a] = @ + 1]
           /\ pending' = [pending EXCEPT ![a] = minted'[a]]
  <2>1. minted[a] = remote[a] /\ a \in Accounts
    BY <1>1, <1>5, CountFacts
  <2>2. minted \in [Accounts -> Nat \ {0}] /\ pending \in [Accounts -> Nat]
    BY DEF CInv, StoresTypeOK
  <2> HIDE DEF a
  <2>3. /\ minted'[a] = remote[a] + 1 /\ pending'[a] = remote[a] + 1
        /\ \A b \in Accounts \ {a} : minted'[b] = minted[b] /\ pending'[b] = pending[b]
    BY <1>5, <2>1, <2>2
  <2>4. RotationCount(o)'
    BY <1>1, <1>2, <1>3, <2>3 DEF RotationCount, Rekeyed, a
  <2>5. StepCount(o)' /\ work' = work
    BY <1>5 DEF StepCount, Goto
  <2>6. pending'[a] # 0 /\ remote[a] \in {credentialVersion[a], credentialVersion[a] + 1}
    BY <1>1, <1>3, <2>3, CountFacts DEF a
  <2> QED BY <1>1, <1>3, <2>3, <2>4, <2>5, <2>6, CountMoves DEF a
<1> QED BY <1>4, <1>5 DEF Decide

\* The password is changed from the one the rows count to the next.
LEMMA ChangeCounts ==
  ASSUME CInv, CountInv, NEW o \in Orders, ChangePassword(o)
  PROVE  /\ CountInv'
         /\ \/ UNCHANGED remote
            \/ /\ ~Rekeyed(rentedAccount[o])
               /\ remote' = [remote EXCEPT ![rentedAccount[o]] = @ + 1]
<1> DEFINE a == rentedAccount[o]
<1>1. /\ work = {<<o, Rotation>>} /\ step = "Change"
      /\ UNCHANGED <<vars, link, mark, asked, pending, minted>>
  BY DEF ChangePassword, Rotating, marks, vault
<1>2. UNCHANGED <<credentialVersion, rentedAccount>>
  BY <1>1 DEF vars
<1>3. /\ ~Rekeyed(a) /\ asked[o] /\ link[o] \in {"None", "Used"}
      /\ pending[a] # 0 /\ pending[a] = remote[a] + 1
      /\ a \in Accounts /\ remote[a] = credentialVersion[a] /\ remote[a] \in Nat
  BY <1>1, CountFacts DEF StepCount, RotationAgrees, Prepared, RotationCount, Rekeyed
<1>4. StepCount(o)' /\ work' = work
  BY DEF ChangePassword, StepCount, Goto
<1>5. CASE UNCHANGED remote
  <2>1. CountInv'
    BY <1>1, <1>3, <1>4, <1>5, CountFacts, CountRests DEF RotationCount
  <2> QED BY <1>5, <2>1
<1>6. CASE remote' = [remote EXCEPT ![a] = pending[a]]
  <2>1. remote \in [Accounts -> Nat \ {0}]
    BY DEF CInv, StoresTypeOK
  <2> HIDE DEF a
  <2>2. remote'[a] = remote[a] + 1 /\ \A b \in Accounts \ {a} : remote'[b] = remote[b]
    BY <1>3, <1>6, <2>1
  <2>3. RotationCount(o)'
    BY <1>1, <1>2, <1>3, <2>2 DEF RotationCount, Rekeyed, a
  <2>4. CountInv'
    BY <1>1, <1>3, <1>4, <2>2, <2>3, CountMoves DEF a
  <2>5. remote' = [remote EXCEPT ![a] = @ + 1]
    BY <1>3, <1>6
  <2> QED BY <1>3, <2>4, <2>5 DEF a
<1> QED BY <1>5, <1>6 DEF ChangePassword

\* What was promoted is in force, and is the next that the rows count.
LEMMA DropCounts ==
  ASSUME CInv, CountInv, NEW o \in Orders, DropPending(o)
  PROVE  CountInv'
<1> DEFINE a == rentedAccount[o]
<1>1. /\ work = {<<o, Rotation>>} /\ step = "DropPending"
      /\ UNCHANGED <<vars, remote, link, mark, asked, minted>>
      /\ pending' = [pending EXCEPT ![a] = 0]
  BY DEF DropPending, Rotating, marks, remoteVars
<1>2. UNCHANGED <<credentialVersion, rentedAccount>>
  BY <1>1 DEF vars
<1>3. /\ pending[a] = remote[a] /\ minted[a] = remote[a] /\ a \in Accounts
      /\ RotationCount(o) /\ Rekeyed(a)
      /\ link[o] # "None" => asked[o]
      /\ remote[a] \in {credentialVersion[a], credentialVersion[a] + 1}
  BY <1>1, CountFacts DEF RotationAgrees, Prepared, RotationCount
<1>4. pending \in [Accounts -> Nat]
  BY DEF CInv, StoresTypeOK
<1>5. Goto("MarkPromoted")
  BY DEF DropPending
<1>6. StepCount(o)' /\ work' = work
  BY <1>1, <1>2, <1>3, <1>5 DEF StepCount, Goto, Rekeyed
<1>7. RotationCount(o)'
  BY <1>1, <1>2, <1>3 DEF RotationCount, Rekeyed
<1> HIDE DEF a
<1>8. pending'[a] = 0 /\ \A b \in Accounts \ {a} : pending'[b] = pending[b]
  BY <1>1, <1>3, <1>4
<1> QED BY <1>1, <1>3, <1>6, <1>7, <1>8, CountMoves DEF a

-----------------------------------------------------------------------------
\* The other steps.

\* The transactions that count nothing: an account is let only as it is
\* counted, one that is changing its password goes on to, and a rotation
\* begins with nothing changed and nothing prepared.
Steady ==
  /\ UNCHANGED credentialVersion
  /\ \A a \in Accounts : account[a] \in Changing => account'[a] \in Changing
  /\ \A o \in Orders :
       operation'[o][Rotation] \in Unfinished =>
         /\ rentedAccount'[o] = rentedAccount[o]
         /\ \/ operation[o][Rotation] \in Unfinished
            \/ RotationCount(o)

\* They leave the count as it is.
LEMMA SteadyCounts ==
  ASSUME CountInv, Steady, UNCHANGED <<remote, pending, minted, link, mark, asked>>,
         StepsCount'
  PROVE  CountInv'
<1>1. PasswordsCount'
  BY DEF CountInv, PasswordsCount, Rekeyed, Steady
<1>2. RotationsCount'
  BY DEF CountInv, RotationsCount, RotationCount, Rekeyed, Steady
<1> QED BY <1>1, <1>2 DEF CountInv

\* An account leaves ROTATING_PASSWORD for its return or for review.
LEMMA RotatingStays ==
  ASSUME IInv, Next, \A o \in Orders : ~CompleteRotatePassword(o)
  PROVE  \A a \in Accounts : account[a] \in Changing => account'[a] \in Changing
<1> USE DEF Changing
<1>0. ReviewKept /\ account \in [Accounts -> AccountStatus]
  BY NextKeepsReview DEF IInv, TypeOK
<1> SUFFICES ASSUME NEW a \in Accounts, account[a] = "ROTATING_PASSWORD"
             PROVE  account'[a] \in Changing
  BY <1>0 DEF ReviewKept
<1>1. ASSUME NEW o \in Orders, NEW t, MoveAccount(o, t), t # "AVAILABLE_OFFLINE"
      PROVE  account'[a] \in Changing
  <2>1. account' = [account EXCEPT ![rentedAccount[o]] = t]
    BY <1>1 DEF MoveAccount
  <2>2. rentedAccount[o] = a => t = "MANUAL_REVIEW"
    BY <1>1 DEF MoveAccount, MayMoveAccount, AccountEdges
  <2> QED BY <1>0, <2>1, <2>2
<1>2. CASE UNCHANGED account
  BY <1>2
<1>3. ASSUME NEW o \in Orders, NEW b \in Accounts, AcceptOrder(o, b)
      PROVE  account'[a] \in Changing
  BY <1>0, <1>3 DEF AcceptOrder
<1>4. ASSUME NEW o \in Orders, PrepareRevoke(o) PROVE account'[a] \in Changing
  <2>1. account[rentedAccount[o]] # "ROTATING_PASSWORD"
    BY <1>4 DEF PrepareRevoke, MayMoveAccount, AccountEdges
  <2> QED BY <1>0, <1>4, <2>1 DEF PrepareRevoke
<1>5. ASSUME NEW o \in Orders, NEW kind \in LifecycleKind, OperationStep(o, kind)
      PROVE  account'[a] \in Changing
  BY <1>1, <1>2, <1>5
  DEF OperationStep, Complete, ClaimOperation, LeaseLapses, ClaimStartupRecovery,
      CompleteDisableLots, CompleteSendCredentials, CompleteRevokeSessions,
      CompleteEnableLots, FailOperation, ToManualReview
<1>6. ASSUME NEW due \in SUBSET Orders, ExpireDue(due) PROVE account'[a] \in Changing
  <2>1. account'[a] = IF \E o \in {p \in due : account[rentedAccount[p]] = "ACTIVE"} :
                           rentedAccount[o] = a
                      THEN "EXPIRING" ELSE account[a]
    BY <1>6 DEF ExpireDue
  <2> QED BY <2>1
<1>7. ASSUME NEW e \in OtpRequests, OtpStep(e) PROVE account'[a] \in Changing
  <2>1. FailOtp(e) => otpRental[e] \in Orders
    BY DEF FailOtp, InFlight, IInv, TypeOK
  <2> QED
    BY <1>1, <1>2, <1>7, <2>1 DEF OtpStep, CreateSendOtp, ForgetSeen, ClaimOtp,
       WaitForBuyerOtp, CompleteOtp, OtpLeaseLapses, FailOtp, MoveOtp, ToManualReview
<1>8. CASE RecoverExpiredLeases \/ Reconcile
  BY <1>8 DEF RecoverExpiredLeases, Reconcile
<1> QED
  BY <1>1, <1>2, <1>3, <1>4, <1>5, <1>6, <1>7, <1>8
  DEF Next, BlockOrder, SecurityEvent, SeeActiveRental

\* A rotation begins when the sessions are revoked.
LEMMA RotationBegins ==
  ASSUME IInv, Next, NEW o \in Orders,
         operation'[o][Rotation] \in Unfinished, operation[o][Rotation] \notin Unfinished
  PROVE  CompleteRevokeSessions(o)
<1> USE DEF Unfinished, InFlight, Rotation
<1>0. /\ operation \in [Orders -> [LifecycleKind -> OperationStatus]]
      /\ Rotation \in LifecycleKind
  BY CustodyKinds DEF IInv, TypeOK
<1>1. ASSUME NEW p \in Orders, NEW k \in LifecycleKind \ {Rotation}, NEW s, SetOperation(p, k, s)
      PROVE  FALSE
  BY <1>0, <1>1 DEF SetOperation
<1>2. CASE UNCHANGED operation
  BY <1>2
<1>3. ASSUME NEW p \in Orders, NEW a \in Accounts, AcceptOrder(p, a) PROVE FALSE
  BY <1>1, <1>3 DEF AcceptOrder, LifecycleKind
<1>4. ASSUME NEW p \in Orders, NEW k \in LifecycleKind, OperationStep(p, k)
      PROVE  CompleteRevokeSessions(o)
  <2>1. CASE \/ ClaimOperation(p, k) \/ LeaseLapses(p, k) \/ ClaimStartupRecovery(p, k)
             \/ FailOperation(p, k)
    BY <1>0, <2>1 DEF ClaimOperation, LeaseLapses, ClaimStartupRecovery, FailOperation,
       InFlightOperation, SetOperation
  <2>2. CASE CompleteSendCredentials(p) \/ CompleteEnableLots(p)
    BY <1>1, <2>2 DEF CompleteSendCredentials, CompleteEnableLots, LifecycleKind
  <2>3. CASE CompleteDisableLots(p) \/ CompleteRotatePassword(p)
    BY <1>0, <2>3 DEF CompleteDisableLots, CompleteRotatePassword, FinishAndStart,
       InFlightOperation, LifecycleKind
  <2>4. CASE CompleteRevokeSessions(p)
    <3>1. p = o
      BY <1>0, <2>4 DEF CompleteRevokeSessions, FinishAndStart
    <3> QED BY <2>4, <3>1
  <2> QED BY <1>4, <2>1, <2>2, <2>3, <2>4 DEF OperationStep, Complete
<1>5. ASSUME NEW due \in SUBSET Orders, ExpireDue(due) PROVE FALSE
  BY <1>0, <1>5 DEF ExpireDue
<1>6. ASSUME NEW p \in Orders, SecurityEvent(p) PROVE FALSE
  BY <1>1, <1>6 DEF SecurityEvent, LifecycleKind
<1>7. ASSUME NEW e \in OtpRequests, OtpStep(e) PROVE UNCHANGED operation
  BY <1>7 DEF OtpStep, CreateSendOtp, ForgetSeen, ClaimOtp,
     WaitForBuyerOtp, CompleteOtp, OtpLeaseLapses, FailOtp, MoveOtp
<1>8. CASE RecoverExpiredLeases
  <2>1. operation'[o][Rotation] = IF operation[o][Rotation] = "LAPSED" THEN "FAILED"
                                  ELSE operation[o][Rotation]
    BY <1>0, <1>8 DEF RecoverExpiredLeases
  <2> QED BY <2>1
<1> QED
  BY <1>2, <1>3, <1>4, <1>5, <1>6, <1>7, <1>8
  DEF Next, BlockOrder, PrepareRevoke, SeeActiveRental, Reconcile

\* The account of a rental changes when the order is accepted, and then only.
LEMMA AccountsStay ==
  Next => UNCHANGED rentedAccount \/ \E o \in Orders, a \in Accounts : AcceptOrder(o, a)
<1> SUFFICES ASSUME Next, ~\E o \in Orders, a \in Accounts : AcceptOrder(o, a)
             PROVE  UNCHANGED rentedAccount
  OBVIOUS
<1>1. ASSUME NEW o \in Orders, NEW k \in LifecycleKind, OperationStep(o, k)
      PROVE  UNCHANGED rentedAccount
  BY <1>1 DEF OperationStep, Complete, ClaimOperation, LeaseLapses, ClaimStartupRecovery,
     FailOperation, CompleteDisableLots, CompleteSendCredentials, CompleteRevokeSessions,
     CompleteRotatePassword, CompleteEnableLots
<1>2. ASSUME NEW e \in OtpRequests, OtpStep(e) PROVE UNCHANGED rentedAccount
  BY <1>2 DEF OtpStep, CreateSendOtp, ForgetSeen, ClaimOtp,
     WaitForBuyerOtp, CompleteOtp, OtpLeaseLapses, FailOtp, MoveOtp
<1> QED
  BY <1>1, <1>2 DEF Next, BlockOrder, PrepareRevoke, ExpireDue, SecurityEvent,
     SeeActiveRental, RecoverExpiredLeases, Reconcile

\* A rotation that completes is counted.
LEMMA CompletionCounts ==
  ASSUME IInv, NEW o \in Orders, CompleteRotatePassword(o)
  PROVE  credentialVersion' # credentialVersion
<1>1. rentedAccount[o] \in Accounts
  BY RotatingMeansRotation DEF IInv, TypeOK
<1> QED BY <1>1 DEF CompleteRotatePassword, IInv, TypeOK

\* Every other transaction counts nothing.
LEMMA RowsAreSteady ==
  ASSUME CInv, CountInv, Next, UNCHANGED credentialVersion
  PROVE  Steady
<1>0. IInv
  BY DEF CInv
<1>1. \A o \in Orders : ~CompleteRotatePassword(o)
  BY <1>0, CompletionCounts
<1>2. \A a \in Accounts : account[a] \in Changing => account'[a] \in Changing
  BY <1>0, <1>1, RotatingStays
<1>3. ASSUME NEW o \in Orders, operation'[o][Rotation] \in Unfinished
      PROVE  /\ rentedAccount'[o] = rentedAccount[o]
             /\ operation[o][Rotation] \in Unfinished \/ RotationCount(o)
  <2>1. CASE operation[o][Rotation] \in Unfinished
    <3>1. rentedAccount[o] \in Accounts /\ RentalAgrees(o)
      BY <1>0, <2>1, CustodyKinds, UnfinishedAlone DEF IInv, LifecycleAgrees
    <3>2. order[o] # "NEW"
      BY <1>0, <3>1, SentinelsAssumption DEF RentalAgrees, IInv, TypeOK
    <3>3. ASSUME NEW p \in Orders, NEW a \in Accounts, AcceptOrder(p, a)
          PROVE  rentedAccount'[o] = rentedAccount[o]
      BY <1>0, <3>2, <3>3 DEF AcceptOrder, IInv, TypeOK
    <3> QED BY <2>1, <3>3, AccountsStay
  <2>2. CASE operation[o][Rotation] \notin Unfinished
    <3>1. CompleteRevokeSessions(o)
      BY <1>0, <1>3, <2>2, RotationBegins
    <3>2. /\ UNCHANGED rentedAccount
          /\ account[rentedAccount[o]] = "REVOKING" /\ rental[o] = "REVOKING"
          /\ operation[o][Rotation] = "NONE"
      BY <3>1 DEF CompleteRevokeSessions, MoveAccount, MayMoveAccount, AccountEdges,
         MoveRental, MayMoveRental, RentalEdges, FinishAndStart, Rotation
    <3>3. rentedAccount[o] \in Accounts
      BY <1>0, <3>2 DEF IInv, TypeOK
    <3>4. ~Rekeyed(rentedAccount[o])
      BY <3>2, <3>3 DEF CountInv, PasswordsCount, Changing
    <3>5. pending[rentedAccount[o]] = 0 /\ remote[rentedAccount[o]] # 0
      BY <3>2, <3>3 DEF CInv, UseAgrees, InUse, StoresTypeOK
    <3>6. mark[o] \notin Promoted
      BY <3>2 DEF CInv, MarkAgrees, Promoted
    <3> QED BY <3>2, <3>4, <3>5, <3>6 DEF RotationCount
  <2> QED BY <2>1, <2>2
<1> QED BY <1>2, <1>3 DEF Steady

-----------------------------------------------------------------------------
\* The invariant.

\* A step that takes no rotation further keeps what is known of it.
LEMMA StepsRest ==
  ASSUME StepsCount,
         \/ work' = {}
         \/ step' \in {"Authenticate", "AskReceipt"}
         \/ UNCHANGED <<work, step, asked, link, remote, credentialVersion, rentedAccount>>
         \/ \E o \in Orders : work' = {<<o, "SEND_CREDENTIALS">>}
  PROVE  StepsCount'
<1> SUFFICES ASSUME NEW p \in Orders, work' = {<<p, Rotation>>} PROVE StepCount(p)'
  BY DEF StepsCount
<1>1. ASSUME NEW o \in Orders, work' = {<<o, "SEND_CREDENTIALS">>} PROVE FALSE
  <2>1. <<o, "SEND_CREDENTIALS">> \in {<<p, Rotation>>}
    BY <1>1
  <2> QED BY <2>1 DEF Rotation
<1>2. CASE step' \in {"Authenticate", "AskReceipt"}
  BY <1>2 DEF StepCount
<1>3. CASE UNCHANGED <<work, step, asked, link, remote, credentialVersion, rentedAccount>>
  BY <1>3 DEF StepsCount, StepCount, Rekeyed
<1> QED BY <1>1, <1>2, <1>3

\* Messages, mails, crashes and starts.
LEMMA PausesCount ==
  ASSUME CInv, CountInv, NEW o \in Orders,
         \/ ResumeRotation(o) \/ AskReceipt(o) \/ SendCredentials(o)
         \/ MailArrives(o) \/ Kill \/ Abandon \/ Start
  PROVE  CountInv' /\ UNCHANGED remote
<1>1. UNCHANGED vars
  BY WebLeavesRows DEF WebStep
<1>2. UNCHANGED <<remote, pending, minted, mark, asked>>
  BY DEF ResumeRotation, AskReceipt, SendCredentials, MailArrives, Kill, Abandon, Start,
     remoteVars, vault, marks
<1>3. Steady
  BY <1>1 DEF Steady, vars
<1>4. StepsCount'
  <2>1. CASE ResumeRotation(o) \/ Kill \/ Abandon
    BY <2>1, StepsRest DEF CountInv, ResumeRotation, Begin, Kill, Stop, Abandon, Leave
  <2>2. CASE AskReceipt(o) \/ SendCredentials(o)
    <3>1. work' = {<<o, "SEND_CREDENTIALS">>}
      BY <2>2 DEF AskReceipt, SendCredentials, Sending, Goto
    <3> QED BY <3>1, StepsRest DEF CountInv
  <2>3. CASE Start
    BY <1>1, <1>2, <2>3, StepsRest DEF CountInv, Start, remoteVars, vars
  <2>4. CASE MailArrives(o)
    <3>1. link[o] = "Due" /\ link' = [link EXCEPT ![o] = "Mailed"] /\ UNCHANGED <<work, step>>
      BY <2>4 DEF MailArrives, process
    <3> SUFFICES ASSUME NEW p \in Orders, work = {<<p, Rotation>>}
                 PROVE  StepCount(p)'
      BY <3>1 DEF StepsCount
    <3>2. StepCount(p)
      BY DEF CountInv, StepsCount
    <3>3. step = "Change" => link'[p] \in {"None", "Used"}
      BY <3>1, <3>2 DEF StepCount, CInv, StoresTypeOK
    <3> QED BY <1>1, <1>2, <3>1, <3>2, <3>3 DEF StepCount, Rekeyed, vars
  <2> QED BY <2>1, <2>2, <2>3, <2>4
<1>5. CASE UNCHANGED link
  BY <1>2, <1>3, <1>4, <1>5, SteadyCounts
<1>6. CASE MailArrives(o)
  <2>1. link[o] = "Due" /\ link' = [link EXCEPT ![o] = "Mailed"]
    BY <1>6 DEF MailArrives
  <2>2. PasswordsCount'
    BY <1>1, <1>2 DEF CountInv, PasswordsCount, Rekeyed, vars
  <2>3. RotationsCount'
    <3> SUFFICES ASSUME NEW p \in Orders
                 PROVE  /\ link'[p] # "None" => asked[p]
                        /\ operation[p][Rotation] \in Unfinished => RotationCount(p)'
      BY <1>1, <1>2 DEF RotationsCount, vars
    <3>1. /\ link[p] # "None" => asked[p]
          /\ operation[p][Rotation] \in Unfinished => RotationCount(p)
      BY DEF CountInv, RotationsCount
    <3>2. link'[p] = link[p] \/ (p = o /\ link'[p] = "Mailed")
      BY <2>1 DEF CInv, StoresTypeOK
    <3> QED BY <1>1, <1>2, <2>1, <3>1, <3>2 DEF RotationCount, Rekeyed, vars
  <2> QED BY <1>2, <1>4, <2>2, <2>3 DEF CountInv
<1> QED
  BY <1>2, <1>5, <1>6 DEF ResumeRotation, AskReceipt, SendCredentials, Kill, Abandon, Start,
     remoteVars

\* A rotation is counted when the password has been changed.
LEMMA CompletionKeepsCount ==
  ASSUME CInv, CountInv, NEW o \in Orders, Rotating(o, "Succeeded"), EndRotation(o)
  PROVE  CountInv'
<1> DEFINE a == rentedAccount[o]
<1>1. CompleteRotatePassword(o) /\ work' = {}
  BY DEF EndRotation, Rotating, Leave
<1>2. UNCHANGED <<remote, pending, minted, link, mark, asked, rentedAccount>>
  BY <1>1 DEF EndRotation, CompleteRotatePassword, remoteVars, vault, marks
<1>3. /\ a \in Accounts /\ Rekeyed(a) /\ operation[o][Rotation] \in Unfinished
      /\ remote[a] \in {credentialVersion[a], credentialVersion[a] + 1}
  BY CountFacts, RotationFacts DEF Rotating, StepCount, Unfinished
<1>4. /\ credentialVersion' = [credentialVersion EXCEPT ![a] = @ + 1]
      /\ account' = [account EXCEPT ![a] = "AVAILABLE_OFFLINE"]
      /\ operation' = [operation EXCEPT ![o][Rotation] = "COMPLETED", ![o]["ENABLE_LOTS"] = "PENDING"]
  BY <1>1 DEF CompleteRotatePassword, MoveAccount, FinishAndStart, Rotation
<1>5. /\ credentialVersion \in [Accounts -> Nat] /\ account \in [Accounts -> AccountStatus]
      /\ operation \in [Orders -> [LifecycleKind -> OperationStatus]]
  BY DEF CInv, IInv, TypeOK
<1>6. ASSUME NEW p \in Orders, operation'[p][Rotation] \in Unfinished
      PROVE  /\ operation[p][Rotation] \in Unfinished
             /\ rentedAccount[p] \in Accounts \ {a}
  <2>1. p # o /\ operation'[p] = operation[p]
    BY <1>4, <1>5, <1>6, CustodyKinds DEF Unfinished, Rotation
  <2> QED BY <1>3, <1>6, <2>1, CustodyKinds, UnfinishedAlone DEF CInv, Unfinished
<1> HIDE DEF a
<1>7. /\ credentialVersion'[a] = remote[a] /\ credentialVersion[a] \in Nat
      /\ \A b \in Accounts \ {a} :
           credentialVersion'[b] = credentialVersion[b] /\ account'[b] = account[b]
  BY <1>3, <1>4, <1>5 DEF Rekeyed
<1>8. PasswordsCount'
  <2> SUFFICES ASSUME NEW b \in Accounts
               PROVE  /\ remote[b] \in {credentialVersion'[b], credentialVersion'[b] + 1}
                      /\ pending[b] = 0 => minted[b] = remote[b]
                      /\ pending[b] # 0 => pending[b] \in {remote[b], remote[b] + 1}
                      /\ remote[b] # credentialVersion'[b] => account'[b] \in Changing
    BY <1>2 DEF PasswordsCount, Rekeyed
  <2> QED BY <1>7 DEF CountInv, PasswordsCount, Rekeyed
<1>9. RotationsCount'
  <2> SUFFICES ASSUME NEW p \in Orders
               PROVE  /\ link[p] # "None" => asked[p]
                      /\ operation'[p][Rotation] \in Unfinished => RotationCount(p)'
    BY <1>2 DEF RotationsCount
  <2>1. operation'[p][Rotation] \in Unfinished =>
          RotationCount(p) /\ rentedAccount[p] \in Accounts \ {a}
    BY <1>6 DEF CountInv, RotationsCount
  <2> QED BY <1>2, <1>7, <2>1 DEF CountInv, RotationsCount, RotationCount, Rekeyed
<1>10. StepsCount'
  BY <1>1, StepsRest DEF CountInv
<1> QED BY <1>8, <1>9, <1>10 DEF CountInv

\* The rows count a password when a rotation completes, and then only.
LEMMA OnlyCompletionCounts ==
  ASSUME CustodyNext, credentialVersion' # credentialVersion
  PROVE  \E o \in Orders : Rotating(o, "Succeeded") /\ EndRotation(o)
                           /\ CompleteRotatePassword(o)
<1>1. ~\E o \in Orders :
        WebStep(o) \/ AskReceipt(o) \/ SendCredentials(o) \/ MailArrives(o)
  BY WebLeavesRows DEF vars
<1>2. ~(Kill \/ Abandon \/ Start)
  BY DEF Kill, Abandon, Start, vars
<1>3. ASSUME NEW e \in OtpRequests, OtpStep(e) PROVE UNCHANGED credentialVersion
  BY <1>3 DEF OtpStep, CreateSendOtp, ForgetSeen, ClaimOtp,
     WaitForBuyerOtp, CompleteOtp, OtpLeaseLapses, FailOtp, MoveOtp
<1>4. ASSUME NEW o \in Orders, NEW k \in OtherKind, OperationStep(o, k)
      PROVE  UNCHANGED credentialVersion
  BY <1>4 DEF OperationStep, Complete, OtherKind, Rotation, ClaimOperation, LeaseLapses,
     ClaimStartupRecovery, FailOperation, CompleteDisableLots, CompleteSendCredentials,
     CompleteRevokeSessions, CompleteEnableLots
<1>5. ~(Quarantine \/ OtherStep)
  BY <1>3, <1>4 DEF Quarantine, OtherStep, RecoverExpiredLeases, AcceptOrder, BlockOrder,
     PrepareRevoke, SecurityEvent, ExpireDue, SeeActiveRental, Reconcile
<1>6. PICK o \in Orders : RowStep(o)
  BY <1>1, <1>2, <1>5, CustodySteps
<1>7. EndRotation(o) /\ Rotating(o, "Succeeded") /\ CompleteRotatePassword(o)
  BY <1>6 DEF RowStep, ClaimRotation, RecoverRotation, EndRotation, ClaimSend, EndSend,
     RecoverReceipt, LapseOf, ClaimOperation, ClaimStartupRecovery, LeaseLapses,
     FailOperation, CompleteSendCredentials
<1> QED BY <1>7

\* The transactions leave the passwords, and take up or give back work.
LEMMA RowsCount ==
  ASSUME CInv, CountInv, CustodyNext,
         (\E o \in Orders : RowStep(o)) \/ Quarantine \/ OtherStep
  PROVE  CountInv' /\ UNCHANGED remote
<1>1. UNCHANGED <<remote, pending, minted, link, mark, asked>>
  BY DEF RowStep, ClaimRotation, RecoverRotation, EndRotation, ClaimSend, EndSend,
     RecoverReceipt, LapseOf, Quarantine, OtherStep, custodyVars, remoteVars, vault, marks
<1>2. CASE credentialVersion' # credentialVersion
  BY <1>1, <1>2, OnlyCompletionCounts, CompletionKeepsCount
<1>3. CASE UNCHANGED credentialVersion
  <2>1. StepsCount'
    <3>1. ASSUME NEW o \in Orders,
                 ClaimRotation(o) \/ RecoverRotation(o) \/ EndRotation(o) \/ ClaimSend(o) \/ EndSend(o)
          PROVE  work' = {} \/ step' \in {"Authenticate", "AskReceipt"}
      BY <3>1 DEF ClaimRotation, RecoverRotation, EndRotation, ClaimSend, EndSend, Begin, Leave
    <3>2. ASSUME NEW o \in Orders, RecoverReceipt(o) PROVE work' = {}
      BY <3>2 DEF RecoverReceipt, custodyVars, process
    <3>3. ASSUME NEW o \in Orders, \E kind \in {Rotation, "SEND_CREDENTIALS"} : LapseOf(o, kind)
          PROVE  UNCHANGED <<work, step, rentedAccount>>
      BY <3>3 DEF LapseOf, LeaseLapses, custodyVars, process
    <3>4. Quarantine \/ OtherStep => work' = {}
      BY DEF Quarantine, OtherStep, Idle, custodyVars, process
    <3> QED BY <1>1, <1>3, <3>1, <3>2, <3>3, <3>4, StepsRest DEF CountInv, RowStep
  <2>2. [Next]_vars
    BY StepOfRows
  <2>3. Steady
    BY <1>3, <2>2, RowsAreSteady DEF Steady, vars
  <2> QED BY <1>1, <2>1, <2>3, SteadyCounts
<1> QED BY <1>2, <1>3

\* Every step keeps the count.
LEMMA CountNext ==
  CInv /\ CountInv /\ [CustodyNext]_<<vars, custodyVars>> => CountInv'
<1>1. ASSUME CountInv, UNCHANGED <<vars, custodyVars>> PROVE CountInv'
  <2>1. UNCHANGED <<account, credentialVersion, rentedAccount, operation>>
    BY <1>1 DEF vars
  <2>2. UNCHANGED <<remote, pending, minted, link, mark, asked, work, step>>
    BY <1>1 DEF custodyVars, remoteVars, vault, marks, process
  <2>3. PasswordsCount' /\ RotationsCount'
    BY <1>1, <2>1, <2>2 DEF CountInv, PasswordsCount, RotationsCount, RotationCount, Rekeyed
  <2>4. StepsCount'
    BY <1>1, <2>1, <2>2 DEF CountInv, StepsCount, StepCount, Rekeyed
  <2> QED BY <2>3, <2>4 DEF CountInv
<1>2. ASSUME CInv, CountInv, CustodyNext PROVE CountInv'
  <2>1. ASSUME NEW o \in Orders, WebStep(o) PROVE CountInv'
    BY <1>2, <2>1, LooksCount, DecideCounts, ChangeCounts, DropCounts, PausesCount DEF WebStep
  <2>2. ASSUME NEW o \in Orders, AskReceipt(o) \/ SendCredentials(o) \/ MailArrives(o)
        PROVE  CountInv'
    BY <1>2, <2>2, PausesCount
  <2>3. CASE (\E o \in Orders : RowStep(o)) \/ Quarantine \/ OtherStep
    BY <1>2, <2>3, RowsCount
  <2>4. CASE Kill \/ Abandon \/ Start
    <3>1. CASE Orders = {}
      <4>1. UNCHANGED <<vars, remote, pending, minted>>
        BY <2>4 DEF Kill, Abandon, Start, remoteVars, vault
      <4> QED
        BY <1>2, <3>1, <4>1
        DEF CountInv, PasswordsCount, RotationsCount, StepsCount, Rekeyed, vars
    <3>2. CASE Orders # {}
      <4>1. PICK o \in Orders : TRUE
        BY <3>2
      <4> QED BY <1>2, <2>4, <4>1, PausesCount
    <3> QED BY <3>1, <3>2
  <2> QED BY <1>2, <2>1, <2>2, <2>3, <2>4, CustodySteps
<1> QED BY <1>1, <1>2

\* In every reachable state, also when buyers ask for login codes and whatever
\* was killed or lost, the password in force is the one the rows count or the
\* next, and the next only on an account in rotation or under review; the row
\* and the mail of a rotation tell which of the two it is (rotate reads them to
\* decide whether a change was made).
THEOREM PasswordsAreCounted == CustodySpec => []CountInv
  BY CountInit, CountNext, CustodyInvariance, PTL DEF CustodySpec

-----------------------------------------------------------------------------
\* The password implements ExclusiveRental.

\* Fresh stores have promised nothing.
LEMMA PasswordInit == CustodyInit => PasswordPromise!Init
  BY DEF CustodyInit, Init, PasswordPromise!Init, ServicePhase

\* Only a step that changes the password at Pixel Storm touches it.
LEMMA OnlyChangeRekeys ==
  ASSUME CInv, CountInv, CustodyNext, ~\E o \in Orders : ChangePassword(o)
  PROVE  UNCHANGED remote
<1>1. ASSUME NEW o \in Orders, WebStep(o) PROVE UNCHANGED remote
  BY <1>1 DEF WebStep, Authenticate, Decide, MarkProgress, Verify, RecordRequest,
     RequestChange, Answered, TakeLink, FinalizeChange, PromoteCurrent, DropPending,
     ReleaseRecovery, ResumeRotation, remoteVars
<1>2. ASSUME NEW o \in Orders, AskReceipt(o) \/ SendCredentials(o) \/ MailArrives(o)
      PROVE  UNCHANGED remote
  BY <1>2, PausesCount
<1>3. CASE (\E o \in Orders : RowStep(o)) \/ Quarantine \/ OtherStep
  BY <1>3, RowsCount
<1>4. CASE Kill \/ Abandon \/ Start
  BY <1>4 DEF Kill, Abandon, Start, remoteVars
<1> QED BY <1>1, <1>2, <1>3, <1>4, CustodySteps

\* The generation that a rental's buyer was given is in force until its rotation
\* completes, be the rental under review or not.
RotationsDue ==
  \A o \in Orders : operation[o][Rotation] \in Unfinished =>
    rentalVersion[o] = credentialVersion[rentedAccount[o]]

OpenRotationsDue ==
  \A o \in Orders :
    operation[o][Rotation] \in Unfinished /\ rental[o] # "MANUAL_REVIEW" =>
      rentalVersion[o] = credentialVersion[rentedAccount[o]]

\* Of open rentals the rows say so.
LEMMA OpenRotationIsDue == IInv => OpenRotationsDue
<1> SUFFICES ASSUME IInv, NEW o \in Orders, operation[o][Rotation] \in Unfinished,
                    rental[o] # "MANUAL_REVIEW"
             PROVE  rentalVersion[o] = credentialVersion[rentedAccount[o]]
  BY DEF OpenRotationsDue
<1>1. RentalAgrees(o) /\ GenerationAgrees(o) /\ rental[o] \in UnsettledRental
  BY CustodyKinds, UnfinishedAlone DEF IInv, LifecycleAgrees, GenerationsAgree
<1>2. rental[o] = "PASSWORD_ROTATION"
  BY <1>1 DEF RentalAgrees, OperationsAt, Unfinished, Delivered, Rotation,
              UnsettledRental, OpenRental, LifecycleKind
<1>3. account[rentedAccount[o]] = "ROTATING_PASSWORD"
  BY <1>1, <1>2 DEF RentalAgrees, OperationsAt, Unfinished, Rotated, Rotation, LifecycleKind
<1> QED BY <1>1, <1>2, <1>3 DEF GenerationAgrees

\* No rotation begins under review, and none but its own counts a password.
LEMMA RotationUnderReview ==
  ASSUME IInv, [Next]_vars, NEW o \in Orders,
         rental'[o] = "MANUAL_REVIEW", operation'[o][Rotation] \in Unfinished
  PROVE  /\ operation[o][Rotation] \in Unfinished
         /\ rentalVersion'[o] = rentalVersion[o] /\ rentedAccount'[o] = rentedAccount[o]
         /\ credentialVersion'[rentedAccount[o]] = credentialVersion[rentedAccount[o]]
<1> DEFINE Kept == /\ operation[o][Rotation] \in Unfinished
                   /\ rentalVersion'[o] = rentalVersion[o]
                   /\ rentedAccount'[o] = rentedAccount[o]
                   /\ credentialVersion'[rentedAccount[o]] = credentialVersion[rentedAccount[o]]
<1>0. /\ operation \in [Orders -> [LifecycleKind -> OperationStatus]]
      /\ rental \in [Orders -> RentalStatus \cup {"NONE"}]
      /\ credentialVersion \in [Accounts -> Nat]
      /\ rentalVersion \in [Orders -> Nat]
      /\ rentedAccount \in [Orders -> Accounts \cup {NoAccount}]
      /\ Rotation \in LifecycleKind
  BY CustodyKinds DEF IInv, TypeOK
<1>1. ASSUME NEW p \in Orders, NEW a \in Accounts, AcceptOrder(p, a) PROVE Kept
  <2>1. p # o
    BY <1>0, <1>1 DEF AcceptOrder
  <2> QED BY <1>0, <1>1, <2>1 DEF AcceptOrder, SetOperation
<1>2. ASSUME NEW p \in Orders, NEW k \in LifecycleKind, OperationStep(p, k) PROVE Kept
  <2>1. CASE ClaimOperation(p, k) \/ LeaseLapses(p, k) \/ ClaimStartupRecovery(p, k)
              \/ FailOperation(p, k)
    <3>1. UNCHANGED <<credentialVersion, rentedAccount, rentalVersion>>
      BY <2>1 DEF ClaimOperation, LeaseLapses, ClaimStartupRecovery, FailOperation
    <3>2. operation'[o][Rotation] \in Unfinished => operation[o][Rotation] \in Unfinished
      BY <1>0, <2>1 DEF ClaimOperation, LeaseLapses, ClaimStartupRecovery, FailOperation,
         InFlightOperation, SetOperation, Unfinished, InFlight
    <3> QED BY <3>1, <3>2
  <2>2. CASE CompleteRevokeSessions(p)
    <3>1. p # o
      BY <1>0, <2>2 DEF CompleteRevokeSessions, MoveRental
    <3> QED BY <1>0, <2>2, <3>1 DEF CompleteRevokeSessions, FinishAndStart
  <2>3. CASE CompleteRotatePassword(p)
    <3>1. operation[p][Rotation] \in Unfinished /\ operation[p][Rotation] # "COMPLETED"
      BY <2>3 DEF CompleteRotatePassword, InFlightOperation, InFlight, Unfinished, Rotation
    <3>2. p # o
      BY <1>0, <2>3 DEF CompleteRotatePassword, FinishAndStart, Rotation, Unfinished,
         LifecycleKind
    <3>3. operation[o][Rotation] \in Unfinished
      BY <1>0, <2>3, <3>2 DEF CompleteRotatePassword, FinishAndStart
    <3>4. rentedAccount[p] # rentedAccount[o]
      BY <1>0, <3>1, <3>2, <3>3, UnfinishedAlone
    <3> QED BY <1>0, <2>3, <3>3, <3>4 DEF CompleteRotatePassword
  <2>4. CASE CompleteDisableLots(p) \/ CompleteSendCredentials(p) \/ CompleteEnableLots(p)
    <3>1. UNCHANGED <<credentialVersion, rentedAccount, rentalVersion>>
      BY <2>4 DEF CompleteDisableLots, CompleteSendCredentials, CompleteEnableLots
    <3>2. operation'[o][Rotation] = operation[o][Rotation]
      BY <1>0, <2>4 DEF CompleteDisableLots, CompleteSendCredentials, CompleteEnableLots,
         FinishAndStart, SetOperation, Rotation, LifecycleKind
    <3> QED BY <3>1, <3>2
  <2> QED BY <1>2, <2>1, <2>2, <2>3, <2>4 DEF OperationStep, Complete
<1>3. ASSUME NEW due \in SUBSET Orders, ExpireDue(due) PROVE Kept
  <2>1. o \notin due
    BY <1>3 DEF ExpireDue
  <2> QED BY <1>3, <2>1 DEF ExpireDue
<1>4. ASSUME NEW p \in Orders, SecurityEvent(p) PROVE Kept
  BY <1>0, <1>4 DEF SecurityEvent, SetOperation, MoveRental, Rotation, LifecycleKind
<1>5. CASE RecoverExpiredLeases
  BY <1>0, <1>5 DEF RecoverExpiredLeases, Unfinished
<1>6. ASSUME NEW e \in OtpRequests, OtpStep(e)
      PROVE  UNCHANGED <<operation, rentalVersion, rentedAccount, credentialVersion>>
  BY <1>6 DEF OtpStep, CreateSendOtp, ForgetSeen, ClaimOtp, WaitForBuyerOtp,
     CompleteOtp, OtpLeaseLapses, FailOtp, MoveOtp
<1>7. CASE UNCHANGED <<operation, rentalVersion, rentedAccount, credentialVersion>>
  BY <1>7
<1> QED
  BY <1>1, <1>2, <1>3, <1>4, <1>5, <1>6, <1>7 DEF Next, BlockOrder, PrepareRevoke,
     SeeActiveRental, Reconcile, vars

\* Every transaction keeps the generation of a rotation in force.
LEMMA RotationsStayDue ==
  ASSUME IInv, IInv', RotationsDue, [Next]_vars
  PROVE  RotationsDue'
<1>1. OpenRotationsDue'
  BY OpenRotationIsDue, PTL
<1>2. ASSUME NEW o \in Orders, operation'[o][Rotation] \in Unfinished,
             rental'[o] = "MANUAL_REVIEW"
      PROVE  rentalVersion'[o] = credentialVersion'[rentedAccount'[o]]
  BY <1>2, RotationUnderReview DEF RotationsDue
<1> QED BY <1>1, <1>2 DEF OpenRotationsDue, RotationsDue

\* A password is changed from the one the buyer was given to the next.
LEMMA ChangeRekeys ==
  ASSUME CInv, CountInv, RotationsDue, NEW o \in Orders, ChangePassword(o)
  PROVE  PasswordPromise!Rekey(o) \/ UNCHANGED PasswordPromise!vars
<1> DEFINE a == rentedAccount[o]
<1>1. work = {<<o, Rotation>>} /\ UNCHANGED vars
  BY DEF ChangePassword, Rotating
<1>2. UNCHANGED <<rental, rentedAccount, rentalVersion>>
  BY <1>1 DEF vars
<1>3. UNCHANGED [p \in Orders |-> ServicePhase(p)]
  BY <1>2 DEF ServicePhase
<1>4. CASE UNCHANGED remote
  BY <1>2, <1>3, <1>4 DEF PasswordPromise!vars
<1>5. CASE ~Rekeyed(a) /\ remote' = [remote EXCEPT ![a] = @ + 1]
  <2>1. operation[o][Rotation] \in Unfinished /\ a \in Accounts
    BY <1>1, CountFacts, RotationFacts DEF Unfinished
  <2>2. rental[o] \in UnsettledRental
    BY <2>1, CustodyKinds, UnfinishedAlone DEF CInv
  <2>3. rentalVersion[o] = credentialVersion[a]
    BY <2>1 DEF RotationsDue
  <2>4. ServicePhase(o) \in {"Held", "Review"}
    BY <2>2 DEF ServicePhase, UnsettledRental, OpenRental
  <2>5. remote[a] = credentialVersion[a]
    BY <1>5, <2>1 DEF CountInv, PasswordsCount, Rekeyed
  <2> QED
    BY <1>2, <1>3, <1>5, <2>3, <2>4, <2>5 DEF PasswordPromise!Rekey
<1> QED BY <1>4, <1>5, ChangeCounts

\* An account is let with the password in force, as no account that is for
\* rent is changing its own.
LEMMA AcceptLetsPassword ==
  ASSUME CInv, CountInv, NEW o \in Orders, NEW a \in Accounts, AcceptOrder(o, a),
         UNCHANGED remote
  PROVE  PasswordPromise!Let(o, a)
<1>1. Promise!Let(o, a)
  BY AcceptLets DEF CInv
<1>2. remote[a] = credentialVersion[a]
  BY DEF AcceptOrder, CountInv, PasswordsCount, Rekeyed, Changing
<1> QED BY <1>1, <1>2 DEF Promise!Let, PasswordPromise!Let

\* A transaction that counts no password and accepts no order returns a rental,
\* takes some to review, or is not noticed.
LEMMA RestImplements ==
  ASSUME CInv, CountInv, [Next]_vars, UNCHANGED <<remote, credentialVersion, rentedAccount>>
  PROVE  [PasswordPromise!Next]_(PasswordPromise!vars)
<1>0. IInv
  BY DEF CInv
<1>1. Promise!Next \/ UNCHANGED Promise!vars
  BY <1>0, NextImplements
<1>2. CASE UNCHANGED Promise!vars
  BY <1>2 DEF Promise!vars, PasswordPromise!vars
<1>3. ASSUME NEW o \in Orders, ServicePhase(o) # "None"
      PROVE  rentedAccount[o] \in Accounts
  <2>1. rental[o] # "NONE"
    BY <1>3 DEF ServicePhase
  <2> QED BY <1>0, <2>1 DEF IInv, TypeOK
<1>4. ASSUME NEW o \in Orders, NEW a \in Accounts, Promise!Let(o, a) PROVE FALSE
  <2>1. rental[o] = "NONE"
    BY <1>4 DEF Promise!Let, ServicePhase
  <2>2. rentedAccount[o] = NoAccount
    BY <1>0, <2>1 DEF IInv, TypeOK
  <2>3. rentedAccount'[o] = a
    BY <1>0, <1>4 DEF Promise!Let, IInv, TypeOK
  <2> QED BY <2>2, <2>3, SentinelsAssumption
<1>5. ASSUME NEW o \in Orders, Promise!Rekey(o) PROVE FALSE
  <2>1. rentedAccount[o] \in Accounts
    BY <1>3, <1>5 DEF Promise!Rekey
  <2>2. credentialVersion'[rentedAccount[o]] = credentialVersion[rentedAccount[o]] + 1
    BY <1>0, <1>5, <2>1 DEF Promise!Rekey, IInv, TypeOK
  <2> QED BY <1>0, <2>1, <2>2 DEF IInv, TypeOK
<1>6. ASSUME NEW o \in Orders, Promise!Return(o) PROVE PasswordPromise!Return(o)
  <2>1. rentedAccount[o] \in Accounts
    BY <1>3, <1>6 DEF Promise!Return
  <2>2. /\ rentalVersion[o] \in Nat /\ credentialVersion[rentedAccount[o]] \in Nat
        /\ remote[rentedAccount[o]] \in
             {credentialVersion[rentedAccount[o]], credentialVersion[rentedAccount[o]] + 1}
    BY <1>0, <2>1 DEF IInv, TypeOK, CountInv, PasswordsCount
  <2>3. rentalVersion[o] < remote[rentedAccount[o]]
    BY <1>6, <2>2 DEF Promise!Return
  <2> QED BY <1>6, <2>3 DEF Promise!Return, PasswordPromise!Return
<1>7. ASSUME NEW S \in SUBSET Orders, Promise!Quarantine(S)
      PROVE  PasswordPromise!Quarantine(S)
  BY <1>7 DEF Promise!Quarantine, PasswordPromise!Quarantine
<1> QED
  BY <1>1, <1>2, <1>4, <1>5, <1>6, <1>7 DEF Promise!Next, PasswordPromise!Next

\* Every step of the composition is a step of the promise or is not noticed.
LEMMA CustodyImplements ==
  ASSUME CInv, CountInv, RotationsDue, [CustodyNext]_<<vars, custodyVars>>
  PROVE  [PasswordPromise!Next]_(PasswordPromise!vars)
<1>1. CASE UNCHANGED <<vars, custodyVars>>
  <2>1. UNCHANGED <<rental, rentedAccount, rentalVersion, remote>>
    BY <1>1 DEF vars, custodyVars, remoteVars
  <2> QED BY <2>1 DEF PasswordPromise!vars, ServicePhase
<1>2. ASSUME NEW o \in Orders, ChangePassword(o)
      PROVE  [PasswordPromise!Next]_(PasswordPromise!vars)
  BY <1>2, ChangeRekeys DEF PasswordPromise!Next
<1>3. ASSUME CustodyNext, UNCHANGED remote
      PROVE  [PasswordPromise!Next]_(PasswordPromise!vars)
  <2>1. CASE credentialVersion' # credentialVersion
    <3>1. PICK o \in Orders : CompleteRotatePassword(o)
      BY <1>3, <2>1, OnlyCompletionCounts
    <3>2. UNCHANGED <<rental, rentedAccount, rentalVersion>>
      BY <3>1 DEF CompleteRotatePassword
    <3> QED BY <1>3, <3>2 DEF PasswordPromise!vars, ServicePhase
  <2>2. CASE \E o \in Orders, a \in Accounts : AcceptOrder(o, a)
    BY <1>3, <2>2, AcceptLetsPassword DEF PasswordPromise!Next
  <2>3. CASE /\ UNCHANGED credentialVersion
             /\ ~\E o \in Orders, a \in Accounts : AcceptOrder(o, a)
    <3>1. [Next]_vars
      BY <1>3, StepOfRows
    <3>2. UNCHANGED rentedAccount
      BY <2>3, <3>1, AccountsStay DEF vars
    <3> QED BY <1>3, <2>3, <3>1, <3>2, RestImplements
  <2> QED BY <2>1, <2>2, <2>3
<1> QED BY <1>1, <1>2, <1>3, OnlyChangeRekeys

\* The password in force at Pixel Storm keeps the promise to the buyers, also
\* when a login code fails while a rotation runs and the password is changed
\* under review: it changes at most once in a rental, from the one its buyer was
\* given, and an account is let again with another one only.
THEOREM PasswordPromiseIsKept == CustodySpec => KeepsPasswordPromise
<1>1. CustodyInit => RotationsDue
  BY CustodyKinds DEF CustodyInit, Init, RotationsDue, Unfinished
<1>2. CInv /\ CInv' /\ RotationsDue /\ [CustodyNext]_<<vars, custodyVars>> => RotationsDue'
  <2>1. CASE UNCHANGED <<vars, custodyVars>>
    BY <2>1 DEF vars, RotationsDue
  <2>2. CASE CustodyNext
    BY <2>2, StepOfRows, RotationsStayDue DEF CInv
  <2> QED BY <2>1, <2>2
<1>3. CInv /\ CountInv /\ RotationsDue /\ [CustodyNext]_<<vars, custodyVars>>
      => [PasswordPromise!Next]_(PasswordPromise!vars)
  BY CustodyImplements
<1> QED
  BY <1>1, <1>2, <1>3, PasswordInit, CustodyInvariance, PasswordsAreCounted, PTL
  DEF CustodySpec, KeepsPasswordPromise, PasswordPromise!Spec
=============================================================================
