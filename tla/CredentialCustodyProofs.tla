------------------------ MODULE CredentialCustodyProofs ------------------------
(***************************************************************************)
(* Theorems about CredentialCustody for any accounts, orders and requests: *)
(* it implements RentalLifecycle, and no crash loses a password, lets two  *)
(* buyers share one or asks for a change twice.                            *)
(***************************************************************************)
EXTENDS CredentialCustody, RentalLifecycleProofs

\* The two operations that handle passwords are of the life of a rental.
LEMMA CustodyKinds ==
  /\ Rotation \in LifecycleKind /\ "SEND_CREDENTIALS" \in LifecycleKind
  /\ OtherKind \subseteq LifecycleKind
  BY DEF Rotation, LifecycleKind, OtherKind

\* The steps of a rotation that are taken between two transactions.
WebStep(o) ==
  \/ Authenticate(o) \/ Decide(o) \/ MarkProgress(o) \/ Verify(o)
  \/ RecordRequest(o) \/ RequestChange(o) \/ Answered(o) \/ TakeLink(o)
  \/ ChangePassword(o) \/ FinalizeChange(o) \/ PromoteCurrent(o)
  \/ DropPending(o) \/ ReleaseRecovery(o) \/ ResumeRotation(o)

\* None of them touches the rows of the rental, nor do messages and crashes.
LEMMA WebLeavesRows ==
  ASSUME NEW o \in Orders,
         WebStep(o) \/ AskReceipt(o) \/ SendCredentials(o) \/ MailArrives(o)
           \/ Kill \/ Abandon \/ Start
  PROVE  UNCHANGED vars
  BY DEF WebStep, Authenticate, Decide, MarkProgress, Verify, RecordRequest,
     RequestChange, Answered, TakeLink, ChangePassword, FinalizeChange,
     PromoteCurrent, DropPending, ReleaseRecovery, ResumeRotation, AskReceipt,
     SendCredentials, MailArrives, Kill, Abandon, Start

\* The transactions by which the process takes and ends its work.
RowStep(o) ==
  \/ ClaimRotation(o) \/ RecoverRotation(o) \/ EndRotation(o)
  \/ ClaimSend(o) \/ EndSend(o) \/ RecoverReceipt(o)
  \/ \E kind \in {Rotation, "SEND_CREDENTIALS"} : LapseOf(o, kind)

\* The next-state relation, sorted into these.
LEMMA CustodySteps ==
  CustodyNext =>
    \/ \E o \in Orders :
         WebStep(o) \/ AskReceipt(o) \/ SendCredentials(o) \/ MailArrives(o) \/ RowStep(o)
    \/ Kill \/ Abandon \/ Start \/ Quarantine \/ OtherStep
  BY DEF CustodyNext, RotationStep, SendStepOf, WebStep, RowStep

\* What a process does with passwords, and every crash and start of it, is to
\* the rows a step of RentalLifecycle or nothing at all.
LEMMA StepOfRows == CustodyNext => [Next]_vars
<1> SUFFICES ASSUME CustodyNext PROVE [Next]_vars
  OBVIOUS
<1>1. ASSUME NEW o \in Orders, NEW kind \in LifecycleKind, OperationStep(o, kind)
      PROVE  Next
  BY <1>1 DEF Next
<1>2. ASSUME NEW o \in Orders, RowStep(o) PROVE Next
  <2>1. \E kind \in LifecycleKind : OperationStep(o, kind)
    BY <1>2, CustodyKinds
    DEF RowStep, ClaimRotation, RecoverRotation, EndRotation, ClaimSend, EndSend,
        RecoverReceipt, LapseOf, OperationStep, Complete, Rotation
  <2> QED BY <2>1, <1>1
<1>3. ASSUME NEW o \in Orders,
             WebStep(o) \/ AskReceipt(o) \/ SendCredentials(o) \/ MailArrives(o)
      PROVE  UNCHANGED vars
  BY <1>3, WebLeavesRows
<1>4. CASE Kill \/ Abandon \/ Start
  BY <1>4 DEF Kill, Abandon, Start
<1>5. CASE Quarantine
  BY <1>5 DEF Quarantine, Next
<1>6. CASE OtherStep
  BY <1>6, CustodyKinds DEF OtherStep, Next
<1> QED BY <1>2, <1>3, <1>4, <1>5, <1>6, CustodySteps

\* Whatever happens to passwords, mails and processes, the rows behave as
\* RentalLifecycle says: its theorems hold of the composition.
THEOREM RowsBehave == CustodySpec => Spec
<1>1. CustodyInit => Init
  BY DEF CustodyInit
<1>2. [CustodyNext]_<<vars, custodyVars>> => [Next]_vars
  BY StepOfRows
<1> QED BY <1>1, <1>2, PTL DEF CustodySpec, Spec

-----------------------------------------------------------------------------
\* Types.

\* The process executes at most one operation.
LEMMA OneWork ==
  ASSUME NEW o, NEW p, NEW k, NEW j, work = {<<o, k>>}, work = {<<p, j>>}
  PROVE  o = p /\ k = j
<1>1. <<o, k>> \in {<<p, j>>}
  OBVIOUS
<1> QED BY <1>1

\* Where the process may be.
ProcessTypeOK ==
  /\ up \in {"Down", "Starting", "Running"}
  /\ \/ work = {} /\ step = "None"
     \/ /\ \E o \in Orders :
             \/ /\ work = {<<o, Rotation>>}
                /\ step \in RotateStep \cup {"Succeeded", "Failed"}
             \/ /\ work = {<<o, "SEND_CREDENTIALS">>}
                /\ step \in SendStep \cup {"Succeeded", "Failed"}
        /\ up # "Down"
  /\ recovery \in BOOLEAN

\* What is at Pixel Storm, at FunPay, in the vault and in the marks.
StoresTypeOK ==
  /\ remote \in [Accounts -> Nat \ {0}]
  /\ current \in [Accounts -> Nat \ {0}]
  /\ pending \in [Accounts -> Nat]
  /\ minted \in [Accounts -> Nat \ {0}]
  /\ link \in [Orders -> {"None", "Due", "Mailed", "Used"}]
  /\ requests \in [Orders -> Nat]
  /\ mark \in [Orders -> SecurityState]
  /\ asked \in [Orders -> BOOLEAN]
  /\ held \in [Orders -> BOOLEAN]
  /\ told \in [Orders -> Nat]
  /\ receipt \in [Orders -> {"None", "Verified", "Failed", "Ambiguous"}]

\* The type invariant is the conjunction.
LEMMA TypeParts == CustodyTypeOK <=> TypeOK /\ StoresTypeOK /\ ProcessTypeOK
  BY DEF CustodyTypeOK, StoresTypeOK, ProcessTypeOK, Rotation

\* The process goes on, takes work up or leaves it within its types.
LEMMA ProcessMoves ==
  ASSUME ProcessTypeOK, NEW o \in Orders, NEW s,
         \/ Goto(s) /\ work = {<<o, Rotation>>} /\ s \in RotateStep \cup {"Succeeded", "Failed"}
         \/ Goto(s) /\ work = {<<o, "SEND_CREDENTIALS">>} /\ s \in SendStep \cup {"Succeeded", "Failed"}
         \/ Leave
         \/ UNCHANGED process
         \/ /\ up # "Down"
            /\ \/ \E r \in BOOLEAN : Begin(o, Rotation, "Authenticate", r)
               \/ Begin(o, "SEND_CREDENTIALS", "AskReceipt", FALSE)
  PROVE  ProcessTypeOK'
<1> USE DEF ProcessTypeOK
<1>1. ASSUME Goto(s), work = {<<o, Rotation>>}, s \in RotateStep \cup {"Succeeded", "Failed"}
      PROVE  ProcessTypeOK'
  <2>1. up # "Down"
    BY <1>1
  <2> QED BY <1>1, <2>1 DEF Goto
<1>2. ASSUME Goto(s), work = {<<o, "SEND_CREDENTIALS">>}, s \in SendStep \cup {"Succeeded", "Failed"}
      PROVE  ProcessTypeOK'
  <2>1. up # "Down"
    BY <1>2
  <2> QED BY <1>2, <2>1 DEF Goto
<1>3. CASE Leave
  BY <1>3 DEF Leave
<1>4. CASE UNCHANGED process
  BY <1>4 DEF process
<1>5. ASSUME up # "Down", NEW r \in BOOLEAN, Begin(o, Rotation, "Authenticate", r)
      PROVE  ProcessTypeOK'
  BY <1>5 DEF Begin, RotateStep
<1>6. ASSUME up # "Down", Begin(o, "SEND_CREDENTIALS", "AskReceipt", FALSE)
      PROVE  ProcessTypeOK'
  BY <1>6 DEF Begin, SendStep
<1> QED BY <1>1, <1>2, <1>3, <1>4, <1>5, <1>6

\* A web step goes on within its types.
LEMMA WebProcess ==
  ASSUME ProcessTypeOK, NEW o \in Orders, WebStep(o)
  PROVE  ProcessTypeOK'
<1> USE DEF RotateStep, Rotating
<1>1. ASSUME NEW state, Wait(o, state), work = {<<o, Rotation>>} PROVE ProcessTypeOK'
  BY <1>1, ProcessMoves DEF Wait
<1>2. ASSUME NEW s \in RotateStep \cup {"Succeeded", "Failed"}, Goto(s), work = {<<o, Rotation>>}
      PROVE  ProcessTypeOK'
  BY <1>2, ProcessMoves
<1>3. CASE Authenticate(o)
  BY <1>1, <1>2, <1>3 DEF Authenticate
<1>4. CASE Decide(o)
  BY <1>2, <1>4 DEF Decide
<1>5. CASE MarkProgress(o)
  BY <1>2, <1>5 DEF MarkProgress
<1>6. CASE Verify(o)
  BY <1>1, <1>2, <1>6 DEF Verify
<1>7. CASE RecordRequest(o) \/ RequestChange(o) \/ Answered(o)
  BY <1>2, <1>7 DEF RecordRequest, RequestChange, Answered
<1>8. CASE TakeLink(o)
  BY <1>1, <1>2, <1>8 DEF TakeLink
<1>9. CASE ChangePassword(o) \/ FinalizeChange(o) \/ PromoteCurrent(o) \/ DropPending(o)
  BY <1>2, <1>9 DEF ChangePassword, FinalizeChange, PromoteCurrent, DropPending
<1>10. CASE ReleaseRecovery(o)
  BY <1>10, ProcessMoves DEF ReleaseRecovery
<1>11. CASE ResumeRotation(o)
  BY <1>11, ProcessMoves DEF ResumeRotation
<1> QED
  BY <1>3, <1>4, <1>5, <1>6, <1>7, <1>8, <1>9, <1>10, <1>11 DEF WebStep

-----------------------------------------------------------------------------
\* The inductive invariant.

\* The pending password is the last one that was generated, and the current
\* one is in force unless the pending one is.
VaultAgrees ==
  \A a \in Accounts :
    /\ current[a] <= minted[a]
    /\ \/ pending[a] = 0 /\ remote[a] = current[a]
       \/ pending[a] = minted[a] /\ remote[a] \in {current[a], pending[a]}

\* Nobody was sent a password that is not current yet, nor one that is about
\* to be.
ToldAgrees ==
  \A o \in Orders :
    LET a == rentedAccount[o]
    IN  /\ rental[o] = "NONE" => told[o] = 0 /\ receipt[o] = "None"
        /\ rental[o] # "NONE" =>
             told[o] <= current[a] /\ (pending[a] # 0 => told[o] < pending[a])

\* While a rental is not settled the other buyers of its account have older
\* passwords, and no two have the same.
ToldApart ==
  \A o, p \in Orders :
    LET a == rentedAccount[o]
    IN  rental[o] # "NONE" /\ p # o /\ rentedAccount[p] = a =>
          /\ rental[o] \in UnsettledRental => told[p] < current[a]
          /\ told[o] # 0 => told[o] # told[p]

Returned == {"AVAILABLE_OFFLINE", "AVAILABLE"}
InUse == {"ACTIVE", "EXPIRING", "SECURITY_TERMINATED", "REVOKING"}

\* An account that is back has a password that nobody was sent.
ReturnedIsClean ==
  \A a \in Accounts : account[a] \in Returned =>
    /\ pending[a] = 0
    /\ \A p \in Orders : rentedAccount[p] = a => told[p] < current[a]

Undelivered(o) ==
  \/ operation[o]["DISABLE_LOTS"] \in Unfinished
  \/ operation[o]["SEND_CREDENTIALS"] \in Unfinished

\* Until its revocation has ended a rental has the current password, and
\* nobody prepares another.
UseAgrees ==
  \A o \in Orders :
    LET a == rentedAccount[o]
    IN  /\ Undelivered(o) => /\ pending[a] = 0
                             /\ receipt[o] = "Verified" => told[o] = current[a]
        /\ rental[o] \in InUse => pending[a] = 0 /\ told[o] = current[a]

\* A rotation that is marked as promoted, and has nothing left to promote, has
\* replaced the password of its buyer.
MarkAgrees ==
  \A o \in Orders :
    LET a == rentedAccount[o]
    IN  /\ operation[o][Rotation] \in {"NONE", "PENDING"} => mark[o] = "INIT"
        /\ /\ operation[o][Rotation] \in InFlight
           /\ mark[o] \in Promoted /\ pending[a] = 0
           => told[o] < current[a]

Prepared ==
  {"MarkPending", "Verify", "Record", "Request", "Answer", "Confirm", "Change",
   "CheckNew", "MarkVerified", "SetCurrent", "DropPending"}

\* What is known at each step of a rotation and of a message.
RotationAgrees(o) ==
  LET a == rentedAccount[o]
  IN  /\ step \in Prepared => pending[a] # 0
      /\ step \in {"MarkVerified", "SetCurrent", "DropPending"} => remote[a] = pending[a]
      /\ step = "DropPending" => current[a] = pending[a]
      /\ step \in {"MarkPromoted", "Succeeded"} => pending[a] = 0 /\ told[o] < current[a]

WorkAgrees ==
  /\ \A o \in Orders, k \in LifecycleKind :
       work = {<<o, k>>} => operation[o][k] = "RUNNING"
  /\ \A o \in Orders : work = {<<o, Rotation>>} => RotationAgrees(o)
  /\ \A o \in Orders : Sending(o, "Succeeded") => receipt[o] = "Verified"

CInv ==
  /\ IInv
  /\ StoresTypeOK
  /\ ProcessTypeOK
  /\ VaultAgrees
  /\ ToldAgrees
  /\ ToldApart
  /\ ReturnedIsClean
  /\ UseAgrees
  /\ MarkAgrees
  /\ WorkAgrees

\* An account whose password is being changed is not back, nor with a buyer
\* who has not returned it.
LEMMA RotatesAlone ==
  ASSUME IInv, NEW o \in Orders, operation[o][Rotation] \in Unfinished
  PROVE  /\ rentedAccount[o] \in Accounts
         /\ account[rentedAccount[o]] \notin Returned
         /\ \A p \in Orders : rentedAccount[p] = rentedAccount[o] =>
              ~Undelivered(p) /\ rental[p] \notin InUse
<1>1. Rotation \in LifecycleKind
  BY CustodyKinds
<1>2. RentalAgrees(o)
  BY DEF IInv, LifecycleAgrees
<1>3. rentedAccount[o] \in Accounts /\ rental[o] \in UnsettledRental
  BY <1>1, UnfinishedAlone
<1>4. rental[o] \in {"PASSWORD_ROTATION", "MANUAL_REVIEW"}
  BY <1>2, <1>3 DEF RentalAgrees, OperationsAt, Unfinished, Delivered, Rotation,
                    UnsettledRental, OpenRental, LifecycleKind
<1>5. account[rentedAccount[o]] \in {"ROTATING_PASSWORD", "MANUAL_REVIEW"}
  BY <1>2, <1>4 DEF RentalAgrees, OperationsAt, Unfinished, Rotated, Rotation, LifecycleKind
<1>6. ASSUME NEW p \in Orders, rentedAccount[p] = rentedAccount[o]
      PROVE  ~Undelivered(p) /\ rental[p] \notin InUse
  <2>1. CASE p = o
    BY <1>1, <1>4, <2>1, UnfinishedAlone DEF Undelivered, InUse, Rotation, LifecycleKind
  <2>2. CASE p # o
    BY <1>1, <1>6, <2>2, UnfinishedAlone
    DEF Undelivered, InUse, LifecycleKind, Unfinished
  <2> QED BY <2>1, <2>2
<1> QED BY <1>3, <1>5, <1>6 DEF Returned

\* Fresh stores have the invariant.
LEMMA CustodyInitInv == CustodyInit => CInv
<1> SUFFICES ASSUME CustodyInit PROVE CInv
  OBVIOUS
<1>1. Init
  BY DEF CustodyInit
<1>2. IInv
  BY <1>1, InitInv
<1>3. StoresTypeOK /\ ProcessTypeOK
  <2>1. "INIT" \in SecurityState
    BY DEF SecurityState
  <2>2. StoresTypeOK
    BY <2>1 DEF CustodyInit, StoresTypeOK
  <2>3. ProcessTypeOK
    BY DEF CustodyInit, ProcessTypeOK
  <2> QED BY <2>2, <2>3
<1>4. VaultAgrees
  BY DEF CustodyInit, VaultAgrees
<1>5. ToldAgrees /\ ToldApart
  BY <1>1 DEF CustodyInit, Init, ToldAgrees, ToldApart
<1>6. ReturnedIsClean
  BY <1>1 DEF CustodyInit, Init, ReturnedIsClean
<1>7. UseAgrees
  BY <1>1 DEF CustodyInit, Init, UseAgrees, Undelivered, Unfinished, InUse, LifecycleKind
<1>8. MarkAgrees
  BY <1>1, CustodyKinds DEF CustodyInit, Init, MarkAgrees, InFlight
<1>9. WorkAgrees
  BY DEF CustodyInit, WorkAgrees, Sending
<1> QED BY <1>2, <1>3, <1>4, <1>5, <1>6, <1>7, <1>8, <1>9 DEF CInv

\* What a rotation may do with its account's passwords.
LEMMA VaultMoves ==
  ASSUME CInv, NEW o \in Orders, operation[o][Rotation] = "RUNNING",
         UNCHANGED <<vars, chat>>,
         \A b \in Accounts \ {rentedAccount[o]} :
           /\ remote'[b] = remote[b] /\ current'[b] = current[b]
           /\ pending'[b] = pending[b] /\ minted'[b] = minted[b],
         current[rentedAccount[o]] <= current'[rentedAccount[o]],
         current'[rentedAccount[o]] <= minted'[rentedAccount[o]],
         \/ /\ pending'[rentedAccount[o]] = 0
            /\ remote'[rentedAccount[o]] = current'[rentedAccount[o]]
         \/ /\ pending'[rentedAccount[o]] = minted'[rentedAccount[o]]
            /\ remote'[rentedAccount[o]] \in
                 {current'[rentedAccount[o]], pending'[rentedAccount[o]]},
         pending'[rentedAccount[o]] # 0 =>
           \A p \in Orders : rentedAccount[p] = rentedAccount[o] =>
             told[p] < pending'[rentedAccount[o]],
         \A p \in Orders \ {o} : mark'[p] = mark[p],
         mark'[o] \in Promoted /\ pending'[rentedAccount[o]] = 0 =>
           told[o] < current'[rentedAccount[o]],
         StoresTypeOK'
  PROVE  /\ VaultAgrees' /\ ToldAgrees' /\ ToldApart'
         /\ ReturnedIsClean' /\ UseAgrees' /\ MarkAgrees'
<1> DEFINE a == rentedAccount[o]
<1>1. operation[o][Rotation] \in Unfinished
  BY DEF Unfinished
<1>2. /\ a \in Accounts /\ account[a] \notin Returned
      /\ \A p \in Orders : rentedAccount[p] = a =>
           ~Undelivered(p) /\ rental[p] \notin InUse
  BY <1>1, RotatesAlone DEF CInv
<1>3. /\ UNCHANGED <<account, rental, rentedAccount, operation, told, receipt>>
      /\ \A p \in Orders : Undelivered(p)' <=> Undelivered(p)
  BY DEF vars, chat, Undelivered
<1>4. /\ current \in [Accounts -> Nat] /\ current' \in [Accounts -> Nat]
      /\ told \in [Orders -> Nat] /\ pending \in [Accounts -> Nat]
  BY DEF CInv, StoresTypeOK
<1>5. \A p \in Orders : rental[p] # "NONE" => rentedAccount[p] \in Accounts
  BY DEF CInv, IInv, TypeOK
<1> HIDE DEF a
<1>6. VaultAgrees'
  BY DEF CInv, VaultAgrees, a
<1>7. ToldAgrees'
  <2> SUFFICES ASSUME NEW p \in Orders
               PROVE  LET b == rentedAccount[p]
                      IN  /\ rental[p] = "NONE" => told[p] = 0 /\ receipt[p] = "None"
                          /\ rental[p] # "NONE" => /\ told[p] <= current'[b]
                                                   /\ pending'[b] # 0 => told[p] < pending'[b]
    BY <1>3 DEF ToldAgrees
  <2>1. CASE rentedAccount[p] = a
    BY <1>2, <1>4, <2>1 DEF CInv, ToldAgrees, a
  <2>2. CASE rentedAccount[p] # a
    BY <1>5, <2>2 DEF CInv, ToldAgrees, a
  <2> QED BY <2>1, <2>2
<1>8. ToldApart'
  <2>1. \A b \in Accounts : current[b] <= current'[b]
    BY <1>4 DEF a
  <2> SUFFICES ASSUME NEW p \in Orders, NEW q \in Orders,
                      rental[p] # "NONE", q # p, rentedAccount[q] = rentedAccount[p]
               PROVE  /\ rental[p] \in UnsettledRental => told[q] < current'[rentedAccount[p]]
                      /\ told[p] # 0 => told[p] # told[q]
    BY <1>3 DEF ToldApart
  <2>2. rentedAccount[p] \in Accounts
    BY <1>5
  <2>3. /\ rental[p] \in UnsettledRental => told[q] < current[rentedAccount[p]]
        /\ told[p] # 0 => told[p] # told[q]
    BY DEF CInv, ToldApart
  <2> QED BY <1>4, <2>1, <2>2, <2>3
<1>9. ReturnedIsClean'
  BY <1>2, <1>3 DEF CInv, ReturnedIsClean, a
<1>10. UseAgrees'
  <2> SUFFICES ASSUME NEW p \in Orders
               PROVE  LET b == rentedAccount[p]
                      IN  /\ Undelivered(p) =>
                               /\ pending'[b] = 0
                               /\ receipt[p] = "Verified" => told[p] = current'[b]
                          /\ rental[p] \in InUse => pending'[b] = 0 /\ told[p] = current'[b]
    BY <1>3 DEF UseAgrees
  <2>1. CASE rentedAccount[p] = a
    BY <1>2, <2>1
  <2>2. CASE rentedAccount[p] # a
    <3>1. Undelivered(p) \/ rental[p] \in InUse => rentedAccount[p] \in Accounts
      <4>1. Undelivered(p) => rentedAccount[p] \in Accounts
        BY UnfinishedAlone DEF CInv, Undelivered, LifecycleKind
      <4> QED BY <1>5, <4>1 DEF InUse
    <3>2. rentedAccount[p] \in Accounts =>
            /\ current'[rentedAccount[p]] = current[rentedAccount[p]]
            /\ pending'[rentedAccount[p]] = pending[rentedAccount[p]]
      BY <2>2 DEF a
    <3> HIDE DEF Undelivered
    <3> QED BY <3>1, <3>2 DEF CInv, UseAgrees
  <2> QED BY <2>1, <2>2
<1>11. MarkAgrees'
  <2> SUFFICES ASSUME NEW p \in Orders
               PROVE  LET b == rentedAccount[p]
                      IN  /\ operation[p][Rotation] \in {"NONE", "PENDING"} => mark'[p] = "INIT"
                          /\ /\ operation[p][Rotation] \in InFlight
                             /\ mark'[p] \in Promoted /\ pending'[b] = 0
                             => told[p] < current'[b]
    BY <1>3 DEF MarkAgrees
  <2>1. CASE p = o
    BY <2>1
  <2>2. CASE p # o
    <3>1. operation[p][Rotation] \in InFlight => rentedAccount[p] \in Accounts \ {a}
      BY <1>1, <2>2, CustodyKinds, UnfinishedAlone DEF CInv, InFlight, Unfinished, a
    <3>2. rentedAccount[p] \in Accounts \ {a} =>
            /\ current'[rentedAccount[p]] = current[rentedAccount[p]]
            /\ pending'[rentedAccount[p]] = pending[rentedAccount[p]]
      BY DEF a
    <3> QED BY <2>2, <3>1, <3>2 DEF CInv, MarkAgrees
  <2> QED BY <2>1, <2>2
<1> QED BY <1>6, <1>7, <1>8, <1>9, <1>10, <1>11

\* The process goes on with a rotation, or leaves what it did.
LEMMA WorkGoesOn ==
  ASSUME WorkAgrees, NEW o \in Orders, work = {<<o, Rotation>>}, UNCHANGED operation,
         \/ work' = {}
         \/ work' = work /\ RotationAgrees(o)'
  PROVE  WorkAgrees'
<1>1. ASSUME NEW p \in Orders, NEW k \in LifecycleKind, work' = {<<p, k>>}
      PROVE  operation'[p][k] = "RUNNING"
  BY <1>1 DEF WorkAgrees
<1>2. ASSUME NEW p \in Orders, work' = {<<p, Rotation>>} PROVE RotationAgrees(p)'
  <2>1. work = {<<p, Rotation>>} /\ RotationAgrees(o)'
    BY <1>2
  <2>2. p = o
    BY <2>1, OneWork
  <2> QED BY <2>1, <2>2
<1>3. ASSUME NEW p \in Orders, Sending(p, "Succeeded")' PROVE FALSE
  <2>1. work = {<<p, "SEND_CREDENTIALS">>}
    BY <1>3 DEF Sending
  <2> QED BY <2>1, OneWork DEF Rotation
<1> QED BY <1>1, <1>2, <1>3 DEF WorkAgrees

\* The facts a rotation starts each of its steps from.
LEMMA RotationFacts ==
  ASSUME CInv, NEW o \in Orders, work = {<<o, Rotation>>}
  PROVE  /\ operation[o][Rotation] = "RUNNING"
         /\ rentedAccount[o] \in Accounts
         /\ RotationAgrees(o)
         /\ current[rentedAccount[o]] <= minted[rentedAccount[o]]
         /\ \/ /\ pending[rentedAccount[o]] = 0
               /\ remote[rentedAccount[o]] = current[rentedAccount[o]]
            \/ /\ pending[rentedAccount[o]] = minted[rentedAccount[o]]
               /\ remote[rentedAccount[o]] \in
                    {current[rentedAccount[o]], pending[rentedAccount[o]]}
         /\ pending[rentedAccount[o]] # 0 =>
              \A p \in Orders : rentedAccount[p] = rentedAccount[o] =>
                told[p] < pending[rentedAccount[o]]
         /\ mark[o] \in Promoted /\ pending[rentedAccount[o]] = 0 =>
              told[o] < current[rentedAccount[o]]
<1>1. operation[o][Rotation] = "RUNNING" /\ RotationAgrees(o)
  BY CustodyKinds DEF CInv, WorkAgrees
<1>2. rentedAccount[o] \in Accounts
  BY <1>1, RotatesAlone DEF CInv, Unfinished
<1>3. \A p \in Orders : rentedAccount[p] = rentedAccount[o] => rental[p] # "NONE"
  BY <1>2, SentinelsAssumption DEF CInv, IInv, TypeOK
<1> QED
  BY <1>1, <1>2, <1>3 DEF CInv, VaultAgrees, ToldAgrees, MarkAgrees, InFlight

\* A step of a rotation that leaves the vault and the password as they are.
LEMMA VaultRests ==
  ASSUME CInv, NEW o \in Orders, work = {<<o, Rotation>>},
         UNCHANGED <<vars, chat, remote, vault>>,
         \A p \in Orders \ {o} : mark'[p] = mark[p],
         mark'[o] \in Promoted =>
           mark[o] \in Promoted \/ step \in {"MarkVerified", "MarkPromoted"},
         StoresTypeOK'
  PROVE  /\ VaultAgrees' /\ ToldAgrees' /\ ToldApart'
         /\ ReturnedIsClean' /\ UseAgrees' /\ MarkAgrees'
<1>1. \A b \in Accounts :
        /\ remote'[b] = remote[b] /\ current'[b] = current[b]
        /\ pending'[b] = pending[b] /\ minted'[b] = minted[b]
  BY DEF vault
<1>2. rentedAccount[o] \in Accounts /\ current \in [Accounts -> Nat]
  BY RotationFacts DEF CInv, StoresTypeOK
<1>3. mark'[o] \in Promoted /\ pending[rentedAccount[o]] = 0 =>
        told[o] < current[rentedAccount[o]]
  BY RotationFacts DEF RotationAgrees, Prepared
<1> QED
  BY <1>1, <1>2, <1>3, RotationFacts, VaultMoves

\* A wait leaves the vault and gives the row back, or goes on to do so.
LEMMA WaitGoesOn ==
  ASSUME CInv, NEW o \in Orders, work = {<<o, Rotation>>}, NEW state \in Waits,
         Wait(o, state), UNCHANGED <<vars, chat, remote, vault>>
  PROVE  /\ WorkAgrees'
         /\ \A p \in Orders \ {o} : mark'[p] = mark[p]
         /\ mark'[o] \notin Promoted
         /\ mark' \in [Orders -> SecurityState] /\ held' \in [Orders -> BOOLEAN]
<1>1. mark' = [mark EXCEPT ![o] = state]
  BY DEF Wait, Mark
<1>2. mark \in [Orders -> SecurityState] /\ held \in [Orders -> BOOLEAN]
  BY DEF CInv, StoresTypeOK
<1>3. state \in SecurityState /\ state \notin Promoted
  BY DEF SecurityState, Waits, Promoted
<1>4. held' \in [Orders -> BOOLEAN]
  BY <1>2 DEF Wait, Hold
<1>5. WorkAgrees'
  <2>1. CASE recovery
    <3>1. Goto("Release")
      BY <2>1 DEF Wait
    <3>2. RotationAgrees(o)'
      BY <3>1 DEF Goto, RotationAgrees, Prepared
    <3> QED BY <3>1, <3>2, WorkGoesOn DEF CInv, Goto, vars
  <2>2. CASE ~recovery
    BY <2>2, WorkGoesOn DEF CInv, Wait, Leave, vars
  <2> QED BY <2>1, <2>2
<1> QED BY <1>1, <1>2, <1>3, <1>4, <1>5

\* The steps that look, ask and mark.
LEMMA LooksKeepInv ==
  ASSUME CInv, NEW o \in Orders,
         \/ Authenticate(o) \/ MarkProgress(o) \/ Verify(o) \/ RecordRequest(o)
         \/ RequestChange(o) \/ Answered(o) \/ TakeLink(o) \/ FinalizeChange(o)
         \/ ReleaseRecovery(o)
  PROVE  CInv'
<1>1. WebStep(o)
  BY DEF WebStep
<1>2. UNCHANGED vars
  BY <1>1, WebLeavesRows
<1>3. IInv' /\ ProcessTypeOK'
  BY <1>1, <1>2, NextInv, WebProcess DEF CInv
<1>4. work = {<<o, Rotation>>}
  BY DEF Authenticate, MarkProgress, Verify, RecordRequest, RequestChange, Answered,
         TakeLink, FinalizeChange, ReleaseRecovery, Rotating
<1>5. UNCHANGED <<chat, remote, vault>>
  BY DEF Authenticate, MarkProgress, Verify, RecordRequest, RequestChange, Answered,
         TakeLink, FinalizeChange, ReleaseRecovery, remoteVars, marks
<1>6. RotationAgrees(o) /\ WorkAgrees /\ UNCHANGED operation
  BY <1>2, <1>4, RotationFacts DEF CInv, vars
<1>7. StoresTypeOK
  BY DEF CInv
<1>8. UNCHANGED <<rentedAccount, remote, current, pending, minted, told, receipt>>
  BY <1>2, <1>5 DEF vars, vault, chat
<1>9. ASSUME NEW t, Goto(t), t \notin Prepared \cup {"MarkPromoted", "Succeeded"}
      PROVE  WorkAgrees'
  <2>1. RotationAgrees(o)'
    BY <1>9 DEF Goto, RotationAgrees, Prepared
  <2> QED BY <1>4, <1>6, <1>9, <2>1, WorkGoesOn DEF Goto
<1>10. ASSUME NEW t, Goto(t), t \in {"Verify", "Record", "Request", "Answer", "Confirm", "Change", "CheckNew"},
              step \in Prepared
       PROVE  WorkAgrees'
  <2>1. RotationAgrees(o)'
    BY <1>6, <1>8, <1>10 DEF Goto, RotationAgrees, Prepared
  <2> QED BY <1>4, <1>6, <1>10, <2>1, WorkGoesOn DEF Goto
<1>11. /\ StoresTypeOK' /\ WorkAgrees'
       /\ \A p \in Orders \ {o} : mark'[p] = mark[p]
       /\ mark'[o] \in Promoted =>
            mark[o] \in Promoted \/ step \in {"MarkVerified", "MarkPromoted"}
  <2>0. ASSUME UNCHANGED <<mark, held>>
                 \/ (mark' \in [Orders -> SecurityState] /\ held' \in [Orders -> BOOLEAN]),
               asked' \in [Orders -> BOOLEAN], requests' \in [Orders -> Nat],
               link' \in [Orders -> {"None", "Due", "Mailed", "Used"}]
        PROVE  StoresTypeOK'
    BY <1>7, <1>8, <2>0 DEF StoresTypeOK
  <2>1. CASE Authenticate(o)
    <3>1. UNCHANGED <<asked, requests, link>>
      BY <2>1 DEF Authenticate, remoteVars
    <3>2. CASE UNCHANGED <<mark, held>> /\ (Goto("Decide") \/ Goto("Failed"))
      BY <1>7, <1>9, <2>0, <3>1, <3>2 DEF StoresTypeOK, Prepared
    <3>3. CASE Wait(o, "WAITING_LOGIN_OTP")
      BY <1>2, <1>4, <1>5, <1>7, <2>0, <3>1, <3>3, WaitGoesOn DEF StoresTypeOK, Waits
    <3> QED BY <2>1, <3>2, <3>3 DEF Authenticate
  <2>2. CASE MarkProgress(o)
    <3>1. UNCHANGED <<asked, held, requests, link>>
      BY <2>2 DEF MarkProgress, remoteVars
    <3>2. PICK state \in {"PENDING_READY", "REMOTE_VERIFIED", "SECRET_PROMOTED"} :
            mark' = [mark EXCEPT ![o] = state]
              /\ (state \in Promoted => step \in {"MarkVerified", "MarkPromoted"})
      BY <2>2 DEF MarkProgress, Mark, Rotating, Promoted
    <3>3. state \in SecurityState
      BY DEF SecurityState, Promoted
    <3>4. StoresTypeOK'
      BY <1>7, <2>0, <3>1, <3>2, <3>3 DEF StoresTypeOK
    <3>5. RotationAgrees(o)' /\ work' = work
      BY <1>6, <1>8, <2>2 DEF MarkProgress, Rotating, Goto, RotationAgrees, Prepared
    <3>6. WorkAgrees'
      BY <1>4, <1>6, <3>5, WorkGoesOn
    <3> QED BY <1>7, <3>2, <3>4, <3>6 DEF StoresTypeOK
  <2>3. CASE Verify(o)
    <3>1. UNCHANGED <<asked, requests, link>>
      BY <2>3 DEF Verify, remoteVars
    <3>2. step \in Prepared
      BY <2>3 DEF Verify, Rotating, Prepared
    <3>3. CASE UNCHANGED <<mark, held>> /\ (Goto("Record") \/ Goto("Failed"))
      BY <1>7, <1>9, <1>10, <2>0, <3>1, <3>2, <3>3 DEF StoresTypeOK, Prepared
    <3>4. CASE UNCHANGED <<mark, held>> /\ Goto("MarkVerified")
                 /\ Opens(rentedAccount[o], pending[rentedAccount[o]])
      <4>1. RotationAgrees(o)' /\ work' = work
        BY <1>6, <1>8, <3>2, <3>4 DEF Goto, RotationAgrees, Prepared, Opens
      <4> QED BY <1>4, <1>6, <1>7, <2>0, <3>1, <3>4, <4>1, WorkGoesOn DEF StoresTypeOK
    <3>5. CASE Wait(o, "WAITING_PASSWORD_CHANGE_EMAIL")
      BY <1>2, <1>4, <1>5, <1>7, <2>0, <3>1, <3>5, WaitGoesOn DEF StoresTypeOK, Waits
    <3> QED BY <2>3, <3>3, <3>4, <3>5 DEF Verify
  <2>4. CASE RecordRequest(o)
    <3>1. step \in Prepared /\ Goto("Request")
      BY <2>4 DEF RecordRequest, Rotating, Prepared
    <3>2. UNCHANGED <<mark, held, requests, link>> /\ asked' \in [Orders -> BOOLEAN]
      BY <1>7, <2>4 DEF RecordRequest, remoteVars, StoresTypeOK
    <3> QED BY <1>7, <1>10, <2>0, <3>1, <3>2 DEF StoresTypeOK
  <2>5. CASE RequestChange(o)
    <3>1. step \in Prepared /\ (Goto("Answer") \/ Goto("Failed"))
      BY <2>5 DEF RequestChange, Rotating, Prepared
    <3>2. UNCHANGED <<mark, held, asked>>
      BY <2>5 DEF RequestChange, marks
    <3>3. requests' \in [Orders -> Nat] /\ link' \in [Orders -> {"None", "Due", "Mailed", "Used"}]
      BY <1>7, <2>5 DEF RequestChange, StoresTypeOK
    <3> QED BY <1>7, <1>9, <1>10, <2>0, <3>1, <3>2, <3>3 DEF StoresTypeOK, Prepared
  <2>6. CASE Answered(o)
    <3>1. step \in Prepared /\ (Goto("Change") \/ Goto("Confirm") \/ Goto("Failed"))
      BY <2>6 DEF Answered, Rotating, Prepared
    <3>2. UNCHANGED <<mark, held, asked, requests, link>>
      BY <2>6 DEF Answered, marks, remoteVars
    <3> QED BY <1>7, <1>9, <1>10, <2>0, <3>1, <3>2 DEF StoresTypeOK, Prepared
  <2>7. CASE TakeLink(o)
    <3>1. step \in Prepared /\ UNCHANGED <<asked, requests>>
      BY <2>7 DEF TakeLink, Rotating, Prepared
    <3>2. link' \in [Orders -> {"None", "Due", "Mailed", "Used"}]
      BY <1>7, <2>7 DEF TakeLink, StoresTypeOK
    <3>3. CASE UNCHANGED <<mark, held>> /\ Goto("Change")
      BY <1>7, <1>10, <2>0, <3>1, <3>2, <3>3 DEF StoresTypeOK
    <3>4. CASE Wait(o, "WAITING_PASSWORD_CHANGE_EMAIL")
      BY <1>2, <1>4, <1>5, <1>7, <2>0, <3>1, <3>2, <3>4, WaitGoesOn DEF StoresTypeOK, Waits
    <3> QED BY <2>7, <3>3, <3>4 DEF TakeLink
  <2>8. CASE FinalizeChange(o)
    <3>1. UNCHANGED <<mark, held, asked, requests, link>>
      BY <2>8 DEF FinalizeChange, marks, remoteVars
    <3>2. CASE Goto("MarkVerified") /\ Opens(rentedAccount[o], pending[rentedAccount[o]])
      <4>1. RotationAgrees(o)' /\ work' = work
        BY <1>6, <1>8, <2>8, <3>2
        DEF FinalizeChange, Rotating, Goto, RotationAgrees, Prepared, Opens
      <4> QED BY <1>4, <1>6, <1>7, <2>0, <3>1, <4>1, WorkGoesOn DEF StoresTypeOK
    <3>3. CASE Goto("Failed")
      BY <1>7, <1>9, <2>0, <3>1, <3>3 DEF StoresTypeOK, Prepared
    <3> QED BY <2>8, <3>2, <3>3 DEF FinalizeChange
  <2>9. CASE ReleaseRecovery(o)
    <3>1. UNCHANGED <<mark, asked, requests, link>> /\ work' = {}
      BY <2>9 DEF ReleaseRecovery, remoteVars, Leave
    <3>2. held' \in [Orders -> BOOLEAN]
      BY <1>7, <2>9 DEF ReleaseRecovery, Hold, StoresTypeOK
    <3> QED BY <1>4, <1>6, <1>7, <2>0, <3>1, <3>2, WorkGoesOn DEF StoresTypeOK
  <2> QED BY <2>1, <2>2, <2>3, <2>4, <2>5, <2>6, <2>7, <2>8, <2>9
<1>12. /\ VaultAgrees' /\ ToldAgrees' /\ ToldApart'
       /\ ReturnedIsClean' /\ UseAgrees' /\ MarkAgrees'
  <2>1. UNCHANGED <<vars, chat, remote, vault>>
    BY <1>2, <1>5
  <2> HIDE DEF VaultAgrees, ToldAgrees, ToldApart, ReturnedIsClean, UseAgrees, MarkAgrees
  <2> QED BY ONLY CInv, o \in Orders, <1>4, <1>11, <2>1, VaultRests
<1> QED BY <1>3, <1>11, <1>12 DEF CInv

\* A pending password is generated only when none is left from before, and is
\* newer than all that anybody was sent.
LEMMA DecideKeepsInv ==
  ASSUME CInv, NEW o \in Orders, Decide(o)
  PROVE  CInv'
<1> DEFINE a == rentedAccount[o]
<1>1. WebStep(o)
  BY DEF WebStep
<1>2. UNCHANGED vars
  BY <1>1, WebLeavesRows
<1>3. IInv' /\ ProcessTypeOK'
  BY <1>1, <1>2, NextInv, WebProcess DEF CInv
<1>4. work = {<<o, Rotation>>} /\ step = "Decide"
  BY DEF Decide, Rotating
<1>5. RotationAgrees(o) /\ WorkAgrees /\ UNCHANGED operation /\ StoresTypeOK
  BY <1>2, <1>4, RotationFacts DEF CInv, vars
<1>6. a \in Accounts
  BY <1>4, RotationFacts
<1>7. UNCHANGED <<rentedAccount, rental, remote, current, told, receipt, link, requests,
                  mark, asked, held, chat>>
  BY <1>2 DEF Decide, vars, remoteVars, marks, chat, vault
<1>8. CASE UNCHANGED vault
  <2>1. UNCHANGED <<pending, minted>>
    BY <1>8 DEF vault
  <2>2. StoresTypeOK'
    BY <1>5, <1>7, <2>1 DEF StoresTypeOK
  <2>3. /\ step' \in {"Confirm", "Verify"} => pending[a] # 0
        /\ step' = "Succeeded" => pending[a] = 0 /\ mark[o] \in Promoted
        /\ step' \in {"Confirm", "Verify", "Succeeded", "Failed"} /\ work' = work
    <3>1. step' \in {"Confirm", "Verify", "Succeeded", "Failed"} /\ work' = work
      <4>1. ~Goto("MarkPending")
        <5>1. pending[a] = 0 /\ minted[a] \in Nat \ {0} =>
                 pending # [pending EXCEPT ![a] = minted[a] + 1]
          BY <1>5, <1>6 DEF StoresTypeOK
        <5>2. minted' = minted /\ minted[a] + 1 # minted[a]
          BY <1>5, <1>6, <2>1 DEF StoresTypeOK
        <5>3. minted' = [minted EXCEPT ![a] = @ + 1] => minted'[a] = minted[a] + 1
          BY <1>5, <1>6 DEF StoresTypeOK
        <5>4. Goto("MarkPending") => minted' = [minted EXCEPT ![a] = @ + 1]
          BY DEF Decide, Goto
        <5> QED BY <5>2, <5>3, <5>4
      <4> QED BY <4>1 DEF Decide, Goto
    <3> QED BY <3>1 DEF Decide, Goto
  <2>4. step' = "Succeeded" => told[o] < current[a]
    BY <1>4, <2>3, RotationFacts
  <2>5. RotationAgrees(o)'
    BY <1>7, <2>1, <2>3, <2>4 DEF RotationAgrees, Prepared
  <2>6. WorkAgrees'
    BY <1>4, <1>5, <2>3, <2>5, WorkGoesOn
  <2>7. /\ VaultAgrees' /\ ToldAgrees' /\ ToldApart'
        /\ ReturnedIsClean' /\ UseAgrees' /\ MarkAgrees'
    <3>1. UNCHANGED <<vars, chat, remote, vault>> /\ UNCHANGED mark
      BY <1>2, <1>7, <1>8
    <3> QED BY <1>4, <2>2, <3>1, VaultRests
  <2> QED BY <1>3, <2>2, <2>6, <2>7 DEF CInv
<1>9. CASE ~UNCHANGED vault
  <2>1. /\ pending[a] = 0
        /\ minted' = [minted EXCEPT ![a] = @ + 1]
        /\ pending' = [pending EXCEPT ![a] = minted'[a]]
        /\ Goto("MarkPending")
    BY <1>9 DEF Decide
  <2>2. /\ minted'[a] = minted[a] + 1 /\ pending'[a] = minted[a] + 1
        /\ \A b \in Accounts \ {a} : minted'[b] = minted[b] /\ pending'[b] = pending[b]
    BY <1>5, <1>6, <2>1 DEF StoresTypeOK
  <2>3. minted' \in [Accounts -> Nat \ {0}] /\ pending' \in [Accounts -> Nat]
    BY <1>5, <1>6, <2>1 DEF StoresTypeOK
  <2>4. StoresTypeOK'
    BY <1>5, <1>7, <2>3 DEF StoresTypeOK
  <2>5. /\ current[a] <= minted[a] /\ remote[a] = current[a]
        /\ current[a] \in Nat /\ minted[a] \in Nat
    BY <1>4, <1>5, <1>6, <2>1, RotationFacts DEF StoresTypeOK
  <2>6. \A p \in Orders : rentedAccount[p] = a => told[p] < pending'[a]
    <3> SUFFICES ASSUME NEW p \in Orders, rentedAccount[p] = a PROVE told[p] < pending'[a]
      OBVIOUS
    <3>1. rental[p] # "NONE"
      BY <1>6, SentinelsAssumption DEF CInv, IInv, TypeOK
    <3>2. told[p] <= current[a] /\ told[p] \in Nat
      BY <1>5, <3>1 DEF CInv, ToldAgrees, StoresTypeOK
    <3> HIDE DEF a
    <3> QED BY <2>2, <2>5, <3>2
  <2>7. RotationAgrees(o)' /\ work' = work
    <3>1. pending'[a] # 0
      BY <2>2, <2>5
    <3> QED BY <1>7, <2>1, <3>1 DEF Goto, RotationAgrees
  <2>8. WorkAgrees'
    BY <1>4, <1>5, <2>7, WorkGoesOn
  <2>9. /\ VaultAgrees' /\ ToldAgrees' /\ ToldApart'
        /\ ReturnedIsClean' /\ UseAgrees' /\ MarkAgrees'
    <3>1. /\ operation[o][Rotation] = "RUNNING"
          /\ UNCHANGED <<vars, chat>>
          /\ \A p \in Orders \ {o} : mark'[p] = mark[p]
      BY <1>2, <1>4, <1>7, RotationFacts
    <3>2. \A b \in Accounts \ {a} :
            /\ remote'[b] = remote[b] /\ current'[b] = current[b]
            /\ pending'[b] = pending[b] /\ minted'[b] = minted[b]
      BY <1>7, <2>2
    <3>3. /\ current[a] <= current'[a] /\ current'[a] <= minted'[a]
          /\ pending'[a] = minted'[a] /\ remote'[a] \in {current'[a], pending'[a]}
          /\ pending'[a] # 0
      BY <1>7, <2>2, <2>5
    <3> HIDE DEF VaultAgrees, ToldAgrees, ToldApart, ReturnedIsClean, UseAgrees, MarkAgrees
    <3> QED
      BY ONLY CInv, o \in Orders, <2>4, <2>6, <3>1, <3>2, <3>3, VaultMoves
  <2> QED BY <1>3, <2>4, <2>8, <2>9 DEF CInv
<1> QED BY <1>8, <1>9

\* The remote change and the two writes of the promotion.
LEMMA ChangesKeepInv ==
  ASSUME CInv, NEW o \in Orders,
         ChangePassword(o) \/ PromoteCurrent(o) \/ DropPending(o)
  PROVE  CInv'
<1> DEFINE a == rentedAccount[o]
<1>1. WebStep(o)
  BY DEF WebStep
<1>2. UNCHANGED vars
  BY <1>1, WebLeavesRows
<1>3. IInv' /\ ProcessTypeOK'
  BY <1>1, <1>2, NextInv, WebProcess DEF CInv
<1>4. work = {<<o, Rotation>>} /\ step \in Prepared
  BY DEF ChangePassword, PromoteCurrent, DropPending, Rotating, Prepared
<1>5. RotationAgrees(o) /\ WorkAgrees /\ UNCHANGED operation /\ StoresTypeOK
  BY <1>2, <1>4, RotationFacts DEF CInv, vars
<1>6. /\ a \in Accounts /\ pending[a] # 0 /\ pending[a] = minted[a]
      /\ current[a] <= minted[a] /\ remote[a] \in {current[a], pending[a]}
      /\ operation[o][Rotation] = "RUNNING"
      /\ current[a] \in Nat /\ minted[a] \in Nat
  BY <1>4, <1>5, RotationFacts DEF RotationAgrees, StoresTypeOK
<1>7. \A p \in Orders : rentedAccount[p] = a => told[p] < pending[a]
  BY <1>4, <1>6, RotationFacts
<1>8. /\ UNCHANGED <<rentedAccount, rental, minted, told, receipt, link, requests, mark, asked, held>>
      /\ UNCHANGED <<vars, chat>>
      /\ \A p \in Orders \ {o} : mark'[p] = mark[p]
  BY <1>2 DEF ChangePassword, PromoteCurrent, DropPending, vars, remoteVars, marks, chat, vault
<1>9. /\ StoresTypeOK' /\ RotationAgrees(o)' /\ work' = work
      /\ \A b \in Accounts \ {a} :
            /\ remote'[b] = remote[b] /\ current'[b] = current[b]
            /\ pending'[b] = pending[b] /\ minted'[b] = minted[b]
      /\ current[a] <= current'[a] /\ current'[a] <= minted'[a]
      /\ \/ pending'[a] = 0 /\ remote'[a] = current'[a] /\ current'[a] = pending[a]
         \/ pending'[a] = pending[a] /\ remote'[a] \in {current'[a], pending'[a]}
  <2>1. CASE ChangePassword(o)
    <3>1. /\ remote' \in [Accounts -> Nat \ {0}]
          /\ \A b \in Accounts \ {a} : remote'[b] = remote[b]
          /\ remote'[a] \in {remote[a], pending[a]}
      BY <1>5, <1>6, <2>1 DEF ChangePassword, StoresTypeOK
    <3>2. UNCHANGED <<current, pending>>
      BY <2>1 DEF ChangePassword, vault
    <3>3. work' = work /\ step' \in {"CheckNew", "Failed"}
      BY <2>1 DEF ChangePassword, Goto
    <3>4. RotationAgrees(o)'
      BY <1>6, <1>8, <3>2, <3>3 DEF RotationAgrees, Prepared
    <3>5. StoresTypeOK'
      BY <1>5, <1>8, <3>1, <3>2 DEF StoresTypeOK
    <3> QED BY <1>6, <1>8, <3>1, <3>2, <3>3, <3>4, <3>5
  <2>2. CASE PromoteCurrent(o)
    <3>1. remote[a] = pending[a]
      BY <1>5, <2>2 DEF PromoteCurrent, Rotating, RotationAgrees
    <3>2. /\ current' \in [Accounts -> Nat \ {0}]
          /\ \A b \in Accounts \ {a} : current'[b] = current[b]
          /\ current'[a] = pending[a]
      BY <1>5, <1>6, <2>2 DEF PromoteCurrent, StoresTypeOK
    <3>3. UNCHANGED <<remote, pending>> /\ work' = work /\ step' = "DropPending"
      BY <2>2 DEF PromoteCurrent, remoteVars, Goto
    <3>4. RotationAgrees(o)'
      BY <1>6, <1>8, <3>1, <3>2, <3>3 DEF RotationAgrees
    <3>5. StoresTypeOK'
      BY <1>5, <1>8, <3>2, <3>3 DEF StoresTypeOK
    <3> QED BY <1>6, <1>8, <3>1, <3>2, <3>3, <3>4, <3>5
  <2>3. CASE DropPending(o)
    <3>1. remote[a] = pending[a] /\ current[a] = pending[a]
      BY <1>5, <2>3 DEF DropPending, Rotating, RotationAgrees
    <3>2. /\ pending' \in [Accounts -> Nat]
          /\ \A b \in Accounts \ {a} : pending'[b] = pending[b]
          /\ pending'[a] = 0
      BY <1>5, <1>6, <2>3 DEF DropPending, StoresTypeOK
    <3>3. UNCHANGED <<remote, current>> /\ work' = work /\ step' = "MarkPromoted"
      BY <2>3 DEF DropPending, remoteVars, Goto
    <3>4. told[o] < current[a]
      BY <1>7, <3>1
    <3>5. RotationAgrees(o)'
      BY <1>8, <3>2, <3>3, <3>4 DEF RotationAgrees, Prepared
    <3>6. StoresTypeOK'
      BY <1>5, <1>8, <3>2, <3>3 DEF StoresTypeOK
    <3> QED BY <1>6, <1>8, <3>1, <3>2, <3>3, <3>5, <3>6
  <2> QED BY <2>1, <2>2, <2>3
<1>10. WorkAgrees'
  BY <1>4, <1>5, <1>9, WorkGoesOn
<1>11. /\ VaultAgrees' /\ ToldAgrees' /\ ToldApart'
       /\ ReturnedIsClean' /\ UseAgrees' /\ MarkAgrees'
  <2>1. pending'[a] # 0 => \A p \in Orders : rentedAccount[p] = a => told[p] < pending'[a]
    BY <1>7, <1>9
  <2>2. mark'[o] \in Promoted /\ pending'[a] = 0 => told[o] < current'[a]
    BY <1>6, <1>7, <1>9
  <2>3. \/ pending'[a] = 0 /\ remote'[a] = current'[a]
        \/ pending'[a] = minted'[a] /\ remote'[a] \in {current'[a], pending'[a]}
    BY <1>6, <1>8, <1>9
  <2> HIDE DEF VaultAgrees, ToldAgrees, ToldApart, ReturnedIsClean, UseAgrees, MarkAgrees
  <2> QED
    BY ONLY CInv, o \in Orders, <1>6, <1>8, <1>9, <2>1, <2>2, <2>3, VaultMoves
<1> QED BY <1>3, <1>9, <1>10, <1>11 DEF CInv

\* The process takes work up, or has none.
LEMMA WorkBegins ==
  ASSUME NEW o \in Orders, NEW k \in LifecycleKind,
         work' = {} \/ (work' = {<<o, k>>} /\ operation'[o][k] = "RUNNING"),
         work' # {} => step' \in {"Authenticate", "AskReceipt"}
  PROVE  WorkAgrees'
<1>1. ASSUME NEW p \in Orders, NEW j \in LifecycleKind, work' = {<<p, j>>}
      PROVE  operation'[p][j] = "RUNNING"
  <2>1. work' = {<<o, k>>}
    BY <1>1
  <2>2. <<p, j>> \in {<<o, k>>}
    BY <1>1, <2>1
  <2> QED BY <2>1, <2>2
<1>2. ASSUME NEW p \in Orders, work' = {<<p, Rotation>>} PROVE RotationAgrees(p)'
  <2>1. step' \in {"Authenticate", "AskReceipt"}
    BY <1>2
  <2> QED BY <2>1 DEF RotationAgrees, Prepared
<1>3. ASSUME NEW p \in Orders, Sending(p, "Succeeded")' PROVE FALSE
  BY <1>3 DEF Sending
<1> QED BY <1>1, <1>2, <1>3 DEF WorkAgrees

\* A process that only takes up or leaves work disturbs nothing else.
LEMMA RestKeepsInv ==
  ASSUME CInv, UNCHANGED <<vars, chat, remote, vault, mark>>,
         StoresTypeOK', ProcessTypeOK', WorkAgrees'
  PROVE  CInv'
<1>1. IInv'
  BY NextInv DEF CInv
<1>2. /\ VaultAgrees' /\ ToldAgrees' /\ ToldApart'
      /\ ReturnedIsClean' /\ UseAgrees' /\ MarkAgrees'
  BY DEF CInv, VaultAgrees, ToldAgrees, ToldApart, ReturnedIsClean, UseAgrees,
         MarkAgrees, Undelivered, vars, chat, vault
<1> QED BY <1>1, <1>2 DEF CInv

\* A wait that is taken up again, a mail, a crash and a start.
LEMMA PausesKeepInv ==
  ASSUME CInv, NEW o \in Orders,
         ResumeRotation(o) \/ MailArrives(o) \/ Kill \/ Abandon \/ Start
  PROVE  CInv'
<1>1. UNCHANGED vars
  BY WebLeavesRows DEF WebStep
<1>2. UNCHANGED <<chat, remote, vault, mark, requests, asked>>
  BY DEF ResumeRotation, MailArrives, Kill, Abandon, Start, remoteVars, marks
<1>3. StoresTypeOK'
  <2>1. held' \in [Orders -> BOOLEAN]
    BY DEF ResumeRotation, MailArrives, Kill, Abandon, Start, marks, Hold, CInv, StoresTypeOK
  <2>2. link' \in [Orders -> {"None", "Due", "Mailed", "Used"}]
    BY DEF ResumeRotation, MailArrives, Kill, Abandon, Start, remoteVars, CInv, StoresTypeOK
  <2> QED BY <1>2, <2>1, <2>2 DEF CInv, StoresTypeOK, chat, vault
<1>4. CASE ResumeRotation(o)
  <2>1. Begin(o, Rotation, "Authenticate", FALSE) /\ up # "Down"
    BY <1>4 DEF ResumeRotation
  <2>2. ProcessTypeOK'
    BY <2>1, ProcessMoves DEF CInv
  <2>3. operation'[o][Rotation] = "RUNNING"
    BY <1>1, <1>4 DEF ResumeRotation, vars
  <2>4. WorkAgrees'
    BY <2>1, <2>3, WorkBegins, CustodyKinds DEF Begin
  <2> QED BY <1>1, <1>2, <1>3, <2>2, <2>4, RestKeepsInv
<1>5. CASE MailArrives(o)
  <2>1. UNCHANGED process
    BY <1>5 DEF MailArrives
  <2>2. ProcessTypeOK'
    BY <2>1, ProcessMoves DEF CInv
  <2>3. WorkAgrees'
    BY <1>1, <1>2, <2>1
    DEF CInv, WorkAgrees, RotationAgrees, Sending, process, vars, chat, vault
  <2> QED BY <1>1, <1>2, <1>3, <2>2, <2>3, RestKeepsInv
<1>6. CASE Kill \/ Abandon
  <2>1. work' = {} /\ step' = "None" /\ recovery' = FALSE
    BY <1>6 DEF Kill, Abandon, Stop, Leave
  <2>2. ProcessTypeOK'
    BY <1>6, <2>1 DEF Kill, Abandon, Leave, CInv, ProcessTypeOK
  <2>3. WorkAgrees'
    BY <2>1 DEF WorkAgrees, Sending
  <2> QED BY <1>1, <1>2, <1>3, <2>2, <2>3, RestKeepsInv
<1>7. CASE Start
  <2>1. ProcessTypeOK'
    BY <1>7 DEF Start, CInv, ProcessTypeOK
  <2>2. WorkAgrees'
    BY <1>1, <1>2, <1>7
    DEF Start, CInv, WorkAgrees, RotationAgrees, Sending, vars, chat, vault
  <2> QED BY <1>1, <1>2, <1>3, <2>1, <2>2, RestKeepsInv
<1> QED BY <1>4, <1>5, <1>6, <1>7

\* A rental that is to be delivered has the current password prepared for it
\* alone.
LEMMA DeliversAlone ==
  ASSUME CInv, NEW o \in Orders, operation[o]["SEND_CREDENTIALS"] \in Unfinished
  PROVE  /\ rentedAccount[o] \in Accounts
         /\ rental[o] \in {"RESERVED", "MANUAL_REVIEW"}
         /\ account[rentedAccount[o]] \notin Returned
         /\ operation[o][Rotation] \notin InFlight
         /\ pending[rentedAccount[o]] = 0
         /\ receipt[o] = "Verified" => told[o] = current[rentedAccount[o]]
         /\ \A p \in Orders \ {o} : rentedAccount[p] = rentedAccount[o] =>
              rental[p] = "FINISHED" /\ told[p] < current[rentedAccount[o]]
<1>1. "SEND_CREDENTIALS" \in LifecycleKind /\ Rotation \in LifecycleKind
  BY CustodyKinds
<1>2. IInv /\ RentalAgrees(o)
  BY DEF CInv, IInv, LifecycleAgrees
<1>3. /\ rentedAccount[o] \in Accounts /\ rental[o] \in UnsettledRental
      /\ \A j \in LifecycleKind : operation[o][j] \in Unfinished => j = "SEND_CREDENTIALS"
      /\ \A p \in Orders : p # o /\ rentedAccount[p] = rentedAccount[o] =>
           rental[p] = "FINISHED"
  BY <1>1, <1>2, UnfinishedAlone
<1>4. rental[o] \in {"RESERVED", "MANUAL_REVIEW"}
  BY <1>2, <1>3 DEF RentalAgrees, OperationsAt, Unfinished, Delivered, Revoked, Rotated,
                    UnsettledRental, OpenRental, LifecycleKind
<1>5. account[rentedAccount[o]] \notin Returned
  BY <1>2, <1>4 DEF RentalAgrees, Returned
<1>6. operation[o][Rotation] \notin InFlight
  BY <1>1, <1>3 DEF Rotation, InFlight, Unfinished
<1>7. /\ pending[rentedAccount[o]] = 0
      /\ receipt[o] = "Verified" => told[o] = current[rentedAccount[o]]
  BY DEF CInv, UseAgrees, Undelivered
<1>8. \A p \in Orders \ {o} : rentedAccount[p] = rentedAccount[o] =>
        told[p] < current[rentedAccount[o]]
  BY <1>3 DEF CInv, ToldApart, UnsettledRental, OpenRental
<1> QED BY <1>3, <1>4, <1>5, <1>6, <1>7, <1>8

\* The process goes on with a message.
LEMMA SendGoesOn ==
  ASSUME WorkAgrees, NEW o \in Orders, work = {<<o, "SEND_CREDENTIALS">>}, work' = work,
         UNCHANGED operation, step' = "Succeeded" => receipt'[o] = "Verified"
  PROVE  WorkAgrees'
<1>1. ASSUME NEW p \in Orders, NEW k \in LifecycleKind, work' = {<<p, k>>}
      PROVE  operation'[p][k] = "RUNNING"
  BY <1>1 DEF WorkAgrees
<1>2. ASSUME NEW p \in Orders, work' = {<<p, Rotation>>} PROVE FALSE
  <2>1. work = {<<p, Rotation>>}
    BY <1>2
  <2>2. Rotation = "SEND_CREDENTIALS"
    BY <2>1, OneWork
  <2> QED BY <2>2 DEF Rotation
<1>3. ASSUME NEW p \in Orders, Sending(p, "Succeeded")' PROVE receipt'[p] = "Verified"
  <2>1. work = {<<p, "SEND_CREDENTIALS">>} /\ step' = "Succeeded"
    BY <1>3 DEF Sending
  <2>2. p = o
    BY <2>1, OneWork
  <2> QED BY <2>1, <2>2
<1> QED BY <1>1, <1>2, <1>3 DEF WorkAgrees

\* Whether the message arrives or not, its buyer has the current password or
\* the one he was sent before, and alone.
LEMMA MessageKeepsInv ==
  ASSUME CInv, NEW o \in Orders, AskReceipt(o) \/ SendCredentials(o)
  PROVE  CInv'
<1> DEFINE a == rentedAccount[o]
<1>1. UNCHANGED vars
  BY WebLeavesRows
<1>2. UNCHANGED <<remote, vault, mark, requests, asked, held, link>>
  BY DEF AskReceipt, SendCredentials, remoteVars, marks
<1>3. work = {<<o, "SEND_CREDENTIALS">>} /\ WorkAgrees
  BY DEF AskReceipt, SendCredentials, Sending, CInv
<1>4. operation[o]["SEND_CREDENTIALS"] \in Unfinished
  BY <1>3, CustodyKinds DEF WorkAgrees, Unfinished
<1>5. /\ a \in Accounts
      /\ rental[o] \in {"RESERVED", "MANUAL_REVIEW"}
      /\ account[a] \notin Returned
      /\ operation[o][Rotation] \notin InFlight
      /\ pending[a] = 0
      /\ receipt[o] = "Verified" => told[o] = current[a]
      /\ \A p \in Orders \ {o} : rentedAccount[p] = a =>
           rental[p] = "FINISHED" /\ told[p] < current[a]
  BY <1>4, DeliversAlone
<1>6. StoresTypeOK /\ current[a] \in Nat \ {0}
  BY <1>5 DEF CInv, StoresTypeOK
<1>7. /\ told' \in [Orders -> Nat]
      /\ receipt' \in [Orders -> {"None", "Verified", "Failed", "Ambiguous"}]
      /\ \A p \in Orders \ {o} : told'[p] = told[p] /\ receipt'[p] = receipt[p]
      /\ told'[o] \in {told[o], current[a]}
      /\ receipt'[o] = "Verified" => told'[o] = current[a]
  <2>1. CASE UNCHANGED chat
    BY <1>5, <1>6, <2>1 DEF chat, StoresTypeOK
  <2>2. CASE ~UNCHANGED chat
    <3>1. \/ /\ told' = [told EXCEPT ![o] = current[a]]
             /\ \E answer \in {"None", "Verified", "Ambiguous"} :
                  receipt' = [receipt EXCEPT ![o] = answer]
          \/ receipt' = [receipt EXCEPT ![o] = "Failed"] /\ told' = told
      BY <2>2 DEF AskReceipt, SendCredentials
    <3> HIDE DEF a
    <3> QED BY <1>6, <3>1 DEF StoresTypeOK
  <2> QED BY <2>1, <2>2
<1>8. StoresTypeOK'
  BY <1>2, <1>6, <1>7 DEF StoresTypeOK, vault
<1>9. /\ work' = work
      /\ step' = "Succeeded" => receipt'[o] = "Verified"
      /\ ProcessTypeOK'
  <2>1. PICK s \in {"Succeeded", "Failed", "Send"} :
          Goto(s) /\ (s = "Succeeded" => receipt'[o] = "Verified")
    <3>1. CASE AskReceipt(o)
      BY <3>1 DEF AskReceipt, chat
    <3>2. CASE SendCredentials(o)
      BY <1>6, <3>2 DEF SendCredentials, StoresTypeOK
    <3> QED BY <3>1, <3>2
  <2>2. ProcessTypeOK'
    BY <1>3, <2>1, ProcessMoves DEF CInv, SendStep
  <2> QED BY <2>1, <2>2 DEF Goto
<1>10. WorkAgrees'
  BY <1>1, <1>3, <1>9, SendGoesOn DEF vars
<1>11. /\ UNCHANGED <<account, rental, rentedAccount, operation, current, pending,
                      minted, remote, mark>>
       /\ \A p \in Orders : Undelivered(p)' <=> Undelivered(p)
  BY <1>1, <1>2 DEF vars, vault, Undelivered
<1>12. VaultAgrees'
  BY <1>11 DEF CInv, VaultAgrees
<1> HIDE DEF a
<1>13. rentedAccount[o] = a
  BY DEF a
<1>14. told \in [Orders -> Nat] /\ current \in [Accounts -> Nat]
  BY <1>6 DEF StoresTypeOK
<1>15. ToldAgrees'
  <2> SUFFICES ASSUME NEW p \in Orders
               PROVE  LET b == rentedAccount[p]
                      IN  /\ rental[p] = "NONE" => told'[p] = 0 /\ receipt'[p] = "None"
                          /\ rental[p] # "NONE" => /\ told'[p] <= current[b]
                                                   /\ pending[b] # 0 => told'[p] < pending[b]
    BY <1>11 DEF ToldAgrees
  <2>1. CASE p = o
    BY <1>5, <1>6, <1>7, <1>13, <2>1 DEF CInv, ToldAgrees
  <2>2. CASE p # o
    BY <1>7, <2>2 DEF CInv, ToldAgrees
  <2> QED BY <2>1, <2>2
<1>16. ToldApart'
  <2> SUFFICES ASSUME NEW p \in Orders, NEW q \in Orders,
                      rental[p] # "NONE", q # p, rentedAccount[q] = rentedAccount[p]
               PROVE  /\ rental[p] \in UnsettledRental => told'[q] < current[rentedAccount[p]]
                      /\ told'[p] # 0 => told'[p] # told'[q]
    BY <1>11 DEF ToldApart
  <2>1. /\ rental[p] \in UnsettledRental => told[q] < current[rentedAccount[p]]
        /\ told[p] # 0 => told[p] # told[q]
    BY DEF CInv, ToldApart
  <2>2. CASE p = o
    BY <1>5, <1>6, <1>7, <1>13, <1>14, <2>1, <2>2
  <2>3. CASE q = o
    <3>1. rental[p] \notin UnsettledRental /\ told[p] < current[a]
      BY <1>5, <1>13, <2>3 DEF UnsettledRental, OpenRental
    <3> QED BY <1>6, <1>7, <1>13, <1>14, <2>1, <2>3, <3>1
  <2>4. CASE p # o /\ q # o
    BY <1>7, <2>1, <2>4
  <2> QED BY <2>2, <2>3, <2>4
<1>17. ReturnedIsClean'
  <2> SUFFICES ASSUME NEW b \in Accounts, account[b] \in Returned
               PROVE  /\ pending[b] = 0
                      /\ \A p \in Orders : rentedAccount[p] = b => told'[p] < current[b]
    BY <1>11 DEF ReturnedIsClean
  <2>1. b # a
    BY <1>5
  <2> QED BY <1>7, <1>13, <2>1 DEF CInv, ReturnedIsClean
<1>18. UseAgrees'
  <2> SUFFICES ASSUME NEW p \in Orders
               PROVE  LET b == rentedAccount[p]
                      IN  /\ Undelivered(p) =>
                               /\ pending[b] = 0
                               /\ receipt'[p] = "Verified" => told'[p] = current[b]
                          /\ rental[p] \in InUse => pending[b] = 0 /\ told'[p] = current[b]
    BY <1>11 DEF UseAgrees
  <2>1. CASE p = o
    BY <1>5, <1>7, <1>13, <2>1 DEF InUse
  <2>2. CASE p # o
    BY <1>7, <2>2 DEF CInv, UseAgrees
  <2> QED BY <2>1, <2>2
<1>19. MarkAgrees'
  <2> SUFFICES ASSUME NEW p \in Orders
               PROVE  LET b == rentedAccount[p]
                      IN  /\ operation[p][Rotation] \in {"NONE", "PENDING"} => mark[p] = "INIT"
                          /\ /\ operation[p][Rotation] \in InFlight
                             /\ mark[p] \in Promoted /\ pending[b] = 0
                             => told'[p] < current[b]
    BY <1>11 DEF MarkAgrees
  <2>1. CASE p = o
    BY <1>5, <2>1 DEF CInv, MarkAgrees
  <2>2. CASE p # o
    BY <1>7, <2>2 DEF CInv, MarkAgrees
  <2> QED BY <2>1, <2>2
<1>20. IInv'
  BY <1>1, NextInv DEF CInv
<1> QED
  BY <1>8, <1>9, <1>10, <1>12, <1>15, <1>16, <1>17, <1>18, <1>19, <1>20 DEF CInv

-----------------------------------------------------------------------------
\* What the rows do while the stores rest.

\* An account comes back, and a rental is delivered, only with the passwords
\* as they must then be; nothing is to be delivered again, and no rotation
\* that is over goes on.
Harmless ==
  /\ UNCHANGED rentedAccount
  /\ \A a \in Accounts : account'[a] \in Returned =>
       \/ account[a] \in Returned
       \/ /\ pending[a] = 0
          /\ \A p \in Orders : rentedAccount[p] = a => told[p] < current[a]
  /\ \A o \in Orders :
       /\ rental'[o] = "NONE" <=> rental[o] = "NONE"
       /\ rental'[o] \in UnsettledRental => rental[o] \in UnsettledRental
       /\ rental'[o] \in InUse =>
            \/ rental[o] \in InUse
            \/ pending[rentedAccount[o]] = 0 /\ told[o] = current[rentedAccount[o]]
       /\ Undelivered(o)' => Undelivered(o)
       /\ operation'[o][Rotation] \in {"NONE", "PENDING"} =>
            operation[o][Rotation] \in {"NONE", "PENDING"}
       /\ operation'[o][Rotation] \in InFlight =>
            operation[o][Rotation] \in InFlight \cup {"NONE", "PENDING"}

\* Such a step disturbs no part of the invariant.
LEMMA HarmlessKeeps ==
  ASSUME CInv, Harmless, UNCHANGED <<remote, vault, mark, chat>>
  PROVE  /\ VaultAgrees' /\ ToldAgrees' /\ ToldApart'
         /\ ReturnedIsClean' /\ UseAgrees' /\ MarkAgrees'
<1>1. UNCHANGED <<rentedAccount, remote, current, pending, minted, mark, told, receipt>>
  BY DEF Harmless, vault, chat
<1>2. VaultAgrees'
  BY <1>1 DEF CInv, VaultAgrees
<1>3. ToldAgrees'
  BY <1>1 DEF CInv, ToldAgrees, Harmless
<1>4. ToldApart'
  BY <1>1 DEF CInv, ToldApart, Harmless
<1>5. ReturnedIsClean'
  BY <1>1 DEF CInv, ReturnedIsClean, Harmless
<1>6. UseAgrees'
  <2> HIDE DEF Undelivered
  <2> QED BY <1>1 DEF CInv, UseAgrees, Harmless
<1>7. MarkAgrees'
  <2> SUFFICES ASSUME NEW o \in Orders
               PROVE  LET a == rentedAccount[o]
                      IN  /\ operation'[o][Rotation] \in {"NONE", "PENDING"} => mark[o] = "INIT"
                          /\ /\ operation'[o][Rotation] \in InFlight
                             /\ mark[o] \in Promoted /\ pending[a] = 0
                             => told[o] < current[a]
    BY <1>1 DEF MarkAgrees
  <2>1. "INIT" \notin Promoted
    BY DEF Promoted
  <2> QED BY <2>1 DEF CInv, MarkAgrees, Harmless
<1> QED BY <1>2, <1>3, <1>4, <1>5, <1>6, <1>7

\* Every transaction but the reservation and the two completions that a
\* password depends on.
Quiet ==
  \/ \E o \in Orders : BlockOrder(o) \/ PrepareRevoke(o) \/ SecurityEvent(o)
  \/ \E o \in Orders, kind \in LifecycleKind :
       \/ ClaimOperation(o, kind)
       \/ FailOperation(o, kind)
       \/ LeaseLapses(o, kind)
       \/ ClaimStartupRecovery(o, kind)
  \/ \E o \in Orders :
       CompleteDisableLots(o) \/ CompleteRevokeSessions(o) \/ CompleteEnableLots(o)
  \/ \E due \in SUBSET Orders : ExpireDue(due)
  \/ \E e \in OtpRequests, o \in Orders : SeeActiveRental(e, o)
  \/ \E e \in OtpRequests : OtpStep(e)
  \/ RecoverExpiredLeases
  \/ Reconcile

\* What is asked of the operations alone.
QuietOperations ==
  \A o \in Orders :
    /\ Undelivered(o)' => Undelivered(o)
    /\ operation'[o][Rotation] \in {"NONE", "PENDING"} =>
         operation[o][Rotation] \in {"NONE", "PENDING"}
    /\ operation'[o][Rotation] \in InFlight =>
         operation[o][Rotation] \in InFlight \cup {"NONE", "PENDING"}

\* A step that keeps the rows of accounts and rentals.
LEMMA OperationsOnly ==
  ASSUME UNCHANGED <<account, rental, rentedAccount>>, QuietOperations
  PROVE  Harmless
  BY DEF Harmless, QuietOperations

\* A step that moves one rental, or some, along the tables.
LEMMA EdgesOnly ==
  ASSUME UNCHANGED rentedAccount, QuietOperations,
         \A a \in Accounts : account'[a] \in Returned => account[a] \in Returned,
         \A o \in Orders :
           \/ rental'[o] = rental[o]
           \/ /\ <<rental[o], rental'[o]>> \in RentalEdges
              /\ <<rental[o], rental'[o]>> # <<"RESERVED", "ACTIVE">>
  PROVE  Harmless
<1>1. \A o \in Orders :
        /\ rental'[o] = "NONE" <=> rental[o] = "NONE"
        /\ rental'[o] \in UnsettledRental => rental[o] \in UnsettledRental
        /\ rental'[o] \in InUse => rental[o] \in InUse
  BY DEF RentalEdges, UnsettledRental, OpenRental, InUse
<1> QED BY <1>1 DEF Harmless, QuietOperations

\* A step that moves one rental and its account.
LEMMA OneFollows ==
  ASSUME NEW b, NEW s, s \notin Returned, account \in [Accounts -> AccountStatus],
         account' = [account EXCEPT ![b] = s],
         NEW o \in Orders, NEW t, t # "ACTIVE",
         rental \in [Orders -> RentalStatus \cup {"NONE"}],
         rental' = [rental EXCEPT ![o] = t],
         rental[o] = t \/ <<rental[o], t>> \in RentalEdges,
         UNCHANGED rentedAccount, QuietOperations
  PROVE  Harmless
<1>1. \A a \in Accounts : account'[a] \in Returned => account[a] \in Returned
  OBVIOUS
<1>2. ASSUME NEW p \in Orders
      PROVE  \/ rental'[p] = rental[p]
             \/ /\ <<rental[p], rental'[p]>> \in RentalEdges
                /\ <<rental[p], rental'[p]>> # <<"RESERVED", "ACTIVE">>
  <2>1. CASE p = o
    <3>1. rental'[p] = t
      BY <2>1
    <3> QED BY <2>1, <3>1
  <2>2. CASE p # o
    BY <2>2
  <2> QED BY <2>1, <2>2
<1> QED BY <1>1, <1>2, EdgesOnly

\* All of these transactions are harmless.
LEMMA QuietIsHarmless ==
  ASSUME IInv, Quiet
  PROVE  Harmless
<1> USE DEF Undelivered, Unfinished, InFlight, LifecycleKind, Rotation
<1>0. /\ operation \in [Orders -> [LifecycleKind -> OperationStatus]]
      /\ account \in [Accounts -> AccountStatus]
      /\ rental \in [Orders -> RentalStatus \cup {"NONE"}]
  BY DEF IInv, TypeOK
<1>1. ASSUME NEW o \in Orders, BlockOrder(o) PROVE Harmless
  BY <1>1, OperationsOnly DEF BlockOrder, QuietOperations
<1>2. ASSUME NEW o \in Orders, PrepareRevoke(o) PROVE Harmless
  <2>1. QuietOperations
    BY <1>2 DEF PrepareRevoke, QuietOperations
  <2>2. /\ account' = [account EXCEPT ![rentedAccount[o]] = "REVOKING"]
        /\ rental' = [rental EXCEPT ![o] = "REVOKING"]
        /\ rental[o] = "REVOKING" \/ <<rental[o], "REVOKING">> \in RentalEdges
        /\ UNCHANGED rentedAccount
    BY <1>2 DEF PrepareRevoke, MayMoveRental
  <2> QED BY <1>0, <2>1, <2>2, OneFollows DEF Returned
<1>3. ASSUME NEW o \in Orders, SecurityEvent(o) PROVE Harmless
  <2>1. QuietOperations
    BY <1>0, <1>3 DEF SecurityEvent, SetOperation, QuietOperations
  <2>2. /\ account' = [account EXCEPT ![rentedAccount[o]] = "SECURITY_ALERT"]
        /\ rental' = [rental EXCEPT ![o] = "SECURITY_TERMINATED"]
        /\ <<rental[o], "SECURITY_TERMINATED">> \in RentalEdges
        /\ UNCHANGED rentedAccount
    BY <1>3 DEF SecurityEvent, MoveAccount, MoveRental, MayMoveRental
  <2> QED BY <1>0, <2>1, <2>2, OneFollows DEF Returned
<1>4. ASSUME NEW o \in Orders, NEW kind \in LifecycleKind,
             ClaimOperation(o, kind) \/ LeaseLapses(o, kind) \/ ClaimStartupRecovery(o, kind)
      PROVE  Harmless
  <2>1. QuietOperations
    BY <1>0, <1>4
    DEF ClaimOperation, LeaseLapses, ClaimStartupRecovery, SetOperation, QuietOperations
  <2> QED
    BY <1>4, <2>1, OperationsOnly DEF ClaimOperation, LeaseLapses, ClaimStartupRecovery
<1>5. ASSUME NEW o \in Orders, ToManualReview(o), QuietOperations, UNCHANGED rentedAccount
      PROVE  Harmless
  <2>1. /\ account' = [account EXCEPT ![rentedAccount[o]] = "MANUAL_REVIEW"]
        /\ rental' = [rental EXCEPT ![o] = "MANUAL_REVIEW"]
        /\ <<rental[o], "MANUAL_REVIEW">> \in RentalEdges
    BY <1>5 DEF ToManualReview, MoveAccount, MoveRental, MayMoveRental
  <2> QED BY <1>0, <1>5, <2>1, OneFollows DEF Returned
<1>6. ASSUME NEW o \in Orders, NEW kind \in LifecycleKind, FailOperation(o, kind)
      PROVE  Harmless
  <2>1. QuietOperations
    BY <1>0, <1>6 DEF FailOperation, InFlightOperation, SetOperation, QuietOperations
  <2> QED BY <1>5, <1>6, <2>1 DEF FailOperation
<1>7. ASSUME NEW o \in Orders, CompleteDisableLots(o) PROVE Harmless
  <2>1. QuietOperations
    BY <1>0, <1>7
    DEF CompleteDisableLots, InFlightOperation, FinishAndStart, QuietOperations
  <2> QED BY <1>7, <2>1, OperationsOnly DEF CompleteDisableLots
<1>8. ASSUME NEW o \in Orders, CompleteRevokeSessions(o) PROVE Harmless
  <2>1. QuietOperations
    BY <1>0, <1>8
    DEF CompleteRevokeSessions, InFlightOperation, FinishAndStart, QuietOperations
  <2>2. /\ account' = [account EXCEPT ![rentedAccount[o]] = "ROTATING_PASSWORD"]
        /\ rental' = [rental EXCEPT ![o] = "PASSWORD_ROTATION"]
        /\ <<rental[o], "PASSWORD_ROTATION">> \in RentalEdges
        /\ UNCHANGED rentedAccount
    BY <1>8 DEF CompleteRevokeSessions, MoveAccount, MoveRental, MayMoveRental
  <2> QED BY <1>0, <2>1, <2>2, OneFollows DEF Returned
<1>9. ASSUME NEW o \in Orders, CompleteEnableLots(o) PROVE Harmless
  <2>1. QuietOperations
    BY <1>0, <1>9
    DEF CompleteEnableLots, InFlightOperation, SetOperation, QuietOperations
  <2>2. RentalAgrees(o) /\ rental[o] = "PASSWORD_ROTATION"
    BY <1>9 DEF CompleteEnableLots, MoveRental, MayMoveRental, RentalEdges, IInv, LifecycleAgrees
  <2>3. account[rentedAccount[o]] = "AVAILABLE_OFFLINE"
    BY <1>9, <2>2 DEF CompleteEnableLots, InFlightOperation, RentalAgrees, OperationsAt, Revoked, Delivered
  <2>4. /\ account' = [account EXCEPT ![rentedAccount[o]] = "AVAILABLE"]
        /\ rental' = [rental EXCEPT ![o] = "FINISHED"]
        /\ <<rental[o], "FINISHED">> \in RentalEdges
        /\ UNCHANGED rentedAccount
    BY <1>9 DEF CompleteEnableLots, MoveAccount, MoveRental, MayMoveRental
  <2>5. \A a \in Accounts : account'[a] \in Returned => account[a] \in Returned
    <3>1. "AVAILABLE_OFFLINE" \in Returned
      BY DEF Returned
    <3> QED BY <1>0, <2>3, <2>4, <3>1
  <2>6. ASSUME NEW p \in Orders
        PROVE  \/ rental'[p] = rental[p]
               \/ /\ <<rental[p], rental'[p]>> \in RentalEdges
                  /\ <<rental[p], rental'[p]>> # <<"RESERVED", "ACTIVE">>
    <3>1. p = o => rental'[p] = "FINISHED"
      BY <1>0, <2>4
    <3>2. p # o => rental'[p] = rental[p]
      BY <1>0, <2>4
    <3> QED BY <2>4, <3>1, <3>2
  <2> QED BY <2>1, <2>4, <2>5, <2>6, EdgesOnly
<1>10. ASSUME NEW due \in SUBSET Orders, ExpireDue(due) PROVE Harmless
  <2>1. QuietOperations
    BY <1>0, <1>10 DEF ExpireDue, QuietOperations
  <2>2. \A a \in Accounts : account'[a] \in Returned => account[a] \in Returned
    BY <1>10 DEF ExpireDue, Returned
  <2>3. UNCHANGED rentedAccount
    BY <1>10 DEF ExpireDue
  <2>4. ASSUME NEW p \in Orders
        PROVE  \/ rental'[p] = rental[p]
               \/ /\ <<rental[p], rental'[p]>> \in RentalEdges
                  /\ <<rental[p], rental'[p]>> # <<"RESERVED", "ACTIVE">>
    <3>1. rental'[p] = IF p \in due THEN "EXPIRING" ELSE rental[p]
      BY <1>10 DEF ExpireDue
    <3>2. p \in due => rental[p] = "ACTIVE"
      BY <1>10 DEF ExpireDue
    <3> QED BY <3>1, <3>2 DEF RentalEdges
  <2> QED BY <2>1, <2>2, <2>3, <2>4, EdgesOnly
<1>11. ASSUME NEW e \in OtpRequests, NEW o \in Orders, SeeActiveRental(e, o)
       PROVE  Harmless
  BY <1>11, OperationsOnly DEF SeeActiveRental, QuietOperations
<1>12. ASSUME NEW e \in OtpRequests, OtpStep(e) PROVE Harmless
  <2>1. UNCHANGED <<operation, rentedAccount>>
    BY <1>12 DEF OtpStep, CreateSendOtp, ForgetSeen, ClaimOtp,
       WaitForBuyerOtp, CompleteOtp, OtpLeaseLapses, FailOtp, MoveOtp
  <2>2. QuietOperations
    BY <2>1 DEF QuietOperations
  <2>3. CASE FailOtp(e)
    <3>1. otpRental[e] \in Orders
      BY <2>3 DEF FailOtp, IInv, TypeOK
    <3> QED BY <1>5, <2>1, <2>2, <2>3, <3>1 DEF FailOtp
  <2>4. CASE ~FailOtp(e)
    BY <1>12, <2>2, <2>4, OperationsOnly DEF OtpStep, CreateSendOtp, ForgetSeen, ClaimOtp,
       WaitForBuyerOtp, CompleteOtp, OtpLeaseLapses, MoveOtp
  <2> QED BY <2>3, <2>4
<1>13. CASE RecoverExpiredLeases
  <2>1. QuietOperations
    <3>1. \A o \in Orders, k \in LifecycleKind :
            operation'[o][k] = IF operation[o][k] = "LAPSED" THEN "FAILED"
                               ELSE operation[o][k]
      BY <1>13 DEF RecoverExpiredLeases
    <3> QED BY <3>1 DEF QuietOperations
  <2>2. /\ \A a \in Accounts : account'[a] \in Returned => account[a] \in Returned
        /\ UNCHANGED rentedAccount
    BY <1>13 DEF RecoverExpiredLeases, Returned
  <2>3. \A p \in Orders :
           \/ rental'[p] = rental[p]
           \/ <<rental[p], "MANUAL_REVIEW">> \in RentalEdges /\ rental'[p] = "MANUAL_REVIEW"
    BY <1>13 DEF RecoverExpiredLeases, Quarantinable, MayMoveRental
  <2>4. \A p \in Orders :
           \/ rental'[p] = rental[p]
           \/ /\ <<rental[p], rental'[p]>> \in RentalEdges
              /\ <<rental[p], rental'[p]>> # <<"RESERVED", "ACTIVE">>
    BY <2>3
  <2> QED BY <2>1, <2>2, <2>4, EdgesOnly
<1>14. CASE Reconcile
  <2>1. UNCHANGED account
    BY <1>0, <1>14, NothingOrphaned DEF Reconcile
  <2> QED BY <1>14, <2>1, OperationsOnly DEF Reconcile, QuietOperations
<1> QED
  BY <1>1, <1>2, <1>3, <1>4, <1>6, <1>7, <1>8, <1>9, <1>10, <1>11, <1>12, <1>13, <1>14
  DEF Quiet

\* The two completions are harmless where the process takes them.
LEMMA RotatedIsHarmless ==
  ASSUME CInv, NEW o \in Orders, Rotating(o, "Succeeded"), CompleteRotatePassword(o)
  PROVE  Harmless
<1> DEFINE a == rentedAccount[o]
<1>1. /\ a \in Accounts /\ pending[a] = 0 /\ told[o] < current[a]
      /\ operation[o][Rotation] \in Unfinished
  BY RotationFacts DEF Rotating, RotationAgrees, Unfinished
<1>2. rental[o] \in UnsettledRental
  BY <1>1, CustodyKinds, UnfinishedAlone DEF CInv
<1>3. \A p \in Orders : rentedAccount[p] = a => told[p] < current[a]
  BY <1>1, <1>2 DEF CInv, ToldApart, UnsettledRental, OpenRental
<1>4. \A b \in Accounts : account'[b] \in Returned =>
        account[b] \in Returned \/ b = a
  BY DEF CompleteRotatePassword, MoveAccount, CInv, IInv, TypeOK
<1>5. UNCHANGED <<rentedAccount, rental>>
  BY DEF CompleteRotatePassword
<1>6. QuietOperations
  BY DEF CompleteRotatePassword, FinishAndStart, InFlightOperation, QuietOperations, Undelivered,
         Unfinished, InFlight, Rotation, LifecycleKind, CInv, IInv, TypeOK
<1> QED BY <1>1, <1>3, <1>4, <1>5, <1>6 DEF Harmless, QuietOperations

LEMMA DeliveredIsHarmless ==
  ASSUME CInv, NEW o \in Orders, receipt[o] = "Verified", CompleteSendCredentials(o)
  PROVE  Harmless
<1>0. /\ operation \in [Orders -> [LifecycleKind -> OperationStatus]]
      /\ account \in [Accounts -> AccountStatus]
      /\ rental \in [Orders -> RentalStatus \cup {"NONE"}]
  BY DEF CInv, IInv, TypeOK
<1>1. operation[o]["SEND_CREDENTIALS"] \in Unfinished
  BY DEF CompleteSendCredentials, InFlightOperation, InFlight, Unfinished
<1>2. pending[rentedAccount[o]] = 0 /\ told[o] = current[rentedAccount[o]]
  BY <1>1, DeliversAlone
<1>3. /\ account' = [account EXCEPT ![rentedAccount[o]] = "ACTIVE"]
      /\ rental' = [rental EXCEPT ![o] = "ACTIVE"]
      /\ <<rental[o], "ACTIVE">> \in RentalEdges
      /\ UNCHANGED rentedAccount
  BY DEF CompleteSendCredentials, MoveAccount, MoveRental, MayMoveRental
<1>4. \A b \in Accounts : account'[b] \in Returned => account[b] \in Returned
  <2>1. "ACTIVE" \notin Returned
    BY DEF Returned
  <2> QED BY <1>0, <1>3, <2>1
<1>5. rental[o] = "RESERVED"
  BY <1>3 DEF RentalEdges
<1>6. \A p \in Orders \ {o} : rental'[p] = rental[p]
  BY <1>0, <1>3
<1>7. rental'[o] = "ACTIVE"
  BY <1>0, <1>3
<1>8. QuietOperations
  BY <1>0 DEF CompleteSendCredentials, SetOperation, InFlightOperation, QuietOperations,
     Undelivered, Unfinished, InFlight, Rotation, LifecycleKind
<1> QED
  BY <1>2, <1>3, <1>4, <1>5, <1>6, <1>7, <1>8
  DEF Harmless, QuietOperations, UnsettledRental, OpenRental

\* A reservation finds a password that nobody was sent and nobody changes.
LEMMA AcceptKeepsStores ==
  ASSUME CInv, NEW o \in Orders, NEW a \in Accounts, AcceptOrder(o, a),
         UNCHANGED <<remote, vault, mark, chat>>
  PROVE  /\ VaultAgrees' /\ ToldAgrees' /\ ToldApart'
         /\ ReturnedIsClean' /\ UseAgrees' /\ MarkAgrees'
<1>1. UNCHANGED <<remote, current, pending, minted, mark, told, receipt>>
  BY DEF vault, chat
<1>2. /\ current \in [Accounts -> Nat \ {0}] /\ told \in [Orders -> Nat]
      /\ account \in [Accounts -> AccountStatus]
      /\ rental \in [Orders -> RentalStatus \cup {"NONE"}]
      /\ rentedAccount \in [Orders -> Accounts \cup {NoAccount}]
      /\ operation \in [Orders -> [LifecycleKind -> OperationStatus]]
  BY DEF CInv, StoresTypeOK, IInv, TypeOK
<1>3. /\ rental[o] = "NONE"
      /\ \A k \in LifecycleKind : operation[o][k] = "NONE"
  <2>1. RentalAgrees(o) /\ order[o] = "NEW"
    BY DEF AcceptOrder, CInv, IInv, LifecycleAgrees
  <2>2. rental[o] = "NONE" /\ OperationsAt(o, {}, "NONE")
    BY <2>1 DEF RentalAgrees
  <2> QED BY <2>2 DEF OperationsAt, LifecycleKind
<1>4. told[o] = 0 /\ receipt[o] = "None" /\ mark[o] = "INIT"
  BY <1>3, CustodyKinds DEF CInv, ToldAgrees, MarkAgrees
<1>5. /\ pending[a] = 0
      /\ \A p \in Orders : rentedAccount[p] = a => told[p] < current[a]
  BY DEF AcceptOrder, CInv, ReturnedIsClean, Returned
<1>6. /\ rental'[o] = "RESERVED" /\ rentedAccount'[o] = a
      /\ \A p \in Orders \ {o} :
           /\ rental'[p] = rental[p] /\ rentedAccount'[p] = rentedAccount[p]
           /\ operation'[p] = operation[p]
      /\ account'[a] = "RESERVED"
      /\ \A b \in Accounts \ {a} : account'[b] = account[b]
      /\ operation'[o][Rotation] = "NONE"
  BY <1>2, <1>3, CustodyKinds DEF AcceptOrder, SetOperation, Rotation
<1>7. VaultAgrees'
  BY <1>1 DEF CInv, VaultAgrees
<1>8. ToldAgrees'
  <2> SUFFICES ASSUME NEW p \in Orders
               PROVE  LET b == rentedAccount'[p]
                      IN  /\ rental'[p] = "NONE" => told[p] = 0 /\ receipt[p] = "None"
                          /\ rental'[p] # "NONE" => /\ told[p] <= current[b]
                                                    /\ pending[b] # 0 => told[p] < pending[b]
    BY <1>1 DEF ToldAgrees
  <2>1. CASE p = o
    BY <1>2, <1>4, <1>5, <1>6, <2>1
  <2>2. CASE p # o
    BY <1>6, <2>2 DEF CInv, ToldAgrees
  <2> QED BY <2>1, <2>2
<1>9. ToldApart'
  <2> SUFFICES ASSUME NEW p \in Orders, NEW q \in Orders,
                      rental'[p] # "NONE", q # p, rentedAccount'[q] = rentedAccount'[p]
               PROVE  /\ rental'[p] \in UnsettledRental => told[q] < current[rentedAccount'[p]]
                      /\ told[p] # 0 => told[p] # told[q]
    BY <1>1 DEF ToldApart
  <2>1. CASE p = o
    BY <1>4, <1>5, <1>6, <2>1
  <2>2. CASE q = o
    <3>1. rentedAccount'[p] = a /\ current[a] \in Nat \ {0}
      BY <1>2, <1>6, <2>2
    <3> QED BY <1>4, <2>2, <3>1
  <2>3. CASE p # o /\ q # o
    BY <1>6, <2>3 DEF CInv, ToldApart
  <2> QED BY <2>1, <2>2, <2>3
<1>10. ReturnedIsClean'
  <2> SUFFICES ASSUME NEW b \in Accounts, account'[b] \in Returned
               PROVE  /\ pending[b] = 0
                      /\ \A p \in Orders : rentedAccount'[p] = b => told[p] < current[b]
    BY <1>1 DEF ReturnedIsClean
  <2>1. b # a
    BY <1>6 DEF Returned
  <2> QED BY <1>6, <2>1 DEF CInv, ReturnedIsClean
<1>11. UseAgrees'
  <2> SUFFICES ASSUME NEW p \in Orders
               PROVE  LET b == rentedAccount'[p]
                      IN  /\ Undelivered(p)' =>
                               /\ pending[b] = 0
                               /\ receipt[p] = "Verified" => told[p] = current[b]
                          /\ rental'[p] \in InUse => pending[b] = 0 /\ told[p] = current[b]
    BY <1>1 DEF UseAgrees
  <2>1. CASE p = o
    BY <1>4, <1>5, <1>6, <2>1 DEF InUse
  <2>2. CASE p # o
    BY <1>6, <2>2 DEF CInv, UseAgrees, Undelivered
  <2> QED BY <2>1, <2>2
<1>12. MarkAgrees'
  <2> SUFFICES ASSUME NEW p \in Orders
               PROVE  LET b == rentedAccount'[p]
                      IN  /\ operation'[p][Rotation] \in {"NONE", "PENDING"} => mark[p] = "INIT"
                          /\ /\ operation'[p][Rotation] \in InFlight
                             /\ mark[p] \in Promoted /\ pending[b] = 0
                             => told[p] < current[b]
    BY <1>1 DEF MarkAgrees
  <2>1. CASE p = o
    BY <1>4, <1>6, <2>1 DEF InFlight
  <2>2. CASE p # o
    BY <1>6, <2>2 DEF CInv, MarkAgrees
  <2> QED BY <2>1, <2>2
<1> QED BY <1>7, <1>8, <1>9, <1>10, <1>11, <1>12

-----------------------------------------------------------------------------
\* Every step keeps the invariant.

\* A harmless transaction, by which the process may take up or leave work.
LEMMA RowsKeepInv ==
  ASSUME CInv, CustodyNext, Harmless,
         UNCHANGED <<remoteVars, vault, mark, asked, chat>>,
         held' \in [Orders -> BOOLEAN], ProcessTypeOK', WorkAgrees'
  PROVE  CInv'
<1>1. IInv'
  BY StepOfRows, NextInv DEF CInv
<1>2. StoresTypeOK'
  BY DEF CInv, StoresTypeOK, remoteVars, vault, chat
<1>3. UNCHANGED <<remote, vault, mark, chat>>
  BY DEF remoteVars
<1> HIDE DEF Harmless
<1>4. /\ VaultAgrees' /\ ToldAgrees' /\ ToldApart'
      /\ ReturnedIsClean' /\ UseAgrees' /\ MarkAgrees'
  BY <1>3, HarmlessKeeps
<1> QED BY <1>1, <1>2, <1>4 DEF CInv

\* Work is taken up.
LEMMA ClaimsKeepInv ==
  ASSUME CInv, CustodyNext, NEW o \in Orders,
         ClaimRotation(o) \/ RecoverRotation(o) \/ ClaimSend(o)
  PROVE  CInv'
<1>1. Harmless
  <2>1. Quiet
    BY CustodyKinds DEF ClaimRotation, RecoverRotation, ClaimSend, Quiet
  <2> QED BY <2>1, QuietIsHarmless DEF CInv
<1>2. UNCHANGED <<remoteVars, vault, mark, asked, chat>>
  BY DEF ClaimRotation, RecoverRotation, ClaimSend, marks
<1>3. held' \in [Orders -> BOOLEAN]
  BY DEF ClaimRotation, RecoverRotation, ClaimSend, marks, Hold, CInv, StoresTypeOK
<1>4. operation \in [Orders -> [LifecycleKind -> OperationStatus]]
  BY DEF CInv, IInv, TypeOK
<1>5. CASE ClaimRotation(o) \/ RecoverRotation(o)
  <2>1. PICK r \in BOOLEAN : Begin(o, Rotation, "Authenticate", r)
    BY <1>5 DEF ClaimRotation, RecoverRotation
  <2>2. up # "Down"
    BY <1>5 DEF ClaimRotation, RecoverRotation
  <2>3. ProcessTypeOK'
    BY <2>1, <2>2, ProcessMoves DEF CInv
  <2>4. operation'[o][Rotation] = "RUNNING"
    BY <1>4, <1>5, CustodyKinds
    DEF ClaimRotation, RecoverRotation, ClaimOperation, ClaimStartupRecovery, SetOperation
  <2>5. WorkAgrees'
    BY <2>1, <2>4, WorkBegins, CustodyKinds DEF Begin
  <2> QED BY ONLY CInv, CustodyNext, <1>1, <1>2, <1>3, <2>3, <2>5, RowsKeepInv
<1>6. CASE ClaimSend(o)
  <2>1. Begin(o, "SEND_CREDENTIALS", "AskReceipt", FALSE) /\ up # "Down"
    BY <1>6 DEF ClaimSend
  <2>2. ProcessTypeOK'
    BY <2>1, ProcessMoves DEF CInv
  <2>3. operation'[o]["SEND_CREDENTIALS"] = "RUNNING"
    BY <1>4, <1>6, CustodyKinds DEF ClaimSend, ClaimOperation, SetOperation
  <2>4. WorkAgrees'
    BY <2>1, <2>3, WorkBegins, CustodyKinds DEF Begin
  <2> QED BY ONLY CInv, CustodyNext, <1>1, <1>2, <1>3, <2>2, <2>4, RowsKeepInv
<1> QED BY <1>5, <1>6

\* Work is ended, by the process or by a start that finds the receipt.
LEMMA EndsKeepInv ==
  ASSUME CInv, CustodyNext, NEW o \in Orders,
         EndRotation(o) \/ EndSend(o) \/ RecoverReceipt(o)
  PROVE  CInv'
<1>1. Harmless
  <2>1. CASE Rotating(o, "Succeeded") /\ CompleteRotatePassword(o)
    BY <2>1, RotatedIsHarmless
  <2>2. CASE receipt[o] = "Verified" /\ CompleteSendCredentials(o)
    BY <2>2, DeliveredIsHarmless
  <2>3. CASE FailOperation(o, Rotation) \/ FailOperation(o, "SEND_CREDENTIALS")
    <3>1. Quiet
      BY <2>3, CustodyKinds DEF Quiet
    <3> QED BY <3>1, QuietIsHarmless DEF CInv
  <2>4. Sending(o, "Succeeded") => receipt[o] = "Verified"
    BY DEF CInv, WorkAgrees
  <2> QED
    BY <2>1, <2>2, <2>3, <2>4 DEF EndRotation, EndSend, RecoverReceipt
<1>2. /\ UNCHANGED <<remoteVars, vault, mark, asked, chat>>
      /\ held' \in [Orders -> BOOLEAN]
  BY DEF EndRotation, EndSend, RecoverReceipt, custodyVars, marks, CInv, StoresTypeOK
<1>3. Leave \/ (UNCHANGED process /\ work = {})
  <2>1. CASE EndRotation(o) \/ EndSend(o)
    BY <2>1 DEF EndRotation, EndSend
  <2>2. CASE RecoverReceipt(o)
    BY <2>2 DEF RecoverReceipt, custodyVars
  <2> QED BY <2>1, <2>2
<1>4. ProcessTypeOK'
  BY <1>3, ProcessMoves DEF CInv
<1>5. work' = {}
  BY <1>3 DEF Leave, process
<1>6. WorkAgrees'
  BY <1>5 DEF WorkAgrees, Sending
<1> QED BY ONLY CInv, CustodyNext, <1>1, <1>2, <1>4, <1>6, RowsKeepInv

\* A lease lapses, though not that of the work that is executed.
LEMMA LapseKeepsInv ==
  ASSUME CInv, CustodyNext, NEW o \in Orders, NEW kind \in LifecycleKind, LapseOf(o, kind)
  PROVE  CInv'
<1>1. Harmless
  <2>1. Quiet
    BY DEF LapseOf, Quiet
  <2> QED BY <2>1, QuietIsHarmless DEF CInv
<1>2. /\ UNCHANGED <<remoteVars, vault, mark, asked, chat, process>>
      /\ held' \in [Orders -> BOOLEAN]
  BY DEF LapseOf, custodyVars, marks, CInv, StoresTypeOK
<1>3. ProcessTypeOK'
  BY <1>2, ProcessMoves DEF CInv
<1>4. /\ operation \in [Orders -> [LifecycleKind -> OperationStatus]]
      /\ SetOperation(o, kind, "LAPSED") /\ <<o, kind>> \notin work
      /\ UNCHANGED rentedAccount
  BY DEF LapseOf, LeaseLapses, CInv, IInv, TypeOK
<1>5. ASSUME NEW p \in Orders, NEW k \in LifecycleKind, work = {<<p, k>>}
      PROVE  operation'[p][k] = "RUNNING"
  <2>1. operation[p][k] = "RUNNING"
    BY <1>5 DEF CInv, WorkAgrees
  <2>2. p # o \/ k # kind
    BY <1>4, <1>5
  <2> QED BY <1>4, <2>1, <2>2 DEF SetOperation
<1>6. \A p \in Orders : RotationAgrees(p)' <=> RotationAgrees(p)
  BY <1>2, <1>4 DEF RotationAgrees, remoteVars, vault, chat, process
<1>7. WorkAgrees'
  BY <1>2, <1>5, <1>6 DEF CInv, WorkAgrees, Sending, process, chat
<1>8. UNCHANGED <<remoteVars, vault, mark, asked, chat>>
  BY <1>2
<1> QED BY ONLY CInv, CustodyNext, <1>1, <1>2, <1>3, <1>7, <1>8, RowsKeepInv

\* The quarantine and what the process does besides passwords.
LEMMA OthersKeepInv ==
  ASSUME CInv, CustodyNext, Quarantine \/ OtherStep
  PROVE  CInv'
<1>1. UNCHANGED custodyVars /\ work = {}
  BY DEF Quarantine, OtherStep, Idle
<1>2. /\ UNCHANGED <<remoteVars, vault, mark, asked, chat>>
      /\ UNCHANGED <<remote, vault, mark, chat>>
      /\ held' \in [Orders -> BOOLEAN]
      /\ work' = {}
  BY <1>1 DEF custodyVars, remoteVars, marks, process, CInv, StoresTypeOK
<1>3. ProcessTypeOK'
  BY <1>1 DEF custodyVars, process, CInv, ProcessTypeOK
<1>4. WorkAgrees'
  BY <1>2 DEF WorkAgrees, Sending
<1>5. ASSUME Quiet PROVE CInv'
  <2>1. Harmless
    BY <1>5, QuietIsHarmless DEF CInv
  <2> QED BY ONLY CInv, CustodyNext, <1>2, <1>3, <1>4, <2>1, RowsKeepInv
<1>6. ASSUME NEW o \in Orders, NEW a \in Accounts, AcceptOrder(o, a) PROVE CInv'
  <2>1. IInv'
    BY StepOfRows, NextInv DEF CInv
  <2>2. StoresTypeOK'
    BY <1>2 DEF CInv, StoresTypeOK, remoteVars, vault, chat
  <2>3. /\ VaultAgrees' /\ ToldAgrees' /\ ToldApart'
        /\ ReturnedIsClean' /\ UseAgrees' /\ MarkAgrees'
    BY <1>2, <1>6, AcceptKeepsStores
  <2> QED BY <1>3, <1>4, <2>1, <2>2, <2>3 DEF CInv
<1>7. ASSUME NEW o \in Orders, NEW kind \in OtherKind, OperationStep(o, kind) PROVE Quiet
  BY <1>7, CustodyKinds DEF OperationStep, Complete, OtherKind, Rotation, Quiet
<1> QED BY <1>5, <1>6, <1>7 DEF Quarantine, OtherStep, Quiet

\* The invariant is inductive.
LEMMA CustodyNextInv == CInv /\ [CustodyNext]_<<vars, custodyVars>> => CInv'
<1>1. ASSUME CInv, UNCHANGED <<vars, custodyVars>> PROVE CInv'
  <2>1. UNCHANGED <<chat, remote, vault, mark, link, requests, asked, held, process>>
    BY <1>1 DEF custodyVars, remoteVars, marks
  <2>2. StoresTypeOK' /\ ProcessTypeOK'
    BY <1>1, <2>1 DEF CInv, StoresTypeOK, ProcessTypeOK, vault, chat, process
  <2>3. WorkAgrees'
    BY <1>1, <2>1
    DEF CInv, WorkAgrees, RotationAgrees, Sending, process, vars, chat, vault
  <2> QED BY <1>1, <2>1, <2>2, <2>3, RestKeepsInv
<1>2. ASSUME CInv, CustodyNext PROVE CInv'
  <2>1. ASSUME NEW o \in Orders, WebStep(o) PROVE CInv'
    BY <1>2, <2>1, LooksKeepInv, DecideKeepsInv, ChangesKeepInv, PausesKeepInv DEF WebStep
  <2>2. ASSUME NEW o \in Orders, AskReceipt(o) \/ SendCredentials(o) PROVE CInv'
    BY <1>2, <2>2, MessageKeepsInv
  <2>3. ASSUME NEW o \in Orders, MailArrives(o) PROVE CInv'
    BY <1>2, <2>3, PausesKeepInv
  <2>4. ASSUME NEW o \in Orders, RowStep(o) PROVE CInv'
    <3>1. CASE ClaimRotation(o) \/ RecoverRotation(o) \/ ClaimSend(o)
      BY <1>2, <3>1, ClaimsKeepInv
    <3>2. CASE EndRotation(o) \/ EndSend(o) \/ RecoverReceipt(o)
      BY <1>2, <3>2, EndsKeepInv
    <3>3. CASE \E kind \in {Rotation, "SEND_CREDENTIALS"} : LapseOf(o, kind)
      BY <1>2, <3>3, CustodyKinds, LapseKeepsInv
    <3> QED BY <2>4, <3>1, <3>2, <3>3 DEF RowStep
  <2>5. CASE Kill \/ Abandon \/ Start
    <3>1. CASE Orders = {}
      <4>1. WorkAgrees' /\ StoresTypeOK' /\ ProcessTypeOK'
        BY <1>2, <2>5, <3>1 DEF Kill, Abandon, Start, Stop, Leave, CInv, WorkAgrees, Sending,
           StoresTypeOK, ProcessTypeOK, remoteVars, vault, marks, chat
      <4>2. UNCHANGED <<vars, chat, remote, vault, mark>>
        BY <2>5 DEF Kill, Abandon, Start, remoteVars, marks
      <4> QED BY <1>2, <4>1, <4>2, RestKeepsInv
    <3>2. CASE Orders # {}
      <4>1. PICK o \in Orders : TRUE
        BY <3>2
      <4> QED BY <1>2, <2>5, <4>1, PausesKeepInv
    <3> QED BY <3>1, <3>2
  <2>6. CASE Quarantine \/ OtherStep
    BY <1>2, <2>6, OthersKeepInv
  <2> QED BY <1>2, <2>1, <2>2, <2>3, <2>4, <2>5, <2>6, CustodySteps
<1> QED BY <1>1, <1>2

-----------------------------------------------------------------------------
\* Theorems.

\* The passwords, the marks and the rows agree in every state, whatever step
\* a process was killed in.
THEOREM CustodyInvariance == CustodySpec => []CInv
<1> QED BY CustodyInitInv, CustodyNextInv, PTL DEF CustodySpec

\* Every variable of the composition keeps its type.
THEOREM CustodyTypes == CustodySpec => []CustodyTypeOK
<1>1. CInv => CustodyTypeOK
  BY TypeParts DEF CInv, IInv
<1> QED BY <1>1, CustodyInvariance, PTL

\* No crash between the stores loses the password in force: the vault has it
\* as the current or as the pending one (rotate, promote_pending_credentials).
THEOREM NoPasswordIsLost == CustodySpec => []VaultKnowsPassword
<1>1. CInv => VaultKnowsPassword
  BY DEF CInv, VaultAgrees, VaultKnowsPassword
<1> QED BY <1>1, CustodyInvariance, PTL

\* The buyer of a rental that runs was sent the password in force, be it that
\* only the receipt found by a later start says so (_send_credentials,
\* recover_message_receipts).
THEOREM BuyersHoldTheKey == CustodySpec => []BuyerHoldsTheKey
<1>1. CInv => BuyerHoldsTheKey
  <2> SUFFICES ASSUME CInv, NEW o \in Orders, rental[o] \in InUse
               PROVE  told[o] = remote[rentedAccount[o]]
    BY DEF BuyerHoldsTheKey, InUse
  <2>1. pending[rentedAccount[o]] = 0 /\ told[o] = current[rentedAccount[o]]
    BY DEF CInv, UseAgrees
  <2>2. rentedAccount[o] \in Accounts
    BY DEF CInv, IInv, TypeOK, InUse
  <2>3. current[rentedAccount[o]] \in Nat \ {0}
    BY <2>2 DEF CInv, StoresTypeOK
  <2> QED BY <2>1, <2>2, <2>3 DEF CInv, VaultAgrees
<1> QED BY <1>1, CustodyInvariance, PTL

\* An account that is back has a password that none of its buyers was sent,
\* and no password was sent to two (operation_completed, rotate).
THEOREM BuyersAreLockedOut == CustodySpec => []FormerBuyersLockedOut
<1>1. CInv => FormerBuyersLockedOut
  <2> SUFFICES ASSUME CInv, NEW o \in Orders, rental[o] # "NONE"
               PROVE  LET a == rentedAccount[o]
                      IN  /\ account[a] \in Returned =>
                               told[o] # remote[a] /\ remote[a] = current[a] /\ pending[a] = 0
                          /\ \A p \in Orders :
                               rentedAccount[p] = a /\ told[p] = told[o] /\ told[o] # 0 => p = o
    BY DEF FormerBuyersLockedOut, Returned
  <2>1. rentedAccount[o] \in Accounts
    BY DEF CInv, IInv, TypeOK
  <2>2. /\ told[o] \in Nat /\ current[rentedAccount[o]] \in Nat \ {0}
        /\ minted[rentedAccount[o]] \in Nat \ {0}
    BY <2>1 DEF CInv, StoresTypeOK
  <2>3. account[rentedAccount[o]] \in Returned =>
          pending[rentedAccount[o]] = 0 /\ told[o] < current[rentedAccount[o]]
    BY <2>1 DEF CInv, ReturnedIsClean
  <2>4. pending[rentedAccount[o]] = 0 =>
          remote[rentedAccount[o]] = current[rentedAccount[o]]
    BY <2>1, <2>2 DEF CInv, VaultAgrees
  <2>5. \A p \in Orders : rentedAccount[p] = rentedAccount[o]
          /\ told[p] = told[o] /\ told[o] # 0 => p = o
    BY DEF CInv, ToldApart
  <2> QED BY <2>2, <2>3, <2>4, <2>5
<1> QED BY <1>1, CustodyInvariance, PTL

-----------------------------------------------------------------------------
\* Requests.

\* The mark comes before the request, and nobody goes back to it.
AskedFirst(o) ==
  /\ requests[o] <= 1
  /\ ~asked[o] => requests[o] = 0
  /\ Rotating(o, "Record") => ~asked[o]
  /\ Rotating(o, "Request") => asked[o] /\ requests[o] = 0

\* Three steps of a rotation lead to a request or make it; the others go
\* elsewhere or stay.
LEMMA RequestSteps ==
  ASSUME CustodyNext
  PROVE  \/ /\ UNCHANGED <<asked, requests>>
            /\ step' \notin {"Record", "Request"} \/ UNCHANGED <<work, step>>
         \/ \E o \in Orders : Verify(o) /\ ~asked[o] /\ Goto("Record")
         \/ \E o \in Orders : RecordRequest(o)
         \/ \E o \in Orders : RequestChange(o)
<1> DEFINE Still == /\ UNCHANGED <<asked, requests>>
                    /\ step' \notin {"Record", "Request"} \/ UNCHANGED <<work, step>>
<1>0. ASSUME NEW o, NEW s, Wait(o, s) PROVE step' \notin {"Record", "Request"}
  BY <1>0 DEF Wait, Goto, Leave
<1>1. ASSUME NEW o \in Orders,
             Authenticate(o) \/ Decide(o) \/ MarkProgress(o) \/ Answered(o) \/ TakeLink(o)
      PROVE  Still
  <2>1. UNCHANGED <<asked, requests>>
    BY <1>1 DEF Authenticate, Decide, MarkProgress, Answered, TakeLink, remoteVars, marks
  <2>2. step' \notin {"Record", "Request"}
    <3>1. CASE Authenticate(o)
      BY <1>0, <3>1 DEF Authenticate, Goto
    <3>2. CASE Decide(o)
      BY <3>2 DEF Decide, Goto
    <3>3. CASE MarkProgress(o) \/ Answered(o)
      BY <3>3 DEF MarkProgress, Answered, Goto
    <3>4. CASE TakeLink(o)
      BY <1>0, <3>4 DEF TakeLink, Goto
    <3> QED BY <1>1, <3>1, <3>2, <3>3, <3>4
  <2> QED BY <2>1, <2>2
<1>2. ASSUME NEW o \in Orders, Verify(o) PROVE Still \/ (~asked[o] /\ Goto("Record"))
  <2>1. UNCHANGED <<asked, requests>>
    BY <1>2 DEF Verify, remoteVars
  <2>2. step' \notin {"Record", "Request"} \/ (~asked[o] /\ Goto("Record"))
    <3>1. CASE Goto("MarkVerified") \/ Goto("Failed")
      BY <3>1 DEF Goto
    <3> QED BY <1>0, <1>2, <3>1 DEF Verify
  <2> QED BY <2>1, <2>2
<1>3. ASSUME NEW o \in Orders,
             \/ ChangePassword(o) \/ FinalizeChange(o) \/ PromoteCurrent(o) \/ DropPending(o)
             \/ ReleaseRecovery(o) \/ ResumeRotation(o) \/ AskReceipt(o) \/ SendCredentials(o)
             \/ MailArrives(o)
      PROVE  Still
  BY <1>3 DEF ChangePassword, FinalizeChange, PromoteCurrent, DropPending, ReleaseRecovery,
     ResumeRotation, AskReceipt, SendCredentials, MailArrives, Goto, Leave, Begin,
     remoteVars, marks, process
<1>4. ASSUME NEW o \in Orders, RowStep(o) PROVE Still
  BY <1>4 DEF RowStep, ClaimRotation, RecoverRotation, EndRotation, ClaimSend, EndSend,
     RecoverReceipt, LapseOf, Begin, Leave, custodyVars, remoteVars, marks, process
<1>5. CASE Kill \/ Abandon \/ Start
  BY <1>5 DEF Kill, Abandon, Start, Stop, Leave, remoteVars, marks
<1>6. CASE Quarantine \/ OtherStep
  BY <1>6 DEF Quarantine, OtherStep, custodyVars, remoteVars, marks, process
<1> QED
  BY <1>1, <1>2, <1>3, <1>4, <1>5, <1>6, CustodySteps DEF WebStep

\* Pixel Storm is asked for a change of password at most once in a rotation,
\* whatever was killed, lost or taken up again (record_password_change_requested
\* before request_password_change).
THEOREM ChangesAreRequestedOnce == CustodySpec => []RequestedOnce
<1> DEFINE Asked == StoresTypeOK /\ \A o \in Orders : AskedFirst(o)
<1>1. CustodyInit => Asked
  <2>1. CustodyInit => StoresTypeOK
    BY CustodyInitInv DEF CInv
  <2> QED BY <2>1 DEF CustodyInit, AskedFirst, Rotating
<1>2. ASSUME Asked, StoresTypeOK', [CustodyNext]_<<vars, custodyVars>> PROVE Asked'
  <2> SUFFICES ASSUME NEW p \in Orders PROVE AskedFirst(p)'
    BY <1>2
  <2>1. AskedFirst(p) /\ requests[p] \in Nat
    BY <1>2 DEF StoresTypeOK
  <2>2. CASE /\ UNCHANGED <<asked, requests>>
             /\ step' \notin {"Record", "Request"} \/ UNCHANGED <<work, step>>
    BY <2>1, <2>2 DEF AskedFirst, Rotating
  <2>3. ASSUME NEW o \in Orders, Verify(o), ~asked[o], Goto("Record") PROVE AskedFirst(p)'
    <3>1. work' = {<<o, Rotation>>} /\ step' = "Record" /\ UNCHANGED <<asked, requests>>
      BY <2>3 DEF Verify, Rotating, Goto, remoteVars
    <3>2. Rotating(p, "Record")' => p = o
      <4>1. ASSUME work' = {<<p, Rotation>>} PROVE <<p, Rotation>> \in {<<o, Rotation>>}
        BY <3>1, <4>1
      <4> QED BY <4>1 DEF Rotating
    <3>3. asked' = asked /\ requests' = requests
      BY <3>1
    <3>4. Rotating(p, "Record")' => ~asked'[p]
      BY <2>3, <3>2, <3>3
    <3>5. ~Rotating(p, "Request")'
      BY <3>1 DEF Rotating
    <3> QED BY <2>1, <3>3, <3>4, <3>5 DEF AskedFirst
  <2>4. ASSUME NEW o \in Orders, RecordRequest(o) PROVE AskedFirst(p)'
    <3>1. /\ Rotating(o, "Record") /\ work' = {<<o, Rotation>>} /\ step' = "Request"
          /\ asked' = [asked EXCEPT ![o] = TRUE] /\ UNCHANGED requests
      BY <2>4 DEF RecordRequest, Rotating, Goto, remoteVars
    <3>2. asked'[o] /\ \A q \in Orders \ {o} : asked'[q] = asked[q]
      BY <1>2, <3>1 DEF StoresTypeOK
    <3>3. requests[o] = 0
      BY <1>2, <3>1 DEF AskedFirst
    <3>4. Rotating(p, "Request")' => p = o
      <4>1. ASSUME work' = {<<p, Rotation>>} PROVE <<p, Rotation>> \in {<<o, Rotation>>}
        BY <3>1, <4>1
      <4> QED BY <4>1 DEF Rotating
    <3> QED BY <2>1, <3>1, <3>2, <3>3, <3>4 DEF AskedFirst, Rotating
  <2>5. ASSUME NEW o \in Orders, RequestChange(o) PROVE AskedFirst(p)'
    <3>1. /\ Rotating(o, "Request") /\ step' \in {"Answer", "Failed"}
          /\ requests' = [requests EXCEPT ![o] = @ + 1] \/ UNCHANGED requests
          /\ UNCHANGED asked
      BY <2>5 DEF RequestChange, Goto, marks
    <3>2. asked[o] /\ requests[o] = 0
      BY <1>2, <3>1 DEF AskedFirst
    <3>3. \/ requests'[p] = requests[p]
          \/ p = o /\ requests'[p] = 1
      BY <1>2, <3>1, <3>2 DEF StoresTypeOK
    <3> QED BY <2>1, <3>1, <3>2, <3>3 DEF AskedFirst, Rotating
  <2>6. CASE UNCHANGED <<vars, custodyVars>>
    BY <2>1, <2>6 DEF AskedFirst, Rotating, custodyVars, remoteVars, marks, process
  <2> QED BY <1>2, <2>2, <2>3, <2>4, <2>5, <2>6, RequestSteps
<1>3. Asked => RequestedOnce
  BY DEF AskedFirst, RequestedOnce
<1>4. CInv => StoresTypeOK
  BY DEF CInv
<1> HIDE DEF Asked
<1> QED BY <1>1, <1>2, <1>3, <1>4, CustodyInvariance, PTL DEF CustodySpec

=============================================================================
