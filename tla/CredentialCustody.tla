-------------------------- MODULE CredentialCustody --------------------------
(***************************************************************************)
(* The passwords behind the generations that RentalLifecycle counts: the   *)
(* one in force at Pixel Storm, the two copies in the vault, and the one   *)
(* each buyer was sent.  They change in three stores one after the other,  *)
(* by the steps of ROTATE_PASSWORD (PixelStormSecurityService.rotate) and  *)
(* of SEND_CREDENTIALS (RentalManager._send_credentials), and a process    *)
(* may be killed between any two steps.                                    *)
(*                                                                         *)
(* One process runs at a time (it holds the instance lock) and executes    *)
(* one operation after the other.  A password is named by the order it was *)
(* generated in, as the generator never repeats itself.  Only the bot      *)
(* changes a password: a change is confirmed by a mail that it alone gets. *)
(***************************************************************************)
EXTENDS RentalLifecycle

VARIABLES
  remote,     \* Pixel Storm: the password of each account
  link,       \* the reset mail of each rotation: none, on its way, at hand, used
  requests,   \* history: how often each rotation has asked for a change
  current,    \* the vault: credentials:<account>
  pending,    \* the vault: pending-credentials:<account>, 0 when there are none
  minted,     \* the last password that was generated for the account
  mark,       \* operations.security_state of the rotation of each rental
  asked,      \* its password_change_requested_at is set
  held,       \* it has a claim token (as long as it is RUNNING)
  told,       \* FunPay: the password in the message to each buyer, 0 for none
  receipt,    \* what FunPay says of that message
  up,         \* whether a process runs, or is starting
  work,       \* the operation it executes: {} or one of them
  step,       \* where it is in that
  recovery    \* it executes it as startup recovery

remoteVars == <<remote, link, requests>>
vault == <<current, pending, minted>>
marks == <<mark, asked, held>>
chat == <<told, receipt>>
process == <<up, work, step, recovery>>
custodyVars == <<remoteVars, vault, marks, chat, process>>

Waits == {"WAITING_LOGIN_OTP", "WAITING_PASSWORD_CHANGE_EMAIL"}
Promoted == {"REMOTE_VERIFIED", "SECRET_PROMOTED"}
SecurityState == Waits \cup Promoted \cup {"INIT", "PENDING_READY"}

RotateStep ==
  {"Authenticate", "Decide", "MarkPending", "Verify", "Record", "Request",
   "Answer", "Confirm", "Change", "CheckNew", "MarkVerified", "SetCurrent",
   "DropPending", "MarkPromoted", "Release"}
SendStep == {"AskReceipt", "Send"}

CustodyTypeOK ==
  /\ TypeOK
  /\ remote \in [Accounts -> Nat \ {0}]
  /\ current \in [Accounts -> Nat \ {0}]
  /\ pending \in [Accounts -> Nat]
  /\ minted \in [Accounts -> Nat \ {0}]
  /\ link \in [Orders -> {"None", "Due", "Mailed", "Used"}]
  /\ requests \in [Orders -> Nat]
  /\ mark \in [Orders -> SecurityState]
  /\ asked \in [Orders -> BOOLEAN]
  /\ held \in [Orders -> BOOLEAN]
  /\ told \in [Orders -> Nat]
  /\ receipt \in [Orders -> {"None", "Verified", "Failed", "Ambiguous"}]
  /\ up \in {"Down", "Starting", "Running"}
  /\ \/ work = {} /\ step = "None"
     \/ /\ \E o \in Orders :
             \/ /\ work = {<<o, "ROTATE_PASSWORD">>}
                /\ step \in RotateStep \cup {"Succeeded", "Failed"}
             \/ /\ work = {<<o, "SEND_CREDENTIALS">>}
                /\ step \in SendStep \cup {"Succeeded", "Failed"}
        /\ up # "Down"
  /\ recovery \in BOOLEAN

CustodyInit ==
  /\ Init
  /\ remote = [a \in Accounts |-> 1]
  /\ current = [a \in Accounts |-> 1]
  /\ pending = [a \in Accounts |-> 0]
  /\ minted = [a \in Accounts |-> 1]
  /\ link = [o \in Orders |-> "None"]
  /\ requests = [o \in Orders |-> 0]
  /\ mark = [o \in Orders |-> "INIT"]
  /\ asked = [o \in Orders |-> FALSE]
  /\ held = [o \in Orders |-> FALSE]
  /\ told = [o \in Orders |-> 0]
  /\ receipt = [o \in Orders |-> "None"]
  /\ up = "Running" /\ work = {} /\ step = "None" /\ recovery = FALSE

-----------------------------------------------------------------------------
\* The process.

Rotation == "ROTATE_PASSWORD"
Idle == up # "Down" /\ work = {}
Rotating(o, s) == work = {<<o, Rotation>>} /\ step = s
Sending(o, s) == work = {<<o, "SEND_CREDENTIALS">>} /\ step = s

Goto(s) == step' = s /\ UNCHANGED <<up, work, recovery>>
Begin(o, kind, s, recovers) ==
  /\ work' = {<<o, kind>>} /\ step' = s /\ recovery' = recovers
  /\ UNCHANGED up
Leave == work' = {} /\ step' = "None" /\ recovery' = FALSE /\ UNCHANGED up

Mark(o, state) == mark' = [mark EXCEPT ![o] = state]
Hold(o, token) == held' = [held EXCEPT ![o] = token]

\* _wait: the row is given back until a mail comes.  set_security_state clears
\* the normal token only; a recovery claim is released in a step of its own.
Wait(o, state) ==
  /\ Mark(o, state)
  /\ IF recovery THEN Goto("Release") /\ UNCHANGED held
                 ELSE Leave /\ Hold(o, FALSE)

-----------------------------------------------------------------------------
\* Claims of a rotation, in a cycle and at a start.

ClaimRotation(o) ==
  /\ up = "Running" /\ work = {}
  /\ ClaimOperation(o, Rotation)
  /\ Hold(o, TRUE)
  /\ Begin(o, Rotation, "Authenticate", FALSE)
  /\ UNCHANGED <<remoteVars, vault, mark, asked, chat>>

\* claim_waiting_security_operation
ResumeRotation(o) ==
  /\ up = "Running" /\ work = {}
  /\ operation[o][Rotation] = "RUNNING" /\ mark[o] \in Waits /\ ~held[o]
  /\ Hold(o, TRUE)
  /\ Begin(o, Rotation, "Authenticate", FALSE)
  /\ UNCHANGED <<vars, remoteVars, vault, mark, asked, chat>>

\* claim_startup_recovery; a rotation that waits is passed over.
RecoverRotation(o) ==
  /\ up = "Starting" /\ work = {}
  /\ mark[o] \notin Waits
  /\ ClaimStartupRecovery(o, Rotation)
  /\ Hold(o, TRUE)
  /\ Begin(o, Rotation, "Authenticate", TRUE)
  /\ UNCHANGED <<remoteVars, vault, mark, asked, chat>>

\* release_recovery_claim
ReleaseRecovery(o) ==
  /\ Rotating(o, "Release")
  /\ Hold(o, FALSE)
  /\ Leave
  /\ UNCHANGED <<vars, remoteVars, vault, mark, asked, chat>>

-----------------------------------------------------------------------------
\* rotate, from its first line to its last.  Every check may also fail for a
\* reason of Pixel Storm's own, a call may be refused by the lease guard.

Opens(a, password) == password # 0 /\ remote[a] = password

\* _ensure_authenticated: the session is good, or a login with the current
\* password makes it so, at once or with a code by mail.
Authenticate(o) ==
  /\ Rotating(o, "Authenticate")
  /\ \/ Goto("Decide") /\ UNCHANGED <<mark, held>>
     \/ /\ \/ mark[o] = "WAITING_LOGIN_OTP"
           \/ Opens(rentedAccount[o], current[rentedAccount[o]])
        /\ Wait(o, "WAITING_LOGIN_OTP")
     \/ Goto("Failed") /\ UNCHANGED <<mark, held>>
  /\ UNCHANGED <<vars, remoteVars, vault, asked, chat>>

\* Mutants of Decide: a pending password of an earlier attempt is not looked
\* for; any recovered rotation without one is taken for done.
DecideAnew(o) ==
  LET a == rentedAccount[o]
  IN  /\ Rotating(o, "Decide")
      /\ mark[o] # "WAITING_PASSWORD_CHANGE_EMAIL"
      /\ minted' = [minted EXCEPT ![a] = @ + 1]
      /\ pending' = [pending EXCEPT ![a] = minted'[a]]
      /\ Goto("MarkPending")
      /\ UNCHANGED <<vars, remoteVars, current, marks, chat>>

DecideDone(o) ==
  LET a == rentedAccount[o]
      waiting == mark[o] = "WAITING_PASSWORD_CHANGE_EMAIL"
  IN  /\ Rotating(o, "Decide")
      /\ \/ waiting /\ pending[a] # 0 /\ Goto("Confirm") /\ UNCHANGED vault
         \/ ~waiting /\ pending[a] # 0 /\ Goto("Verify") /\ UNCHANGED vault
         \/ ~waiting /\ pending[a] = 0 /\ recovery /\ Goto("Succeeded") /\ UNCHANGED vault
         \/ /\ ~waiting /\ pending[a] = 0 /\ ~recovery
            /\ minted' = [minted EXCEPT ![a] = @ + 1]
            /\ pending' = [pending EXCEPT ![a] = minted'[a]]
            /\ Goto("MarkPending") /\ UNCHANGED current
      /\ UNCHANGED <<vars, remoteVars, marks, chat>>

\* Which of the paths of rotate the row and the vault lead to.
Decide(o) ==
  LET a == rentedAccount[o]
      waiting == mark[o] = "WAITING_PASSWORD_CHANGE_EMAIL"
      settled == recovery /\ mark[o] \in Promoted
  IN  /\ Rotating(o, "Decide")
      /\ \/ waiting /\ pending[a] # 0 /\ Goto("Confirm") /\ UNCHANGED vault
         \/ ~waiting /\ pending[a] # 0 /\ Goto("Verify") /\ UNCHANGED vault
         \/ /\ ~waiting /\ pending[a] = 0 /\ settled
            /\ Opens(a, current[a])
            /\ Goto("Succeeded") /\ UNCHANGED vault
         \/ /\ ~waiting /\ pending[a] = 0 /\ ~settled
            /\ minted' = [minted EXCEPT ![a] = @ + 1]
            /\ pending' = [pending EXCEPT ![a] = minted'[a]]
            /\ Goto("MarkPending") /\ UNCHANGED current
         \/ Goto("Failed") /\ UNCHANGED vault
      /\ UNCHANGED <<vars, remoteVars, marks, chat>>

\* The three marks that are written without giving the row back.
MarkProgress(o) ==
  /\ \/ Rotating(o, "MarkPending") /\ Mark(o, "PENDING_READY") /\ Goto("Verify")
     \/ /\ Rotating(o, "MarkVerified")
        /\ Mark(o, "REMOTE_VERIFIED") /\ Goto("SetCurrent")
     \/ /\ Rotating(o, "MarkPromoted")
        /\ Mark(o, "SECRET_PROMOTED") /\ Goto("Succeeded")
  /\ UNCHANGED <<vars, remoteVars, vault, asked, held, chat>>

\* Pixel Storm is asked which password is in force: the pending one if an
\* earlier attempt came that far, else it must be the current one.  A change
\* that was asked for already is waited for and never asked for again.
Verify(o) ==
  LET a == rentedAccount[o]
  IN  /\ Rotating(o, "Verify")
      /\ \/ Opens(a, pending[a]) /\ Goto("MarkVerified") /\ UNCHANGED <<mark, held>>
         \/ /\ Opens(a, current[a])
            /\ \/ asked[o] /\ Wait(o, "WAITING_PASSWORD_CHANGE_EMAIL")
               \/ ~asked[o] /\ Goto("Record") /\ UNCHANGED <<mark, held>>
         \/ Goto("Failed") /\ UNCHANGED <<mark, held>>
      /\ UNCHANGED <<vars, remoteVars, vault, asked, chat>>

\* Mutant of RecordRequest: the mark is left to be written after the call.
RecordNothing(o) ==
  /\ Rotating(o, "Record")
  /\ Goto("Request")
  /\ UNCHANGED <<vars, remoteVars, vault, marks, chat>>

\* record_password_change_requested, before the request is sent.
RecordRequest(o) ==
  /\ Rotating(o, "Record")
  /\ asked' = [asked EXCEPT ![o] = TRUE]
  /\ Goto("Request")
  /\ UNCHANGED <<vars, remoteVars, vault, mark, held, chat>>

\* request_password_change: Pixel Storm lets the password be changed at once
\* or sends a mail; the request may as well not arrive.
RequestChange(o) ==
  /\ Rotating(o, "Request")
  /\ \/ /\ requests' = [requests EXCEPT ![o] = @ + 1]
        /\ \E mail \in {"None", "Due"} : link' = [link EXCEPT ![o] = mail]
        /\ Goto("Answer")
     \/ Goto("Failed") /\ UNCHANGED <<requests, link>>
  /\ UNCHANGED <<vars, remote, vault, marks, chat>>

\* Its answer, if it can be read.
Answered(o) ==
  /\ Rotating(o, "Answer")
  /\ \/ link[o] = "None" /\ Goto("Change")
     \/ link[o] # "None" /\ Goto("Confirm")
     \/ Goto("Failed")
  /\ UNCHANGED <<vars, remoteVars, vault, marks, chat>>

\* The mail is stored for the rotation that is running.
MailArrives(o) ==
  /\ link[o] = "Due" /\ operation[o][Rotation] \in InFlight
  /\ link' = [link EXCEPT ![o] = "Mailed"]
  /\ UNCHANGED <<vars, remote, requests, vault, marks, chat, process>>

\* consume_expected_reset_url: the link is used up whether it is good or not.
TakeLink(o) ==
  /\ Rotating(o, "Confirm")
  /\ \/ /\ link[o] = "Mailed"
        /\ link' = [link EXCEPT ![o] = "Used"]
        /\ \/ Goto("Change") /\ UNCHANGED <<mark, held>>
           \/ Wait(o, "WAITING_PASSWORD_CHANGE_EMAIL")
     \/ /\ link[o] # "Mailed" /\ UNCHANGED link
        /\ Wait(o, "WAITING_PASSWORD_CHANGE_EMAIL")
  /\ UNCHANGED <<vars, remote, requests, vault, asked, chat>>

\* complete_password_change and change_password: the answer may be bad though
\* the password was changed.
ChangePassword(o) ==
  LET a == rentedAccount[o]
  IN  /\ Rotating(o, "Change")
      /\ \/ remote' = [remote EXCEPT ![a] = pending[a]]
         \/ UNCHANGED remote
      /\ Goto("CheckNew") \/ Goto("Failed")
      /\ UNCHANGED <<vars, link, requests, vault, marks, chat>>

\* _finalize_password_change; mutant: the new password is not tried.
FinalizeUnseen(o) ==
  /\ Rotating(o, "CheckNew")
  /\ Goto("MarkVerified")
  /\ UNCHANGED <<vars, remoteVars, vault, marks, chat>>

FinalizeChange(o) ==
  LET a == rentedAccount[o]
  IN  /\ Rotating(o, "CheckNew")
      /\ \/ Opens(a, pending[a]) /\ Goto("MarkVerified")
         \/ Goto("Failed")
      /\ UNCHANGED <<vars, remoteVars, vault, marks, chat>>

\* promote_pending_credentials is two writes of the vault's file.
PromoteCurrent(o) ==
  LET a == rentedAccount[o]
  IN  /\ Rotating(o, "SetCurrent")
      /\ current' = [current EXCEPT ![a] = pending[a]]
      /\ Goto("DropPending")
      /\ UNCHANGED <<vars, remoteVars, pending, minted, marks, chat>>

\* Mutant of DropPending: both copies are deleted.
DropBoth(o) ==
  /\ Rotating(o, "DropPending")
  /\ pending' = [pending EXCEPT ![rentedAccount[o]] = 0]
  /\ current' = [current EXCEPT ![rentedAccount[o]] = 0]
  /\ Goto("MarkPromoted")
  /\ UNCHANGED <<vars, remoteVars, minted, marks, chat>>

DropPending(o) ==
  /\ Rotating(o, "DropPending")
  /\ pending' = [pending EXCEPT ![rentedAccount[o]] = 0]
  /\ Goto("MarkPromoted")
  /\ UNCHANGED <<vars, remoteVars, current, minted, marks, chat>>

EndRotation(o) ==
  /\ \/ Rotating(o, "Succeeded") /\ CompleteRotatePassword(o)
     \/ Rotating(o, "Failed") /\ FailOperation(o, Rotation)
  /\ Leave
  /\ UNCHANGED <<remoteVars, vault, marks, chat>>

RotationStep(o) ==
  \/ Authenticate(o) \/ Decide(o) \/ MarkProgress(o) \/ Verify(o)
  \/ RecordRequest(o) \/ RequestChange(o) \/ Answered(o) \/ TakeLink(o)
  \/ ChangePassword(o) \/ FinalizeChange(o) \/ PromoteCurrent(o)
  \/ DropPending(o) \/ EndRotation(o) \/ ReleaseRecovery(o)

-----------------------------------------------------------------------------
\* The message with the password.

ClaimSend(o) ==
  /\ up = "Running" /\ work = {}
  /\ ClaimOperation(o, "SEND_CREDENTIALS")
  /\ Begin(o, "SEND_CREDENTIALS", "AskReceipt", FALSE)
  /\ UNCHANGED <<remoteVars, vault, marks, chat>>

\* get_message_receipt, of a message that may have been sent before; FunPay
\* does not always tell.
AskReceipt(o) ==
  /\ Sending(o, "AskReceipt")
  /\ \/ receipt[o] = "Verified" /\ Goto("Succeeded")
     \/ receipt[o] = "Ambiguous" /\ Goto("Failed")
     \/ Goto("Send")
  /\ UNCHANGED <<vars, remoteVars, vault, marks, chat>>

\* The current password goes out under the operation's key.  The message may
\* arrive without a receipt, or with one that the call does not return.
SendCredentials(o) ==
  /\ Sending(o, "Send")
  /\ \/ /\ told' = [told EXCEPT ![o] = current[rentedAccount[o]]]
        /\ \E answer \in {"None", "Verified", "Ambiguous"} :
             /\ receipt' = [receipt EXCEPT ![o] = answer]
             /\ \/ answer = "Verified" /\ Goto("Succeeded")
                \/ Goto("Failed")
     \/ /\ receipt' = [receipt EXCEPT ![o] = "Failed"]
        /\ Goto("Failed") /\ UNCHANGED told
     \/ Goto("Failed") /\ UNCHANGED chat
  /\ UNCHANGED <<vars, remoteVars, vault, marks>>

EndSend(o) ==
  /\ \/ Sending(o, "Succeeded") /\ CompleteSendCredentials(o)
     \/ Sending(o, "Failed") /\ FailOperation(o, "SEND_CREDENTIALS")
  /\ Leave
  /\ UNCHANGED <<remoteVars, vault, marks, chat>>

SendStepOf(o) == AskReceipt(o) \/ SendCredentials(o) \/ EndSend(o)

\* Mutant of RecoverReceipt: a receipt that is missing counts for good.
RecoverUnseen(o) ==
  /\ up = "Starting" /\ work = {}
  /\ operation[o]["SEND_CREDENTIALS"] = "LAPSED"
  /\ \/ receipt[o] \in {"Verified", "None"} /\ CompleteSendCredentials(o)
     \/ receipt[o] \in {"Failed", "Ambiguous"} /\ FailOperation(o, "SEND_CREDENTIALS")
  /\ UNCHANGED custodyVars

\* recover_message_receipts; without a receipt the operation is left to be
\* quarantined.
RecoverReceipt(o) ==
  /\ up = "Starting" /\ work = {}
  /\ operation[o]["SEND_CREDENTIALS"] = "LAPSED"
  /\ \/ receipt[o] = "Verified" /\ CompleteSendCredentials(o)
     \/ receipt[o] \in {"Failed", "Ambiguous"} /\ FailOperation(o, "SEND_CREDENTIALS")
  /\ UNCHANGED custodyVars

-----------------------------------------------------------------------------
\* Crash and start.

Stop == work' = {} /\ step' = "None" /\ recovery' = FALSE

Kill ==
  /\ up # "Down" /\ up' = "Down" /\ Stop
  /\ UNCHANGED <<vars, remoteVars, vault, marks, chat>>

\* An exception ends the cycle, not the process; in a start it ends both.
Abandon ==
  /\ up = "Running" /\ work # {}
  /\ Leave
  /\ UNCHANGED <<vars, remoteVars, vault, marks, chat>>

Start ==
  /\ \/ up = "Down" /\ up' = "Starting"
     \/ up = "Starting" /\ work = {} /\ up' = "Running"
  /\ UNCHANGED <<vars, remoteVars, vault, marks, chat, work, step, recovery>>

\* Mutant of LapseOf: a rotation that waits has no deadline.
LapseOfWork(o, kind) ==
  /\ <<o, kind>> \notin work
  /\ kind = Rotation => mark[o] \notin Waits
  /\ LeaseLapses(o, kind)
  /\ UNCHANGED custodyVars

\* A lease passes, or the deadline of a wait.  Only the one process of this module
\* could act on the lease of what it executes, and it does not while it does so.
LapseOf(o, kind) ==
  /\ <<o, kind>> \notin work
  /\ LeaseLapses(o, kind)
  /\ UNCHANGED custodyVars

Quarantine == Idle /\ RecoverExpiredLeases /\ UNCHANGED custodyVars

OtherKind == LifecycleKind \ {Rotation, "SEND_CREDENTIALS"}

\* The rest of what the process does: of lots, sessions and codes only the rows.
OtherStep ==
  /\ Idle
  /\ \/ \E o \in Orders, a \in Accounts : AcceptOrder(o, a)
     \/ \E o \in Orders : BlockOrder(o) \/ PrepareRevoke(o) \/ SecurityEvent(o)
     \/ \E o \in Orders, kind \in OtherKind :
          OperationStep(o, kind)
     \/ \E due \in SUBSET Orders : ExpireDue(due)
     \/ \E e \in OtpRequests, o \in Orders : SeeActiveRental(e, o)
     \/ \E e \in OtpRequests : OtpStep(e)
     \/ Reconcile
  /\ UNCHANGED custodyVars

CustodyNext ==
  \/ \E o \in Orders :
       \/ ClaimRotation(o) \/ ResumeRotation(o) \/ RecoverRotation(o)
       \/ RotationStep(o)
       \/ MailArrives(o)
       \/ ClaimSend(o) \/ SendStepOf(o) \/ RecoverReceipt(o)
       \/ \E kind \in {Rotation, "SEND_CREDENTIALS"} : LapseOf(o, kind)
  \/ Kill \/ Abandon \/ Start
  \/ Quarantine
  \/ OtherStep

CustodySpec == CustodyInit /\ [][CustodyNext]_<<vars, custodyVars>>

\* What brings a rental further: its next operation is claimed, it comes to
\* its end, or one that was claimed is over, if only by its lease.
Advance(o) ==
  \/ ClaimRotation(o)
  \/ ClaimSend(o)
  \/ \E kind \in {Rotation, "SEND_CREDENTIALS"} : LapseOf(o, kind)
  \/ /\ Idle
     /\ \/ \E due \in SUBSET Orders : o \in due /\ ExpireDue(due)
        \/ \E kind \in OtherKind :
             \/ ClaimOperation(o, kind)
             \/ Complete(o, kind)
             \/ FailOperation(o, kind)
             \/ LeaseLapses(o, kind)
     /\ UNCHANGED custodyVars

\* What the scheduling of the bot guarantees when FunPay is READY: a process
\* goes on and is started again, each cycle claims what is pending, expires
\* what is due and quarantines what has lapsed, and leases and the deadlines
\* of waits pass.  Strong fairness, as the process is busy with other work in
\* between; that anything succeeds is not assumed.
CustodyFairness ==
  /\ WF_<<vars, custodyVars>>(Start)
  /\ SF_<<vars, custodyVars>>(Quarantine)
  /\ \A o \in Orders :
       /\ WF_<<vars, custodyVars>>(RotationStep(o) \/ SendStepOf(o))
       /\ SF_<<vars, custodyVars>>(Advance(o))

FairCustodySpec == CustodySpec /\ CustodyFairness

-----------------------------------------------------------------------------
\* Properties.

\* Whatever step of a rotation a process dies in, the vault has the password
\* that is in force: as the current or as the pending one (rotate generates
\* no new pending password while there is one, promote_pending_credentials
\* writes before it deletes).
VaultKnowsPassword ==
  \A a \in Accounts : remote[a] \in {current[a], pending[a]}

\* A rental runs only when its buyer was sent the password that is in force,
\* also when only the receipt found by a later start says so.
BuyerHoldsTheKey ==
  \A o \in Orders :
    rental[o] \in {"ACTIVE", "EXPIRING", "SECURITY_TERMINATED", "REVOKING"}
    => told[o] = remote[rentedAccount[o]]

\* Once an account is back, nobody who had it before was sent the password in
\* force, nothing is left to be promoted, and no two buyers were ever sent the
\* same password.
FormerBuyersLockedOut ==
  \A o \in Orders :
    LET a == rentedAccount[o]
    IN  rental[o] # "NONE" =>
          /\ account[a] \in {"AVAILABLE_OFFLINE", "AVAILABLE"} =>
               told[o] # remote[a] /\ remote[a] = current[a] /\ pending[a] = 0
          /\ \A p \in Orders : /\ rentedAccount[p] = a
                               /\ told[p] = told[o] /\ told[o] # 0
                               => p = o

\* "A persisted intent without a confirmed email is deliberately not retried"
\* (rotate): Pixel Storm is asked for a change at most once in a rotation.
RequestedOnce == \A o \in Orders : requests[o] <= 1

\* The promise of ExclusiveRental, kept by the password itself: it changes
\* when the promise says that the generation does, and to a new one.
PasswordPromise == INSTANCE ExclusiveRental WITH
  phase <- [o \in Orders |-> ServicePhase(o)],
  leased <- rentedAccount,
  given <- rentalVersion,
  secret <- remote

KeepsPasswordPromise == PasswordPromise!Spec

\* Every accepted order ends, if the process is not killed for ever: no step a
\* process may die in, no lost mail and no wait that nobody may resume keeps
\* an account from being for rent again or under review.
EveryRentalEnds == <>[][~Kill]_<<vars, custodyVars>> => RentalEnds

=============================================================================
