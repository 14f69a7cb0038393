----------------------------- MODULE EmailPipeline -----------------------------
(***************************************************************************)
(* The e-mails of one account from Gmail to whoever may use what is in     *)
(* them: GmailWatcher stores the secret part in the encrypted store and    *)
(* then the classified event in the database; OTPService,                  *)
(* PixelStormMaintenanceOtpService and PasswordRotator claim an event and  *)
(* take its secret out once; EmailEventDispatcher brings security mail to  *)
(* SecurityMonitor.                                                        *)
(*                                                                         *)
(* A mail's time is only compared with the start of the rental and with    *)
(* the bot's own requests, so it is kept as the set of those the mail can  *)
(* be an answer to.  These are dated with the `now` of the cycle that      *)
(* makes them, so mail of that cycle counts as later though it came before *)
(* them.  One process, the holder of the instance lock, moves the account, *)
(* cycle by cycle; the workers that see, claim and dispatch mail overlap   *)
(* freely.                                                                 *)
(*                                                                         *)
(* A claim token is named by the worker that made it: claims of a secret   *)
(* are never given back, and those of security mail are forgotten with the *)
(* dispatch.  Operations on the store are atomic, but for put, which a     *)
(* crash can cut in two.                                                   *)
(***************************************************************************)
EXTENDS Naturals

CONSTANTS
  Workers,        \* runtimes that share the database and the store
  NoWorker,       \* a token column that is NULL
  Mails,          \* Gmail message ids
  NoMail,
  MaxRentals      \* bound: how often the account is rented

ASSUME MailAssumption ==
  /\ NoWorker \notin Workers /\ NoMail \notin Mails
  /\ MaxRentals \in Nat

VARIABLES
  phase,          \* of the account: its rental, then the two security operations
  rental,         \* the number of its current or last rental
  asked,          \* what the running operation has asked the site for
  turned,         \* this cycle has begun the rental or ended its rotation
  recent,         \* the mails that came since the cycle began
  type,           \* what each mail is classified as, None before it comes
  heard,          \* history: phase and rental in which it came
  since,          \* what each mail answers: it is not older, nor too late
  state,          \* payload_state of each event, NONE without a row
  claimedBy,      \* claimed_by of each event, No while it is unclaimed
  token,          \* claim_token
  correlation,    \* correlation_operation_id: the rental of the rotation, or 0
  security,       \* security_processing_state
  secToken,       \* security_claim_token
  aged,           \* the events whose security_claimed_at is 30 s ago
  payload,        \* the events whose secret is in the store
  expired,        \* those among them whose expiry is past
  orphans,        \* secrets in the store that no event names
  step,           \* what each worker is doing
  on,             \* the mail it is doing it with
  answer,         \* what it has read: a correlation, a secret
  secClaims,      \* security events it has claimed and not dispatched
  given,          \* history: who got the secret of which mail
  takes,          \* history: how often the secret of a mail was handed out
  alerts          \* audit_events of EMAIL_SECURITY_ALERT: mail and rental

account == <<phase, rental, asked, turned>>
gmail == <<recent, type, heard, since>>
events == <<state, claimedBy, token, correlation>>
secured == <<security, secToken, aged>>
store == <<payload, expired, orphans>>
local == <<step, on, answer, secClaims>>
history == <<given, takes>>
vars == <<account, gmail, events, secured, store, local, history, alerts>>

Rentals == 1..MaxRentals
Milestones == {"rental", "login", "password"}
Readers == {"otp", "pixelstorm_maintenance", "password_rotator"}
Phases == {"Free", "Rented", "Revoking", "Rotating"}

\* Mail is told apart further that came in the cycle in which the rental began,
\* but before it did, and in the one in which it ended, but before.
HeardPhases == Phases \cup {"Starting", "Ending"}
Secretive(m) == type[m] \in {"LOGIN_OTP", "PASSWORD_CHANGE"}

TypeOK ==
  /\ phase \in Phases
  /\ rental \in 0..MaxRentals
  /\ asked \subseteq {"login", "password"}
  /\ turned \in BOOLEAN /\ recent \subseteq Mails
  /\ type \in [Mails -> {"None", "LOGIN_OTP", "PASSWORD_CHANGE", "UNKNOWN"}]
  /\ heard \in [Mails -> [phase : HeardPhases, rental : 0..MaxRentals]]
  /\ since \in [Mails -> SUBSET Milestones]
  /\ state \in [Mails -> {"NONE", "AVAILABLE", "CONSUMED", "UNUSABLE_EXPIRED"}]
  /\ claimedBy \in [Mails -> Readers \cup {"No"}]
  /\ token \in [Mails -> Workers \cup {NoWorker}]
  /\ correlation \in [Mails -> 0..MaxRentals]
  /\ security \in [Mails -> {"NONE", "NOT_REQUIRED", "PENDING", "CLAIMED", "PROCESSED"}]
  /\ secToken \in [Mails -> Workers \cup {NoWorker}]
  /\ aged \subseteq Mails
  /\ payload \subseteq Mails /\ expired \subseteq payload
  /\ orphans \subseteq {"WithoutExpiry", "Fresh", "Expired"}
  /\ step \in [Workers -> {"Idle", "Store", "Consume", "Deliver",
                           "Close", "Dispatch", "MarkSecurity"}]
  /\ on \in [Workers -> Mails \cup {NoMail}]
  /\ answer \in [Workers -> Nat]
  /\ secClaims \in [Workers -> SUBSET Mails]
  /\ given \subseteq [mail : Mails, reader : Readers, rental : Rentals]
  /\ takes \in [Mails -> Nat]
  /\ alerts \subseteq [mail : Mails, rental : Rentals]

Init ==
  /\ phase = "Free" /\ rental = 0 /\ asked = {} /\ turned = FALSE /\ recent = {}
  /\ type = [m \in Mails |-> "None"]
  /\ heard = [m \in Mails |-> [phase |-> "Free", rental |-> 0]]
  /\ since = [m \in Mails |-> {}]
  /\ state = [m \in Mails |-> "NONE"]
  /\ claimedBy = [m \in Mails |-> "No"]
  /\ token = [m \in Mails |-> NoWorker]
  /\ correlation = [m \in Mails |-> 0]
  /\ security = [m \in Mails |-> "NONE"]
  /\ secToken = [m \in Mails |-> NoWorker] /\ aged = {}
  /\ payload = {} /\ expired = {} /\ orphans = {}
  /\ step = [w \in Workers |-> "Idle"]
  /\ on = [w \in Workers |-> NoMail]
  /\ answer = [w \in Workers |-> 0]
  /\ secClaims = [w \in Workers |-> {}]
  /\ given = {} /\ takes = [m \in Mails |-> 0] /\ alerts = {}

-----------------------------------------------------------------------------
\* The account, Gmail and time.

\* run_once is called with the time at which it is: what a cycle writes down
\* as the time of its steps.  So is the recovery of a start.
BeginCycle ==
  /\ recent # {} \/ turned
  /\ recent' = {} /\ turned' = FALSE
  /\ UNCHANGED <<phase, rental, asked, type, heard, since, events, secured, store,
                 local, history, alerts>>

\* SEND_CREDENTIALS completes, and what came since the cycle began is not older
\* than started_at.  An order is accepted (dispatch_pending) before the
\* operations of a cycle run, so not in the cycle that ends a rotation.
StartRental ==
  /\ phase = "Free" /\ rental < MaxRentals /\ ~turned
  /\ phase' = "Rented" /\ rental' = rental + 1 /\ asked' = {} /\ turned' = TRUE
  /\ since' = [m \in Mails |-> IF m \in recent THEN {"rental"} ELSE {}]
  /\ heard' = [m \in Mails |->
                 IF m \in recent /\ heard[m].phase = "Free"
                 THEN [phase |-> "Starting", rental |-> rental + 1] ELSE heard[m]]
  /\ UNCHANGED <<recent, type, events, secured, store, local, history, alerts>>

\* A rental ends before the operations of the cycle, so not in the cycle that
\* began it.
EndOfRental ==
  /\ phase = "Rented" /\ ~turned
  /\ phase' = "Revoking" /\ asked' = {}
  /\ heard' = [m \in Mails |->
                 IF m \in recent /\ heard[m].phase = "Rented"
                 THEN [heard[m] EXCEPT !.phase = "Ending"] ELSE heard[m]]
  /\ UNCHANGED <<rental, turned, recent, type, since>>

ExpireRental ==
  /\ EndOfRental
  /\ UNCHANGED <<events, secured, store, local, history, alerts>>

\* REVOKE_SESSIONS and ROTATE_PASSWORD each make their own requests.
NextOperation ==
  /\ phase \in {"Revoking", "Rotating"}
  /\ phase' = IF phase = "Revoking" THEN "Rotating" ELSE "Free"
  /\ turned' = (turned \/ phase = "Rotating")
  /\ asked' = {} /\ since' = [m \in Mails |-> since[m] \ {"login", "password"}]
  /\ UNCHANGED <<rental, recent, type, heard, events, secured, store, local, history,
                 alerts>>

\* A request is dated at the start of the cycle: what came since then may be
\* taken for its answer (and, after very long cycles, for too late).
Requested(request) ==
  /\ asked' = asked \cup {request}
  /\ \E timely \in SUBSET recent :
       since' = [m \in Mails |-> IF m \in timely THEN since[m] \cup {request}
                                 ELSE since[m] \ {request}]

\* Each login asks for a code of its own.
RequestLogin ==
  /\ phase \in {"Revoking", "Rotating"}
  /\ Requested("login")
  /\ UNCHANGED <<phase, rental, turned, recent, type, heard, events, secured, store,
                 local, history, alerts>>

\* The reset is asked for once in an operation.
RequestPassword ==
  /\ phase = "Rotating" /\ "password" \notin asked
  /\ Requested("password")
  /\ UNCHANGED <<phase, rental, turned, recent, type, heard, events, secured, store,
                 local, history, alerts>>

\* Any of the requests it follows may be within the correlation window.
Arrive(m) ==
  /\ type[m] = "None"
  /\ type' \in {[type EXCEPT ![m] = t] : t \in {"LOGIN_OTP", "PASSWORD_CHANGE", "UNKNOWN"}}
  /\ heard' = [heard EXCEPT ![m] = [phase |-> phase, rental |-> rental]]
  /\ \E requests \in SUBSET asked :
       since' = [since EXCEPT ![m] = {"rental"} \cup requests]
  /\ recent' = recent \cup {m}
  /\ UNCHANGED <<account, events, secured, store, local, history, alerts>>

SecretExpires ==
  /\ \/ /\ \E m \in payload \ expired : expired' = expired \cup {m}
        /\ UNCHANGED orphans
     \/ /\ "Fresh" \in orphans
        /\ orphans' = (orphans \ {"Fresh"}) \cup {"Expired"}
        /\ UNCHANGED expired
  /\ UNCHANGED <<account, gmail, events, secured, payload, local, history, alerts>>

\* Mutant of Purge: the payload is deleted, its expiry entry stays.
PurgePayloads ==
  /\ expired # {} \/ "Expired" \in orphans
  /\ payload' = payload \ expired /\ UNCHANGED <<expired, orphans>>
  /\ UNCHANGED <<account, gmail, events, secured, local, history, alerts>>

\* purge_expired goes by the expiry entries of the store.
Purge ==
  /\ expired # {} \/ "Expired" \in orphans
  /\ payload' = payload \ expired /\ expired' = {}
  /\ orphans' = orphans \ {"Expired"}
  /\ UNCHANGED <<account, gmail, events, secured, local, history, alerts>>

ClaimAges(m) ==
  /\ security[m] = "CLAIMED" /\ m \notin aged
  /\ aged' = aged \cup {m}
  /\ UNCHANGED <<account, gmail, events, security, secToken, store, local, history,
                 alerts>>

-----------------------------------------------------------------------------
\* GmailWatcher.

Goto(w, label) == step' = [step EXCEPT ![w] = label]

Forget(w) ==
  /\ Goto(w, "Idle")
  /\ on' = [on EXCEPT ![w] = NoMail]
  /\ answer' = [answer EXCEPT ![w] = 0]

\* expected_rotation_operation, read before the event is stored.
ExpectedRotation(m) ==
  IF type[m] = "PASSWORD_CHANGE" /\ phase = "Rotating" /\ "password" \in since[m]
  THEN rental ELSE 0

\* A message is seen again and again while it is newer than last_poll_at: the
\* event id is new each time, and so is the secret put under it.
SeeMessage(w, m) ==
  /\ step[w] = "Idle" /\ type[m] # "None"
  /\ Goto(w, "Store")
  /\ on' = [on EXCEPT ![w] = m]
  /\ answer' = [answer EXCEPT ![w] = ExpectedRotation(m)]
  /\ UNCHANGED <<account, gmail, events, secured, store, secClaims, history, alerts>>

StoreEvent(w) ==
  /\ step[w] = "Store"
  /\ LET m == on[w] IN
       /\ state[m] = "NONE"
       /\ state' = [state EXCEPT ![m] =
                      IF Secretive(m) THEN "AVAILABLE" ELSE "UNUSABLE_EXPIRED"]
       /\ correlation' = [correlation EXCEPT ![m] = answer[w]]
       /\ security' = [security EXCEPT ![m] =
                         IF type[m] = "LOGIN_OTP" THEN "NOT_REQUIRED" ELSE "PENDING"]
       /\ payload' = IF Secretive(m) THEN payload \cup {m} ELSE payload
  /\ Forget(w)
  /\ UNCHANGED <<account, gmail, claimedBy, token, secToken, aged, expired, orphans,
                 secClaims, history, alerts>>

\* The ledger or the event's unique message id refuses a second event: what
\* was put for it is discarded.
RefuseEvent(w) ==
  /\ step[w] = "Store" /\ state[on[w]] # "NONE"
  /\ Forget(w)
  /\ UNCHANGED <<account, gmail, events, secured, store, secClaims, history, alerts>>

-----------------------------------------------------------------------------
\* The readers of secrets.

\* Mutant of Readable: a buyer's code is not checked against the rental's start.
ReadableWhenever(m, reader) ==
  CASE reader = "otp" -> type[m] = "LOGIN_OTP" /\ phase = "Rented"
    [] reader = "pixelstorm_maintenance" ->
         type[m] = "LOGIN_OTP" /\ phase \in {"Revoking", "Rotating"} /\ "login" \in since[m]
    [] reader = "password_rotator" ->
         type[m] = "PASSWORD_CHANGE" /\ phase = "Rotating" /\ correlation[m] = rental

\* What each reader's query selects: for a login of the bot's, mail up to the
\* `now` of the cycle only.  Which one of several is the oldest, and the
\* look-back before a buyer's request, are left open.
Readable(m, reader) ==
  CASE reader = "otp" ->
         type[m] = "LOGIN_OTP" /\ phase = "Rented" /\ "rental" \in since[m]
    [] reader = "pixelstorm_maintenance" ->
         /\ type[m] = "LOGIN_OTP" /\ phase \in {"Revoking", "Rotating"}
         /\ "login" \in since[m] /\ m \notin recent
    [] reader = "password_rotator" ->
         /\ type[m] = "PASSWORD_CHANGE" /\ phase = "Rotating" /\ "password" \in asked
         /\ correlation[m] = rental

\* Mutant of Claim: an event that has a claim token is claimed again.
ClaimAgain(w, m, reader) ==
  /\ step[w] = "Idle" /\ state[m] = "AVAILABLE" /\ Readable(m, reader)
  /\ claimedBy' = [claimedBy EXCEPT ![m] = reader]
  /\ token' = [token EXCEPT ![m] = w]
  /\ Goto(w, "Consume")
  /\ on' = [on EXCEPT ![w] = m]
  /\ answer' = [answer EXCEPT ![w] = rental]
  /\ UNCHANGED <<account, gmail, state, correlation, secured, store, secClaims,
                 history, alerts>>

Claim(w, m, reader) ==
  /\ step[w] = "Idle" /\ state[m] = "AVAILABLE" /\ claimedBy[m] = "No"
  /\ Readable(m, reader)
  /\ claimedBy' = [claimedBy EXCEPT ![m] = reader]
  /\ token' = [token EXCEPT ![m] = w]
  /\ Goto(w, "Consume")
  /\ on' = [on EXCEPT ![w] = m]
  /\ answer' = [answer EXCEPT ![w] = rental]
  /\ UNCHANGED <<account, gmail, state, correlation, secured, store, secClaims,
                 history, alerts>>

\* Mutant of Consume: what is expired is left in the store.
ConsumeFresh(w) ==
  /\ step[w] = "Consume"
  /\ Goto(w, IF on[w] \in payload \ expired THEN "Deliver" ELSE "Close")
  /\ payload' = payload \ ({on[w]} \ expired) /\ UNCHANGED expired
  /\ UNCHANGED <<account, gmail, events, secured, orphans, on, answer, secClaims,
                 history, alerts>>

\* consume_once takes the secret out of the store, expired or not.
Consume(w) ==
  /\ step[w] = "Consume"
  /\ Goto(w, IF on[w] \in payload \ expired THEN "Deliver" ELSE "Close")
  /\ payload' = payload \ {on[w]} /\ expired' = expired \ {on[w]}
  /\ UNCHANGED <<account, gmail, events, secured, orphans, on, answer, secClaims,
                 history, alerts>>

\* mark_claim_consumed; then the secret is returned to its reader.
Deliver(w) ==
  /\ step[w] = "Deliver"
  /\ LET m == on[w] IN
       /\ state' = [state EXCEPT ![m] = IF token[m] = w THEN "CONSUMED" ELSE @]
       /\ given' = given \cup {[mail |-> m, reader |-> claimedBy[m], rental |-> answer[w]]}
       /\ takes' = [takes EXCEPT ![m] = @ + 1]
  /\ Forget(w)
  /\ UNCHANGED <<account, gmail, claimedBy, token, correlation, secured, store,
                 secClaims, alerts>>

\* mark_claim_unusable.
Close(w) ==
  /\ step[w] = "Close"
  /\ LET m == on[w] IN
       state' = [state EXCEPT ![m] = IF token[m] = w THEN "UNUSABLE_EXPIRED" ELSE @]
  /\ Forget(w)
  /\ UNCHANGED <<account, gmail, claimedBy, token, correlation, secured, store,
                 secClaims, history, alerts>>

-----------------------------------------------------------------------------
\* Security mail.

SecurityClaimable(m) ==
  /\ type[m] # "LOGIN_OTP"
  /\ security[m] = "PENDING" \/ (security[m] = "CLAIMED" /\ m \in aged)

\* Mutant of ClaimSecurityEvents: what is claimed is taken for handled.
ClaimAndMark(w) ==
  /\ step[w] = "Idle"
  /\ LET claimed == {m \in Mails : SecurityClaimable(m)} IN
       /\ claimed # {}
       /\ secClaims' = [secClaims EXCEPT ![w] = claimed]
       /\ security' = [m \in Mails |-> IF m \in claimed THEN "PROCESSED" ELSE security[m]]
       /\ secToken' = [m \in Mails |-> IF m \in claimed THEN w ELSE secToken[m]]
       /\ aged' = aged \ claimed
  /\ Goto(w, "Dispatch")
  /\ UNCHANGED <<account, gmail, events, store, on, answer, history, alerts>>

\* One transaction claims all that is claimable.
ClaimSecurityEvents(w) ==
  /\ step[w] = "Idle"
  /\ LET claimed == {m \in Mails : SecurityClaimable(m)} IN
       /\ claimed # {}
       /\ secClaims' = [secClaims EXCEPT ![w] = claimed]
       /\ security' = [m \in Mails |-> IF m \in claimed THEN "CLAIMED" ELSE security[m]]
       /\ secToken' = [m \in Mails |-> IF m \in claimed THEN w ELSE secToken[m]]
       /\ aged' = aged \ claimed
  /\ Goto(w, "Dispatch")
  /\ UNCHANGED <<account, gmail, events, store, on, answer, history, alerts>>

Handled(w, m) ==
  /\ Goto(w, "MarkSecurity")
  /\ on' = [on EXCEPT ![w] = m]
  /\ UNCHANGED <<events, secured, store, answer, secClaims, history>>

Uncorrelated(m) == type[m] # "PASSWORD_CHANGE" \/ correlation[m] = 0

\* The bot's own reset mail, and mail while nobody rents the account.
PassOver(w, m) ==
  /\ step[w] = "Dispatch" /\ m \in secClaims[w]
  /\ Uncorrelated(m) => phase # "Rented"
  /\ Handled(w, m)
  /\ UNCHANGED <<account, gmail, alerts>>

\* record_active_security_event; the audit row is unique for a message.
Alert(w, m) ==
  /\ step[w] = "Dispatch" /\ m \in secClaims[w]
  /\ Uncorrelated(m) /\ EndOfRental
  /\ \A a \in alerts : a.mail # m
  /\ alerts' = alerts \cup {[mail |-> m, rental |-> rental]}
  /\ Handled(w, m)

\* mark_security_processed.
MarkSecurity(w) ==
  /\ step[w] = "MarkSecurity"
  /\ LET m == on[w]
         rest == secClaims[w] \ {m} IN
       /\ security' = [security EXCEPT ![m] =
                         IF @ = "CLAIMED" /\ secToken[m] = w THEN "PROCESSED" ELSE @]
       /\ secClaims' = [secClaims EXCEPT ![w] = rest]
       /\ Goto(w, IF rest = {} THEN "Idle" ELSE "Dispatch")
  /\ on' = [on EXCEPT ![w] = NoMail]
  /\ UNCHANGED <<account, gmail, events, secToken, aged, store, answer, history, alerts>>

-----------------------------------------------------------------------------
\* An exception (an audit row that is there already is one) and a crash lose
\* what the worker knows.  What it has put in the store stays, and the payload
\* is there before its expiry is.
Stop(w) ==
  /\ step[w] # "Idle" /\ Forget(w)
  /\ secClaims' = [secClaims EXCEPT ![w] = {}]
  /\ IF step[w] = "Store" /\ Secretive(on[w])
     THEN \E left \in {{}, {"WithoutExpiry"}, {"Fresh"}} : orphans' = orphans \cup left
     ELSE UNCHANGED orphans
  /\ UNCHANGED <<account, gmail, events, secured, payload, expired, history, alerts>>

Next ==
  \/ BeginCycle
  \/ StartRental
  \/ ExpireRental
  \/ NextOperation
  \/ RequestLogin
  \/ RequestPassword
  \/ \E m \in Mails : Arrive(m) \/ ClaimAges(m)
  \/ SecretExpires
  \/ Purge
  \/ \E w \in Workers :
       \/ \E m \in Mails : \/ SeeMessage(w, m)
                           \/ \E reader \in Readers : Claim(w, m, reader)
                           \/ PassOver(w, m)
                           \/ Alert(w, m)
       \/ StoreEvent(w)
       \/ RefuseEvent(w)
       \/ Consume(w)
       \/ Deliver(w)
       \/ Close(w)
       \/ ClaimSecurityEvents(w)
       \/ MarkSecurity(w)
       \/ Stop(w)

Spec == Init /\ [][Next]_vars

-----------------------------------------------------------------------------
\* Properties.

\* The secret of a mail is handed out at most once, and never when its event
\* was closed as unusable: two readers of one mail, copies of a message and
\* crashes between claim, store and mark included (OTPService, PasswordRotator,
\* PixelStormMaintenanceOtpService).
SecretHandedOutOnce ==
  \A m \in Mails :
    takes[m] <= IF state[m] = "UNUSABLE_EXPIRED" THEN 0 ELSE 1

\* A secret goes to the party it was mailed for, or came in the cycle in which
\* the account changed hands: a buyer's code came during his own rental or in
\* the cycle that began it, after the password was changed; the bot's code and
\* reset link in the security operations of the same rental or in the cycle that
\* ended it.  No code of a former buyer leaks, and none of maintenance to a buyer.
HandedToItsParty ==
  \A g \in given :
    /\ heard[g.mail].rental = g.rental
    /\ heard[g.mail].phase \in IF g.reader = "otp"
                               THEN {"Starting", "Rented", "Ending"}
                               ELSE {"Ending", "Revoking", "Rotating"}

\* A closed event has no secret left in the store (doc: the value is removed
\* after use, final refusal or expiry).
ClosedHasNoSecret ==
  \A m \in payload : state[m] = "AVAILABLE"

\* A security mail that came during a rental is not marked as processed before
\* that rental is over: whatever its handling dies of, and however often its
\* claim is lost, it is not forgotten while the buyer goes on
\* (EmailEventDispatcher, SecurityMonitor).
Over(m) ==
  heard[m].phase = "Rented" => rental # heard[m].rental \/ phase # "Rented"

SecurityMailIsNotLost ==
  \A m \in Mails : security[m] = "PROCESSED" => Over(m)

=============================================================================
