------------------------- MODULE EmailPipelineProofs -------------------------
(***************************************************************************)
(* Proofs about EmailPipeline, for any number of runtimes, mails and       *)
(* rentals.                                                                *)
(***************************************************************************)
EXTENDS EmailPipeline, TLAPS

\* The bot works on the account, or is about to in the cycle of the mail.
Maintenance == {"Ending", "Revoking", "Rotating"}

\* Who a secret may go to, by when its mail came.
Addressed(m, reader, r) ==
  /\ heard[m].rental = r
  /\ heard[m].phase \in IF reader = "otp" THEN {"Starting", "Rented", "Ending"}
                        ELSE Maintenance

\* Only an account that is rented has rentals, and only the operation that is
\* running has requests.
AccountAgrees ==
  /\ phase # "Free" => rental \in Rentals
  /\ "login" \in asked => phase \in {"Revoking", "Rotating"}
  /\ "password" \in asked => phase = "Rotating"

\* What a mail answers says when it came.
SinceAgrees ==
  \A m \in Mails :
    /\ heard[m].rental <= rental
    /\ "rental" \in since[m] =>
         /\ heard[m].rental = rental
         /\ phase = "Rented" => heard[m].phase \in {"Starting", "Rented"}
    /\ "login" \in since[m] => Addressed(m, "pixelstorm_maintenance", rental)
    /\ "password" \in since[m] => Addressed(m, "password_rotator", rental)

\* Mail of the running cycle came in this state of the account, or in the one
\* that the cycle has ended.
RecentAgrees ==
  \A m \in recent :
    /\ type[m] # "None" /\ heard[m].rental = rental
    /\ phase = "Free" /\ ~turned => heard[m].phase = "Free"
    /\ phase = "Rented" =>
         heard[m].phase \in IF turned THEN {"Starting", "Rented"} ELSE {"Rented"}
    /\ phase \in {"Revoking", "Rotating"} => heard[m].phase \in Maintenance

\* Only a reset mail of the rotation of a rental is correlated with it, and no
\* security mail counts as handled while its buyer goes on.
EventAgrees ==
  \A m \in Mails :
    /\ correlation[m] # 0 =>
         type[m] # "None" /\ Addressed(m, "password_rotator", correlation[m])
    /\ security[m] # "NONE" => type[m] # "None"
    /\ security[m] = "PROCESSED" => Over(m)
    /\ takes[m] \in {0, 1}
    /\ takes[m] = 1 => state[m] = "CONSUMED"

Reading == {"Consume", "Deliver", "Close"}

\* A worker that reads a secret is the one that has claimed it, for the party
\* it was mailed for, and the event is not closed before it has done so.
WorkerAgrees(w) ==
  LET m == on[w]
  IN  /\ step[w] \in Reading \cup {"Store", "MarkSecurity"} => m \in Mails
      /\ step[w] = "Store" =>
           /\ type[m] # "None" /\ answer[w] \in 0..MaxRentals
           /\ answer[w] # 0 => Addressed(m, "password_rotator", answer[w])
      /\ step[w] \in Reading =>
           /\ type[m] # "None" /\ state[m] = "AVAILABLE"
           /\ token[m] = w /\ claimedBy[m] \in Readers
           /\ answer[w] \in Rentals /\ Addressed(m, claimedBy[m], answer[w])
      /\ step[w] \in {"Deliver", "Close"} => m \notin payload
      /\ step[w] = "MarkSecurity" => type[m] # "None" /\ Over(m)
      /\ \A n \in secClaims[w] : type[n] # "None"

WorkersAgree == \A w \in Workers : WorkerAgrees(w)

\* What was handed out went to whom it was mailed for.
GivenAgrees ==
  \A g \in given : type[g.mail] # "None" /\ Addressed(g.mail, g.reader, g.rental)

\* The inductive invariant.
MInv ==
  /\ TypeOK
  /\ AccountAgrees
  /\ SinceAgrees
  /\ RecentAgrees
  /\ EventAgrees
  /\ WorkersAgree
  /\ GivenAgrees
  /\ ClosedHasNoSecret

-----------------------------------------------------------------------------
\* An empty mailbox and an empty store satisfy the invariant.
LEMMA MailInit == Init => MInv
<1> SUFFICES ASSUME Init PROVE MInv
  OBVIOUS
<1> USE MailAssumption
<1>1. TypeOK
  <2>1. [phase |-> "Free", rental |-> 0] \in [phase : HeardPhases, rental : 0..MaxRentals]
    BY DEF HeardPhases, Phases
  <2>2. heard \in [Mails -> [phase : HeardPhases, rental : 0..MaxRentals]]
    BY <2>1 DEF Init
  <2>3. /\ phase \in Phases /\ rental \in 0..MaxRentals
        /\ asked \subseteq {"login", "password"} /\ recent \subseteq Mails
    BY DEF Init, Phases
  <2>4. turned \in BOOLEAN
    BY DEF Init
  <2>5. type \in [Mails -> {"None", "LOGIN_OTP", "PASSWORD_CHANGE", "UNKNOWN"}]
    BY DEF Init
  <2>6. since \in [Mails -> SUBSET Milestones]
    BY DEF Init
  <2>7. correlation \in [Mails -> 0..MaxRentals] /\ answer \in [Workers -> Nat]
        /\ takes \in [Mails -> Nat]
    BY DEF Init
  <2> QED BY <2>2, <2>3, <2>4, <2>5, <2>6, <2>7 DEF Init, TypeOK
<1>2. AccountAgrees /\ SinceAgrees /\ RecentAgrees /\ EventAgrees /\ GivenAgrees
  BY DEF Init, AccountAgrees, SinceAgrees, RecentAgrees, EventAgrees, GivenAgrees
<1>3. WorkersAgree
  BY DEF Init, WorkersAgree, WorkerAgrees, Reading
<1>4. ClosedHasNoSecret
  BY DEF Init, ClosedHasNoSecret
<1> QED BY <1>1, <1>2, <1>3, <1>4 DEF MInv

\* The variables of the account and of Gmail.
MailTyped ==
  /\ phase \in Phases /\ rental \in 0..MaxRentals
  /\ asked \subseteq {"login", "password"} /\ turned \in BOOLEAN
  /\ recent \subseteq Mails
  /\ type \in [Mails -> {"None", "LOGIN_OTP", "PASSWORD_CHANGE", "UNKNOWN"}]
  /\ heard \in [Mails -> [phase : HeardPhases, rental : 0..MaxRentals]]
  /\ since \in [Mails -> SUBSET Milestones]

MailAgrees == MailTyped /\ AccountAgrees /\ SinceAgrees /\ RecentAgrees

\* The invariant's part about them.
LEMMA MailOfInv == MInv => MailAgrees
BY DEF MInv, TypeOK, MailAgrees, MailTyped

\* What is said of a mail that has come stays true of it.
MailsKept ==
  \A m \in Mails :
    type[m] # "None" =>
      /\ type'[m] # "None"
      /\ \A reader \in Readers, r \in Rentals :
           Addressed(m, reader, r) => Addressed(m, reader, r)'
      /\ Over(m) => Over(m)'

\* So it does while nothing of the mails and the rental changes.
LEMMA StillMails ==
  ASSUME UNCHANGED <<phase, rental, type, heard>>
  PROVE  MailsKept
BY DEF MailsKept, Addressed, Over

\* A rental begins: the mail of its first cycle, and only that, is taken for
\* the buyer's.
LEMMA StartMoves ==
  ASSUME MailAgrees, StartRental
  PROVE  MailAgrees' /\ MailsKept
<1> USE MailAssumption
<1>1. MailTyped /\ AccountAgrees /\ SinceAgrees /\ RecentAgrees
  BY DEF MailAgrees
<1>2. /\ phase = "Free" /\ rental < MaxRentals /\ turned = FALSE
      /\ phase' = "Rented" /\ rental' = rental + 1 /\ asked' = {} /\ turned' = TRUE
      /\ recent' = recent /\ type' = type
  BY <1>1 DEF StartRental, MailTyped
<1>3. \A m \in Mails : since'[m] = IF m \in recent THEN {"rental"} ELSE {}
  BY DEF StartRental
<1>4. \A m \in Mails :
        heard'[m] = IF m \in recent /\ heard[m].phase = "Free"
                    THEN [phase |-> "Starting", rental |-> rental + 1] ELSE heard[m]
  BY DEF StartRental
<1>5. \A m \in recent :
        heard'[m].phase = "Starting" /\ heard'[m].rental = rental + 1 /\ type[m] # "None"
  BY <1>1, <1>2, <1>4 DEF RecentAgrees, MailTyped
<1>6. \A m \in Mails : m \notin recent => heard'[m] = heard[m]
  BY <1>4
<1>7. rental \in Nat /\ \A m \in Mails : heard[m].rental \in Nat /\ heard[m].rental <= rental
  BY <1>1 DEF MailTyped, SinceAgrees
<1>8. MailTyped'
  <2>1. heard' \in [Mails -> [phase : HeardPhases, rental : 0..MaxRentals]]
    <3>1. heard' = [m \in Mails |->
                      IF m \in recent /\ heard[m].phase = "Free"
                      THEN [phase |-> "Starting", rental |-> rental + 1] ELSE heard[m]]
      BY DEF StartRental
    <3>2. [phase |-> "Starting", rental |-> rental + 1]
            \in [phase : HeardPhases, rental : 0..MaxRentals]
      BY <1>2, <1>7 DEF HeardPhases
    <3> QED BY <1>1, <3>1, <3>2 DEF MailTyped
  <2>2. since' \in [Mails -> SUBSET Milestones]
    BY DEF StartRental, Milestones
  <2> QED BY <1>1, <1>2, <1>7, <2>1, <2>2 DEF MailTyped, Phases
<1>9. AccountAgrees'
  BY <1>2, <1>7 DEF AccountAgrees, Rentals
<1>10. SinceAgrees'
  BY <1>1, <1>2, <1>3, <1>5, <1>6, <1>7 DEF SinceAgrees, MailTyped
<1>11. RecentAgrees'
  BY <1>2, <1>5 DEF RecentAgrees
<1>12. MailsKept
  <2> SUFFICES ASSUME NEW m \in Mails, type[m] # "None"
               PROVE  /\ \A reader \in Readers, r \in Rentals :
                           Addressed(m, reader, r) => Addressed(m, reader, r)'
                      /\ Over(m)'
    BY <1>2 DEF MailsKept
  <2>1. CASE m \in recent
    <3>1. heard[m].phase = "Free"
      BY <1>1, <1>2, <2>1 DEF RecentAgrees
    <3> QED BY <1>5, <2>1, <3>1 DEF Addressed, Maintenance, Over
  <2>2. CASE m \notin recent
    BY <1>2, <1>6, <1>7, <2>2 DEF Addressed, Over
  <2> QED BY <2>1, <2>2
<1> QED BY <1>8, <1>9, <1>10, <1>11, <1>12 DEF MailAgrees

\* A rental ends: the buyer's mail of its last cycle is still the buyer's.
LEMMA EndMoves ==
  ASSUME MailAgrees, EndOfRental
  PROVE  MailAgrees' /\ MailsKept
<1> USE MailAssumption
<1>1. MailTyped /\ AccountAgrees /\ SinceAgrees /\ RecentAgrees
  BY DEF MailAgrees
<1>2. /\ phase = "Rented" /\ turned = FALSE /\ phase' = "Revoking" /\ asked' = {}
      /\ UNCHANGED <<rental, turned, recent, type, since>>
  BY <1>1 DEF EndOfRental, MailTyped
<1>3. \A m \in Mails :
        heard'[m] = IF m \in recent /\ heard[m].phase = "Rented"
                    THEN [heard[m] EXCEPT !.phase = "Ending"] ELSE heard[m]
  BY DEF EndOfRental
<1>4. \A m \in recent : heard[m].phase = "Rented" /\ type[m] # "None"
  BY <1>1, <1>2 DEF RecentAgrees
<1>5. heard \in [Mails -> [phase : HeardPhases, rental : 0..MaxRentals]]
  BY <1>1 DEF MailTyped
<1>6. \A m \in Mails : heard'[m].rental = heard[m].rental
  BY <1>3, <1>5
<1>7. \A m \in Mails :
        heard'[m].phase = IF m \in recent THEN "Ending" ELSE heard[m].phase
  BY <1>3, <1>4, <1>5
<1>8. MailTyped'
  <2>1. heard' \in [Mails -> [phase : HeardPhases, rental : 0..MaxRentals]]
    <3>1. heard' = [m \in Mails |->
                 IF m \in recent /\ heard[m].phase = "Rented"
                 THEN [heard[m] EXCEPT !.phase = "Ending"] ELSE heard[m]]
      BY DEF EndOfRental
    <3>2. \A m \in Mails : [heard[m] EXCEPT !.phase = "Ending"]
            \in [phase : HeardPhases, rental : 0..MaxRentals]
      BY <1>5 DEF HeardPhases
    <3> QED BY <1>5, <3>1, <3>2
  <2> QED BY <1>1, <1>2, <2>1 DEF MailTyped, Phases
<1>9. AccountAgrees'
  BY <1>1, <1>2 DEF AccountAgrees
<1>10. \A m \in Mails : since[m] \cap {"login", "password"} # {} => m \notin recent
  BY <1>1, <1>4 DEF SinceAgrees, Addressed, Maintenance
<1>11. SinceAgrees'
  BY <1>1, <1>2, <1>6, <1>7, <1>10 DEF SinceAgrees, Addressed
<1>12. RecentAgrees'
  BY <1>1, <1>2, <1>6, <1>7 DEF RecentAgrees, Maintenance, MailTyped
<1>13. MailsKept
  <2> SUFFICES ASSUME NEW m \in Mails, type[m] # "None"
               PROVE  /\ \A reader \in Readers, r \in Rentals :
                           Addressed(m, reader, r) => Addressed(m, reader, r)'
                      /\ Over(m) => Over(m)'
    BY <1>2 DEF MailsKept
  <2>1. CASE m \in recent
    BY <1>2, <1>4, <1>6, <1>7, <2>1 DEF Addressed, Maintenance, Over
  <2>2. CASE m \notin recent
    BY <1>2, <1>6, <1>7, <2>2 DEF Addressed, Over
  <2> QED BY <2>1, <2>2
<1> QED BY <1>8, <1>9, <1>11, <1>12, <1>13 DEF MailAgrees

\* The other steps of the account keep when its mails came.
LEMMA WorkMoves ==
  ASSUME MailAgrees, BeginCycle \/ NextOperation \/ RequestLogin \/ RequestPassword
  PROVE  MailAgrees' /\ MailsKept
<1> USE MailAssumption
<1>1. MailTyped /\ AccountAgrees /\ SinceAgrees /\ RecentAgrees
  BY DEF MailAgrees
<1>2. UNCHANGED <<type, heard, rental>>
  BY DEF BeginCycle, NextOperation, RequestLogin, RequestPassword
<1>3. CASE BeginCycle
  <2>1. recent' = {} /\ UNCHANGED <<phase, asked, since>> /\ turned' = FALSE
    BY <1>3 DEF BeginCycle
  <2>2. MailTyped' /\ RecentAgrees'
    BY <1>1, <1>2, <2>1 DEF MailTyped, RecentAgrees
  <2>3. AccountAgrees' /\ SinceAgrees'
    BY <1>1, <1>2, <2>1 DEF AccountAgrees, SinceAgrees, Addressed
  <2>4. MailsKept
    BY <1>2, <2>1, StillMails
  <2> QED BY <2>2, <2>3, <2>4 DEF MailAgrees
<1>4. CASE NextOperation
  <2>1. /\ phase \in {"Revoking", "Rotating"}
        /\ phase' = IF phase = "Revoking" THEN "Rotating" ELSE "Free"
        /\ turned' = (turned \/ phase = "Rotating") /\ asked' = {} /\ recent' = recent
        /\ since' = [m \in Mails |-> since[m] \ {"login", "password"}]
    BY <1>4 DEF NextOperation
  <2>2. MailTyped'
    BY <1>1, <1>2, <2>1 DEF MailTyped, Phases
  <2>3. AccountAgrees' /\ SinceAgrees'
    BY <1>1, <1>2, <2>1 DEF AccountAgrees, SinceAgrees
  <2>4. RecentAgrees'
    BY <1>1, <1>2, <2>1 DEF RecentAgrees
  <2>5. MailsKept
    BY <1>2, <2>1 DEF MailsKept, Addressed, Over
  <2> QED BY <2>2, <2>3, <2>4, <2>5 DEF MailAgrees
<1>5. ASSUME NEW request \in {"login", "password"}, Requested(request),
             phase \in {"Revoking", "Rotating"}, request = "password" => phase = "Rotating",
             UNCHANGED <<phase, turned, recent>>
      PROVE  MailAgrees' /\ MailsKept
  <2>1. asked' = asked \cup {request}
    BY <1>5 DEF Requested
  <2>2. PICK timely \in SUBSET recent :
          since' = [m \in Mails |-> IF m \in timely THEN since[m] \cup {request}
                                    ELSE since[m] \ {request}]
    BY <1>5 DEF Requested
  <2>3. MailTyped'
    BY <1>1, <1>2, <1>5, <2>1, <2>2 DEF MailTyped, Milestones
  <2>4. AccountAgrees'
    BY <1>1, <1>2, <1>5, <2>1 DEF AccountAgrees
  <2>5. RecentAgrees'
    BY <1>1, <1>2, <1>5 DEF RecentAgrees
  <2>6. \A m \in recent : /\ Addressed(m, "pixelstorm_maintenance", rental)
                          /\ Addressed(m, "password_rotator", rental)
    BY <1>1, <1>5 DEF RecentAgrees, Addressed
  <2>7. SinceAgrees'
    <3> SUFFICES ASSUME NEW m \in Mails
                 PROVE  /\ heard[m].rental <= rental
                        /\ "rental" \in since'[m] => heard[m].rental = rental
                        /\ "login" \in since'[m] =>
                             Addressed(m, "pixelstorm_maintenance", rental)
                        /\ "password" \in since'[m] =>
                             Addressed(m, "password_rotator", rental)
      BY <1>2, <1>5 DEF SinceAgrees, Addressed
    <3>1. since'[m] = IF m \in timely THEN since[m] \cup {request} ELSE since[m] \ {request}
      BY <2>2
    <3> QED BY <1>1, <1>5, <2>2, <2>6, <3>1 DEF SinceAgrees
  <2>8. MailsKept
    BY <1>2, <1>5, StillMails
  <2> QED BY <2>3, <2>4, <2>5, <2>7, <2>8 DEF MailAgrees
<1>6. CASE RequestLogin
  BY <1>5, <1>6 DEF RequestLogin
<1>7. CASE RequestPassword
  BY <1>5, <1>7 DEF RequestPassword
<1> QED BY <1>3, <1>4, <1>6, <1>7

\* What the workers know does not change with the account.
LEMMA AccountKeepsInv ==
  ASSUME MInv, BeginCycle \/ StartRental \/ ExpireRental \/ NextOperation
               \/ RequestLogin \/ RequestPassword
  PROVE  MInv'
<1> USE MailAssumption
<1>1. UNCHANGED <<type, events, secured, store, local, history, alerts>>
  BY DEF BeginCycle, StartRental, ExpireRental, EndOfRental, NextOperation,
     RequestLogin, RequestPassword
<1>2. UNCHANGED <<type, state, claimedBy, token, correlation, security,
                  secToken, aged, payload, expired, orphans, step, on, answer,
                  secClaims, given, takes, alerts>>
  BY <1>1 DEF events, secured, store, local, history
<1>3. MailAgrees' /\ MailsKept
  BY MailOfInv, StartMoves, EndMoves, WorkMoves DEF ExpireRental
<1>4. TypeOK /\ EventAgrees /\ WorkersAgree /\ GivenAgrees /\ ClosedHasNoSecret
  BY DEF MInv
<1>5. TypeOK'
  BY <1>2, <1>3, <1>4 DEF MailAgrees, MailTyped, TypeOK
<1>6. "password_rotator" \in Readers
  BY DEF Readers
<1>7. EventAgrees'
  <2>1. \A m \in Mails : correlation[m] # 0 => correlation[m] \in Rentals
    BY <1>4 DEF TypeOK, Rentals
  <2> QED BY <1>2, <1>3, <1>4, <1>6, <2>1 DEF EventAgrees, MailsKept
<1>8. WorkersAgree'
  <2> SUFFICES ASSUME NEW w \in Workers PROVE WorkerAgrees(w)'
    BY DEF WorkersAgree
  <2>1. WorkerAgrees(w)
    BY <1>4 DEF WorkersAgree
  <2>2. answer[w] \in 0..MaxRentals /\ answer[w] # 0 => answer[w] \in Rentals
    BY DEF Rentals
  <2>3. secClaims[w] \subseteq Mails
    BY <1>4 DEF TypeOK
  <2> QED BY <1>2, <1>3, <1>6, <2>1, <2>2, <2>3 DEF WorkerAgrees, MailsKept, Reading
<1>9. GivenAgrees'
  <2>1. given \subseteq [mail : Mails, reader : Readers, rental : Rentals]
    BY <1>4 DEF TypeOK
  <2> QED BY <1>2, <1>3, <1>4, <2>1 DEF GivenAgrees, MailsKept
<1>10. ClosedHasNoSecret'
  BY <1>2, <1>4 DEF ClosedHasNoSecret
<1> QED BY <1>3, <1>5, <1>7, <1>8, <1>9, <1>10 DEF MailAgrees, MInv

\* A mail that arrives answers the rental and the requests of that moment; it
\* has no event yet.
LEMMA ArriveKeepsInv ==
  ASSUME MInv, NEW m \in Mails, Arrive(m)
  PROVE  MInv'
<1> USE MailAssumption
<1>1. UNCHANGED <<phase, rental, asked, turned, state, claimedBy, token, correlation,
                  security, secToken, aged, payload, expired, orphans, step, on, answer,
                  secClaims, given, takes, alerts>>
  BY DEF Arrive, account, events, secured, store, local, history
<1>0. MailAgrees /\ MailTyped /\ AccountAgrees /\ SinceAgrees /\ RecentAgrees
  BY MailOfInv DEF MailAgrees
<1>3. /\ type[m] = "None" /\ heard' = [heard EXCEPT ![m] = [phase |-> phase, rental |-> rental]]
      /\ recent' = recent \cup {m}
  BY DEF Arrive
<1>2. MailTyped'
  <2>1. /\ type' \in [Mails -> {"None", "LOGIN_OTP", "PASSWORD_CHANGE", "UNKNOWN"}]
        /\ since' \in [Mails -> SUBSET Milestones]
    BY <1>0 DEF MailTyped, Arrive, Milestones
  <2>2. heard' \in [Mails -> [phase : HeardPhases, rental : 0..MaxRentals]]
    BY <1>0, <1>3 DEF MailTyped, HeardPhases
  <2> QED BY <1>0, <1>1, <1>3, <2>1, <2>2 DEF MailTyped
<1>4. \A n \in Mails : n # m => type'[n] = type[n] /\ heard'[n] = heard[n]
  BY <1>0 DEF MailTyped, Arrive
<1>12. /\ type'[m] # "None" /\ heard'[m] = [phase |-> phase, rental |-> rental]
  BY <1>0, <1>3 DEF MailTyped, Arrive
<1>13. MailsKept
  BY <1>1, <1>3, <1>4 DEF MailsKept, Addressed, Over
<1>5. TypeOK'
  BY <1>1, <1>2 DEF MInv, TypeOK, MailTyped
<1>6. AccountAgrees'
  BY <1>0, <1>1 DEF AccountAgrees
<1>7. SinceAgrees' /\ RecentAgrees'
  <2>1. PICK requests \in SUBSET asked :
          since' = [since EXCEPT ![m] = {"rental"} \cup requests]
    BY DEF Arrive
  <2>2. /\ since'[m] = {"rental"} \cup requests
        /\ \A n \in Mails : n # m => since'[n] = since[n]
    BY <1>0, <2>1 DEF MailTyped
  <2>3. rental \in Nat
    BY <1>0 DEF MailTyped
  <2>4. SinceAgrees'
    <3> SUFFICES ASSUME NEW n \in Mails
                 PROVE  /\ heard'[n].rental <= rental
                        /\ "rental" \in since'[n] =>
                             /\ heard'[n].rental = rental
                             /\ phase = "Rented" => heard'[n].phase \in {"Starting", "Rented"}
                        /\ "login" \in since'[n] =>
                             Addressed(n, "pixelstorm_maintenance", rental)'
                        /\ "password" \in since'[n] =>
                             Addressed(n, "password_rotator", rental)'
      BY <1>1 DEF SinceAgrees
    <3>1. CASE n = m
      BY <1>0, <1>1, <1>12, <2>2, <2>3, <3>1 DEF AccountAgrees, Addressed, Maintenance
    <3>2. CASE n # m
      BY <1>0, <1>1, <1>4, <2>2, <3>2 DEF SinceAgrees, Addressed
    <3> QED BY <3>1, <3>2
  <2>5. RecentAgrees'
    <3>1. recent \subseteq Mails
      BY <1>0 DEF MailTyped
    <3> QED BY <1>0, <1>1, <1>3, <1>4, <1>12, <3>1 DEF RecentAgrees, Maintenance
  <2> QED BY <2>4, <2>5
<1>14. "password_rotator" \in Readers
  BY DEF Readers
<1>8. EventAgrees'
  <2>1. EventAgrees /\ \A n \in Mails : correlation[n] # 0 => correlation[n] \in Rentals
    BY DEF MInv, TypeOK, Rentals
  <2> QED BY <1>1, <1>13, <1>14, <2>1 DEF EventAgrees, MailsKept
<1>9. WorkersAgree'
  <2> SUFFICES ASSUME NEW w \in Workers PROVE WorkerAgrees(w)'
    BY DEF WorkersAgree
  <2>1. WorkerAgrees(w) /\ secClaims[w] \subseteq Mails
    BY DEF MInv, WorkersAgree, TypeOK
  <2>2. answer[w] \in 0..MaxRentals /\ answer[w] # 0 => answer[w] \in Rentals
    BY DEF Rentals
  <2> QED BY <1>1, <1>13, <1>14, <2>1, <2>2 DEF WorkerAgrees, MailsKept, Reading
<1>10. GivenAgrees'
  <2>1. given \subseteq [mail : Mails, reader : Readers, rental : Rentals]
    BY DEF MInv, TypeOK
  <2> QED BY <1>1, <1>13, <2>1 DEF MInv, GivenAgrees, MailsKept
<1>11. ClosedHasNoSecret'
  BY <1>1 DEF MInv, ClosedHasNoSecret
<1> QED BY <1>5, <1>6, <1>7, <1>8, <1>9, <1>10, <1>11 DEF MInv

-----------------------------------------------------------------------------
\* Expiry, purge and the age of a claim.
LEMMA TimeKeepsInv ==
  ASSUME MInv, SecretExpires \/ Purge \/ \E m \in Mails : ClaimAges(m)
  PROVE  MInv'
<1> USE MailAssumption
<1>1. UNCHANGED <<phase, rental, asked, turned, recent, type, heard, since, state,
                  claimedBy, token, correlation, security, secToken, step, on, answer, secClaims, given,
                  takes, alerts>>
  BY DEF SecretExpires, Purge, ClaimAges, account, gmail, events, secured, local, history
<1>2. /\ aged' \subseteq Mails /\ payload' \subseteq payload
      /\ expired' \subseteq payload'
      /\ orphans' \subseteq {"WithoutExpiry", "Fresh", "Expired"}
  <2>0. /\ aged \subseteq Mails /\ expired \subseteq payload
        /\ orphans \subseteq {"WithoutExpiry", "Fresh", "Expired"}
    BY DEF MInv, TypeOK
  <2>1. CASE SecretExpires
    BY <2>0, <2>1 DEF SecretExpires, secured
  <2>2. CASE Purge
    BY <2>0, <2>2 DEF Purge, secured
  <2>3. CASE \E m \in Mails : ClaimAges(m)
    BY <2>0, <2>3 DEF ClaimAges, store
  <2> QED BY <2>1, <2>2, <2>3
<1>3. TypeOK'
  BY <1>1, <1>2 DEF MInv, TypeOK
<1>4. AccountAgrees' /\ SinceAgrees' /\ RecentAgrees' /\ EventAgrees'
  BY <1>1 DEF MInv, AccountAgrees, SinceAgrees, RecentAgrees, EventAgrees, Addressed, Over
<1>5. WorkersAgree'
  BY <1>1, <1>2 DEF MInv, WorkersAgree, WorkerAgrees, Addressed, Over
<1>6. GivenAgrees' /\ ClosedHasNoSecret'
  BY <1>1, <1>2 DEF MInv, GivenAgrees, Addressed, ClosedHasNoSecret
<1> QED BY <1>3, <1>4, <1>5, <1>6 DEF MInv

\* A step of one worker leaves the others what they rely on, if it touches no
\* event that another one reads.
LEMMA OthersKeepOn ==
  ASSUME MInv, NEW w \in Workers, MailsKept,
         \A v \in Workers \ {w} :
           /\ step'[v] = step[v] /\ on'[v] = on[v] /\ answer'[v] = answer[v]
           /\ secClaims'[v] = secClaims[v]
           /\ step[v] \in Reading =>
                /\ state'[on[v]] = state[on[v]] /\ token'[on[v]] = token[on[v]]
                /\ claimedBy'[on[v]] = claimedBy[on[v]]
                /\ on[v] \notin payload => on[v] \notin payload',
         WorkerAgrees(w)'
  PROVE  WorkersAgree'
<1> SUFFICES ASSUME NEW v \in Workers PROVE WorkerAgrees(v)'
  BY DEF WorkersAgree
<1>1. CASE v = w
  BY <1>1
<1>2. CASE v # w
  <2>1. /\ step'[v] = step[v] /\ on'[v] = on[v] /\ answer'[v] = answer[v]
        /\ secClaims'[v] = secClaims[v]
        /\ step[v] \in Reading =>
             /\ state'[on[v]] = state[on[v]] /\ token'[on[v]] = token[on[v]]
             /\ claimedBy'[on[v]] = claimedBy[on[v]]
             /\ on[v] \notin payload => on[v] \notin payload'
    BY <1>2
  <2>2. WorkerAgrees(v) /\ secClaims[v] \subseteq Mails
    BY DEF MInv, WorkersAgree, TypeOK
  <2>0. step[v] \in Reading \cup {"Store", "MarkSecurity"} => on[v] \in Mails
    BY <2>2 DEF WorkerAgrees
  <2>3. step'[v] = "Store" =>
          /\ type'[on'[v]] # "None" /\ answer'[v] \in 0..MaxRentals
          /\ answer'[v] # 0 => Addressed(on[v], "password_rotator", answer[v])'
    <3>1. answer[v] \in 0..MaxRentals /\ answer[v] # 0 => answer[v] \in Rentals
      BY DEF Rentals
    <3>2. step[v] = "Store" =>
            /\ type[on[v]] # "None" /\ answer[v] \in 0..MaxRentals
            /\ answer[v] # 0 => Addressed(on[v], "password_rotator", answer[v])
      BY <2>2 DEF WorkerAgrees
    <3>3. "password_rotator" \in Readers
      BY DEF Readers
    <3> QED BY <2>0, <2>1, <3>1, <3>2, <3>3 DEF MailsKept
  <2>4. step'[v] \in Reading =>
          /\ type'[on'[v]] # "None" /\ state'[on'[v]] = "AVAILABLE"
          /\ token'[on'[v]] = v /\ claimedBy'[on'[v]] \in Readers
          /\ answer'[v] \in Rentals
    BY <2>0, <2>1, <2>2 DEF WorkerAgrees, MailsKept
  <2>5. step'[v] \in Reading => Addressed(on[v], claimedBy[on[v]], answer[v])'
    BY <2>0, <2>1, <2>2 DEF WorkerAgrees, MailsKept
  <2>7. step'[v] \in {"Deliver", "Close"} => on'[v] \notin payload'
    BY <2>1, <2>2 DEF WorkerAgrees, Reading
  <2>8. step'[v] = "MarkSecurity" => type'[on'[v]] # "None" /\ Over(on[v])'
    BY <2>0, <2>1, <2>2 DEF WorkerAgrees, MailsKept
  <2>9. \A n \in secClaims'[v] : type'[n] # "None"
    BY <2>1, <2>2 DEF WorkerAgrees, MailsKept
  <2>10. step'[v] \in Reading \cup {"Store", "MarkSecurity"} => on'[v] \in Mails
    BY <2>0, <2>1
  <2> QED BY <2>1, <2>3, <2>4, <2>5, <2>7, <2>8, <2>9, <2>10 DEF WorkerAgrees, Addressed, Over
<1> QED BY <1>1, <1>2

\* In particular a step that moves neither the mails nor the rental.
LEMMA OthersGoOn ==
  ASSUME MInv, NEW w \in Workers, UNCHANGED <<phase, rental, type, heard>>,
         \A v \in Workers \ {w} :
           /\ step'[v] = step[v] /\ on'[v] = on[v] /\ answer'[v] = answer[v]
           /\ secClaims'[v] = secClaims[v]
           /\ step[v] \in Reading =>
                /\ state'[on[v]] = state[on[v]] /\ token'[on[v]] = token[on[v]]
                /\ claimedBy'[on[v]] = claimedBy[on[v]]
                /\ on[v] \notin payload => on[v] \notin payload',
         WorkerAgrees(w)'
  PROVE  WorkersAgree'
BY OthersKeepOn, StillMails

\* A step of a worker that changes nothing but what it does and knows.
LEMMA LocalKeepsInv ==
  ASSUME MInv, NEW w \in Workers,
         UNCHANGED <<account, gmail, events, secured, payload, expired, history, alerts>>,
         orphans' \subseteq {"WithoutExpiry", "Fresh", "Expired"},
         step' \in [Workers -> {"Idle", "Store", "Consume", "Deliver",
                                "Close", "Dispatch", "MarkSecurity"}],
         on' \in [Workers -> Mails \cup {NoMail}],
         answer' \in [Workers -> Nat],
         secClaims' \in [Workers -> SUBSET Mails],
         \A v \in Workers \ {w} :
           /\ step'[v] = step[v] /\ on'[v] = on[v] /\ answer'[v] = answer[v]
           /\ secClaims'[v] = secClaims[v],
         WorkerAgrees(w)'
  PROVE  MInv'
<1>1. UNCHANGED <<phase, rental, asked, turned, recent, type, heard, since, state,
                  claimedBy, token, correlation, security, secToken, aged, payload, expired, given,
                  takes, alerts>>
  BY DEF account, gmail, events, secured, history
<1>2. TypeOK'
  BY <1>1 DEF MInv, TypeOK
<1>3. AccountAgrees' /\ SinceAgrees' /\ RecentAgrees' /\ EventAgrees'
  BY <1>1 DEF MInv, AccountAgrees, SinceAgrees, RecentAgrees, EventAgrees, Addressed, Over
<1>4. WorkersAgree'
  BY <1>1, OthersGoOn
<1>5. GivenAgrees' /\ ClosedHasNoSecret'
  BY <1>1 DEF MInv, GivenAgrees, Addressed, ClosedHasNoSecret
<1> QED BY <1>2, <1>3, <1>4, <1>5 DEF MInv

\* A look at a mail, a refused duplicate and a crash change no event.
LEMMA LooksKeepInv ==
  ASSUME MInv, NEW w \in Workers,
         RefuseEvent(w) \/ Stop(w) \/ \E m \in Mails : SeeMessage(w, m)
  PROVE  MInv'
<1> USE MailAssumption
<1>0. TypeOK /\ SinceAgrees /\ WorkerAgrees(w)
  BY DEF MInv, WorkersAgree
<1>1. CASE RefuseEvent(w)
  <2>1. /\ step' = [step EXCEPT ![w] = "Idle"] /\ on' = [on EXCEPT ![w] = NoMail]
        /\ answer' = [answer EXCEPT ![w] = 0]
        /\ UNCHANGED <<account, gmail, events, secured, payload, expired, orphans, history,
                       alerts, secClaims>>
    BY <1>1 DEF RefuseEvent, Forget, Goto, store
  <2>2. WorkerAgrees(w)'
    BY <1>0, <2>1 DEF TypeOK, WorkerAgrees, Reading, gmail
  <2> QED BY <1>0, <2>1, <2>2, LocalKeepsInv DEF TypeOK
<1>2. CASE Stop(w)
  <2>1. /\ step' = [step EXCEPT ![w] = "Idle"] /\ on' = [on EXCEPT ![w] = NoMail]
        /\ answer' = [answer EXCEPT ![w] = 0] /\ secClaims' = [secClaims EXCEPT ![w] = {}]
        /\ UNCHANGED <<account, gmail, events, secured, payload, expired, history, alerts>>
    BY <1>2 DEF Stop, Forget, Goto
  <2>2. orphans' \subseteq {"WithoutExpiry", "Fresh", "Expired"}
    BY <1>0, <1>2 DEF Stop, TypeOK
  <2>3. WorkerAgrees(w)'
    BY <1>0, <2>1 DEF TypeOK, WorkerAgrees, Reading
  <2> QED BY <1>0, <2>1, <2>2, <2>3, LocalKeepsInv DEF TypeOK
<1>3. ASSUME NEW m \in Mails, SeeMessage(w, m) PROVE MInv'
  <2>1. /\ step' = [step EXCEPT ![w] = "Store"] /\ on' = [on EXCEPT ![w] = m]
        /\ answer' = [answer EXCEPT ![w] = ExpectedRotation(m)]
        /\ UNCHANGED <<account, gmail, events, secured, payload, expired, orphans, history,
                       alerts, secClaims>>
        /\ type[m] # "None"
    BY <1>3 DEF SeeMessage, Goto, store
  <2>2. ExpectedRotation(m) \in 0..MaxRentals
    BY <1>0 DEF ExpectedRotation, TypeOK
  <2>3. ExpectedRotation(m) # 0 => Addressed(m, "password_rotator", ExpectedRotation(m))
    BY <1>0 DEF ExpectedRotation, SinceAgrees
  <2>4. WorkerAgrees(w)'
    <3>1. step'[w] = "Store" /\ on'[w] = m /\ answer'[w] = ExpectedRotation(m)
      BY <1>0, <2>1 DEF TypeOK
    <3>2. UNCHANGED <<type, heard, secClaims>>
      BY <2>1 DEF gmail
    <3> HIDE DEF ExpectedRotation
    <3> QED BY <1>0, <2>1, <2>2, <2>3, <3>1, <3>2 DEF WorkerAgrees, Reading, Addressed
  <2>5. answer' \in [Workers -> Nat]
    BY <1>0, <2>1, <2>2 DEF TypeOK
  <2> QED BY <1>0, <2>1, <2>4, <2>5, LocalKeepsInv DEF TypeOK
<1> QED BY <1>1, <1>2, <1>3

\* What does not depend on the events, the store and the workers.
LEMMA MailsRest ==
  ASSUME MInv, UNCHANGED <<account, gmail>>
  PROVE  MailTyped' /\ AccountAgrees' /\ SinceAgrees' /\ RecentAgrees'
<1>1. UNCHANGED <<phase, rental, asked, turned, recent, type, heard, since>>
  BY DEF account, gmail
<1>2. MailTyped /\ AccountAgrees /\ SinceAgrees /\ RecentAgrees
  BY MailOfInv DEF MailAgrees
<1> QED BY <1>1, <1>2 DEF MailTyped, AccountAgrees, SinceAgrees, RecentAgrees, Addressed

\* A new event is unread, and correlated as the worker has read before.
LEMMA StoreKeepsInv ==
  ASSUME MInv, NEW w \in Workers, StoreEvent(w)
  PROVE  MInv'
<1> USE MailAssumption
<1> DEFINE m == on[w]
<1>1. /\ TypeOK /\ EventAgrees /\ WorkersAgree /\ GivenAgrees /\ ClosedHasNoSecret
      /\ WorkerAgrees(w)
  BY DEF MInv, WorkersAgree
<1>2. step[w] = "Store" /\ m \in Mails
  BY <1>1 DEF StoreEvent, WorkerAgrees
<1>3. /\ state[m] = "NONE"
      /\ state' = [state EXCEPT ![m] =
                     IF Secretive(m) THEN "AVAILABLE" ELSE "UNUSABLE_EXPIRED"]
      /\ correlation' = [correlation EXCEPT ![m] = answer[w]]
      /\ security' = [security EXCEPT ![m] =
                        IF type[m] = "LOGIN_OTP" THEN "NOT_REQUIRED" ELSE "PENDING"]
      /\ payload' = IF Secretive(m) THEN payload \cup {m} ELSE payload
      /\ step' = [step EXCEPT ![w] = "Idle"] /\ on' = [on EXCEPT ![w] = NoMail]
      /\ answer' = [answer EXCEPT ![w] = 0]
      /\ UNCHANGED <<account, gmail, claimedBy, token, secToken, aged, expired, orphans,
                     secClaims, history, alerts>>
  BY DEF StoreEvent, Forget, Goto
<1>4. /\ UNCHANGED <<phase, rental, asked, turned, recent, type, heard, since, given, takes>>
      /\ type[m] # "None" /\ answer[w] \in 0..MaxRentals
      /\ answer[w] # 0 => Addressed(m, "password_rotator", answer[w])
  BY <1>1, <1>2, <1>3 DEF account, gmail, history, WorkerAgrees
<1> HIDE DEF m
<1>5. TypeOK'
  <2>1. state' \in [Mails -> {"NONE", "AVAILABLE", "CONSUMED", "UNUSABLE_EXPIRED"}]
    BY <1>1, <1>3 DEF TypeOK
  <2>2. correlation' \in [Mails -> 0..MaxRentals]
    BY <1>1, <1>3, <1>4 DEF TypeOK
  <2>3. security' \in [Mails -> {"NONE", "NOT_REQUIRED", "PENDING", "CLAIMED", "PROCESSED"}]
    BY <1>1, <1>3 DEF TypeOK
  <2>4. payload' \subseteq Mails /\ expired' \subseteq payload'
    BY <1>1, <1>2, <1>3 DEF TypeOK
  <2>5. /\ step' \in [Workers -> {"Idle", "Store", "Consume", "Deliver",
                                "Close", "Dispatch", "MarkSecurity"}]
        /\ on' \in [Workers -> Mails \cup {NoMail}]
        /\ answer' \in [Workers -> Nat]
    BY <1>1, <1>3 DEF TypeOK
  <2> QED BY <1>1, <1>3, <1>4, <2>1, <2>2, <2>3, <2>4, <2>5, MailsRest DEF TypeOK, MailTyped
<1>6. EventAgrees'
  BY <1>1, <1>2, <1>3, <1>4 DEF TypeOK, EventAgrees, Addressed, Over
<1>7. \A v \in Workers \ {w} : step[v] \in Reading => on[v] # m
  BY <1>1, <1>3 DEF WorkersAgree, WorkerAgrees
<1>8. WorkersAgree'
  <2>1. WorkerAgrees(w)'
    BY <1>1, <1>3, <1>4 DEF TypeOK, WorkerAgrees, Reading
  <2>2. \A v \in Workers \ {w} :
          /\ step'[v] = step[v] /\ on'[v] = on[v] /\ answer'[v] = answer[v]
          /\ secClaims'[v] = secClaims[v]
          /\ step[v] \in Reading =>
               /\ state'[on[v]] = state[on[v]] /\ token'[on[v]] = token[on[v]]
               /\ claimedBy'[on[v]] = claimedBy[on[v]]
               /\ on[v] \notin payload => on[v] \notin payload'
    <3> SUFFICES ASSUME NEW v \in Workers \ {w}
                 PROVE  /\ step'[v] = step[v] /\ on'[v] = on[v] /\ answer'[v] = answer[v]
                        /\ secClaims'[v] = secClaims[v]
                        /\ step[v] \in Reading =>
                             /\ state'[on[v]] = state[on[v]] /\ token'[on[v]] = token[on[v]]
                             /\ claimedBy'[on[v]] = claimedBy[on[v]]
                             /\ on[v] \notin payload => on[v] \notin payload'
      OBVIOUS
    <3>1. /\ step'[v] = step[v] /\ on'[v] = on[v] /\ answer'[v] = answer[v]
          /\ secClaims'[v] = secClaims[v]
      BY <1>1, <1>3 DEF TypeOK
    <3>2. step[v] \in Reading => on[v] \in Mails /\ on[v] # m
      BY <1>1, <1>7 DEF WorkersAgree, WorkerAgrees
    <3> QED BY <1>1, <1>3, <3>1, <3>2 DEF TypeOK
  <2> QED BY <1>4, <2>1, <2>2, OthersGoOn
<1>9. GivenAgrees' /\ ClosedHasNoSecret'
  <2>1. GivenAgrees'
    BY <1>1, <1>4 DEF GivenAgrees, Addressed
  <2>2. ClosedHasNoSecret'
    BY <1>1, <1>2, <1>3 DEF TypeOK, ClosedHasNoSecret
  <2> QED BY <2>1, <2>2
<1> QED BY <1>3, <1>5, <1>6, <1>8, <1>9, MailsRest DEF MInv

\* A claim is made for the party that the mail answers.
LEMMA ReadableIsAddressed ==
  ASSUME MInv, NEW m \in Mails, NEW reader \in Readers, Readable(m, reader)
  PROVE  Addressed(m, reader, rental) /\ rental \in Rentals /\ type[m] # "None"
<1> USE MailAssumption
<1>0. /\ AccountAgrees /\ SinceAgrees /\ EventAgrees
      /\ reader \in {"otp", "pixelstorm_maintenance", "password_rotator"}
  BY DEF MInv, TypeOK, Readers
<1>1. CASE reader = "otp"
  <2>1. type[m] = "LOGIN_OTP" /\ phase = "Rented" /\ "rental" \in since[m]
    BY <1>1 DEF Readable
  <2> QED BY <1>0, <1>1, <2>1 DEF Addressed, AccountAgrees, SinceAgrees
<1>2. CASE reader = "pixelstorm_maintenance"
  <2>1. type[m] = "LOGIN_OTP" /\ phase \in {"Revoking", "Rotating"} /\ "login" \in since[m]
    BY <1>2 DEF Readable
  <2> QED BY <1>0, <1>2, <2>1 DEF Addressed, AccountAgrees, SinceAgrees
<1>3. CASE reader = "password_rotator"
  <2>1. type[m] = "PASSWORD_CHANGE" /\ phase = "Rotating" /\ correlation[m] = rental
    BY <1>3 DEF Readable
  <2>2. rental \in Rentals
    BY <1>0, <2>1 DEF AccountAgrees
  <2>3. Addressed(m, "password_rotator", rental)
    BY <1>0, <2>1, <2>2 DEF EventAgrees, Rentals
  <2> QED BY <1>0, <1>3, <2>1, <2>2, <2>3 DEF Addressed
<1> QED BY <1>0, <1>1, <1>2, <1>3

\* A claim of a code or a link is for the party the event is addressed to.
LEMMA ClaimKeepsInv ==
  ASSUME MInv, NEW w \in Workers, NEW m \in Mails, NEW reader \in Readers,
         Claim(w, m, reader)
  PROVE  MInv'
<1> USE MailAssumption
<1>1. /\ TypeOK /\ EventAgrees /\ WorkersAgree /\ GivenAgrees /\ ClosedHasNoSecret
  BY DEF MInv
<1>2. /\ state[m] = "AVAILABLE" /\ claimedBy[m] = "No" /\ Readable(m, reader)
      /\ claimedBy' = [claimedBy EXCEPT ![m] = reader]
      /\ token' = [token EXCEPT ![m] = w]
      /\ step' = [step EXCEPT ![w] = "Consume"] /\ on' = [on EXCEPT ![w] = m]
      /\ answer' = [answer EXCEPT ![w] = rental]
      /\ UNCHANGED <<account, gmail, state, correlation, secured, store, secClaims,
                     history, alerts>>
  BY DEF Claim, Goto
<1>3. UNCHANGED <<phase, rental, asked, turned, recent, type, heard, since, security,
                  secToken, aged, payload, expired, orphans, given, takes>>
  BY <1>2 DEF account, gmail, secured, store, history
<1>4. Addressed(m, reader, rental) /\ rental \in Rentals /\ type[m] # "None"
  BY <1>2, ReadableIsAddressed
<1>5. rental \in Nat
  BY <1>4 DEF Rentals
<1>6. TypeOK'
  <2>1. /\ claimedBy' \in [Mails -> Readers \cup {"No"}]
        /\ token' \in [Mails -> Workers \cup {NoWorker}]
        /\ step' \in [Workers -> {"Idle", "Store", "Consume", "Deliver",
                                "Close", "Dispatch", "MarkSecurity"}]
        /\ on' \in [Workers -> Mails \cup {NoMail}]
        /\ answer' \in [Workers -> Nat]
    BY <1>1, <1>2, <1>5 DEF TypeOK
  <2> QED BY <1>1, <1>2, <1>3, <2>1, MailsRest DEF TypeOK, MailTyped
<1>7. EventAgrees' /\ ClosedHasNoSecret'
  BY <1>1, <1>2, <1>3 DEF Addressed, Over, EventAgrees, ClosedHasNoSecret
<1>8. GivenAgrees'
  BY <1>1, <1>3 DEF GivenAgrees, Addressed
<1>9. WorkersAgree'
  <2>1. Addressed(m, reader, rental)'
    BY <1>3, <1>4 DEF Addressed
  <2>2. /\ step'[w] = "Consume" /\ on'[w] = m /\ answer'[w] = rental
        /\ claimedBy'[m] = reader /\ token'[m] = w
    BY <1>1, <1>2 DEF TypeOK
  <2>3. WorkerAgrees(w)'
    BY <1>1, <1>2, <1>3, <1>4, <2>1, <2>2 DEF WorkersAgree, WorkerAgrees, Reading
  <2>4. \A v \in Workers \ {w} :
          /\ step'[v] = step[v] /\ on'[v] = on[v] /\ answer'[v] = answer[v]
          /\ secClaims'[v] = secClaims[v]
          /\ step[v] \in Reading =>
               /\ state'[on[v]] = state[on[v]] /\ token'[on[v]] = token[on[v]]
               /\ claimedBy'[on[v]] = claimedBy[on[v]]
               /\ on[v] \notin payload => on[v] \notin payload'
    <3>1. \A v \in Workers : step[v] \in Reading => on[v] \in Mails /\ on[v] # m
      BY <1>1, <1>2 DEF WorkersAgree, WorkerAgrees, Readers
    <3> QED BY <1>1, <1>2, <1>3, <3>1 DEF TypeOK
  <2> QED BY <1>3, <2>3, <2>4, OthersGoOn
<1> QED BY <1>2, <1>6, <1>7, <1>8, <1>9, MailsRest DEF MInv

\* A secret leaves the store before anybody is given it.
LEMMA ConsumeKeepsInv ==
  ASSUME MInv, NEW w \in Workers, Consume(w)
  PROVE  MInv'
<1> USE MailAssumption
<1> DEFINE m == on[w]
<1> DEFINE next == IF m \in payload \ expired THEN "Deliver" ELSE "Close"
<1>1. /\ TypeOK /\ EventAgrees /\ WorkersAgree /\ GivenAgrees /\ ClosedHasNoSecret
      /\ WorkerAgrees(w)
  BY DEF MInv, WorkersAgree
<1>2. /\ step[w] = "Consume" /\ step' = [step EXCEPT ![w] = next]
      /\ payload' = payload \ {m} /\ expired' = expired \ {m}
      /\ UNCHANGED <<account, gmail, events, secured, orphans, on, answer, secClaims,
                     history, alerts>>
  BY DEF Consume, Goto
<1>3. /\ UNCHANGED <<phase, rental, asked, turned, recent, type, heard, since, state,
                    claimedBy, token, correlation, security, secToken, aged, given, takes>>
      /\ next \in {"Deliver", "Close"}
  BY <1>2 DEF account, gmail, events, secured, history
<1> HIDE DEF m, next
<1>4. TypeOK'
  <2>1. /\ payload' \subseteq Mails /\ expired' \subseteq payload'
        /\ step' \in [Workers -> {"Idle", "Store", "Consume", "Deliver",
                                "Close", "Dispatch", "MarkSecurity"}]
    BY <1>1, <1>2, <1>3 DEF TypeOK
  <2> QED BY <1>1, <1>2, <1>3, <2>1, MailsRest DEF TypeOK, MailTyped
<1>5. EventAgrees' /\ ClosedHasNoSecret'
  BY <1>1, <1>2, <1>3 DEF Addressed, Over, EventAgrees, ClosedHasNoSecret
<1>6. GivenAgrees'
  BY <1>1, <1>3 DEF GivenAgrees, Addressed
<1>7. WorkersAgree'
  <2>1. step'[w] = next /\ on'[w] = m /\ m \notin payload'
    BY <1>1, <1>2 DEF TypeOK, m
  <2>2. WorkerAgrees(w)'
    BY <1>1, <1>2, <1>3, <2>1 DEF WorkerAgrees, Reading, Addressed, m
  <2>3. \A v \in Workers \ {w} : step'[v] = step[v]
    BY <1>1, <1>2 DEF TypeOK
  <2> QED BY <1>2, <1>3, <2>2, <2>3, OthersGoOn
<1> QED BY <1>2, <1>4, <1>5, <1>6, <1>7, MailsRest DEF MInv

\* The end of a claim closes an event that was available until then.
LEMMA EndKeepsInv ==
  ASSUME MInv, NEW w \in Workers, Deliver(w) \/ Close(w)
  PROVE  MInv'
<1> USE MailAssumption
<1> DEFINE m == on[w]
<1> DEFINE closed == IF step[w] = "Deliver" THEN "CONSUMED" ELSE "UNUSABLE_EXPIRED"
<1>1. /\ TypeOK /\ EventAgrees /\ WorkersAgree /\ GivenAgrees /\ ClosedHasNoSecret
      /\ WorkerAgrees(w) /\ step[w] \in {"Deliver", "Close"}
  BY DEF MInv, WorkersAgree, Deliver, Close
<1>2. /\ m \in Mails /\ type[m] # "None" /\ state[m] = "AVAILABLE" /\ token[m] = w
      /\ claimedBy[m] \in Readers /\ answer[w] \in Rentals
      /\ Addressed(m, claimedBy[m], answer[w]) /\ m \notin payload
  BY <1>1 DEF WorkerAgrees, Reading
<1>3. /\ state' = [state EXCEPT ![m] = closed]
      /\ step' = [step EXCEPT ![w] = "Idle"] /\ on' = [on EXCEPT ![w] = NoMail]
      /\ answer' = [answer EXCEPT ![w] = 0]
      /\ UNCHANGED <<account, gmail, claimedBy, token, correlation, secured, store,
                     secClaims, alerts>>
  BY <1>1, <1>2 DEF Deliver, Close, Forget, Goto, TypeOK
<1>4. /\ \/ /\ closed = "CONSUMED" /\ takes' = [takes EXCEPT ![m] = @ + 1]
            /\ given' = given \cup
                 {[mail |-> m, reader |-> claimedBy[m], rental |-> answer[w]]}
         \/ closed = "UNUSABLE_EXPIRED" /\ UNCHANGED <<given, takes>>
      /\ takes[m] = 0
  BY <1>1, <1>2 DEF Deliver, Close, EventAgrees, history
<1>5. UNCHANGED <<phase, rental, asked, turned, recent, type, heard, since, security,
                  secToken, aged, payload, expired, orphans>>
  BY <1>3 DEF account, gmail, secured, store
<1> HIDE DEF m, closed
<1>6. TypeOK'
  <2>1. state' \in [Mails -> {"NONE", "AVAILABLE", "CONSUMED", "UNUSABLE_EXPIRED"}]
    BY <1>1, <1>3, <1>4 DEF TypeOK
  <2>2. /\ step' \in [Workers -> {"Idle", "Store", "Consume", "Deliver",
                                "Close", "Dispatch", "MarkSecurity"}]
        /\ on' \in [Workers -> Mails \cup {NoMail}]
        /\ answer' \in [Workers -> Nat]
    BY <1>1, <1>3 DEF TypeOK
  <2>3. /\ takes' \in [Mails -> Nat]
        /\ given' \subseteq [mail : Mails, reader : Readers, rental : Rentals]
    <3>1. /\ takes \in [Mails -> Nat]
          /\ given \subseteq [mail : Mails, reader : Readers, rental : Rentals]
      BY <1>1 DEF TypeOK
    <3>2. CASE closed = "CONSUMED"
      <4>1. [mail |-> m, reader |-> claimedBy[m], rental |-> answer[w]]
              \in [mail : Mails, reader : Readers, rental : Rentals]
        BY <1>2
      <4> QED BY <1>4, <3>1, <3>2, <4>1
    <3>3. CASE closed = "UNUSABLE_EXPIRED"
      BY <1>4, <3>1, <3>3
    <3> QED BY <1>4, <3>2, <3>3
  <2> QED BY <1>1, <1>3, <1>5, <2>1, <2>2, <2>3, MailsRest DEF TypeOK, MailTyped
<1>7. EventAgrees'
  <2>1. takes \in [Mails -> Nat] /\ state \in [Mails -> {"NONE", "AVAILABLE", "CONSUMED", "UNUSABLE_EXPIRED"}]
    BY <1>1 DEF TypeOK
  <2> QED BY <1>1, <1>2, <1>3, <1>4, <1>5, <2>1 DEF EventAgrees, Addressed, Over
<1>8. ClosedHasNoSecret'
  <2>1. \A n \in payload : n # m /\ state'[n] = state[n]
    BY <1>1, <1>2, <1>3 DEF TypeOK
  <2> QED BY <1>1, <1>5, <2>1 DEF ClosedHasNoSecret
<1>9. GivenAgrees'
  <2>1. \A g \in given : (type[g.mail] # "None" /\ Addressed(g.mail, g.reader, g.rental))'
    BY <1>1, <1>5 DEF GivenAgrees, Addressed
  <2>2. \A g \in given' \ given :
          g = [mail |-> m, reader |-> claimedBy[m], rental |-> answer[w]]
    BY <1>4
  <2>3. \A g \in given' \ given :
          type[g.mail] # "None" /\ Addressed(g.mail, g.reader, g.rental)
    BY <1>2, <2>2
  <2>4. \A g \in given' \ given :
          (type[g.mail] # "None" /\ Addressed(g.mail, g.reader, g.rental))'
    BY <1>5, <2>3 DEF Addressed
  <2> QED BY <2>1, <2>4 DEF GivenAgrees
<1>10. WorkersAgree'
  <2>1. WorkerAgrees(w)'
    BY <1>1, <1>3, <1>5 DEF TypeOK, WorkerAgrees, Reading
  <2>2. \A v \in Workers \ {w} :
          /\ step'[v] = step[v] /\ on'[v] = on[v] /\ answer'[v] = answer[v]
          /\ secClaims'[v] = secClaims[v]
          /\ step[v] \in Reading => state'[on[v]] = state[on[v]]
    <3>1. \A v \in Workers \ {w} : step[v] \in Reading => on[v] \in Mails /\ on[v] # m
      BY <1>1, <1>2 DEF WorkersAgree, WorkerAgrees
    <3> QED BY <1>1, <1>3, <3>1 DEF TypeOK
  <2> QED BY <1>3, <1>5, <2>1, <2>2, OthersGoOn
<1> QED BY <1>3, <1>6, <1>7, <1>8, <1>9, <1>10, MailsRest DEF MInv

-----------------------------------------------------------------------------
\* Security mail.

\* Claims of security events touch no secret.
LEMMA ClaimSecurityKeepsInv ==
  ASSUME MInv, NEW w \in Workers, ClaimSecurityEvents(w)
  PROVE  MInv'
<1> USE MailAssumption
<1>1. /\ TypeOK /\ EventAgrees /\ WorkersAgree /\ GivenAgrees /\ ClosedHasNoSecret
  BY DEF MInv
<1> DEFINE claimed == {m \in Mails : SecurityClaimable(m)}
<1>2. /\ secClaims' = [secClaims EXCEPT ![w] = claimed]
      /\ security' = [m \in Mails |-> IF m \in claimed THEN "CLAIMED" ELSE security[m]]
      /\ secToken' = [m \in Mails |-> IF m \in claimed THEN w ELSE secToken[m]]
      /\ aged' = aged \ claimed
      /\ step' = [step EXCEPT ![w] = "Dispatch"]
      /\ UNCHANGED <<account, gmail, events, store, on, answer, history, alerts>>
  BY DEF ClaimSecurityEvents, Goto
<1>3. UNCHANGED <<phase, rental, asked, turned, recent, type, heard, since, state,
                  claimedBy, token, correlation, payload, expired, orphans, given, takes>>
  BY <1>2 DEF account, gmail, events, store, history
<1>4. claimed \subseteq Mails /\ \A n \in claimed : type[n] # "None"
  BY <1>1 DEF SecurityClaimable, EventAgrees
<1> HIDE DEF claimed
<1>5. TypeOK'
  <2>1. /\ security' \in [Mails -> {"NONE", "NOT_REQUIRED", "PENDING", "CLAIMED", "PROCESSED"}]
        /\ secToken' \in [Mails -> Workers \cup {NoWorker}]
        /\ aged' \subseteq Mails
        /\ secClaims' \in [Workers -> SUBSET Mails]
        /\ step' \in [Workers -> {"Idle", "Store", "Consume", "Deliver",
                                "Close", "Dispatch", "MarkSecurity"}]
    BY <1>1, <1>2, <1>4 DEF TypeOK
  <2> QED BY <1>1, <1>2, <1>3, <2>1, MailsRest DEF TypeOK, MailTyped
<1>6. EventAgrees' /\ ClosedHasNoSecret'
  <2>1. \A n \in Mails : \/ security'[n] = security[n]
                         \/ security'[n] = "CLAIMED" /\ type[n] # "None"
    BY <1>2, <1>4
  <2>2. EventAgrees'
    BY <1>1, <1>3, <2>1 DEF EventAgrees, Addressed, Over
  <2> QED BY <1>1, <1>3, <2>2 DEF ClosedHasNoSecret
<1>7. GivenAgrees'
  BY <1>1, <1>3 DEF GivenAgrees, Addressed
<1>8. WorkersAgree'
  <2>1. WorkerAgrees(w)'
    BY <1>1, <1>2, <1>3, <1>4 DEF TypeOK, WorkerAgrees, Reading
  <2>2. \A v \in Workers \ {w} : step'[v] = step[v] /\ secClaims'[v] = secClaims[v]
    BY <1>1, <1>2 DEF TypeOK
  <2> QED BY <1>2, <1>3, <2>1, <2>2, OthersGoOn
<1> QED BY <1>2, <1>5, <1>6, <1>7, <1>8, MailsRest DEF MInv

\* Neither do their marks.
LEMMA MarkKeepsInv ==
  ASSUME MInv, NEW w \in Workers, MarkSecurity(w)
  PROVE  MInv'
<1> USE MailAssumption
<1> DEFINE m == on[w]
<1> DEFINE rest == secClaims[w] \ {m}
<1>1. /\ TypeOK /\ EventAgrees /\ WorkersAgree /\ GivenAgrees /\ ClosedHasNoSecret
  BY DEF MInv
<1>2. /\ security' = [security EXCEPT ![m] =
                        IF @ = "CLAIMED" /\ secToken[m] = w THEN "PROCESSED" ELSE @]
      /\ secClaims' = [secClaims EXCEPT ![w] = rest]
      /\ step' = [step EXCEPT ![w] = IF rest = {} THEN "Idle" ELSE "Dispatch"]
      /\ on' = [on EXCEPT ![w] = NoMail]
      /\ UNCHANGED <<account, gmail, events, secToken, aged, store, answer, history, alerts>>
  BY DEF MarkSecurity, Goto
<1>3. UNCHANGED <<phase, rental, asked, turned, recent, type, heard, since, state,
                  claimedBy, token, correlation, payload, expired, orphans, given, takes>>
  BY <1>2 DEF account, gmail, events, store, history
<1>4. rest \subseteq Mails
  BY <1>1 DEF TypeOK
<1>9. /\ m \in Mails /\ Over(m) /\ \A n \in secClaims[w] : type[n] # "None"
      /\ rest \subseteq secClaims[w]
  BY <1>1 DEF WorkersAgree, WorkerAgrees, MarkSecurity
<1> HIDE DEF m, rest
<1>5. TypeOK'
  <2>1. /\ security' \in [Mails -> {"NONE", "NOT_REQUIRED", "PENDING", "CLAIMED", "PROCESSED"}]
        /\ secClaims' \in [Workers -> SUBSET Mails]
        /\ on' \in [Workers -> Mails \cup {NoMail}]
        /\ step' \in [Workers -> {"Idle", "Store", "Consume", "Deliver",
                                "Close", "Dispatch", "MarkSecurity"}]
    BY <1>1, <1>2, <1>4 DEF TypeOK
  <2> QED BY <1>1, <1>2, <1>3, <2>1, MailsRest DEF TypeOK, MailTyped
<1>6. EventAgrees' /\ ClosedHasNoSecret'
  <2>1. \A n \in Mails : \/ security'[n] = security[n]
                         \/ security'[n] = "PROCESSED" /\ security[n] # "NONE" /\ n = m
    BY <1>1, <1>2 DEF TypeOK
  <2>2. EventAgrees'
    BY <1>1, <1>3, <1>9, <2>1 DEF EventAgrees, Addressed, Over
  <2> QED BY <1>1, <1>3, <2>2 DEF ClosedHasNoSecret
<1>7. GivenAgrees'
  BY <1>1, <1>3 DEF GivenAgrees, Addressed
<1>8. WorkersAgree'
  <2>1. WorkerAgrees(w)'
    BY <1>1, <1>2, <1>3, <1>9 DEF TypeOK, WorkerAgrees, Reading
  <2>2. \A v \in Workers \ {w} :
          step'[v] = step[v] /\ on'[v] = on[v] /\ secClaims'[v] = secClaims[v]
    BY <1>1, <1>2 DEF TypeOK
  <2> QED BY <1>2, <1>3, <2>1, <2>2, OthersGoOn
<1> QED BY <1>2, <1>5, <1>6, <1>7, <1>8, MailsRest DEF MInv

\* A security mail is passed over, or ends the running rental.
LEMMA HandlingKeepsInv ==
  ASSUME MInv, NEW w \in Workers, NEW m \in Mails, PassOver(w, m) \/ Alert(w, m)
  PROVE  MInv'
<1> USE MailAssumption
<1>1. /\ TypeOK /\ MailAgrees /\ AccountAgrees /\ EventAgrees /\ WorkersAgree
      /\ GivenAgrees /\ ClosedHasNoSecret
  BY MailOfInv DEF MInv
<1>2. /\ step' = [step EXCEPT ![w] = "MarkSecurity"] /\ on' = [on EXCEPT ![w] = m]
      /\ UNCHANGED <<type, events, secured, store, answer, secClaims, history>>
      /\ m \in secClaims[w]
  BY DEF PassOver, Alert, Handled, Goto, EndOfRental, gmail
<1>3. UNCHANGED <<type, state, claimedBy, token, correlation, security,
                  secToken, aged, payload, expired, orphans, given, takes>>
  BY <1>2 DEF events, secured, store, history
<1>4. /\ MailAgrees' /\ MailsKept /\ Over(m)'
      /\ alerts' \subseteq [mail : Mails, rental : Rentals]
  <2>1. CASE PassOver(w, m)
    <3>1. UNCHANGED <<phase, rental, asked, turned, recent, type, heard, since, alerts>>
      BY <2>1 DEF PassOver, account, gmail
    <3>2. MailAgrees' /\ MailsKept
      BY <1>1, <3>1, StillMails
         DEF MailAgrees, MailTyped, AccountAgrees, SinceAgrees, RecentAgrees, Addressed
    <3>3. Over(m)
      <4>1. CASE Uncorrelated(m)
        BY <2>1, <4>1 DEF PassOver, Over
      <4>2. CASE ~Uncorrelated(m)
        BY <1>1, <4>2 DEF Uncorrelated, EventAgrees, Addressed, Maintenance, Over
      <4> QED BY <4>1, <4>2
    <3> QED BY <1>1, <3>1, <3>2, <3>3 DEF TypeOK, Over
  <2>2. CASE Alert(w, m)
    <3>1. /\ EndOfRental /\ phase = "Rented" /\ phase' = "Revoking"
          /\ alerts' = alerts \cup {[mail |-> m, rental |-> rental]}
      BY <2>2 DEF Alert, EndOfRental
    <3>2. rental \in Rentals
      BY <1>1, <3>1 DEF AccountAgrees
    <3> QED BY <1>1, <3>1, <3>2, EndMoves DEF TypeOK, Over
  <2> QED BY <2>1, <2>2
<1>5. TypeOK'
  <2>1. /\ on' \in [Workers -> Mails \cup {NoMail}]
        /\ step' \in [Workers -> {"Idle", "Store", "Consume", "Deliver",
                                "Close", "Dispatch", "MarkSecurity"}]
    BY <1>1, <1>2 DEF TypeOK
  <2> QED BY <1>1, <1>2, <1>3, <1>4, <2>1 DEF TypeOK, MailAgrees, MailTyped
<1>6. EventAgrees' /\ ClosedHasNoSecret'
  <2>1. /\ \A n \in Mails : correlation[n] # 0 => correlation[n] \in Rentals
        /\ "password_rotator" \in Readers
    BY <1>1 DEF TypeOK, Rentals, Readers
  <2> QED BY <1>1, <1>3, <1>4, <2>1 DEF EventAgrees, MailsKept, ClosedHasNoSecret
<1>7. GivenAgrees'
  <2>1. given \subseteq [mail : Mails, reader : Readers, rental : Rentals]
    BY <1>1 DEF TypeOK
  <2> QED BY <1>1, <1>3, <1>4, <2>1 DEF GivenAgrees, MailsKept
<1>8. WorkersAgree'
  <2>1. WorkerAgrees(w)'
    <3>1. \A n \in secClaims[w] : type[n] # "None"
      BY <1>1 DEF WorkersAgree, WorkerAgrees
    <3>2. step'[w] = "MarkSecurity" /\ on'[w] = m /\ secClaims'[w] = secClaims[w]
      BY <1>1, <1>2 DEF TypeOK
    <3> QED BY <1>2, <1>3, <1>4, <3>1, <3>2 DEF WorkerAgrees, Reading, Over
  <2>2. \A v \in Workers \ {w} :
          step'[v] = step[v] /\ on'[v] = on[v] /\ secClaims'[v] = secClaims[v]
    BY <1>1, <1>2 DEF TypeOK
  <2> QED BY <1>2, <1>3, <1>4, <2>1, <2>2, OthersKeepOn
<1> QED BY <1>4, <1>5, <1>6, <1>7, <1>8 DEF MInv, MailAgrees

-----------------------------------------------------------------------------
\* Every step keeps the invariant.
LEMMA MailNext == MInv /\ [Next]_vars => MInv'
<1> SUFFICES ASSUME MInv, [Next]_vars PROVE MInv'
  OBVIOUS
<1>1. CASE \/ BeginCycle \/ StartRental \/ ExpireRental
          \/ NextOperation \/ RequestLogin \/ RequestPassword
  BY <1>1, AccountKeepsInv
<1>2. ASSUME NEW m \in Mails, Arrive(m) PROVE MInv'
  BY <1>2, ArriveKeepsInv
<1>3. CASE SecretExpires \/ Purge \/ \E m \in Mails : ClaimAges(m)
  BY <1>3, TimeKeepsInv
<1>4. ASSUME NEW w \in Workers,
             RefuseEvent(w) \/ Stop(w) \/ \E m \in Mails : SeeMessage(w, m)
      PROVE MInv'
  BY <1>4, LooksKeepInv
<1>5. ASSUME NEW w \in Workers, StoreEvent(w) PROVE MInv'
  BY <1>5, StoreKeepsInv
<1>6. ASSUME NEW w \in Workers, NEW m \in Mails, NEW reader \in Readers,
             Claim(w, m, reader)
      PROVE MInv'
  BY <1>6, ClaimKeepsInv
<1>7. ASSUME NEW w \in Workers, Consume(w) PROVE MInv'
  BY <1>7, ConsumeKeepsInv
<1>8. ASSUME NEW w \in Workers, Deliver(w) \/ Close(w) PROVE MInv'
  BY <1>8, EndKeepsInv
<1>9. ASSUME NEW w \in Workers, ClaimSecurityEvents(w) PROVE MInv'
  BY <1>9, ClaimSecurityKeepsInv
<1>10. ASSUME NEW w \in Workers, MarkSecurity(w) PROVE MInv'
  BY <1>10, MarkKeepsInv
<1>11. ASSUME NEW w \in Workers, NEW m \in Mails, PassOver(w, m) \/ Alert(w, m)
       PROVE MInv'
  BY <1>11, HandlingKeepsInv
<1>12. CASE UNCHANGED vars
  <2>1. UNCHANGED <<phase, rental, asked, turned, recent, type, heard, since, state,
                    claimedBy, token, correlation, security, secToken, aged, payload, expired, orphans,
                    step, on, answer, secClaims, given, takes, alerts>>
    BY <1>12 DEF vars, account, gmail, events, secured, store, local, history
  <2>2. TypeOK' /\ AccountAgrees' /\ SinceAgrees' /\ RecentAgrees' /\ EventAgrees'
    BY <2>1 DEF MInv, TypeOK, AccountAgrees, SinceAgrees, RecentAgrees, EventAgrees,
       Addressed, Over
  <2>3. WorkersAgree' /\ GivenAgrees' /\ ClosedHasNoSecret'
    BY <2>1 DEF MInv, WorkersAgree, WorkerAgrees, GivenAgrees, Addressed,
       Over, ClosedHasNoSecret
  <2> QED BY <2>2, <2>3 DEF MInv
<1> QED
  BY <1>1, <1>2, <1>3, <1>4, <1>5, <1>6, <1>7, <1>8, <1>9, <1>10, <1>11, <1>12 DEF Next

\* MInv, which ties every reader to the event it has claimed and every mail to
\* when it came, is inductive.
\* The invariant holds in every reachable state, for any number of runtimes,
\* mails and rentals.
THEOREM MailInvariance == Spec => []MInv
BY MailInit, MailNext, PTL DEF Spec

\* Every reachable state of EmailPipeline is well typed.
THEOREM MailTypes == Spec => []TypeOK
<1>1. MInv => TypeOK
  BY DEF MInv
<1> QED BY <1>1, MailInvariance, PTL

\* A code or a reset link is handed out once at most, and never after its
\* event was closed as unusable (mark_claim_consumed, mark_claim_unusable).
THEOREM SecretsGoOutOnce == Spec => []SecretHandedOutOnce
<1>1. MInv => SecretHandedOutOnce
  BY DEF MInv, EventAgrees, SecretHandedOutOnce
<1> QED BY <1>1, MailInvariance, PTL

\* A code or a reset link goes to the party that had the account when its mail
\* came, or in the cycle in which it came, however late the requests and the
\* start of the rental are written down in their cycle (the queries of
\* claim_login_otp, claim_maintenance_login_otp and
\* claim_expected_password_change).
THEOREM SecretsReachTheirParty == Spec => []HandedToItsParty
<1>1. MInv => HandedToItsParty
  BY DEF MInv, GivenAgrees, Addressed, Maintenance, HandedToItsParty
<1> QED BY <1>1, MailInvariance, PTL

\* A closed event leaves no secret in the store (consume_once, discard).
THEOREM ClosedIsEmpty == Spec => []ClosedHasNoSecret
<1>1. MInv => ClosedHasNoSecret
  BY DEF MInv
<1> QED BY <1>1, MailInvariance, PTL

\* A security mail of a rental is not marked as processed while that rental
\* goes on, whatever crashes, overtaken claims and redeliveries come in between
\* (EmailEventDispatcher, record_active_security_event, mark_security_processed).
THEOREM SecurityMailIsKept == Spec => []SecurityMailIsNotLost
<1>1. MInv => SecurityMailIsNotLost
  BY DEF MInv, EventAgrees, SecurityMailIsNotLost
<1> QED BY <1>1, MailInvariance, PTL
=============================================================================
