--------------------------- MODULE Deliverability ---------------------------
(***************************************************************************)
(* packages/channels/src/email/deliverability: what providers report of    *)
(* the messages they took, over EmailAcceptance.  A notification is one    *)
(* HTTP request of the provider, sent again until it is answered with a    *)
(* 200 and sometimes after that; its handler runs without a transaction.   *)
(***************************************************************************)
EXTENDS EmailAcceptance

CONSTANTS
  Notices,     \* <<message, kind, recipients>>: what a Provider may report
  MaxIngests   \* bound: executions of the webhook handler

Kinds == {"delivered", "bounced", "complained"}

ASSUME DeliverabilityAssumption ==
  /\ Notices \subseteq Requests \X Kinds \X SUBSET Contacts
  /\ MaxIngests \in Nat

VARIABLES
  notice,    \* per notification: none, pending or answered
  ingesting, \* executions of the webhook handler
  started,   \* their number
  events,    \* email_delivery_event rows and Webhook Events, without repeats
  early      \* history: notifications that found no Delivery of their id

outcomes == <<notice, ingesting, started, events, early>>
allVars == <<vars, outcomes>>

Ingest == [id : Nat, notice : Notices, step : {"load", "event", "emit", "suppress"},
           left : SUBSET Contacts]

TypeOK ==
  /\ AcceptTypeOK
  /\ notice \in [Notices -> {"none", "pending", "answered"}]
  /\ ingesting \subseteq Ingest
  /\ started \in 0..MaxIngests
  /\ events \subseteq Notices
  /\ early \subseteq Notices

Init ==
  /\ AcceptInit
  /\ notice = [n \in Notices |-> "none"]
  /\ ingesting = {} /\ started = 0 /\ events = {} /\ early = {}

SetStatus(r, s) == delivery' = [delivery EXCEPT ![r].status = s]

-----------------------------------------------------------------------------
(* The email.deliver job in short; EmailDelivery has its steps.             *)

\* loadEmailAttachmentsForSend: an attachment that is gone fails the execution.
AttachmentsLoad(r) == r \in Attached => r \in files

\* A Provider takes the message for the recipients not suppressed since.  The
\* pause of a Sandbox Domain is not looked at any more.
ProviderTakes(r) ==
  /\ r \in Committed /\ delivery[r].status = "queued"
  /\ usage[r] = "reserved" /\ (domain[From[r]] = "paused" => From[r] \in Sandboxes)
  /\ AttachmentsLoad(r) /\ \E c \in delivery[r].to : contact[c] # "all"
  /\ SetStatus(r, "taken")
  /\ usage' = [usage EXCEPT ![r] = "confirmed"]
  /\ UNCHANGED <<world, contact, request, answer, idem, files, outcomes>>

\* markSent stores the id that notifications name the message by.
MarkSent(r) ==
  /\ r \in Committed /\ delivery[r].status = "taken"
  /\ SetStatus(r, "sent")
  /\ UNCHANGED <<world, contact, request, answer, idem, usage, files, outcomes>>

\* Everybody is suppressed, or the attempts run out: the Usage is released.
GiveUp(r) ==
  /\ r \in Committed /\ delivery[r].status = "queued"
  /\ SetStatus(r, IF \A c \in delivery[r].to : contact[c] = "all" THEN "skipped" ELSE "failed")
  /\ usage' = IF usage[r] = "reserved" THEN [usage EXCEPT ![r] = "released"] ELSE usage
  /\ UNCHANGED <<world, contact, request, answer, idem, files, outcomes>>

-----------------------------------------------------------------------------
(* Notifications.                                                          *)

Become(x, y) == ingesting' = (ingesting \ {x}) \cup {y}

\* The Provider has news of a message it took, stored id or not, for some of
\* its recipients: each that bounces may be reported by itself.
Notify(n) ==
  /\ "notices" \in mode /\ n[1] \in Committed
  /\ delivery[n[1]].status \in {"taken", "sent"} /\ n[3] \subseteq delivery[n[1]].to
  /\ notice[n] = "none"
  /\ notice' = [notice EXCEPT ![n] = "pending"]
  /\ UNCHANGED <<vars, ingesting, started, events, early>>

\* The request arrives: the first time, again, or in duplicate.
StartIngest(n) ==
  /\ notice[n] # "none" /\ started < MaxIngests
  /\ started' = started + 1
  /\ ingesting' = ingesting \cup {[id |-> started, notice |-> n, step |-> "load", left |-> {}]}
  /\ UNCHANGED <<vars, notice, events, early>>

AnswerOk(x) ==
  /\ notice' = [notice EXCEPT ![x.notice] = "answered"]
  /\ ingesting' = ingesting \ {x}

\* An id no Delivery has yet is answered with a 200 and forgotten.
LoadDelivery(x) ==
  /\ x.step = "load"
  /\ IF delivery[x.notice[1]].status = "sent"
     THEN Become(x, [x EXCEPT !.step = "event"]) /\ UNCHANGED <<notice, early>>
     ELSE AnswerOk(x) /\ early' = early \cup {x.notice}
  /\ UNCHANGED <<vars, started, events>>

InsertEvent(x) ==
  /\ x.step = "event"
  /\ Become(x, [x EXCEPT !.step = "emit"])
  /\ UNCHANGED <<vars, notice, started, events, early>>

\* Permanent bounces and complaints go on to the recipients they name.
EmitWebhookEvent(x) ==
  /\ x.step = "emit"
  /\ events' = events \cup {x.notice}
  /\ Become(x, [x EXCEPT !.step = "suppress",
                         !.left = IF x.notice[2] = "delivered" THEN {} ELSE x.notice[3]])
  /\ UNCHANGED <<vars, notice, started, early>>

\* Mutant: a complaint writes whatever reason the row has.
SuppressAnyway(x, c) ==
  /\ x.step = "suppress" /\ c \in x.left /\ ~Locked(c)
  /\ contact' = [contact EXCEPT ![c] =
       IF @ = "absent" THEN @ ELSE IF x.notice[2] = "bounced" THEN "all" ELSE "marketing"]
  /\ Become(x, [x EXCEPT !.left = @ \ {c}])
  /\ UNCHANGED <<world, request, answer, idem, usage, files, delivery, notice, started, events, early>>

\* One update per recipient, which waits for a transaction that has written
\* the row: a bounce always writes, a complaint only where nothing is set.
SuppressContact(x, c) ==
  /\ x.step = "suppress" /\ c \in x.left /\ ~Locked(c)
  /\ contact' = [contact EXCEPT ![c] =
       IF x.notice[2] = "bounced" /\ @ # "absent" THEN "all"
       ELSE IF @ = "clear" THEN "marketing" ELSE @]
  /\ Become(x, [x EXCEPT !.left = @ \ {c}])
  /\ UNCHANGED <<world, request, answer, idem, usage, files, delivery, notice, started, events, early>>

FinishIngest(x) ==
  /\ x.step = "suppress" /\ x.left = {}
  /\ AnswerOk(x)
  /\ UNCHANGED <<vars, started, events, early>>

\* Mutant: the error is logged and answered with a 200.
AnswerFailureOk(x) ==
  /\ AnswerOk(x)
  /\ UNCHANGED <<vars, started, events, early>>

\* A query fails, or the connection: the Provider will send it again.
IngestFails(x) ==
  /\ ingesting' = ingesting \ {x}
  /\ UNCHANGED <<vars, notice, started, events, early>>

IngestStep(x) ==
  \/ LoadDelivery(x) \/ InsertEvent(x) \/ EmitWebhookEvent(x)
  \/ \E c \in Contacts : SuppressContact(x, c)
  \/ FinishIngest(x) \/ IngestFails(x)

Next ==
  \/ AcceptNext /\ UNCHANGED outcomes
  \/ \E r \in Requests : ProviderTakes(r) \/ MarkSent(r) \/ GiveUp(r)
  \/ \E n \in Notices : Notify(n) \/ StartIngest(n)
  \/ \E x \in ingesting : IngestStep(x)

Spec == Init /\ [][Next]_allVars

-----------------------------------------------------------------------------
(* Correctness.                                                            *)

\* A permanent bounce that was answered has suppressed every recipient it names,
\* and a complaint at least their marketing mail, whatever failed under way and
\* however often it was sent, unless it came before the id of its message was
\* stored (notifications.ts 157-279).
AnsweredNoticesTookEffect ==
  \A n \in Notices : (notice[n] = "answered" /\ n \notin early) =>
    /\ n \in events
    /\ \A c \in n[3] :
         /\ n[2] = "bounced" => contact[c] = "all"
         /\ n[2] = "complained" => contact[c] \in {"marketing", "all"}

\* No report and no new message makes a suppression weaker
\* (notifications.ts 166: "Complaint must not downgrade all").
SuppressionsStick ==
  [][\A c \in Contacts :
       /\ contact[c] = "all" => contact'[c] = "all"
       /\ contact[c] = "marketing" => contact'[c] \in {"marketing", "all"}]_allVars

\* The rows against each other, whatever goes wrong: a key makes one Message,
\* and the Message a request is answered with is the one of its key.
Inv == TypeOK /\ OneMessagePerKey /\ AnsweredTruly
=============================================================================
