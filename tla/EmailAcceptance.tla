-------------------------- MODULE EmailAcceptance --------------------------
(***************************************************************************)
(* packages/channels/src/email/accept: how a request to send becomes a     *)
(* Message, its Delivery and its job.  Usage is reserved in Redis before   *)
(* the accepting transaction and attachments are uploaded inside it, so a  *)
(* transaction that fails is compensated by hand; an idempotency key makes *)
(* the retries of a client one Message.                                    *)
(*                                                                         *)
(* A request is named for the Message it would create.  A client retries   *)
(* by another request with the same key.                                   *)
(***************************************************************************)
EXTENDS Naturals, FiniteSets

CONSTANTS
  Requests,
  Keys, KeyOf,         \* the idempotency key of a request, or None
  Contacts, To,        \* the recipients of a request, in all three lists
  Senders, From,       \* the Domain of its from address
  Sandboxes, Members,  \* Senders that are Sandbox Domains; members' addresses
  Attached,            \* requests with an attachment
  Earlier,             \* a Message accepted before, whose record may be left
  MaxAtWork,           \* bound: requests at work at the same time
  MaxExpiries,         \* bound: times a key's record runs out
  Modes,               \* what may go wrong in a behaviour
  None

ASSUME AcceptanceAssumption ==
  /\ KeyOf \in [Requests -> Keys \cup {None}] /\ None \notin Keys \cup Requests
  /\ Earlier \notin Requests
  /\ To \in [Requests -> (SUBSET Contacts) \ {{}}] /\ Members \subseteq Contacts
  /\ From \in [Requests -> Senders] /\ Sandboxes \subseteq Senders
  /\ Attached \subseteq Requests
  /\ MaxAtWork \in Nat /\ MaxExpiries \in Nat
  /\ Modes \subseteq SUBSET {"aborts", "outages", "interrupts", "domains", "notices"}

VARIABLES
  mode,
  domain,     \* the Domain of each Sender: ready, paused or removed
  contact,    \* suppressionSeverity of each Contact, absent without a row
  request,    \* per request: how far it is and what it has read
  answer,     \* per request: the Message it was answered with, or why not
  idem,       \* message_idempotency: the Message of a key, and if it is live
  era,        \* history: times the record of a key ran out
  usage,      \* the reservation of each request's Delivery
  files,      \* requests whose attachments are in object storage
  delivery    \* the committed Deliveries with their recipients and job

world == <<mode, domain, era>>
vars == <<world, contact, request, answer, idem, usage, files, delivery>>

Open == {"insert", "upload", "contacts", "conflict", "commit"}
Steps == {"idle", "lookup", "expire", "sender", "recipients", "reserve",
          "release", "unstage", "done"} \cup Open
Refusals == {"rejected", "limited", "failed", "gone"}

\* found is the Message whose record was read; left are the recipients whose
\* Contact the transaction has not written yet.
Progress == [step : Steps, found : Requests \cup {Earlier, None}, to : SUBSET Contacts,
             left : SUBSET Contacts]
Row == [to : SUBSET Contacts, era : Nat, status : {"queued", "taken", "sent", "failed", "skipped"}]
Record == [message : Requests \cup {Earlier}, live : BOOLEAN]

\* A Message is not a refusal, and None is neither a row nor a record.
ASSUME NamesAssumption == Requests \cap Refusals = {} /\ None \notin Row \cup Record

AcceptTypeOK ==
  /\ mode \in Modes
  /\ domain \in [Senders -> {"ready", "paused", "removed"}]
  /\ contact \in [Contacts -> {"absent", "clear", "marketing", "all"}]
  /\ request \in [Requests -> Progress]
  /\ answer \in [Requests -> Requests \cup Refusals \cup {None}]
  /\ idem \in [Keys -> Record \cup {None}]
  /\ era \in [Keys -> 0..MaxExpiries]
  /\ usage \in [Requests -> {"none", "reserved", "confirmed", "released"}]
  /\ files \subseteq Attached
  /\ delivery \in [Requests -> Row \cup {None}]

AcceptInit ==
  /\ mode \in Modes
  /\ domain = [s \in Senders |-> "ready"]
  /\ contact \in [Contacts -> IF "notices" \in mode THEN {"absent"} ELSE {"absent", "all"}]
  /\ request = [r \in Requests |->
                  [step |-> "idle", found |-> None, to |-> {}, left |-> {}]]
  /\ answer = [r \in Requests |-> None]
  /\ idem \in [Keys -> IF "notices" \in mode THEN {None}
                       ELSE {None, [message |-> Earlier, live |-> FALSE]}]
  /\ era = [k \in Keys |-> 0]
  /\ usage = [r \in Requests |-> "none"]
  /\ files = {}
  /\ delivery = [r \in Requests |-> None]

Committed == {r \in Requests : delivery[r] # None}
At(r, step) == request[r].step = step
AtWork(r) == ~At(r, "idle") /\ ~At(r, "done")
Go(r, step) == request' = [request EXCEPT ![r].step = step]
End(r, a) ==
  /\ request' = [request EXCEPT ![r] = [@ EXCEPT !.step = "done", !.left = {}]]
  /\ answer' = [answer EXCEPT ![r] = a]

-----------------------------------------------------------------------------
(* Around the requests.                                                    *)

\* 24 hours after the Message of the record was accepted.
RecordExpires(k) ==
  /\ idem[k] # None /\ idem[k].live /\ era[k] < MaxExpiries
  /\ idem' = [idem EXCEPT ![k].live = FALSE]
  /\ era' = [era EXCEPT ![k] = @ + 1]
  /\ UNCHANGED <<mode, domain, contact, request, answer, usage, files, delivery>>

\* A Domain is paused and unpaused, a Sandbox Domain by its operator.
PauseDomain(s, status) ==
  /\ "domains" \in mode /\ domain[s] \notin {"removed", status}
  /\ domain' = [domain EXCEPT ![s] = status]
  /\ UNCHANGED <<mode, era, contact, request, answer, idem, usage, files, delivery>>

\* The foreign key of its Deliveries, also of those being inserted, keeps a
\* Domain from being deleted, and a Sandbox Domain never is.
DeleteDomain(s) ==
  /\ "domains" \in mode /\ domain[s] # "removed" /\ s \notin Sandboxes
  /\ \A r \in Requests : From[r] = s => r \notin Committed /\ request[r].step \notin Open \ {"insert"}
  /\ domain' = [domain EXCEPT ![s] = "removed"]
  /\ UNCHANGED <<mode, era, contact, request, answer, idem, usage, files, delivery>>

-----------------------------------------------------------------------------
(* Before the transaction.                                                 *)

\* Beside notifications one request at a time is enough.
Receive(r) ==
  LET atWork == Cardinality({o \in Requests : AtWork(o)}) IN
  /\ At(r, "idle") /\ atWork < (IF "notices" \in mode THEN 1 ELSE MaxAtWork)
  /\ Go(r, "lookup")
  /\ UNCHANGED <<world, contact, answer, idem, usage, files, delivery>>

\* findMessageReplay and findAcceptedEmail: a live record answers at once.
FindMessageReplay(r) ==
  LET k == KeyOf[r] IN
  /\ At(r, "lookup")
  /\ \/ (IF k = None THEN TRUE ELSE idem[k] = None) /\ Go(r, "sender") /\ UNCHANGED answer
     \/ /\ k # None /\ idem[k] # None
        /\ IF idem[k].live /\ idem[k].message \in Committed
           THEN End(r, idem[k].message)
           ELSE /\ request' = [request EXCEPT ![r] =
                     [@ EXCEPT !.step = IF idem[k].live THEN "sender" ELSE "expire",
                               !.found = idem[k].message]]
                /\ UNCHANGED answer
  /\ UNCHANGED <<world, contact, idem, usage, files, delivery>>

\* Mutant: the record is deleted by its key.
ExpireByKey(r) ==
  /\ At(r, "expire")
  /\ idem' = [idem EXCEPT ![KeyOf[r]] = None]
  /\ request' = [request EXCEPT ![r] = [@ EXCEPT !.step = "sender", !.found = None]]
  /\ UNCHANGED <<world, contact, answer, usage, files, delivery>>

\* The expired record is deleted by the id that was read: a record another
\* request has put in its place meanwhile stays.
ExpireRecord(r) ==
  LET k == KeyOf[r] IN
  /\ At(r, "expire")
  /\ idem' = IF idem[k] # None /\ idem[k].message = request[r].found
             THEN [idem EXCEPT ![k] = None] ELSE idem
  /\ request' = [request EXCEPT ![r] = [@ EXCEPT !.step = "sender", !.found = None]]
  /\ UNCHANGED <<world, contact, answer, usage, files, delivery>>

\* The Template, its variant and artifact are read and rendered, before the
\* sender is looked for; they may be refused.
PrepareEmailContent(r) ==
  /\ At(r, "sender")
  /\ End(r, "rejected")
  /\ UNCHANGED <<world, contact, idem, usage, files, delivery>>

\* resolveEmailSender, then the App Environment is found or made.
ResolveEmailSender(r) ==
  /\ At(r, "sender")
  /\ IF domain[From[r]] = "ready" THEN Go(r, "recipients") /\ UNCHANGED answer
                                  ELSE End(r, "rejected")
  /\ UNCHANGED <<world, contact, idem, usage, files, delivery>>

\* Recipients suppressed at severity all are stripped; a Sandbox Domain
\* sends to members of the Project only.
FilterSuppressedContacts(r) ==
  LET kept == {c \in To[r] : contact[c] # "all"} IN
  /\ At(r, "recipients")
  /\ IF kept = {} \/ (From[r] \in Sandboxes /\ ~(kept \subseteq Members))
     THEN End(r, "rejected")
     ELSE /\ request' = [request EXCEPT ![r] =
               [@ EXCEPT !.step = "reserve", !.to = kept, !.left = kept]]
          /\ UNCHANGED answer
  /\ UNCHANGED <<world, contact, idem, usage, files, delivery>>

\* The attachments are decoded or fetched into memory before Usage is
\* reserved; they may be refused.
ResolveEmailAttachments(r) ==
  /\ At(r, "reserve") /\ r \in Attached
  /\ End(r, "rejected")
  /\ UNCHANGED <<world, contact, idem, usage, files, delivery>>

\* usage.reserve, one script; UsageLedger says when it refuses.  An answer
\* that is lost fails the request.
ReserveUsage(r) ==
  /\ At(r, "reserve")
  /\ \/ End(r, "limited") /\ UNCHANGED usage
     \/ /\ usage' = [usage EXCEPT ![r] = "reserved"]
        /\ (Go(r, "insert") /\ UNCHANGED answer) \/ ("outages" \in mode /\ End(r, "failed"))
  /\ UNCHANGED <<world, contact, idem, files, delivery>>

\* A query before the transaction fails; there is nothing to compensate.
LookupFails(r) ==
  /\ "aborts" \in mode
  /\ request[r].step \in {"lookup", "expire", "sender", "recipients", "reserve"}
  /\ End(r, "failed")
  /\ UNCHANGED <<world, contact, idem, usage, files, delivery>>

-----------------------------------------------------------------------------
(* The transaction: its rows are seen by others when it commits, and the    *)
(* rows it has written are locked until it ends.                            *)

Writes(r, c) == request[r].step \in Open /\ c \in request[r].to \ request[r].left
Locked(c) == \E r \in Requests : Writes(r, c)
KeyTaken(k) == \E r \in Requests : At(r, "commit") /\ KeyOf[r] = k

\* The transaction is rolled back; found is the Message that had the key.
Abort(r, found) ==
  request' = [request EXCEPT ![r] = [@ EXCEPT !.step = "release", !.found = found]]

\* Message and Delivery; the foreign key refuses a Domain removed meanwhile.
InsertDelivery(r) ==
  /\ At(r, "insert")
  /\ IF domain[From[r]] = "removed" THEN Abort(r, None) ELSE Go(r, "upload")
  /\ UNCHANGED <<world, contact, answer, idem, usage, files, delivery>>

\* stageEmailAttachments uploads one by one, and deletes what it uploaded
\* when one fails, if it can.
StageEmailAttachments(r) ==
  /\ At(r, "upload")
  /\ IF r \notin Attached THEN Go(r, "contacts") /\ UNCHANGED files
     ELSE \/ Go(r, "contacts") /\ files' = files \cup {r}
          \/ "aborts" \in mode /\ Abort(r, None) /\ UNCHANGED files
          \/ "outages" \in mode /\ Abort(r, None) /\ files' = files \cup {r}
  /\ UNCHANGED <<world, contact, answer, idem, usage, delivery>>

\* upsertMessageContacts waits for any other writer of the row.
UpsertMessageContact(r, c) ==
  /\ At(r, "contacts") /\ c \in request[r].left /\ ~Locked(c)
  /\ request' = [request EXCEPT ![r].left = @ \ {c}]
  /\ UNCHANGED <<world, contact, answer, idem, usage, files, delivery>>

\* recordMessageIdempotency: the insert waits for the transaction that is
\* inserting the same key and does nothing where the key exists, expired or
\* not.
RecordMessageIdempotency(r) ==
  LET k == KeyOf[r] IN
  /\ At(r, "contacts") /\ request[r].left = {}
  /\ IF k = None THEN Go(r, "commit")
     ELSE /\ ~KeyTaken(k)
          /\ Go(r, IF idem[k] = None THEN "commit" ELSE "conflict")
  /\ UNCHANGED <<world, contact, answer, idem, usage, files, delivery>>

\* The record in the way is read; it may have been deleted since.
FindConflictingRecord(r) ==
  LET k == KeyOf[r] IN
  /\ At(r, "conflict")
  /\ Abort(r, IF idem[k] = None THEN None ELSE idem[k].message)
  /\ UNCHANGED <<world, contact, answer, idem, usage, files, delivery>>

\* What a commit makes visible: the Delivery with its job and events, the
\* Contacts, the key's record.
Publish(r) ==
  LET k == KeyOf[r] IN
  /\ delivery' = [delivery EXCEPT ![r] =
       [to |-> request[r].to, era |-> IF k = None THEN 0 ELSE era[k], status |-> "queued"]]
  /\ contact' = [c \in Contacts |->
       IF c \in request[r].to /\ contact[c] = "absent" THEN "clear" ELSE contact[c]]
  /\ idem' = IF k = None THEN idem
             ELSE [idem EXCEPT ![k] = [message |-> r, live |-> TRUE]]

\* The commit, which may succeed and be reported failed.
Commit(r) ==
  /\ At(r, "commit")
  /\ Publish(r)
  /\ End(r, r) \/ ("outages" \in mode /\ Abort(r, None) /\ UNCHANGED answer)
  /\ UNCHANGED <<world, usage, files>>

\* A statement of the transaction fails.
TransactionFails(r) ==
  /\ "aborts" \in mode /\ request[r].step \in Open
  /\ Abort(r, None)
  /\ UNCHANGED <<world, contact, answer, idem, usage, files, delivery>>

Awaits(r, o) == At(r, "contacts") /\ \E c \in request[r].left : Writes(o, c)

\* Recipients are written in the order of the request, so two requests may
\* wait for each other; PostgreSQL aborts one.
DeadlockVictim(r) ==
  /\ \E o \in Requests \ {r} : Awaits(r, o) /\ Awaits(o, r)
  /\ Abort(r, None)
  /\ UNCHANGED <<world, contact, answer, idem, usage, files, delivery>>

-----------------------------------------------------------------------------
(* compensateAcceptFailure and the answer to a concurrent replay.           *)

\* Mutant: a concurrent replay answers without compensating.
ReplayWithoutRelease(r) ==
  /\ At(r, "release")
  /\ IF request[r].found # None THEN End(r, request[r].found)
     ELSE Go(r, "unstage") /\ UNCHANGED answer
  /\ UNCHANGED <<world, contact, idem, usage, files, delivery>>

\* Mutant: a replay releases the Usage of the Delivery it found.
ReleaseFound(r) ==
  LET d == IF request[r].found # None THEN request[r].found ELSE r IN
  /\ At(r, "release")
  /\ usage' = IF usage[d] = "reserved" THEN [usage EXCEPT ![d] = "released"] ELSE usage
  /\ Go(r, "unstage")
  /\ UNCHANGED <<world, contact, answer, idem, files, delivery>>

\* usage.release, whose failure is ignored.
ReleaseUsage(r) ==
  /\ At(r, "release")
  /\ \/ usage' = IF usage[r] = "reserved" THEN [usage EXCEPT ![r] = "released"] ELSE usage
     \/ "outages" \in mode /\ UNCHANGED usage
  /\ Go(r, "unstage")
  /\ UNCHANGED <<world, contact, answer, idem, files, delivery>>

\* deleteStagedEmailAttachments, whose failure is ignored; then a replay is
\* answered with the Message that has the key.
DeleteStagedAttachments(r) ==
  /\ At(r, "unstage")
  /\ files' = files \ {r} \/ ("outages" \in mode /\ UNCHANGED files)
  /\ IF request[r].found \in Committed THEN End(r, request[r].found) ELSE End(r, "failed")
  /\ UNCHANGED <<world, contact, idem, usage, delivery>>

\* The client hangs up (signal: request.signal) or the API dies: an open
\* transaction is rolled back and nothing is compensated.
Interrupt(r) ==
  /\ "interrupts" \in mode /\ ~At(r, "idle") /\ ~At(r, "done")
  /\ End(r, "gone")
  /\ UNCHANGED <<world, contact, idem, usage, files, delivery>>

AcceptStep(r) ==
  \/ Receive(r) \/ FindMessageReplay(r) \/ ExpireRecord(r)
  \/ PrepareEmailContent(r) \/ ResolveEmailSender(r) \/ FilterSuppressedContacts(r)
  \/ ResolveEmailAttachments(r) \/ ReserveUsage(r) \/ LookupFails(r)
  \/ InsertDelivery(r) \/ StageEmailAttachments(r)
  \/ \E c \in Contacts : UpsertMessageContact(r, c)
  \/ RecordMessageIdempotency(r) \/ FindConflictingRecord(r) \/ Commit(r)
  \/ TransactionFails(r) \/ DeadlockVictim(r)
  \/ ReleaseUsage(r) \/ DeleteStagedAttachments(r) \/ Interrupt(r)

AcceptNext ==
  \/ \E k \in Keys : RecordExpires(k)
  \/ \E s \in Senders : DeleteDomain(s) \/ \E status \in {"ready", "paused"} : PauseDomain(s, status)
  \/ \E r \in Requests : AcceptStep(r)

-----------------------------------------------------------------------------
(* Correctness.                                                            *)

\* A key makes one Message until its record runs out, however many requests
\* bring it at once, fail half-way or find the record expired
\* (idempotency.ts 47-139).
OneMessagePerKey ==
  \A r, s \in Committed :
    (r # s /\ KeyOf[r] = KeyOf[s] /\ KeyOf[r] # None) => delivery[r].era # delivery[s].era

Reserved(r) == usage[r] = "reserved"

\* A committed Delivery that waits for its job can be sent: its Usage is still
\* reserved and its attachments are in storage, whichever requests with its
\* key were compensated since, unless the answer of a commit was lost
\* (accept.ts 78-110, 266-415).
AcceptedCanBeSent ==
  "outages" \notin mode => \A r \in Committed :
    delivery[r].status = "queued" => Reserved(r) /\ (r \in Attached => r \in files)

\* No reservation and no uploaded file outlives its request without a
\* Delivery, wherever the request failed, unless it was cut off
\* (accept.ts 78-110, attachments.ts 250-263).
NothingLeaks ==
  mode \cap {"outages", "interrupts"} = {} => \A r \in Requests \ Committed :
    (Reserved(r) \/ r \in files) => AtWork(r)

\* A request is never answered with a Message that does not exist, nor with
\* another client's: the Message it is answered with has its key
\* (accept.ts 170-185, 403-415).
AnsweredTruly ==
  \A r \in Requests : answer[r] \in Requests =>
    answer[r] \in Committed /\ KeyOf[answer[r]] = KeyOf[r]
=============================================================================
