# A TLA+ model of Relayit

Relayit accepts email and Webhook Events from Projects and promises to deliver them: an accepted
message is queued in the same transaction as its rows, executed by a job runtime on Redis streams,
metered against the user's plan, sent through the providers of a Domain, and reported to the
Project's webhooks; what it says comes from Templates that are edited, committed and published in the
browser. What can go wrong lies between those steps — two executions of one job, a worker that dies, a
lease that lapses, an answer that is lost or comes late — so that is what is modelled here.

- `tlc -config X.cfg M` checks a run (see [Runs](#runs)); `tlapm M.tla` checks a proof module.
- `PROJECT.json` maps every definition to the lines it stands for, and lists the hazards with the
  properties that cover them.

## Inventory

| Component (source) | State | Operations | Hard because | Correct when | Model |
|---|---|---|---|---|---|
| Job runtime (`packages/jobs/src/worker.ts`, `storage.ts`, `client.ts`, `dead-letter.ts`) | stream and consumer group, sorted set of delayed envelopes, dead-letter table | enqueue, promote, read batch, reclaim, decode, handle, retry, `onDeadLetter`, record, acknowledge, restart | entries reclaimed while still executed, death between any two writes, envelopes that collapse in the sorted set | no job is lost, every attempt is made, burial follows cleanup, every job settles | `JobStream` |
| Transactional outbox (`outbox.ts`, `client.ts`) | `job_outbox` rows with leased claims | enqueue in a transaction, claim `FOR UPDATE SKIP LOCKED`, publish, mark, release, expire | claims that lapse under a slow publisher, Redis writes whose answer is lost | a committed job reaches the stream, twice only after a lapse or a failed write | `JobOutbox` |
| Both together (`JobsLive`) | | enqueue with and without a transaction | failures shared by both halves | at-least-once from commit to settlement | `JobQueue`, `AtLeastOnce` |
| Recurring jobs (`storage.ts`, `client.ts`, `worker.ts`) | a scheduled time per key | schedule, cancel, promote, reconcile | each check hangs on the one before it | a row that exists is checked again | `DomainVerification` |
| Usage ledger (`packages/channels/src/usage*.ts`) | a reservation per Delivery, counters per provider kind and window | reserve, remeter, confirm, release | retried calls, plan changes between calls, expiring keys | nobody is overcharged, quotas hold, Usage is finalized once | `UsageLedger` |
| Email acceptance (`email/accept`, `messages/accept`) | Message, Delivery, Contacts, idempotency record, reservation, staged attachments | accept, replay, compensate | Usage and files lie outside the transaction; requests with one key race | one Message per key, nothing reserved without a Delivery, nothing taken from one | `EmailAcceptance` |
| Deliverability ingest (`email/deliverability`, `apps/api/src/routes/webhooks`) | suppression of Contacts, delivery events | report received, recorded, announced, acted on | reports repeated, reordered, early; no transaction | an answered report is in the Contacts, the stronger one stays | `Deliverability` |
| Email delivery (`email/delivery/handler.ts`, `messages/delivery/circuit.ts`) | `email_delivery` row, breaker keys, envelope | load, checks, failover loop, remeter, send, confirm, mark, dead-letter | retries after lost answers, overlapping executions, Domains that change under way | a message is sent and charged once, and its outcome stays true | `EmailDelivery` |
| Webhooks (`packages/webhooks/src`) | Endpoints with two secrets, Events, Deliveries with claim token and lease | emit, deliver, dead-letter, replay, pause, update, rotate, delete | claims that outlive their lease, stale marks, secrets changed under way | delivered means accepted by the consumer, nothing is stranded, requests verify | `WebhookDelivery` |
| Custom Domains (`email/custom-domain`) | domain, organization links, identities, DNS rows | create, claim, transfer, pause, delete | long non-transactional sequences with external calls | one active identity, one verified owner, lost only to proof | `CustomDomain` |
| Verification (`email/verification`) | verification status, `nextVerifyAt`, a job per row | verify domain, identity, ownership; refresh; reconcile | three jobs and a page write one schedule; failures end a chain | an unverified row is always looked at again, in time, and ends verified | `DomainVerification` |
| Sandbox, managed DNS, platform Providers (`email/sandbox`, `email/managed-dns.ts`, `apps/web/src/lib/admin`) | Providers, sandbox identities, DNS rows, Cloudflare zone, vendor state | create, update and delete a Provider; provision, verify, sweep, allocate; reconcile, remove | shared records and accounts, nothing transactional | one active identity, zone and rows agree, the root stays | `SandboxDomain` |
| Template workspace and publication (`packages/templating/src`) | Git objects, `dev` and `main`, Redis lock, entry rows with artifacts | list, commit, deps sync, preview, publish | a lease of 300 s around a read-then-write ref | no acknowledged commit disappears, only sealed trees are published | `TemplateWorkspace` |
| Template catalog (`apps/web/src/lib/templating`, `accept/content.ts`) | templates, variants, slugs | create, archive, rename, link, send by template | several queries per request, no transaction | slugs differ, a name can always be used, the badge tells what a send does | `TemplateCatalog` |
| Workspace editor (`apps/web/src/components/templates/workspace/ide.tsx`) | open file, draft, dirty mark, preview, pending requests | bootstrap, open, edit, save, preview, publish, link, new file | answers that come in any order | work goes to its own file, clean means saved, published means live | `WorkspaceIde` |
| Plans and authentication, Redis client, object storage, persistence, template-render, template-builder, API wiring, web, UI | — | — | I/O, wiring, presentation | — | see [Not modelled](#not-modelled) |

How they interact: acceptance finds the content of a Template, reserves Usage in Redis, commits rows and
`job_outbox` in one transaction; the outbox loop moves jobs to the stream; the worker's loops execute
`email.deliver` and `webhook.deliver`; the email handler uses ledger, breaker and provider, and emits
a Webhook Event in the transaction that settles its row; provider reports come back through the API
and suppress Contacts, which acceptance and delivery look at; Domain lifecycle, verification and the
sandbox decide which identities the handler finds; the editor commits and publishes through the
builder, and what it publishes is what a send by Template renders.

## Modules

| Module | What it is |
|---|---|
| `JobWorkers` | The jobs and worker processes that both halves of the runtime speak of. |
| `JobStream` | One action per step of `processJob` and of the batch, reclaim and promotion loops. |
| `JobOutbox` | The outbox table and its publishers. |
| `JobQueue` | `JobOutbox` feeding `JobStream`; `AtLeastOnceContract` is the refinement of `AtLeastOnce`. |
| `AtLeastOnce` | What a caller of `enqueue` is promised, without queues. |
| `UsageLedger` | The Lua scripts of the ledger. |
| `QueueAndLedgerProofs` | Proofs about each half of the job runtime, about both together, and about the ledger. |
| `EmailAcceptance` | From the request to the committed Message, step by step, with compensation. |
| `Deliverability` | Extends `EmailAcceptance` by sends and the reports that come back. |
| `EmailDelivery`, `EmailDeliveryProofs` | The email handler over an abstract job runtime, and proofs about it. |
| `WebhookDelivery`, `WebhookDeliveryProofs` | Endpoints and their secrets, emission, the delivery handler and replay, and proofs about them. |
| `CustomDomain`, `CustomDomainProofs` | One FQDN created, claimed, proved, taken over and removed, and proofs about it. |
| `DomainVerification` | The recurring checks of one Domain, its identities and a claim. |
| `DeliverabilityAndVerificationProofs` | Proofs about acceptance and reports, and about the recurring checks. |
| `SandboxDomain`, `SandboxDomainProofs` | The sandbox, its identities, DNS records and the managed Providers, and proofs about them. |
| `TemplateWorkspace`, `TemplateWorkspaceProofs` | The builder's operations on one Workspace under their lock, and proofs about them. |
| `TemplateCatalog` | Templates, slugs, links and the content of a send. |
| `WorkspaceIde`, `WorkspaceIdeProofs` | Extends `TemplateCatalog` by the editor in one tab, and proofs about both. |
| `MC*` | Constants and symmetry sets of the runs. |

`Inv` of each module (`OutboxInv` and `StreamInv` of the two that `JobQueue` extends, `LedgerInv` of the ledger, `VerificationInv` of the checks) is the conjunction of its type invariant and its named state invariants; the
comment before each part says which code it is about. A property with a history or of several actors
stands on its own.

`mode`, in the modules that have it, is chosen once per behaviour and says which disturbances it may
meet: overlap, failures, changes of the facts. A property that the code keeps only without one of them
says so in its antecedent, and [Findings](#findings) says what happens with it. Disturbances that multiply are
combined where the code answers them together and kept apart where they do not meet.

**JobStream.** `ready` is the stream, `pending` the group's pending list, `delayed` the sorted set
(a set: equal envelopes are one member, as in Redis), `running` the executions at work with the phase
each has reached. `ProcessJobBatch` and `ReclaimStaleJobs` start executions; `Attempt`, `DecodeFails`,
`Handle`, `ScheduleRetry`, `OnDeadLetter`, `RecordDeadLetter`, `Acknowledge` are the steps of
`processJob` (worker.ts 150–360) in their order, and a worker may restart between any two.
`XAUTOCLAIM`'s idle time is abstracted: an entry may be reclaimed whenever it is pending, also while
its first execution is at work.

**JobOutbox.** A row is pending or published, with a claim that is live or lapsed. `Claimable` is the
`WHERE` of the claim, `ClaimExpires` the passing of `claimTtlMs`, `PublishOutboxJob` the Redis write
(which may succeed and be reported failed), `MarkPublished` and `ReleaseClaim` the updates that
compare the claim token.

**UsageLedger.** One action per Lua script, since Redis runs a script atomically. `Policies` are the
limits a call may have read from Postgres beforehand, so the plan may change between any two calls.
A counter may expire once its window is over.

**EmailAcceptance.** `request` holds how far each request is and what it has read: the record of its
key, the Domain, the Contacts. `Open` are the steps inside the transaction, whose writes become visible
at `Commit`; a step that needs a row another transaction has written `Awaits` it. Compensation is two
steps of its own, `ReleaseUsage` and `DeleteStagedAttachments`. A commit may succeed and be reported
failed (outages), a client may hang up (interrupts), statements may fail (aborts). `PauseDomain` and
`DeleteDomain` are the owner's two ways of taking a Domain away under a request. `era` counts how
often a key's record ran out, so that two Messages of one key are told from two of one record.

**Deliverability.** The job of a Delivery in three actions, since `EmailDelivery` has its steps, and
the handler of a provider's report: load, event, Webhook Event, suppression, each on its own, since the
code has no transaction here. A report is a Message's id, a type and the recipients its event names, who alone are
suppressed. Between acceptance and sending the job looks at the Domain's pause and at the files, and gives up without them.
A report is `pending` until it is answered with a 200; `early` are those that
came before the id they name was stored.

**EmailDelivery.** Loading is as many steps as the handler has queries: the row, a Domain that is paused, the
suppressions, the identities, each with the early end it may lead to. An execution carries the failover list it loaded and whether it is past the first
identity. `Remeter` is the gate that stops a second send: a finalized reservation fails the
execution. The circuit breaker is a counter whose key expires. `accepted` and `lost` are history.

**WebhookDelivery.** A Delivery's `attempts` counter is also the token of its last claim. An
execution claims under the row lock, posts, and marks only where the token is still its own;
`ClaimExpires` may strike at any time. Commit of an Event aborts if an Endpoint was deleted meanwhile.
A rotation reads the secret in one step and writes in another, as its transaction does without a lock;
a secret is named by the rotation that made it. `accepted`, `failed`, `abandoned`, `crossed` and an
execution's `since` are history.

The email and webhook modules take the runtime as what `JobStream` guarantees: an envelope is queued
until some execution acknowledges it, any number of loops may execute it, executions die anywhere.

**CustomDomain.** None of the lifecycle's operations runs in a transaction, so each query and provider
call is an action and `running` holds the operations at work with what they have read: the row's id,
the pairings, whether other Projects were linked. A step on a row that is gone changes nothing, as an
`UPDATE` or `DELETE` that matches nothing does, and an insert that breaks a key ends its operation.
`scheduled` is the ownership job, which nothing cancels when its claim is withdrawn. `shown` and
`demoted` are history.

**DomainVerification.** One job per key (`Domain`, `Claim`, each identity); `scheduled` maps a key to
the delay it asked for, since only the order of cadences matters, and any scheduled job may come due.
`Load…`, `Ask`, `CheckRecord`, `Record…`, `Schedule…` and `Reload` are the steps of the handlers, `MergeStatus` and `DomainDelay`
the pure functions of `cadence.ts` and `custom-identity.ts`. The page's refresh does the same checks and
schedules nothing. A provider's own flags never decide `MergeStatus`, and DNS host detection only words
the page, so neither is here. `lost` are keys whose job was buried, and those whose registration
failed before it had scheduled them; a schedule, or the reconcile of a worker that starts, finds them again.

**SandboxDomain.** `rows` are the DNS rows and `zone` the Cloudflare records, which the code writes one
after the other; `vendor`, `destination` what the vendor's account holds: the identity, and the event destination that
creation and the API's start provide and deletion removes. Clearing the default and setting it are two updates. Every operation an operator,
a job or a sign-up starts is a record of `running` with its step. An identity's job verifies at any
time here.

**TemplateWorkspace.** An operation acquires the lock, reads `dev`, works, and writes the ref in two
steps, as `updateRef` does. The lock may lapse (lapses) under an operation at work; calls may fail and
operations die (faults). A commit is its tree and the set of operations its history holds, so what is
lost from it shows.

**TemplateCatalog, WorkspaceIde.** A request's queries are its steps. Numbers of slugs are exact below `MaxExact`, which
stands for 2^53; beyond it the successor of a number may be the number itself, as with `parseInt`. Rendering may refuse a
send for want of a subject, or because the artifact throws; both come after the template, variant and entry were found.
In the editor each request has an
answer action that does what its callback does to the React state, and answers come in any order. The
builder's operations are single steps here, which its lock makes them. `typed` numbers the edits, so
that every text is known by its file and number; an edit of another author is numbered when it is committed. `sought` is
`search.entryId`: the entry that is previewed is the first of the list that is open or sought (`First`; the list's order is
`Position`). *New file* takes any path; `replaced` remembers that it put the starter over the open file, whose text is then not
read again.

## Runs

| Run | Instance | Shows |
|---|---|---|
| `JobStream` | 1 job, 1 worker with its batch and reclaim loop, 2 attempts, 3 entries | Nothing is lost, acknowledged early or buried early; every job settles |
| `JobOutbox` | 2 jobs, 2 workers, batches of 2, 2 lapses | No row is skipped; a duplicate needs a lapse or a failed write; only the holder writes; every row is published |
| `JobQueueEndToEnd` | 2 jobs (one transactional, one delayed and malformed), 1 worker | The composition loses nothing and implements `AtLeastOnce` |
| `UsageLedger` | 3 Deliveries, 2 kinds, 1 day, 2 periods, 2 plans | Exact counters, held quotas, one finalization, across a plan change |
| `EmailAcceptance` | 3 requests (two with one key, two with a file), 2 Contacts, 2 Senders, 2 at once, 1 expiry, 3 notices (one names one recipient of two), 2 ingests | One Message per key, nothing leaks, accepted means sendable, answered reports took effect, suppressions only grow |
| `EmailDelivery` | 1 Delivery, 2 providers of different kind, 2 loops, 2 attempts, threshold 1, 3 sends | Sends are bounded, charged once at the kind that sent, and reported truthfully |
| `WebhookDelivery` | 1 Event, 1 Endpoint, 1 replay, 2 rotations, 2 attempts, 2 claims, 2 executions at once | Claims exclude, marks are true, requests verify, strands come only from abandonment |
| `CustomDomain` | 3 Projects, 2 providers, 2 rows, 1 overlap | One active identity and one owner after any sequence; no owner loses the Domain to an unproved claim, whatever fails |
| `DomainVerification` | 1 or 2 identities, 2 records, 2 attempts, 1 overlap, 2 mishaps | No chain of checks breaks, the sooner cadence wins, status follows records, everything is verified in the end |
| `SandboxDomain` | 3 Providers in 2 accounts, 1 Project, 4 DNS rows, 1 overlap | One active identity, the zone mirrors its rows, a Provider alone in its account has its vendor identity and destination while it exists and leaves neither, the root stays |
| `TemplateWorkspace` | 3 operations of any kind, 2 entries, 4 changes | Acknowledged commits stay, only sealed trees are published, rows follow `dev` |
| `TemplateEditing` | 3 Templates, 2 entries, 2 requests, 2 edits, 2 switches, 2 handlers at work (by an author who does not wait for an answer, only with create-new), suffixes exact below 3 | Work goes to its own file, clean is saved, published is what was saved, slugs differ, the badge agrees with how far sends come |

**Bounds.** `MaxEntries`, `MaxLapses`, `MaxClaims`, `MaxRunning`, `MaxSends`, `MaxDomains`, `MaxOverlaps`,
`MaxMishaps`, `MaxExpiries`, `MaxIngests`, `MaxSerial`, `MaxEdits`, `MaxSwitches`, `MaxAtWork` cap what grows without
end in the code: entries ever appended, leases that expire, claims, executions or requests at once, messages a
provider takes, rows of an FQDN, operations started while another is at work, failures and stale answers of one
behaviour, records of a key that run out, executions of the webhook handler, DNS rows ever made, edits and files opened. Each is above
what the shortest interesting race needs: two overlapping executions,
one lapse per publisher, a claim taken over, and one send more than the bound `SendsAreBounded` allows.
Two attempts give a first, a last and a transition between them. One Delivery is enough where
Deliveries share nothing; they share counters in the ledger (three of them, to fill and pass a limit
of two) and a batch in the outbox (two). `Threshold = 1` makes one refusal open a circuit.
Three Projects are an owner, a claimant and one who waits; a second row shows an operation that outlives
its Domain. Three requests are a retry under one key beside a stranger; two at once race for a row.
Three Providers are two in one account and one alone, of which `Few` = two meet overlap, failures and vanished records.
Three operations of the builder are two that race and one that shows what they left. Suffixes of slugs go beyond what people
type by one per request, so that the numbering never runs out (`CatalogAssumption`); `MaxExact` is low enough to be reached, so
the run has slugs that collide without a race. No mode of the run is `loading`: each property that
an author who acts before a file is loaded could break leaves him out. `catalog` stands alone (`ModesAssumption`): no editor is
open then and several Templates are at hand, whereas beside an editor there is the one its file is linked to. Where secrets rotate one
webhook execution is at work at a time.
Symmetry is used over interchangeable values only (loops, Deliveries, Projects, providers, rotations, operations,
the Templates the editor is not about), and never in a run with a liveness property.

`CHECK_DEADLOCK FALSE` is used where the system comes to rest: an Event is committed once, requests are
answered, operations are done, and then nothing is left to do.

**Fairness.** `FairStreamSpec` and `FairOutboxSpec` assume weak fairness of every loop of a worker
(`Effect.forever`, restarted by `Effect.retry` with a capped delay when one fails, worker.ts 641–690)
and of the passing of time. Handlers may fail every attempt. Liveness is claimed for behaviours in
which workers eventually stop dying: a job that kills its worker on every execution is reclaimed for
ever, since nothing counts deliveries of an entry. `DomainVerification` assumes the same loops: what is due is
promoted, calls of an execution answer, and a waiting job is started again and again; the last is strong
fairness, since the entry it starts from may be replaced while it waits.

## Proofs

The proofs hold for every value of the constants: any jobs, workers, attempts, plans, Events, Endpoints, authors, Deliveries,
requests, notices, Projects, Providers, Templates, entries, edits and bounds. Each state theorem comes from an inductive invariant stronger than the
property, as a step may break the property from states that are never reached; TLC checked it on the run's instance first.

| Module | Proves |
|---|---|
| `QueueAndLedgerProofs` | Of the outbox `OutboxInv`, `OnlyTheHolderWrites`; of the stream `StreamInv`, `NoJobLost`, `AcknowledgedLast`; of both `NoAcceptedJobLost` and `AtLeastOnceContract`: the runtime implements the abstract queue; `LedgerInv` and every other property of the ledger |
| `DeliverabilityAndVerificationProofs` | Of acceptance and reports `Inv`, `AcceptedCanBeSent`, `NothingLeaks`, `AnsweredNoticesTookEffect`, `SuppressionsStick`: all the run checks; of the checks `VerificationInv`, `ChecksContinue`, `ChecksKeepPace` |
| `EmailDeliveryProofs` | `Inv`, `EveryAcceptanceAccountedFor`, `OutcomeIsFinal`: all the run checks |
| `WebhookDeliveryProofs` | `Inv`, `OnlyAbandonedWorkIsStranded`, `LiveClaimIsKept`: all the run checks |
| `CustomDomainProofs` | `Inv`, `LostOnlyToProof`: all the run checks |
| `SandboxDomainProofs` | `Inv`, `ProvidersProvisioned`, `RootStays`: all the run checks |
| `TemplateWorkspaceProofs` | `Inv`, `AcknowledgedCommitsStay`, and of `Inv` its part `PublishedWasSealed` |
| `WorkspaceIdeProofs` | `Inv`, `SavedWhereTyped`, `CleanIsSaved`, `PublishedIsSaved`, `SendsMatchTheBadge`: all the run checks |

- *Outbox.* `Budget`: the copies of a row and the publishers that may still write one are at most one more than its
  lapses, and no more than its lapses while it can be claimed. A claim moves one unit, a lapse adds one.
- *Stream.* `NoJobLost` is not inductive: an execution about to acknowledge could be the last to represent its
  job. `LossInv` adds what each phase has made durable before (a successor envelope, a handled job, a dead-letter
  row). `PolicyInv` counts the attempts behind every envelope and execution.
- *Queue.* A step of the composition is a step of each half or leaves it alone, so what is proved of the halves
  holds of it. Added are: what Redis or a worker holds was delivered, and a row's job is delivered when the row is
  published or its publisher has appended. So Owed is the pending rows and the carried jobs, and every action accepts,
  settles, discharges or revives one job or changes neither set.
- *Ledger.* Counters are exactly the Cardinality of their holders; a script moves one Delivery in or out of a
  counter, and `DECR` meets a positive one. `QuotaHeld` follows from the room the last adding script has tested.
- *Acceptance.* A key's record names, while it is live, the one Message of the key's era (`InRecord`), and one request at a
  time is about to commit a key (`OneWriter`): the insert that failed on the record has seen it committed. Compensation is
  reached by requests that did not commit, and is done in its two steps, so a request that is done has left nothing.
- *Deliverability.* A report that is being acted on has its event, and every recipient that is not left has the
  suppression it asks for; recipients only move up, so this outlives every later report. `SuppressionsStick` is that lemma.
- *Email.* `Books`: while Usage is reserved every acceptance is one that an execution still holds or one whose holder
  has died; a finalized reservation stops whoever comes to the gate, so only executions past it add to the acceptances, and a loop
  executes a Delivery once at a time, so they are at most the loops. Without overlap the equation is exact, and
  with what the phases know (`InStep`) charges and announcements are true. The first identity of a route is its least
  position, which is shown by well-founded induction.
- *Webhooks.* An Event whose job exists was emitted, so rows are never made twice; tokens are claims counted, so two
  executions at work hold different ones; an answer is accepted before the mark and all attempts before the last have
  failed; a rotation holds the secret in force unless another crossed it. `Led`, for what is not stranded: a pending row that nobody
  abandoned has a leading envelope, one of its last run and of the last attempt begun, and no execution of it is about to
  acknowledge without a mark; a retry passes the lead to the next attempt, and a replay begins a run nothing else is of (`RunsBegun`).
- *Domain.* `Founded`: an operation about to unlink the others belongs to a Project that published its challenge, whatever
  else runs or fails, hence `LostOnlyToProof`. One operation at a time finds the row it loaded (`OneAtATime`), so
  what it relies on at each step (`Midway`) was made true by the step before: which identities and links there are, that the
  vendor has exactly those, and which of them is the active one. At rest this is `Inv`.
- *Sandbox.* Whatever overlaps and fails, a row names a record of its own key (`ZoneSound`): serials are never given twice, an
  overwritten record keeps its key, and a deletion only finds rows of an identity, hence `RootStays`; ranks stay below the number
  of Providers whose creation is past the identity (`Ranked`). One operation at a time (`OneAtATime`) finds what it
  has read still so (`Working`), and what is missing from the fleet, the identities or the zone is what it has yet to do; a
  Provider alone in its account has its destination from the step of its creation that ensures it to the step of its deletion that
  removes it (`Supplied`). With nothing at work this is `Inv` and `ProvidersProvisioned`.
- *Checks.* `Working`: the job of an identity that runs had a row when it was read, and past its record that row has a next
  check or is gone; so a job that cancels its own key has lost its row, and every other one leaves a schedule, which passes
  to an entry, to an execution, and from there to a retry or the next schedule. `OneClaim`, where nothing makes a second
  job of the claim: the one that cancels has just stored the proof, and nobody else may write the link (`Claiming`). For the pace, a Domain
  scheduled later than its row says is `Chased`: some job on its way, even a failed one, will still schedule it from what
  was recorded. For the status, an execution in the middle of DNS knows which records it has found.
- *Workspace.* `Undisturbed`: while no lease lapses under its holder, an operation past the lock is the only one there, so
  the tip it has read is still `dev` when it writes. `MInv`, where nothing fails: rows that differ from `dev` have
  an operation that will sync them, and nothing on its way there refuses it (a starter tree always publishes).
- *Catalog.* Suffixes stay in range: none in use exceeds what people choose plus the requests that have generated one
  (`SlugsCounted`); below `MaxExact` the generated number is above every number seen, and the largest of a finite set of numbers exists by well-founded induction. A request nobody wrote
  beside still sees the slug it chose free (`FreeUnlessRaced`), and a send what it has read (`SendsInformed`).
- *Editor.* `WhereTyped`: one read at most is under way, and it is for the open file; draft, handlers and files carry their own
  versions. `Boots`: a bootstrap run that may still open a file finds the editor empty. `Patient`: where the author waits,
  a handler has the open file and the draft on the screen, so its commit makes `dev` as new as both, and numbers only grow
  (`Numbered`), so nobody else's commit takes that back, unless a starter was put over the open file (`replaced`); a publish then
  seals it.

Assumed are the named assumptions on the constants, which the runs evaluate: sets that are counted are finite (the
loops of a worker process, the processes, the requests, the managed Providers, the records of a Domain), a Domain has a record, bounds are numbers, the failover order
is not empty, `package.json` is no entry, the list has an order (`PositionAssumption`), a behaviour with several Templates has no
editor (`ModesAssumption`), and `None` is not one of the records it stands beside. `JobQueueAssumption` comes on top of those of its two parts.

Model-checked only: liveness (fairness and `ENABLED` are out of the prover's reach: `EveryJobSettles`,
`EveryRowPublished`, `EventuallyVerified`). Every other property that a run checks is proved.

## Findings

What a document or comment says and the code does otherwise; each shows as soon as the antecedent named in the
property is dropped.

- **A webhook Delivery can be stranded** (`OnlyAbandonedWorkIsStranded`): an execution that meets a live claim
  acknowledges its envelope (deliver.ts:89–94), although the holder may be dead. CONTEXT.md:27 of webhooks says leased
  claims prevent this.
- **Concurrent replays** reset a Delivery that is no longer dead-lettered (endpoint-lifecycle.ts:117; CONTEXT.md:31): status
  is checked by a read and then updated by id. **Concurrent rotations** lose one of the two secrets (`crossed`;
  CONTEXT.md:29), and `previousSecretExpiresAt` is stored and read by nothing.
- **A refused Delivery stays `sending`**: with one provider and a closed circuit no attempt ever writes
  `failed`, nor announces `message.failed` (handler.ts:524; handler.test.ts:498 expects `failed`).
- **Removing a Domain does not fail its Deliveries** (handler.ts:409), **nor free its FQDN once it has sent**
  (lifecycle.ts:1125): the foreign key of its Deliveries refuses the last delete, after links, identities and
  DNS rows are gone. CONTEXT-MAP.md:25 says both.
- **Incomplete DNS can starve** (`ChecksKeepPace` without refresh): the page's refresh writes a lower status
  and a near `nextVerifyAt` and schedules nothing, so the Domain's job stays up to twelve hours away; cadence.ts:81–82.
- **MAIL FROM hosts are shared** (provider-identity.ts:22–23 calls them unique per pairing): every identity of a domain
  gets `send.<fqdn>`, and only the last one reconciled has its record.
- **`updateRef` is no compare-and-swap** (refs.ts:44): it compares in one query and writes in another. An operation that
  outlives its lease loses the next one's commit (`AcknowledgedCommitsStay` with lapses).
- **A publish that fails half way has put some artifacts live** (publish.ts:213), and an entry that is restored goes
  live again with the artifact it had before.

No document speaks about these, and the properties leave them out by name:

- A commit that succeeds and is reported failed is compensated: the Usage of a Delivery that will be sent is released, its
  files are deleted. A request cut off between reservation and commit compensates nothing.
- A report that comes before the provider's id is stored is answered with a 200 and forgotten.
- A claim forgets its provider before the transfer begins, so a transfer that fails is not resumed and leaves two
  owners. The job of a withdrawn claim demotes a Project that has become owner since. Two Projects that adopt an
  unowned Domain together both own it.
- A row that was never checked and whose job is buried is not restored by `reconcile`.
- A page's refresh that looked up the ownership record before it was published, and writes what it saw after the
  claim's job has found it, sets the link back to `not_verified` when the job has already cancelled the claim's checks:
  only a worker that starts restores them (custom-identity.ts:354–450; `ChecksContinue` in a mode with both `overlap`
  and `refresh`). A starting worker that reconciles while the job of the claim is at work makes a second one, and the two
  can do the same (`overlap` with `failures`).
- An identity's job that fails between the Domain's record and its schedule, and whose retry finds that identity gone,
  leaves the Domain's job at the later time it had (handlers.ts:62–80; `ChecksKeepPace` in a mode with both `failures` and
  `removal`).
- The topic and event destination of an account go with the first of its Providers that is deleted; no property speaks of
  Providers that share one.
- A slug typed with a suffix of 2^53 or more makes the next generated slug one that is taken, without any race
  (`CreateFailsOnlyWhenRaced` beyond `MaxExact`; slug.ts:63–73).
- A send is also refused for a missing subject (one of spaces is accepted by the form) or because the artifact throws
  (content.ts:200–236); the page of the Template shows neither.
- In the editor: saving before the open file is loaded, or after its read failed, stores one file's text over another;
  typing during a save loses the mark of being unsaved; publishing goes on after its own save was refused; a bootstrap that
  restarts under way can put the starter over what was saved since; *New file* with a path that exists replaces the file
  without a question, and with the path that is open leaves a clean editor that shows text `dev` has lost, so that *Publish* seals
  the starter (ide.tsx:630–674; `CleanIsSaved` and `PublishedIsSaved` without `~replaced`); opened for an entry, the editor previews
  that one while another file is open, if it comes first in the list; a preview that is answered after another file was opened shows under that file; create-new links the first entry when
  the open file is none; renaming a Template that was archived meanwhile is acknowledged without effect.

## Not modelled

Message content, headers, signature bytes, rendering, wire formats and logging; the 90-day tombstone of a
finalized reservation; the idle times and poll intervals as numbers (every delay is "at some time");
Redis losing acknowledged writes; databases and Redis failing under an execution of the email handler, other than by its
death. `handler.ts`'s `canceled` status is read but written by no code.

- *List-Unsubscribe*: it acts on marketing messages, and nothing in the code accepts one.
- *Primitive Templates*: no code makes a primitive variant.
- *Plans and authentication*: sign-in and Stripe callbacks rewrite the limits of a user as a whole
  (`auth/plans.ts`); `UsageLedger` takes any limits at any call, which covers every order of them. Sessions, roles
  and API keys are the configuration of a library.
- *Redis client, object storage, provider SDKs*: I/O; each call is a step of its caller that may fail.
- *Rendering, template builder, API wiring, the rest of the web application and its UI kit*: pure functions and presentation.

## Plan

1. A module for the limits of a user: Stripe callbacks, sign-ins and the policy a reservation reads, composed with `UsageLedger`.
2. Its `QuotaHeld` for the limits that were in force at each reservation, from `LedgerInv`. No module the proofs need uses a RECURSIVE operator.
