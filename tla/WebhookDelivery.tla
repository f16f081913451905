-------------------------- MODULE WebhookDelivery --------------------------
(***************************************************************************)
(* packages/webhooks: Events routed to Endpoints, one Delivery each, sent  *)
(* by the webhook.deliver job under a leased claim, and replayed by hand   *)
(* once dead-lettered.                                                     *)
(*                                                                         *)
(* The job runtime is what JobStream guarantees: an envelope stays queued  *)
(* until an execution of it acknowledges, two loops may execute it at the  *)
(* same time, and an execution may die between any two of its steps.       *)
(***************************************************************************)
EXTENDS Naturals, FiniteSets

CONSTANTS
  Events, Endpoints,
  Matches,       \* <<event, endpoint>>: event types and tag filter fit
  Requests,      \* manual replays that may be asked for
  Rotations,     \* rotations of a signing secret that may be asked for; each
                 \* names the secret it generates
  Lanes,         \* loops of the workers that may execute an envelope
  MaxAttempts,   \* retry.maxAttempts of webhook.deliver
  MaxClaims,     \* bound: claims ever made of one Delivery
  MaxRunning,    \* bound: executions at work at the same time, one if managed
  Modes,         \* what a behaviour may hold: {}, or {"managed"}
  None, Done

ASSUME WebhookAssumption ==
  /\ Matches \subseteq Events \X Endpoints
  /\ MaxAttempts \in Nat \ {0}
  /\ MaxClaims \in Nat
  /\ MaxRunning \in Nat

VARIABLES
  mode,
  endpoint,   \* webhook_endpoint: enabled, paused or deleted
  listed,     \* the pairs of Matches its event types and tag filter select
  secret,     \* its signing secrets
  rotating,   \* per rotation: the Endpoint and the secret it has loaded
  crossed,    \* history: Endpoints two rotations were at work on together
  emitting,   \* per Event: the Endpoints its transaction has selected
  delivery,   \* webhook_event_delivery
  queued,     \* envelopes of webhook.deliver not yet acknowledged
  running,    \* executions of the handler
  replaying,  \* per request: the Delivery its transaction has loaded
  accepted,   \* history: Deliveries answered with a 2xx
  failed,     \* history: envelopes whose execution failed
  abandoned   \* history: Deliveries some execution left to another

managed == <<mode, listed, secret, rotating, crossed>>
rows == <<endpoint, emitting, delivery, replaying, managed>>
vars == <<rows, queued, running, accepted, failed, abandoned>>

Deliveries == Events \X Endpoints
Phases == {"claim", "post", "succeeded", "refused", "retry", "cleanup", "ack"}

\* attempts counts the claims ever made, so it is also the token of the last
\* one; token 0 is the null claim.
Row == [status : {"pending", "delivered", "dead_letter"}, attempts : Nat,
        token : Nat, live : BOOLEAN]
Envelope  == [delivery : Deliveries, run : Requests \cup {None}, attempts : Nat]
\* secret is what the execution signs with; since counts the changes of the
\* Endpoint's secrets after its claim (history).
Execution == [lane : Lanes, env : Envelope, phase : Phases, token : Nat,
              secret : Rotations \cup {None}, since : 0..2]
Secrets   == [current : Rotations \cup {None}, previous : Rotations \cup {None, Done}]

ASSUME NullAssumption ==
  /\ None \notin Requests \cup Deliveries \cup Row \cup Rotations
  /\ \A S \in SUBSET Endpoints : S # None
  /\ Done \notin Deliveries \cup Rotations \cup {None}

TypeOK ==
  /\ mode \in Modes
  /\ endpoint \in [Endpoints -> {"enabled", "paused", "deleted"}]
  /\ listed \subseteq Matches
  /\ secret \in [Endpoints -> Secrets]
  /\ rotating \in [Rotations -> [endpoint : Endpoints, secret : Rotations \cup {None}]
                                \cup {None, Done}]
  /\ crossed \subseteq Endpoints
  /\ emitting \in [Events -> (SUBSET Endpoints) \cup {None}]
  /\ delivery \in [Deliveries -> Row \cup {None}]
  /\ queued \subseteq Envelope
  /\ running \subseteq Execution
  /\ replaying \in [Requests -> Deliveries \cup {None, Done}]
  /\ accepted \subseteq Deliveries
  /\ failed \subseteq Envelope
  /\ abandoned \subseteq Deliveries

\* A new Endpoint has one secret; None names that first one, and Done stands
\* for no previous secret.
Init ==
  /\ mode \in Modes
  /\ listed = Matches
  /\ secret = [p \in Endpoints |-> [current |-> None, previous |-> Done]]
  /\ rotating = [r \in Rotations |-> None]
  /\ crossed = {}
  /\ endpoint \in [Endpoints -> {"enabled", "paused"}]
  /\ emitting = [v \in Events |-> None]
  /\ delivery = [d \in Deliveries |-> None]
  /\ queued = {} /\ running = {}
  /\ replaying = [r \in Requests |-> None]
  /\ accepted = {} /\ failed = {} /\ abandoned = {}

-----------------------------------------------------------------------------
(* Endpoints and emission.                                                 *)

SetEndpointEnabled(p, enabled) ==
  /\ endpoint[p] # "deleted"
  /\ endpoint' = [endpoint EXCEPT ![p] = IF enabled THEN "enabled" ELSE "paused"]
  /\ UNCHANGED <<managed, emitting, delivery, queued, running, replaying, accepted, failed, abandoned>>

\* The foreign key takes the Endpoint's Deliveries with it.
DeleteEndpoint(p) ==
  /\ endpoint[p] # "deleted"
  /\ endpoint' = [endpoint EXCEPT ![p] = "deleted"]
  /\ delivery' = [d \in Deliveries |-> IF d[2] = p THEN None ELSE delivery[d]]
  /\ UNCHANGED <<managed, emitting, queued, running, replaying, accepted, failed, abandoned>>

\* updateWebhookEndpoint: the filter, and with it whether the Endpoint is
\* enabled.  Deliveries it has already are not looked at.
UpdateEndpoint(p, filter, enabled) ==
  /\ mode = {"managed"} /\ endpoint[p] # "deleted"
  /\ filter \subseteq {m \in Matches : m[2] = p}
  /\ listed' = {m \in listed : m[2] # p} \cup filter
  /\ endpoint' = [endpoint EXCEPT ![p] = IF enabled THEN "enabled" ELSE "paused"]
  /\ UNCHANGED <<mode, secret, rotating, crossed, emitting, delivery, queued,
                 running, replaying, accepted, failed, abandoned>>

\* rotateWebhookSigningSecret reads the secret, and does not lock the row.
LoadSecret(r, p) ==
  /\ mode = {"managed"} /\ rotating[r] = None /\ endpoint[p] # "deleted"
  /\ rotating' = [rotating EXCEPT ![r] = [endpoint |-> p, secret |-> secret[p].current]]
  /\ crossed' = crossed \cup
       {q \in {p} : \E o \in Rotations : rotating[o] \notin {None, Done} /\ rotating[o].endpoint = p}
  /\ UNCHANGED <<mode, listed, secret, endpoint, emitting, delivery, queued,
                 running, replaying, accepted, failed, abandoned>>

\* The requests under way to p live through another change of its secrets.
Outlive(p) ==
  running' = {IF x.phase = "post" /\ x.env.delivery[2] = p /\ x.since < 2
              THEN [x EXCEPT !.since = @ + 1] ELSE x : x \in running}

\* The new secret goes in front, and what was read becomes the previous one.
RotateSecret(r) ==
  /\ rotating[r] \notin {None, Done}
  /\ secret' = [secret EXCEPT ![rotating[r].endpoint] =
                  [current |-> r, previous |-> rotating[r].secret]]
  /\ Outlive(rotating[r].endpoint)
  /\ rotating' = [rotating EXCEPT ![r] = Done]
  /\ UNCHANGED <<mode, listed, crossed, endpoint, emitting, delivery, queued,
                 replaying, accepted, failed, abandoned>>

\* clearPreviousWebhookSigningSecret.  previousSecretExpiresAt is stored and
\* shown, and ends nothing by itself.
ClearPreviousSecret(p) ==
  /\ mode = {"managed"} /\ endpoint[p] # "deleted" /\ secret[p].previous # Done
  /\ secret' = [secret EXCEPT ![p].previous = Done]
  /\ Outlive(p)
  /\ UNCHANGED <<mode, listed, rotating, crossed, endpoint, emitting, delivery, queued,
                 replaying, accepted, failed, abandoned>>

\* emitWebhookEvent reads the enabled Endpoints that match; when there are
\* none it stops.
SelectEndpoints(v) ==
  /\ emitting[v] = None
  /\ emitting' = [emitting EXCEPT ![v] =
       {p \in Endpoints : endpoint[p] = "enabled" /\ <<v, p>> \in listed}]
  /\ UNCHANGED <<managed, endpoint, delivery, queued, running, replaying, accepted, failed, abandoned>>

\* Mutant: the jobs are not staged with the rows.
CommitWithoutJobs(v) ==
  /\ emitting[v] \notin {None, {}}
  /\ \A p \in emitting[v] : endpoint[p] # "deleted" /\ delivery[<<v, p>>] = None
  /\ delivery' = [d \in Deliveries |->
       IF d[1] = v /\ d[2] \in emitting[v]
       THEN [status |-> "pending", attempts |-> 0, token |-> 0, live |-> FALSE]
       ELSE delivery[d]]
  /\ emitting' = [emitting EXCEPT ![v] = {}]
  /\ UNCHANGED <<managed, endpoint, queued, running, replaying, accepted, failed, abandoned>>

\* The caller's transaction commits: a pending Delivery and its job for every
\* Endpoint selected.  One that was deleted since aborts the transaction, and
\* one that was paused since is not looked at again.
CommitEvent(v) ==
  /\ emitting[v] \notin {None, {}}
  /\ \A p \in emitting[v] : endpoint[p] # "deleted" /\ delivery[<<v, p>>] = None
  /\ delivery' = [d \in Deliveries |->
       IF d[1] = v /\ d[2] \in emitting[v]
       THEN [status |-> "pending", attempts |-> 0, token |-> 0, live |-> FALSE]
       ELSE delivery[d]]
  /\ queued' = queued \cup
       {[delivery |-> <<v, p>>, run |-> None, attempts |-> 0] : p \in emitting[v]}
  /\ emitting' = [emitting EXCEPT ![v] = {}]
  /\ UNCHANGED <<managed, endpoint, running, replaying, accepted, failed, abandoned>>

-----------------------------------------------------------------------------
(* The handler of webhook.deliver.                                         *)

Become(x, y) == running' = (running \ {x}) \cup {y}
Advance(x, phase) == Become(x, [x EXCEPT !.phase = phase, !.secret = None, !.since = 0])

\* Mutant: the attempt limit is reached one attempt early.
FailOneEarly(x) ==
  /\ failed' = failed \cup {x.env}
  /\ Advance(x, IF x.env.attempts + 2 < MaxAttempts THEN "retry" ELSE "cleanup")

\* An execution fails with a retryable error.
FailExecution(x) ==
  /\ failed' = failed \cup {x.env}
  /\ Advance(x, IF x.env.attempts + 1 < MaxAttempts THEN "retry" ELSE "cleanup")

\* A loop of the worker takes the envelope.
StartExecution(lane, env) ==
  /\ env \in queued
  /\ Cardinality(running) < IF mode = {} THEN MaxRunning ELSE 1
  /\ \A x \in running : ~(x.lane = lane /\ x.env = env)
  /\ running' = running \cup {[lane |-> lane, env |-> env, phase |-> "claim", token |-> 0,
                                   secret |-> None, since |-> 0]}
  /\ UNCHANGED <<rows, queued, accepted, failed, abandoned>>

\* The row as a claim leaves it, and the execution that made it.
Claim(x, token) ==
  LET d == x.env.delivery IN
  /\ delivery' = [delivery EXCEPT ![d].attempts = @ + 1, ![d].token = token, ![d].live = TRUE]
  /\ Become(x, [x EXCEPT !.phase = "post", !.token = token,
                         !.secret = secret[d[2]].current, !.since = 0])

\* The envelope is acknowledged although the row is not settled.
Abandon(x) == abandoned' = abandoned \cup {x.env.delivery}

\* Mutant: a pending row is claimed although its claim is live.
ClaimAnyway(x) ==
  LET r == delivery[x.env.delivery] IN
  /\ x.phase = "claim" /\ r # None /\ r.status = "pending" /\ r.attempts < MaxClaims
  /\ Claim(x, r.attempts + 1)
  /\ UNCHANGED <<managed, endpoint, emitting, replaying, queued, accepted, failed, abandoned>>

\* claimDelivery, one transaction under the row lock; it may also fail.
ClaimDelivery(x) ==
  LET r == delivery[x.env.delivery] IN
  /\ x.phase = "claim"
  /\ \/ r = None /\ Advance(x, "cleanup") /\ UNCHANGED <<delivery, failed, abandoned>>
     \/ /\ r # None /\ r.status # "pending"
        /\ Advance(x, "ack") /\ UNCHANGED <<delivery, failed, abandoned>>
     \/ /\ r # None /\ r.status = "pending" /\ r.live
        /\ Advance(x, "ack") /\ Abandon(x) /\ UNCHANGED <<delivery, failed>>
     \/ /\ r # None /\ r.status = "pending" /\ ~r.live
        /\ r.attempts < MaxClaims
        /\ Claim(x, r.attempts + 1) /\ UNCHANGED <<failed, abandoned>>
     \/ FailExecution(x) /\ UNCHANGED <<delivery, abandoned>>
  /\ UNCHANGED <<managed, endpoint, emitting, replaying, queued, accepted>>

\* The request: answered with a 2xx, or refused, or failed or timed out.  The
\* consumer may have accepted a request that timed out.
PostEvent(x) ==
  /\ x.phase = "post"
  /\ \/ Advance(x, "succeeded") /\ accepted' = accepted \cup {x.env.delivery}
     \/ Advance(x, "refused") /\ UNCHANGED accepted
  /\ UNCHANGED <<rows, queued, failed, abandoned>>

\* Both marks write only where the claim token is still the execution's own.
HoldsClaim(x) ==
  LET r == delivery[x.env.delivery] IN r # None /\ r.token = x.token

Release(d, status) ==
  delivery' = [delivery EXCEPT ![d].status = status, ![d].token = 0, ![d].live = FALSE]

\* The update may fail, and then the claim is not given back.
MarkDelivered(x) ==
  /\ x.phase = "succeeded"
  /\ \/ /\ HoldsClaim(x)
        /\ Release(x.env.delivery, "delivered")
        /\ Advance(x, "ack") /\ UNCHANGED <<failed, abandoned>>
     \/ /\ ~HoldsClaim(x)
        /\ Advance(x, "ack") /\ Abandon(x) /\ UNCHANGED <<delivery, failed>>
     \/ FailExecution(x) /\ UNCHANGED <<delivery, abandoned>>
  /\ UNCHANGED <<managed, endpoint, emitting, replaying, queued, accepted>>

MarkFailed(x) ==
  /\ x.phase = "refused"
  /\ \/ IF HoldsClaim(x)
        THEN Release(x.env.delivery, delivery[x.env.delivery].status)
        ELSE UNCHANGED delivery
     \/ UNCHANGED delivery
  /\ FailExecution(x)
  /\ UNCHANGED <<managed, endpoint, emitting, replaying, queued, accepted, abandoned>>

\* The runtime's answer to a retryable failure.
ScheduleRetry(x) ==
  /\ x.phase = "retry"
  /\ queued' = queued \cup {[x.env EXCEPT !.attempts = @ + 1]}
  /\ Advance(x, "ack")
  /\ UNCHANGED <<rows, accepted, failed, abandoned>>

\* onDeadLetter: whatever the row's status and whoever holds its claim.
OnDeadLetter(x) ==
  /\ x.phase = "cleanup"
  /\ IF delivery[x.env.delivery] # None
     THEN Release(x.env.delivery, "dead_letter")
     ELSE UNCHANGED delivery
  /\ Advance(x, "ack")
  /\ UNCHANGED <<managed, endpoint, emitting, replaying, queued, accepted, failed, abandoned>>

Acknowledge(x) ==
  /\ x.phase = "ack"
  /\ queued' = queued \ {x.env}
  /\ running' = running \ {x}
  /\ UNCHANGED <<rows, accepted, failed, abandoned>>

Crash(x) ==
  /\ running' = running \ {x}
  /\ UNCHANGED <<rows, queued, accepted, failed, abandoned>>

\* CLAIM_TTL_MS passes, also while the holder is still at work.
ClaimExpires(d) ==
  /\ delivery[d] # None /\ delivery[d].live
  /\ delivery' = [delivery EXCEPT ![d].live = FALSE]
  /\ UNCHANGED <<managed, endpoint, emitting, replaying, queued, running, accepted, failed, abandoned>>

-----------------------------------------------------------------------------
(* replayWebhookDelivery: a read, its checks, then an update by id.        *)

LoadForReplay(r, d) ==
  /\ replaying[r] = None /\ mode = {}
  /\ delivery[d] # None /\ delivery[d].status = "dead_letter"
  /\ endpoint[d[2]] = "enabled"
  /\ replaying' = [replaying EXCEPT ![r] = d]
  /\ UNCHANGED <<managed, endpoint, emitting, delivery, queued, running, accepted, failed, abandoned>>

CommitReplay(r) ==
  LET d == replaying[r] IN
  /\ d \in Deliveries
  /\ IF delivery[d] # None THEN Release(d, "pending") ELSE UNCHANGED delivery
  /\ queued' = queued \cup {[delivery |-> d, run |-> r, attempts |-> 0]}
  /\ replaying' = [replaying EXCEPT ![r] = Done]
  /\ UNCHANGED <<managed, endpoint, emitting, running, accepted, failed, abandoned>>

-----------------------------------------------------------------------------
HandlerStep(x) ==
  \/ ClaimDelivery(x) \/ PostEvent(x) \/ MarkDelivered(x) \/ MarkFailed(x)
  \/ ScheduleRetry(x) \/ OnDeadLetter(x) \/ Acknowledge(x)

Next ==
  \/ \E p \in Endpoints :
       \/ \E enabled \in BOOLEAN : SetEndpointEnabled(p, enabled)
       \/ DeleteEndpoint(p)
       \/ \E filter \in SUBSET Matches, enabled \in BOOLEAN : UpdateEndpoint(p, filter, enabled)
       \/ ClearPreviousSecret(p)
  \/ \E r \in Rotations : RotateSecret(r) \/ \E p \in Endpoints : LoadSecret(r, p)
  \/ \E v \in Events : SelectEndpoints(v) \/ CommitEvent(v)
  \/ \E lane \in Lanes, env \in queued : StartExecution(lane, env)
  \/ \E x \in running : HandlerStep(x) \/ Crash(x)
  \/ \E d \in Deliveries : ClaimExpires(d)
  \/ \E r \in Requests : CommitReplay(r) \/ \E d \in Deliveries : LoadForReplay(r, d)

Spec == Init /\ [][Next]_vars

-----------------------------------------------------------------------------
(* Correctness.                                                            *)

\* What strands a Delivery is an execution that is acknowledged although it met a
\* live claim or had lost its own: no crash, failed update, lapsed lease, deletion
\* or replay leaves a pending row without an envelope otherwise
\* (deliver.ts 63-193, emit.ts 90-150).
OnlyAbandonedWorkIsStranded ==
  \A d \in Deliveries \ abandoned :
    (delivery[d] # None /\ delivery[d].status = "pending") =>
      \E env \in queued : env.delivery = d

\* A Delivery is marked delivered only after its consumer answered with a
\* 2xx, however many executions raced for its claim (deliver.ts 165-193).
DeliveredWasAccepted ==
  \A d \in Deliveries :
    (delivery[d] # None /\ delivery[d].status = "delivered") => d \in accepted

\* No two executions ever act under the same claim, and the claim a row names
\* while it is live belongs to no one else than the last to take it: the
\* token comparison of the marks is sound (deliver.ts 117-135, 179-184).
ClaimsAreDistinct ==
  \A x, y \in running :
    (x # y /\ x.env.delivery = y.env.delivery /\ x.token # 0) => x.token # y.token

\* A Delivery is dead-lettered only when some run of it spent its attempts
\* (CONTEXT.md: "a Delivery that exhausted automatic retries").
DeadLetteredWhenSpent ==
  \A d \in Deliveries :
    (delivery[d] # None /\ delivery[d].status = "dead_letter") =>
      \E run \in Requests \cup {None} : \A k \in 0..(MaxAttempts - 1) :
        [delivery |-> d, run |-> run, attempts |-> k] \in failed

\* The token of a live claim is never replaced by another execution's: its
\* holder, a dead-lettering or a replay may release it, but nobody claims the
\* Delivery before its lease has run out (deliver.ts 89-94).
LiveClaimIsKept ==
  [][\A d \in Deliveries :
       (/\ delivery[d] # None /\ delivery'[d] # None
        /\ delivery[d].live /\ delivery'[d].token # delivery[d].token)
         => delivery'[d].token = 0]_vars

\* A request under way is signed with a secret its Endpoint still lists,
\* whatever rotation or clearing came after its claim, until a second one does
\* (CONTEXT.md: "Rotation keeps the previous secret for a bounded verification
\* window").  Two rotations that overlapped have lost one of their secrets.
RequestsVerify ==
  \A x \in running : LET p == x.env.delivery[2] IN
    (x.phase = "post" /\ x.since < 2 /\ p \notin crossed) =>
      x.secret \in {secret[p].current, secret[p].previous}

\* The rows against their executions: claims are distinct, attempts are
\* spent before a burial, and signatures verify (deliver.ts 63-296).
Inv == TypeOK /\ DeliveredWasAccepted /\ ClaimsAreDistinct /\ DeadLetteredWhenSpent
       /\ RequestsVerify
=============================================================================
