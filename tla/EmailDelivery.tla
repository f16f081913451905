--------------------------- MODULE EmailDelivery ---------------------------
(***************************************************************************)
(* The email.deliver job of packages/channels: it loads a Delivery, checks *)
(* that it may be sent, tries the Providers of its Domain in failover      *)
(* order behind a circuit breaker, and settles the row, its Usage and the  *)
(* Webhook Event.  The Deliveries of one Domain share its Providers.       *)
(*                                                                         *)
(* The job runtime is what JobStream guarantees: an envelope stays queued  *)
(* until an execution of it acknowledges, the outbox may publish a job a   *)
(* second time, and an execution may die between any two of its steps.     *)
(***************************************************************************)
EXTENDS Naturals, Sequences, FiniteSets, FiniteSetsExt

CONSTANTS
  Deliveries,
  Providers,
  Order,        \* the Domain's identities: the active one, then by priority
  KindOf,       \* the provider kind, "managed" or "byo", of each Provider
  Lanes,        \* loops of the workers that may execute an envelope
  MaxAttempts,  \* retry.maxAttempts of email.deliver
  Threshold,    \* FAILURE_THRESHOLD of the circuit
  MaxSends,     \* bound: messages of one Delivery a Provider ever accepts
  Modes,        \* what a behaviour may meet
  None

Kinds == {"managed", "byo"}

ASSUME EmailDeliveryAssumption ==
  /\ Order \in Seq(Providers) /\ Order # <<>>
  /\ KindOf \in [Providers -> Kinds]
  /\ MaxAttempts \in Nat \ {0}
  /\ Threshold \in Nat \ {0}
  /\ MaxSends \in Nat /\ IsFiniteSet(Lanes)
  /\ Modes \subseteq SUBSET {"overlap", "faults", "changes", "suppressions"}
  /\ None \notin Providers

\* overlap: two executions of a Delivery may be at work at once.
\* faults:  databases fail, jobs are published again, workers crash.
\* changes: the Domain and its identities change.
\* suppressions: contacts are suppressed and released.
VARIABLES
  mode,        \* one of Modes
  domain,      \* the sender Domain: live, paused or removed
  verified,    \* the Providers whose identity is verified
  suppressed,  \* the Deliveries whose recipients are all suppressed
  circuit,     \* per Provider: failures counted in its breaker
  row,         \* email_delivery: status and the Provider that sent it
  usage,       \* the reservation of each Delivery: status and provider kind
  queued,      \* envelopes of email.deliver not yet acknowledged
  republished, \* Deliveries whose job the outbox published a second time
  running,     \* executions of the handler
  announced,   \* per Delivery: the Webhook Events committed for it
  accepted,    \* history: how many times a Provider took the message
  lost         \* history: acceptances whose execution ended before confirming

world == <<mode, domain, verified, suppressed>>
jobs  == <<queued, republished>>
vars  == <<world, circuit, row, usage, jobs, running, announced, accepted, lost>>

Phases == {"load", "pause", "filter", "skip", "identities", "begin", "choose",
           "remeter", "send", "sendFailed", "leave", "accepted", "confirm", "mark",
           "exhausted", "retry", "cleanup", "ack"}
Statuses  == {"queued", "sending", "sent", "failed", "skipped"}
Events    == {"message.sent", "message.failed", "delivery.skipped"}
Envelope  == [delivery : Deliveries, attempts : Nat]
\* route: the places in Order of the identities not yet left.
Execution == [lane : Lanes, env : Envelope, phase : Phases,
              route : SUBSET (1..Len(Order)), standby : BOOLEAN]

TypeOK ==
  /\ mode \in Modes
  /\ domain \in {"live", "paused", "removed"}
  /\ verified \subseteq Providers /\ suppressed \subseteq Deliveries
  /\ circuit \in [Providers -> 0..Threshold]
  /\ row \in [Deliveries -> [status : Statuses, provider : Providers \cup {None}]]
  /\ usage \in [Deliveries -> [status : {"reserved", "confirmed", "released"}, kind : Kinds]]
  /\ queued \subseteq Envelope /\ republished \subseteq Deliveries
  /\ running \subseteq Execution
  /\ announced \in [Deliveries -> SUBSET Events]
  /\ accepted \in [Deliveries -> Nat] /\ lost \in [Deliveries -> Nat]

\* Accepted Deliveries: the row and its job are committed, and Usage is reserved
\* for the kind of the Provider then active, or "byo" when none was verified.
Init ==
  /\ mode \in Modes
  /\ domain = "live" /\ verified = Providers /\ suppressed = {}
  /\ circuit = [p \in Providers |-> 0]
  /\ row = [d \in Deliveries |-> [status |-> "queued", provider |-> None]]
  /\ usage \in [Deliveries -> [status : {"reserved"}, kind : Kinds]]
  /\ queued = {[delivery |-> d, attempts |-> 0] : d \in Deliveries}
  /\ republished = {} /\ running = {}
  /\ announced = [d \in Deliveries |-> {}]
  /\ accepted = [d \in Deliveries |-> 0] /\ lost = [d \in Deliveries |-> 0]

-----------------------------------------------------------------------------
(* The world around the handler.                                           *)

SetDomainPaused(paused) ==
  /\ "changes" \in mode /\ domain # "removed"
  /\ domain' = IF paused THEN "paused" ELSE "live"
  /\ UNCHANGED <<mode, verified, suppressed, circuit, row, usage, jobs, running,
                 announced, accepted, lost>>

\* deleteCustomDomain deletes the identities; the row of a Domain that has
\* Deliveries stays, because their foreign key restricts its deletion.
RemoveDomain ==
  /\ "changes" \in mode /\ domain # "removed"
  /\ domain' = "removed" /\ verified' = {}
  /\ UNCHANGED <<mode, suppressed, circuit, row, usage, jobs, running,
                 announced, accepted, lost>>

SetVerified(p, ok) ==
  /\ "changes" \in mode /\ domain # "removed"
  /\ verified' = IF ok THEN verified \cup {p} ELSE verified \ {p}
  /\ UNCHANGED <<mode, domain, suppressed, circuit, row, usage, jobs, running,
                 announced, accepted, lost>>

SetSuppressed(d, all) ==
  /\ "suppressions" \in mode
  /\ suppressed' = IF all THEN suppressed \cup {d} ELSE suppressed \ {d}
  /\ UNCHANGED <<mode, domain, verified, circuit, row, usage, jobs, running,
                 announced, accepted, lost>>

\* The breaker's key expires; its TTL is the cooldown, so it closes with it.
CircuitExpires(p) ==
  /\ circuit' = [circuit EXCEPT ![p] = 0]
  /\ UNCHANGED <<world, row, usage, jobs, running, announced, accepted, lost>>

\* The outbox publishes the job again after its claim lapsed.
PublishAgain(d) ==
  /\ "faults" \in mode /\ d \notin republished
  /\ republished' = republished \cup {d}
  /\ queued' = queued \cup {[delivery |-> d, attempts |-> 0]}
  /\ UNCHANGED <<world, circuit, row, usage, running, announced, accepted, lost>>

\* A loop of a worker takes the envelope.
StartExecution(lane, env) ==
  /\ env \in queued
  /\ \A x \in running : x.env.delivery = env.delivery => "overlap" \in mode /\ x.lane # lane
  /\ running' = running \cup {[lane |-> lane, env |-> env, phase |-> "load",
                               route |-> {}, standby |-> FALSE]}
  /\ UNCHANGED <<world, circuit, row, usage, jobs, announced, accepted, lost>>

-----------------------------------------------------------------------------
(* How an execution goes on.                                               *)

Become(x, y) == running' = (running \ {x}) \cup {y}
Advance(x, phase) == Become(x, [x EXCEPT !.phase = phase])
Terminate(x) == Advance(x, "cleanup")
FailRetryably(x) ==
  Advance(x, IF x.env.attempts + 1 < MaxAttempts THEN "retry" ELSE "cleanup")

SetStatus(d, status) == row' = [row EXCEPT ![d].status = status]
Announce(d, event) == announced' = [announced EXCEPT ![d] = @ \cup {event}]

\* listFailoverProviderIdentities.
Route == {i \in 1..Len(Order) : Order[i] \in verified}

Current(x) == Order[Min(x.route)]
CircuitAllows(p) == circuit[p] < Threshold

\* An execution holds an acceptance that it has not yet confirmed.
Unconfirmed(x) == x.phase \in {"accepted", "confirm"}
Lose(x) ==
  lost' = IF Unconfirmed(x) THEN [lost EXCEPT ![x.env.delivery] = @ + 1] ELSE lost

\* The next identity of the loop; after the last one every Provider failed.
NextProvider(x) ==
  Become(x, [x EXCEPT !.route = x.route \ {Min(x.route)}, !.standby = TRUE, !.phase = "choose"])

-----------------------------------------------------------------------------
(* The handler.                                                            *)

\* Mutant: a skipped Delivery is not over.
OverWhenSent(d) == row[d].status = "sent"

\* The statuses that make an execution a no-op; nothing writes "canceled".
Over(d) == row[d].status \in {"sent", "skipped"}

\* The row and its Domain are read.
LoadDelivery(x) ==
  LET d == x.env.delivery IN
  /\ x.phase = "load"
  /\ Advance(x, IF Over(d) THEN "ack" ELSE IF domain = "paused" THEN "pause" ELSE "filter")
  /\ UNCHANGED <<world, circuit, row, usage, jobs, announced, accepted, lost>>

\* A paused Domain ends the job, without a Webhook Event.
FailPaused(x) ==
  /\ x.phase = "pause"
  /\ SetStatus(x.env.delivery, "failed") /\ Terminate(x)
  /\ UNCHANGED <<world, circuit, usage, jobs, announced, accepted, lost>>

\* filterSuppressedContacts, of all three lists of recipients.
FilterSuppressed(x) ==
  /\ x.phase = "filter"
  /\ Advance(x, IF x.env.delivery \in suppressed THEN "skip" ELSE "identities")
  /\ UNCHANGED <<world, circuit, row, usage, jobs, announced, accepted, lost>>

\* The transaction that skips a Delivery nobody is left to receive.
SkipDelivery(x) ==
  LET d == x.env.delivery IN
  /\ x.phase = "skip"
  /\ SetStatus(d, "skipped") /\ Announce(d, "delivery.skipped") /\ Terminate(x)
  /\ UNCHANGED <<world, circuit, usage, jobs, accepted, lost>>

LoadIdentities(x) ==
  /\ x.phase = "identities"
  /\ IF Route = {} THEN Terminate(x)
     ELSE Become(x, [x EXCEPT !.phase = "begin", !.route = Route])
  /\ UNCHANGED <<world, circuit, row, usage, jobs, announced, accepted, lost>>

BeginSending(x) ==
  /\ x.phase = "begin"
  /\ SetStatus(x.env.delivery, "sending")
  /\ Advance(x, "choose")
  /\ UNCHANGED <<world, circuit, usage, jobs, announced, accepted, lost>>

\* providerCircuitAllow: an open circuit passes the message to the next one.
ChooseProvider(x) ==
  /\ x.phase = "choose"
  /\ IF x.route = {} THEN Advance(x, "exhausted")
     ELSE IF CircuitAllows(Current(x)) THEN Advance(x, "remeter")
     ELSE NextProvider(x)
  /\ UNCHANGED <<world, circuit, row, usage, jobs, announced, accepted, lost>>

\* Mutant: the send goes on although the reservation was finalized.
RemeterAnyway(x) ==
  /\ x.phase = "remeter"
  /\ Advance(x, "send")
  /\ UNCHANGED <<world, circuit, row, usage, jobs, announced, accepted, lost>>

\* usage.remeter.  A reservation already finalized fails the execution; the
\* bucket of another provider kind may be exhausted, which leaves the
\* Provider for the next.
Remeter(x) ==
  LET d == x.env.delivery  kind == KindOf[Current(x)] IN
  /\ x.phase = "remeter"
  /\ \/ /\ usage[d].status # "reserved"
        /\ FailRetryably(x) /\ UNCHANGED usage
     \/ /\ usage[d].status = "reserved"
        /\ usage' = [usage EXCEPT ![d].kind = kind]
        /\ Advance(x, "send")
     \/ /\ usage[d].status = "reserved" /\ usage[d].kind # kind
        /\ NextProvider(x) /\ UNCHANGED usage
  /\ UNCHANGED <<world, circuit, row, jobs, announced, accepted, lost>>

Took(d) ==
  /\ accepted[d] < MaxSends
  /\ accepted' = [accepted EXCEPT ![d] = @ + 1]

\* adapter.send: accepted, refused, or accepted with the answer lost.
Send(x) ==
  LET d == x.env.delivery IN
  /\ x.phase = "send"
  /\ \/ Took(d) /\ Advance(x, "accepted") /\ UNCHANGED lost
     \/ Advance(x, "sendFailed") /\ UNCHANGED <<accepted, lost>>
     \/ /\ "faults" \in mode /\ Took(d)
        /\ lost' = [lost EXCEPT ![d] = @ + 1]
        /\ Advance(x, "sendFailed")
  /\ UNCHANGED <<world, circuit, row, usage, jobs, announced>>

RecordFailure(x) ==
  LET p == Current(x) IN
  /\ x.phase = "sendFailed"
  /\ circuit' = [circuit EXCEPT ![p] = IF @ < Threshold THEN @ + 1 ELSE @]
  /\ Advance(x, "leave")
  /\ UNCHANGED <<world, row, usage, jobs, announced, accepted, lost>>

\* The primary is left only if its circuit is now open; a standby always is.
LeaveProvider(x) ==
  /\ x.phase = "leave"
  /\ IF ~x.standby /\ CircuitAllows(Current(x)) THEN FailRetryably(x)
                                                ELSE NextProvider(x)
  /\ UNCHANGED <<world, circuit, row, usage, jobs, announced, accepted, lost>>

RecordSuccess(x) ==
  /\ x.phase = "accepted"
  /\ circuit' = [circuit EXCEPT ![Current(x)] = 0]
  /\ Advance(x, "confirm")
  /\ UNCHANGED <<world, row, usage, jobs, announced, accepted, lost>>

\* usage.confirm: refused when the reservation was released meanwhile.
ConfirmUsage(x) ==
  LET d == x.env.delivery IN
  /\ x.phase = "confirm"
  /\ IF usage[d].status = "released"
     THEN FailRetryably(x) /\ Lose(x) /\ UNCHANGED usage
     ELSE /\ usage' = [usage EXCEPT ![d].status = "confirmed"]
          /\ Advance(x, "mark") /\ UNCHANGED lost
  /\ UNCHANGED <<world, circuit, row, jobs, announced, accepted>>

\* The transaction of markSent.
MarkSent(x) ==
  LET d == x.env.delivery IN
  /\ x.phase = "mark"
  /\ row' = [row EXCEPT ![d] = [status |-> "sent", provider |-> Current(x)]]
  /\ Announce(d, "message.sent")
  /\ Advance(x, "ack")
  /\ UNCHANGED <<world, circuit, usage, jobs, accepted, lost>>

\* Every Provider was left: failed, announced, and retried all the same.
MarkFailed(x) ==
  LET d == x.env.delivery IN
  /\ x.phase = "exhausted"
  /\ SetStatus(d, "failed")
  /\ Announce(d, "message.failed")
  /\ FailRetryably(x)
  /\ UNCHANGED <<world, circuit, usage, jobs, accepted, lost>>

\* A query, a Redis call or an event insert fails: retryable wherever it is.
\* The call that failed may have been executed when it is usage.confirm.
InfrastructureFails(x) ==
  /\ "faults" \in mode /\ x.phase \notin {"send", "retry", "cleanup", "ack"}
  /\ FailRetryably(x)
  /\ \/ Lose(x) /\ UNCHANGED usage
     \/ /\ x.phase = "confirm" /\ usage[x.env.delivery].status # "released"
        /\ usage' = [usage EXCEPT ![x.env.delivery].status = "confirmed"]
        /\ UNCHANGED lost
  /\ UNCHANGED <<world, circuit, row, jobs, announced, accepted>>

-----------------------------------------------------------------------------
(* The runtime's answer.                                                   *)

ScheduleRetry(x) ==
  /\ x.phase = "retry"
  /\ queued' = queued \cup {[x.env EXCEPT !.attempts = @ + 1]}
  /\ Advance(x, "ack")
  /\ UNCHANGED <<world, circuit, row, usage, republished, announced, accepted, lost>>

\* onDeadLetter releases the Usage and ignores its failure.
OnDeadLetter(x) ==
  LET d == x.env.delivery IN
  /\ x.phase = "cleanup"
  /\ \/ usage' = IF usage[d].status = "reserved"
                 THEN [usage EXCEPT ![d].status = "released"] ELSE usage
     \/ "faults" \in mode /\ UNCHANGED usage
  /\ Advance(x, "ack")
  /\ UNCHANGED <<world, circuit, row, jobs, announced, accepted, lost>>

Acknowledge(x) ==
  /\ x.phase = "ack"
  /\ queued' = queued \ {x.env}
  /\ running' = running \ {x}
  /\ UNCHANGED <<world, circuit, row, usage, republished, announced, accepted, lost>>

Crash(x) ==
  /\ "faults" \in mode
  /\ running' = running \ {x}
  /\ Lose(x)
  /\ UNCHANGED <<world, circuit, row, usage, jobs, announced, accepted>>

HandlerStep(x) ==
  \/ LoadDelivery(x) \/ FailPaused(x) \/ FilterSuppressed(x) \/ SkipDelivery(x)
  \/ LoadIdentities(x) \/ BeginSending(x) \/ ChooseProvider(x) \/ Remeter(x)
  \/ Send(x) \/ RecordFailure(x) \/ LeaveProvider(x) \/ RecordSuccess(x)
  \/ ConfirmUsage(x) \/ MarkSent(x) \/ MarkFailed(x)
  \/ ScheduleRetry(x) \/ OnDeadLetter(x) \/ Acknowledge(x)

Next ==
  \/ RemoveDomain
  \/ \E paused \in BOOLEAN : SetDomainPaused(paused)
  \/ \E p \in Providers : CircuitExpires(p) \/ \E ok \in BOOLEAN : SetVerified(p, ok)
  \/ \E d \in Deliveries : PublishAgain(d) \/ \E all \in BOOLEAN : SetSuppressed(d, all)
  \/ \E lane \in Lanes, env \in queued : StartExecution(lane, env)
  \/ \E x \in running : HandlerStep(x) \/ InfrastructureFails(x) \/ Crash(x)

Spec == Init /\ [][Next]_vars

-----------------------------------------------------------------------------
(* Correctness.                                                            *)

\* message.sent is announced only for a message that a Provider took and
\* whose Usage is consumed, whatever overlaps or crashes (handler.ts 78-124).
AnnouncedWasSent ==
  \A d \in Deliveries : "message.sent" \in announced[d] =>
    accepted[d] > 0 /\ usage[d].status = "confirmed"

\* The reservation is the gate that keeps a message from being sent again: a
\* Provider takes it once, plus once for every acceptance whose execution
\* ended before its confirmation, plus once for every other loop that was
\* already past the gate (handler.ts 126-162, usage-ledger.ts 96).
SendsAreBounded ==
  \A d \in Deliveries : accepted[d] <= lost[d] + Cardinality(Lanes)

\* Without overlapping executions, every acceptance is either consumed Usage,
\* about to be confirmed, or one that a failure cut off before it could be:
\* no message is sent twice unless the confirmation of the first was lost.
EveryAcceptanceAccountedFor ==
  "overlap" \notin mode => \A d \in Deliveries :
    LET held == {x \in running : x.env.delivery = d /\ Unconfirmed(x)} IN
    accepted[d] = lost[d] + Cardinality(held)
                  + (IF usage[d].status = "confirmed" THEN 1 ELSE 0)

\* A Delivery that was sent is charged at the kind of the Provider that sent
\* it, after any number of failovers and retries, unless its executions
\* overlapped (usage.remeter).
ChargedAtTheSendingKind ==
  "overlap" \notin mode => \A d \in Deliveries : row[d].status = "sent" => usage[d].kind = KindOf[row[d].provider]

\* What a Delivery tells its Project stays true without overlap: once message.sent or
\* delivery.skipped is announced the status keeps saying so, and nothing else
\* is announced (handler.test.ts: "no-ops when the Delivery is already sent").
OutcomeIsFinal ==
  [][\A d \in Deliveries :
       ("overlap" \notin mode /\ row[d].status \in {"sent", "skipped"}) =>
         row'[d] = row[d] /\ announced'[d] = announced[d]]_vars

\* What holds whatever overlaps: announcements are true and metered, and the
\* Usage gate bounds the sends (handler.ts 78-162).
Inv == TypeOK /\ AnnouncedWasSent /\ SendsAreBounded /\ ChargedAtTheSendingKind
=============================================================================
