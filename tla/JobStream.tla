----------------------------- MODULE JobStream -----------------------------
(***************************************************************************)
(* The Redis side of packages/jobs: a stream read through a consumer       *)
(* group, the sorted set of delayed envelopes, the dead-letter table, and  *)
(* the worker loops that consume, reclaim, retry and bury jobs.            *)
(*                                                                         *)
(* There is no clock: a delay may elapse and a delivery may become idle at *)
(* any moment, because nothing in the code bounds how long a handler, a    *)
(* queue of 100 entries behind 10 fibres or a database call takes.         *)
(***************************************************************************)
EXTENDS JobWorkers, Naturals, FiniteSets

CONSTANTS
  DelayUntil,   \* the jobs enqueued with EnqueueOptions.delayUntil
  Malformed,    \* the jobs whose envelope or payload does not decode
  MaxAttempts,  \* retry.maxAttempts of the contract
  BatchSize,    \* count of XREADGROUP and XAUTOCLAIM
  MaxEntries    \* bound: stream entries ever appended

ASSUME JobStreamAssumption ==
  /\ DelayUntil \subseteq Jobs
  /\ Malformed \subseteq Jobs
  /\ MaxAttempts \in Nat \ {0}
  /\ BatchSize \in Nat \ {0}
  /\ MaxEntries \in Nat

VARIABLES
  ready,        \* stream entries not yet delivered to the group
  pending,      \* the group's pending entries list
  delayed,      \* members of the delayed sorted set
  group,        \* whether the consumer group exists
  lastId,       \* last stream id handed out
  running,      \* entries being processed in memory, by worker and loop
  deadLetters,  \* rows of the dead-letter table
  delivered,    \* history: jobs handed to Redis at least once
  handled,      \* history: jobs whose handler returned success
  cleaned,      \* history: jobs whose onDeadLetter hook completed
  tried         \* history: the attempts the handler was given, per job

redisVars  == <<ready, pending, delayed, group, lastId>>
history    == <<delivered, handled, cleaned, tried>>
streamVars == <<redisVars, running, deadLetters, history>>

Loops    == {"batch", "reclaim"}
Phases   == {"handle", "retry", "cleanup", "record", "ack"}
Failures == {"none", "undecodable", "retryable", "terminal"}

Envelope   == [job : Jobs, attempts : Nat]
Entry      == [id : Nat, job : Jobs, attempts : Nat]
Execution  == [worker : Workers, loop : Loops, entry : Entry, phase : Phases,
               failure : Failures]
DeadLetter == [entry : Entry, attempts : Nat, failure : Failures]

StreamTypeOK ==
  /\ ready \subseteq Entry
  /\ pending \subseteq Entry
  /\ delayed \subseteq Envelope
  /\ group \in BOOLEAN
  /\ lastId \in Nat
  /\ running \subseteq Execution
  /\ deadLetters \subseteq DeadLetter
  /\ delivered \subseteq Jobs
  /\ handled \subseteq Jobs
  /\ cleaned \subseteq Jobs
  /\ tried \subseteq Envelope

StreamInit ==
  /\ ready = {} /\ pending = {} /\ delayed = {}
  /\ group = FALSE /\ lastId = 0
  /\ running = {} /\ deadLetters = {}
  /\ delivered = {} /\ handled = {} /\ cleaned = {} /\ tried = {}

-----------------------------------------------------------------------------
(* Writes to Redis.                                                        *)

\* XADD of an envelope to the ready stream.
Append(env) ==
  /\ lastId < MaxEntries
  /\ ready' = ready \cup {[id |-> lastId + 1, job |-> env.job, attempts |-> env.attempts]}
  /\ lastId' = lastId + 1

\* A fresh envelope reaches Redis, from jobs.enqueue or from the outbox: ZADD
\* when it is delayed, else XADD.
Deliver(j) ==
  LET env == [job |-> j, attempts |-> 0] IN
  /\ \/ /\ j \in DelayUntil
        /\ delayed' = delayed \cup {env}
        /\ UNCHANGED <<ready, lastId>>
     \/ /\ j \notin DelayUntil
        /\ Append(env)
        /\ UNCHANGED delayed
  /\ delivered' = delivered \cup {j}
  /\ UNCHANGED <<pending, group, running, deadLetters, handled, cleaned, tried>>

\* The body of PROMOTE_DELAYED_JOBS_SCRIPT for one due member: XADD, ZREM.
PromoteDelayed(env) ==
  /\ group
  /\ env \in delayed
  /\ Append(env)
  /\ delayed' = delayed \ {env}
  /\ UNCHANGED <<pending, group, running, deadLetters, history>>

-----------------------------------------------------------------------------
(* The consume and reclaim loops.                                          *)

Started(w, loop, S) ==
  {[worker |-> w, loop |-> loop, entry |-> e, phase |-> "handle", failure |-> "none"] :
     e \in S}

\* A loop takes its next batch only when it has finished the previous one.
LoopIdle(w, loop) == \A x \in running : ~(x.worker = w /\ x.loop = loop)

\* Mutant: XREADGROUP with NOACK.
ReadWithoutPending(w) ==
  /\ group /\ LoopIdle(w, "batch")
  /\ \E e \in ready : /\ ready' = ready \ {e}
                       /\ running' = running \cup Started(w, "batch", {e})
  /\ UNCHANGED <<pending, delayed, group, lastId, deadLetters, history>>

\* XREADGROUP ... STREAMS >.
ProcessJobBatch(w) ==
  /\ group /\ LoopIdle(w, "batch")
  /\ \E S \in SUBSET ready :
       /\ S # {} /\ Cardinality(S) <= BatchSize
       /\ ready' = ready \ S
       /\ pending' = pending \cup S
       /\ running' = running \cup Started(w, "batch", S)
  /\ UNCHANGED <<delayed, group, lastId, deadLetters, history>>

\* XAUTOCLAIM: whatever has been idle, whoever is still working on it.
ReclaimStaleJobs(w) ==
  /\ group /\ LoopIdle(w, "reclaim")
  /\ \E S \in SUBSET pending :
       /\ S # {} /\ Cardinality(S) <= BatchSize
       /\ running' = running \cup Started(w, "reclaim", S)
  /\ UNCHANGED <<redisVars, deadLetters, history>>

-----------------------------------------------------------------------------
(* processJob: what one execution does with its entry.                     *)

Become(x, y) == running' = (running \ {x}) \cup {y}
Advance(x, phase) == Become(x, [x EXCEPT !.phase = phase])
FailWith(x, phase, failure) == Become(x, [x EXCEPT !.phase = phase, !.failure = failure])

\* The attempt the handler is given and a retry or a dead letter records.
Attempt(x) == x.entry.attempts + 1

\* Decoding fails and the handler never runs.
DecodeFails(x) ==
  /\ x.phase = "handle" /\ x.entry.job \in Malformed
  /\ FailWith(x, "record", "undecodable")
  /\ UNCHANGED <<redisVars, deadLetters, history>>

\* Mutant: the attempt limit is compared with <=.
HandleOneTooMany(x) ==
  /\ x.phase = "handle" /\ x.entry.job \notin Malformed
  /\ tried' = tried \cup {[job |-> x.entry.job, attempts |-> Attempt(x)]}
  /\ \/ Attempt(x) <= MaxAttempts /\ FailWith(x, "retry", "retryable")
     \/ Attempt(x) > MaxAttempts /\ FailWith(x, "cleanup", "retryable")
  /\ UNCHANGED <<redisVars, deadLetters, delivered, handled, cleaned>>

\* The handler runs; classifyFailure and the attempt limit decide what follows.
Handle(x) ==
  /\ x.phase = "handle" /\ x.entry.job \notin Malformed
  /\ tried' = tried \cup {[job |-> x.entry.job, attempts |-> Attempt(x)]}
  /\ \/ /\ Advance(x, "ack")
        /\ handled' = handled \cup {x.entry.job}
     \/ /\ Attempt(x) < MaxAttempts
        /\ FailWith(x, "retry", "retryable")
        /\ UNCHANGED handled
     \/ /\ Attempt(x) >= MaxAttempts
        /\ FailWith(x, "cleanup", "retryable")
        /\ UNCHANGED handled
     \/ /\ FailWith(x, "cleanup", "terminal")
        /\ UNCHANGED handled
  /\ UNCHANGED <<redisVars, deadLetters, delivered, cleaned>>

\* Mutant: the entry is acknowledged although the retry was not written.
AcknowledgeWithoutRetry(x) ==
  /\ x.phase = "retry"
  /\ Advance(x, "ack")
  /\ UNCHANGED <<redisVars, deadLetters, history>>

\* ZADD of the envelope with its new attempt count.
ScheduleRetry(x) ==
  /\ x.phase = "retry"
  /\ delayed' = delayed \cup {[job |-> x.entry.job, attempts |-> Attempt(x)]}
  /\ Advance(x, "ack")
  /\ UNCHANGED <<ready, pending, group, lastId, deadLetters, history>>

OnDeadLetter(x) ==
  /\ x.phase = "cleanup"
  /\ cleaned' = cleaned \cup {x.entry.job}
  /\ Advance(x, "record")
  /\ UNCHANGED <<redisVars, deadLetters, delivered, handled, tried>>

\* Insert; a row already there for this stream entry is kept as it is.
RecordDeadLetter(x) ==
  /\ x.phase = "record"
  /\ deadLetters' =
       IF \E d \in deadLetters : d.entry = x.entry THEN deadLetters
       ELSE deadLetters \cup
              {[entry |-> x.entry, attempts |-> Attempt(x), failure |-> x.failure]}
  /\ Advance(x, "ack")
  /\ UNCHANGED <<redisVars, history>>

Acknowledge(x) ==
  /\ x.phase = "ack"
  /\ pending' = pending \ {x.entry}
  /\ running' = running \ {x}
  /\ UNCHANGED <<ready, delayed, group, lastId, deadLetters, history>>

ProcessJob(x) ==
  \/ DecodeFails(x) \/ Handle(x)
  \/ ScheduleRetry(x) \/ OnDeadLetter(x) \/ RecordDeadLetter(x)
  \/ Acknowledge(x)

\* Mutant: the group is created at id "$", so older entries are never read.
GroupAtTheEnd(w) ==
  /\ group' = TRUE
  /\ ready' = IF group THEN ready ELSE {}
  /\ running' = {x \in running : x.worker # w}
  /\ UNCHANGED <<pending, delayed, lastId, deadLetters, history>>

\* A worker starts: the first time, after a crash, or because an error failed
\* runJobWorker and Effect.retry runs it again.  Every fibre it had is gone.
\* The group is created at id "0", so what the stream already holds is due.
RunJobWorker(w) ==
  /\ group' = TRUE
  /\ running' = {x \in running : x.worker # w}
  /\ UNCHANGED <<ready, pending, delayed, lastId, deadLetters, history>>

\* What the workers do, whoever delivers.
WorkerNext ==
  \/ \E env \in delayed : PromoteDelayed(env)
  \/ \E w \in Workers : RunJobWorker(w) \/ ProcessJobBatch(w) \/ ReclaimStaleJobs(w)
  \/ \E x \in running : ProcessJob(x)

StreamNext == (\E j \in Jobs : Deliver(j)) \/ WorkerNext

StreamSpec == StreamInit /\ [][StreamNext]_streamVars

\* The loops run forever.  Deliveries and failures are never required to
\* happen; the first start is.
StreamFairness ==
  /\ WF_streamVars(~group /\ \E w \in Workers : RunJobWorker(w))
  /\ WF_streamVars(\E env \in delayed : PromoteDelayed(env))
  /\ \A w \in Workers :
       /\ WF_streamVars(ProcessJobBatch(w))
       /\ WF_streamVars(ReclaimStaleJobs(w))
       /\ WF_streamVars(\E x \in running : x.worker = w /\ ProcessJob(x))

FairStreamSpec == StreamSpec /\ StreamFairness

-----------------------------------------------------------------------------
(* Correctness.                                                            *)

\* Some durable record still owes job j an execution with at least k
\* attempts behind it.
Carried(j, k) ==
  \E c \in ready \cup pending \cup delayed : c.job = j /\ c.attempts >= k

\* Job j reached an end: its handler succeeded or it is in the dead-letter table.
Settled(j) == j \in handled \/ \E d \in deadLetters : d.entry.job = j

\* No delivered job is lost: until it is settled, a stream entry, the pending
\* list or the delayed set still carries it, whatever crashes, is delivered
\* twice or collapses with an equal retry envelope (worker.ts processJob).
NoJobLost == \A j \in delivered : Carried(j, 0) \/ Settled(j)

\* The retry policy is spent in order: a job buried for a retryable failure
\* had every attempt from 1 to maxAttempts given to its handler, and no
\* handler is ever given a later one (worker.ts 270-343).
RetriesSpent ==
  /\ \A d \in deadLetters : d.failure = "retryable" =>
       \A k \in 1..MaxAttempts : [job |-> d.entry.job, attempts |-> k] \in tried
  /\ \A t \in tried : t.attempts <= MaxAttempts

\* A decodable job enters the dead-letter table only after its onDeadLetter
\* hook completed, even when the worker died between the two and the entry
\* was processed again (worker.ts 313-331).
BuriedAfterCleanup ==
  \A d \in deadLetters : d.entry.job \in Malformed \/ d.entry.job \in cleaned

\* An entry leaves the pending list only when something else answers for its
\* job: a settled outcome, or an envelope with more attempts behind it
\* (worker.ts 299-350: the acknowledgement is the last write).
AcknowledgedLast ==
  [][\A e \in pending \ pending' :
       Settled(e.job)' \/ Carried(e.job, e.attempts + 1)']_streamVars

\* If workers eventually stop failing, and the behaviour is not cut by the
\* bound on stream ids, every delivered job is settled (FairStreamSpec).
EveryJobSettles ==
  (/\ <>[][~ \E w \in Workers : group /\ RunJobWorker(w)]_streamVars
   /\ [](lastId < MaxEntries))
    => \A j \in Jobs : j \in delivered ~> Settled(j)

\* What holds of every envelope and burial: the types, the retry policy spent
\* in order, and no burial before its cleanup (worker.ts processJob).
StreamInv == StreamTypeOK /\ RetriesSpent /\ BuriedAfterCleanup
=============================================================================
