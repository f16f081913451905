------------------------------ MODULE JobQueue ------------------------------
(***************************************************************************)
(* The whole job runtime: JobOutbox and JobStream share the worker         *)
(* processes.  Publishing a row is one step of both, and a worker that     *)
(* fails loses what it was publishing together with what it was running.   *)
(***************************************************************************)
EXTENDS JobOutbox, JobStream

CONSTANT Transactional  \* the jobs whose contract has dispatch "transactional"

ASSUME JobQueueAssumption == Transactional \subseteq Jobs

vars == <<outboxVars, streamVars>>

Init == OutboxInit /\ StreamInit

\* jobs.enqueue: in the caller's transaction, or straight into Redis.
Enqueue(j) ==
  \/ /\ j \in Transactional
     /\ StageJob(j)
     /\ UNCHANGED streamVars
  \/ /\ j \in Jobs \ Transactional
     /\ j \notin delivered
     /\ Deliver(j)
     /\ UNCHANGED outboxVars

\* The publisher's Redis write is the stream's delivery.
Publish(w, j) ==
  \/ PublishOutboxJob(w, j) /\ Deliver(j)
  \/ ReleaseClaim(w, j, TRUE) /\ Deliver(j)
  \/ ReleaseClaim(w, j, FALSE) /\ UNCHANGED streamVars
  \/ MarkPublished(w, j) /\ UNCHANGED streamVars

\* runJobWorker starts again: both halves of its memory are gone.
Restart(w) == RestartPublisher(w) /\ RunJobWorker(w)

\* The publisher loop starts with the others, after the group was created.
Claim(w) == group /\ ClaimOutboxJobs(w) /\ UNCHANGED streamVars
Expire(j) == ClaimExpires(j) /\ UNCHANGED streamVars

\* The loops that touch Redis and the handlers only.
Consume ==
  /\ UNCHANGED outboxVars
  /\ \/ \E env \in delayed : PromoteDelayed(env)
     \/ \E w \in Workers : ProcessJobBatch(w) \/ ReclaimStaleJobs(w)
     \/ \E x \in running : ProcessJob(x)

Next ==
  \/ \E j \in Jobs : Enqueue(j)
  \/ \E j \in Transactional : Expire(j)
  \/ \E w \in Workers : Claim(w) \/ Restart(w)
  \/ \E w \in Workers, j \in Transactional : Publish(w, j)
  \/ Consume

Spec == Init /\ [][Next]_vars

-----------------------------------------------------------------------------
\* A job is accepted when its row commits, or when its direct write returns.
Accepted == {j \in Transactional : row[j].status # "absent"} \cup (delivered \ Transactional)

\* What still answers for a job: its unpublished row, or an envelope in Redis.
Owed == {j \in Accepted : \/ j \in Transactional /\ row[j].status = "pending"
                          \/ Carried(j, 0)}

SettledJobs == {j \in Jobs : Settled(j)}

\* End to end, a committed job is never lost between the outbox row and its
\* last acknowledgement: it is owed by a row or by Redis until its handler
\* succeeded or it is in the dead-letter table (outbox.ts and worker.ts).
NoAcceptedJobLost == Accepted \subseteq Owed \cup SettledJobs

\* Every step of the runtime is a step of the queue its callers rely on, so a
\* job is discharged only after it was settled, and is settled only after it
\* was accepted.
Contract == INSTANCE AtLeastOnce WITH
  accepted <- Accepted, owed <- Owed, settled <- SettledJobs
AtLeastOnceContract == Contract!Spec
=============================================================================
