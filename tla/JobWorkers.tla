----------------------------- MODULE JobWorkers -----------------------------
(***************************************************************************)
(* What both halves of the job runtime speak of.                           *)
(***************************************************************************)
CONSTANTS
  Jobs,     \* the jobs that may be enqueued
  Workers   \* worker processes: each is a consumer of the stream's group and
            \* publishes rows of the outbox
=============================================================================
