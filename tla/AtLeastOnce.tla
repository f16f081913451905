---------------------------- MODULE AtLeastOnce ----------------------------
(***************************************************************************)
(* What the job queue promises: a job that was accepted stays owed until   *)
(* it is settled.  It may stay owed, or become owed again, afterwards: a   *)
(* second execution of the same stream entry can fail and schedule a retry *)
(* of work the first one finished.                                         *)
(***************************************************************************)
CONSTANT Jobs
VARIABLES accepted, owed, settled

Init == accepted = {} /\ owed = {} /\ settled = {}

\* The enqueue commits.
Accept(j) ==
  /\ j \in Jobs \ accepted
  /\ accepted' = accepted \cup {j}
  /\ owed' = owed \cup {j}
  /\ UNCHANGED settled

\* An execution succeeds or buries the job; the queue may still carry it.
Settle(j) ==
  /\ j \in owed
  /\ settled' = settled \cup {j}
  /\ UNCHANGED <<accepted, owed>>

\* The queue stops carrying a job that has been settled.
Discharge(j) ==
  /\ j \in owed \cap settled
  /\ owed' = owed \ {j}
  /\ UNCHANGED <<accepted, settled>>

\* A duplicate execution schedules a retry of a job that is settled.
Revive(j) ==
  /\ j \in settled
  /\ owed' = owed \cup {j}
  /\ UNCHANGED <<accepted, settled>>

Next == \E j \in Jobs : Accept(j) \/ Settle(j) \/ Discharge(j) \/ Revive(j)

Spec == Init /\ [][Next]_<<accepted, owed, settled>>
=============================================================================
