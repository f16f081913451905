----------------------------- MODULE JobOutbox -----------------------------
(***************************************************************************)
(* The Postgres side of packages/jobs: rows staged with the caller's       *)
(* transaction, claimed in batches under a lease by the publisher loop of  *)
(* each worker, written to Redis and marked published.                     *)
(*                                                                         *)
(* A lease may lapse at any moment: nothing bounds how long a publisher    *)
(* takes between its claim and its last write.                             *)
(***************************************************************************)
EXTENDS JobWorkers, Naturals, FiniteSets

CONSTANTS
  None,             \* the null claim token
  OutboxBatchSize,  \* batchSize of the outbox options
  MaxLapses         \* bound: claims of one row that lapse or are released

ASSUME JobOutboxAssumption ==
  /\ None \notin Workers /\ IsFiniteSet(Workers)
  /\ OutboxBatchSize \in Nat \ {0}
  /\ MaxLapses \in Nat

VARIABLES
  row,        \* job_outbox: status, claim token, whether the claim expired
  publisher,  \* per worker and job: how far its publish has come
  copies,     \* history: how many times a row was written to Redis
  lapses      \* history: how many claims of a row expired or were released

outboxVars == <<row, publisher, copies, lapses>>

Row == [status : {"absent", "pending", "published"},
        token : Workers \cup {None}, expired : BOOLEAN]

OutboxTypeOK ==
  /\ row \in [Jobs -> Row]
  /\ publisher \in [Workers \X Jobs -> {"idle", "claimed", "appended"}]
  /\ copies \in [Jobs -> Nat]
  /\ lapses \in [Jobs -> Nat]

Unclaimed(status) == [status |-> status, token |-> None, expired |-> FALSE]

OutboxInit ==
  /\ row = [j \in Jobs |-> Unclaimed("absent")]
  /\ publisher = [p \in Workers \X Jobs |-> "idle"]
  /\ copies = [j \in Jobs |-> 0]
  /\ lapses = [j \in Jobs |-> 0]

\* jobs.enqueue(contract, payload, transaction): the row commits with the
\* caller's transaction.
StageJob(j) ==
  /\ row[j].status = "absent"
  /\ row' = [row EXCEPT ![j] = Unclaimed("pending")]
  /\ UNCHANGED <<publisher, copies, lapses>>

\* Mutant: the claim filter forgets the claims that are still live.
AnyPending == {j \in Jobs : row[j].status = "pending"}

\* Mutant: the claim filter forgets the claims that expired.
NeverClaimed == {j \in Jobs : row[j].status = "pending" /\ row[j].token = None}

Claimable == {j \in Jobs : /\ row[j].status = "pending"
                           /\ row[j].token = None \/ row[j].expired}

\* One transaction: select ... for update skip locked, then set the claim.
\* A loop claims only when it has finished its previous batch.
ClaimOutboxJobs(w) ==
  /\ \A j \in Jobs : publisher[<<w, j>>] = "idle"
  /\ \E S \in SUBSET Claimable :
       /\ S # {} /\ Cardinality(S) <= OutboxBatchSize
       /\ row' = [j \in Jobs |->
            IF j \in S THEN [status |-> "pending", token |-> w, expired |-> FALSE]
                       ELSE row[j]]
       /\ publisher' = [p \in Workers \X Jobs |->
            IF p[1] = w /\ p[2] \in S THEN "claimed" ELSE publisher[p]]
  /\ UNCHANGED <<copies, lapses>>

\* claimTtlMs passes.
ClaimExpires(j) ==
  /\ row[j].token # None /\ ~row[j].expired
  /\ lapses[j] < MaxLapses
  /\ row' = [row EXCEPT ![j].expired = TRUE]
  /\ lapses' = [lapses EXCEPT ![j] = @ + 1]
  /\ UNCHANGED <<publisher, copies>>

\* The Redis write of publishOutboxJob succeeds.
PublishOutboxJob(w, j) ==
  /\ publisher[<<w, j>>] = "claimed"
  /\ publisher' = [publisher EXCEPT ![<<w, j>>] = "appended"]
  /\ copies' = [copies EXCEPT ![j] = @ + 1]
  /\ UNCHANGED <<row, lapses>>

\* Mutant: the claim is released whoever holds it.
ReleaseAnyClaim(w, j, applied) ==
  /\ publisher[<<w, j>>] = "claimed"
  /\ publisher' = [publisher EXCEPT ![<<w, j>>] = "idle"]
  /\ row' = [row EXCEPT ![j] = Unclaimed("pending")]
  /\ UNCHANGED <<copies, lapses>>

\* The write is reported failed, and the claim is released where the token is
\* still ours.  `applied` tells whether Redis executed it before the error.
ReleaseClaim(w, j, applied) ==
  /\ publisher[<<w, j>>] = "claimed"
  /\ publisher' = [publisher EXCEPT ![<<w, j>>] = "idle"]
  /\ IF row[j].token = w
     THEN /\ row' = [row EXCEPT ![j] = Unclaimed("pending")]
          /\ IF row[j].expired
             THEN UNCHANGED lapses
             ELSE /\ lapses[j] < MaxLapses
                  /\ lapses' = [lapses EXCEPT ![j] = @ + 1]
     ELSE UNCHANGED <<row, lapses>>
  /\ copies' = IF applied THEN [copies EXCEPT ![j] = @ + 1] ELSE copies

\* Mutant: the row is marked published before the Redis write.
MarkPublishedFirst(w, j) ==
  /\ publisher[<<w, j>>] = "claimed" /\ row[j].token = w
  /\ publisher' = [publisher EXCEPT ![<<w, j>>] = "idle"]
  /\ row' = [row EXCEPT ![j] = Unclaimed("published")]
  /\ UNCHANGED <<copies, lapses>>

\* The row becomes published where the token is still ours.
MarkPublished(w, j) ==
  /\ publisher[<<w, j>>] = "appended"
  /\ publisher' = [publisher EXCEPT ![<<w, j>>] = "idle"]
  /\ row' = IF row[j].token = w THEN [row EXCEPT ![j] = Unclaimed("published")] ELSE row
  /\ UNCHANGED <<copies, lapses>>

\* The worker fails or crashes and starts again: its claims stay in the
\* table, what it was publishing is forgotten.
RestartPublisher(w) ==
  /\ publisher' = [p \in Workers \X Jobs |-> IF p[1] = w THEN "idle" ELSE publisher[p]]
  /\ UNCHANGED <<row, copies, lapses>>

OutboxNext ==
  \/ \E j \in Jobs : StageJob(j) \/ ClaimExpires(j)
  \/ \E w \in Workers : ClaimOutboxJobs(w) \/ RestartPublisher(w)
  \/ \E w \in Workers, j \in Jobs :
       \/ PublishOutboxJob(w, j) \/ MarkPublished(w, j)
       \/ \E applied \in BOOLEAN : ReleaseClaim(w, j, applied)

OutboxSpec == OutboxInit /\ [][OutboxNext]_outboxVars

\* The publisher loop runs forever and the clock advances; staging a row and
\* failing are never required to happen.
OutboxFairness ==
  /\ \A j \in Jobs : WF_outboxVars(ClaimExpires(j))
  /\ \A w \in Workers :
       /\ WF_outboxVars(ClaimOutboxJobs(w))
       /\ \A j \in Jobs : WF_outboxVars(PublishOutboxJob(w, j) \/ MarkPublished(w, j))

FairOutboxSpec == OutboxSpec /\ OutboxFairness

-----------------------------------------------------------------------------
(* Correctness.                                                            *)

\* A row leaves the pending status only once its job reached Redis: whatever
\* crashes between the claim, the append and the update, a committed row is
\* either still to be published or was delivered (outbox.ts 126-159).
NoRowSkipped == \A j \in Jobs : row[j].status = "published" => copies[j] > 0

\* A row is written to Redis once, plus at most once for every claim of it
\* that expired or was released while its publisher could still write: two
\* workers never publish the same row under a live claim (outbox.ts 32-81).
DuplicatesNeedALapse == \A j \in Jobs : copies[j] <= 1 + lapses[j]

\* While no claim of a row has lapsed, one worker at most is publishing it;
\* each lapse lets in at most one more (the skip-locked claim, outbox.ts 41-71).
LiveClaimIsExclusive ==
  \A j \in Jobs :
    Cardinality({w \in Workers : publisher[<<w, j>>] # "idle"}) <= 1 + lapses[j]

\* Published is final, and only the holder of the claim token publishes a row
\* or gives its claim back (outbox.ts 98 and 120).
OnlyTheHolderWrites ==
  [][\A j \in Jobs :
       /\ row[j].status = "published" => row'[j] = row[j]
       /\ (row[j].token # None /\ row'[j].token = None) =>
            publisher[<<row[j].token, j>>] # "idle"]_outboxVars

\* If workers eventually stop failing, and the behaviour is not cut by the
\* bound on lapses, every staged row is published (FairOutboxSpec).
EveryRowPublished ==
  (/\ <>[][~ \E w \in Workers : RestartPublisher(w)]_outboxVars
   /\ [](\A j \in Jobs : lapses[j] < MaxLapses))
    => \A j \in Jobs : row[j].status = "pending" ~> row[j].status = "published"

\* What a lease gives: while none lapsed a row has one publisher and is
\* written to Redis once (outbox.ts 32-159).
OutboxInv == OutboxTypeOK /\ NoRowSkipped /\ DuplicatesNeedALapse /\ LiveClaimIsExclusive
=============================================================================
