------------------------ MODULE QueueAndLedgerProofs ------------------------
(***************************************************************************)
(* Proofs about what jobs and Usage rest on.                               *)
(*                                                                         *)
(* The job runtime, for any jobs, finite set of workers, attempts and      *)
(* lapses: the outbox, the stream, and their composition, which implements *)
(* the queue that its callers rely on.                                     *)
(*                                                                         *)
(* The Usage ledger, for every set of Deliveries, windows and policies: a  *)
(* script changes one reservation, so the number of holders of a bucket    *)
(* moves by the difference between what that Delivery held before and      *)
(* after; each script moves the counter the same way, except in a bucket   *)
(* its policy does not meter.                                              *)
(***************************************************************************)
EXTENDS JobQueue, UsageLedger, FiniteSetTheorems, TLAPS

-----------------------------------------------------------------------------
(* The outbox: type correctness.                                           *)

\* The state keeps its type in every step.
LEMMA OutboxStepTyped == OutboxTypeOK /\ [OutboxNext]_outboxVars => OutboxTypeOK'
<1> SUFFICES ASSUME OutboxTypeOK, [OutboxNext]_outboxVars PROVE OutboxTypeOK'
  OBVIOUS
<1> USE JobOutboxAssumption
<1>1. ASSUME NEW j \in Jobs, StageJob(j) PROVE OutboxTypeOK'
  BY <1>1 DEF StageJob, OutboxTypeOK, Row, Unclaimed
<1>2. ASSUME NEW j \in Jobs, ClaimExpires(j) PROVE OutboxTypeOK'
  <2>1. [row[j] EXCEPT !.expired = TRUE] \in Row
    BY DEF OutboxTypeOK, Row
  <2>. QED BY <1>2, <2>1 DEF ClaimExpires, OutboxTypeOK
<1>3. ASSUME NEW w \in Workers, ClaimOutboxJobs(w) PROVE OutboxTypeOK'
  <2>1. PICK S \in SUBSET Claimable :
          /\ row' = [j \in Jobs |->
               IF j \in S THEN [status |-> "pending", token |-> w, expired |-> FALSE]
                          ELSE row[j]]
          /\ publisher' = [p \in Workers \X Jobs |->
               IF p[1] = w /\ p[2] \in S THEN "claimed" ELSE publisher[p]]
    BY <1>3 DEF ClaimOutboxJobs
  <2>. QED BY <1>3, <2>1 DEF ClaimOutboxJobs, OutboxTypeOK, Row
<1>4. ASSUME NEW w \in Workers, RestartPublisher(w) PROVE OutboxTypeOK'
  BY <1>4 DEF RestartPublisher, OutboxTypeOK
<1>5. ASSUME NEW w \in Workers, NEW j \in Jobs, PublishOutboxJob(w, j) PROVE OutboxTypeOK'
  BY <1>5 DEF PublishOutboxJob, OutboxTypeOK
<1>6. ASSUME NEW w \in Workers, NEW j \in Jobs, MarkPublished(w, j) PROVE OutboxTypeOK'
  BY <1>6 DEF MarkPublished, OutboxTypeOK, Row, Unclaimed
<1>7. ASSUME NEW w \in Workers, NEW j \in Jobs, NEW applied \in BOOLEAN,
             ReleaseClaim(w, j, applied)
      PROVE OutboxTypeOK'
  <2>1. Unclaimed("pending") \in Row
    BY DEF Row, Unclaimed
  <2>2. row' \in [Jobs -> Row] /\ lapses' \in [Jobs -> Nat]
    BY <1>7, <2>1 DEF ReleaseClaim, OutboxTypeOK
  <2>3. copies' \in [Jobs -> Nat]
    BY <1>7 DEF ReleaseClaim, OutboxTypeOK
  <2>. QED BY <1>7, <2>2, <2>3 DEF ReleaseClaim, OutboxTypeOK
<1>8. CASE UNCHANGED outboxVars
  BY <1>8 DEF OutboxTypeOK, outboxVars
<1>. QED
  BY <1>1, <1>2, <1>3, <1>4, <1>5, <1>6, <1>7, <1>8 DEF OutboxNext

\* Every reachable state is well typed, for all values of the constants.
THEOREM RowsTyped == OutboxSpec => []OutboxTypeOK
<1>1. OutboxInit => OutboxTypeOK
  BY DEF OutboxInit, OutboxTypeOK, Row, Unclaimed
<1>. QED BY <1>1, OutboxStepTyped, PTL DEF OutboxSpec

-----------------------------------------------------------------------------
(* Its inductive invariant.                                                *)

Writers(j) == {w \in Workers : publisher[<<w, j>>] = "claimed"}
Busy(j)    == {w \in Workers : publisher[<<w, j>>] # "idle"}

\* A row that is not pending holds no claim, a row not staged has no
\* publisher, and what was appended or published was written.
RowsAndWrites ==
  \A j \in Jobs :
    /\ row[j].status # "pending" => row[j].token = None
    /\ row[j].status = "absent" => copies[j] = 0 /\ Busy(j) = {}
    /\ row[j].status = "published" => copies[j] > 0
    /\ \A w \in Workers : publisher[<<w, j>>] = "appended" => copies[j] > 0

\* The writes of a row made and still to be made, and its publishers, are one
\* more at most than its lapses; while it can be claimed they are no more.
Budget ==
  \A j \in Jobs :
    /\ copies[j] + Cardinality(Writers(j)) <= 1 + lapses[j]
    /\ Cardinality(Busy(j)) <= 1 + lapses[j]
    /\ j \in Claimable => /\ copies[j] + Cardinality(Writers(j)) <= lapses[j]
                          /\ Cardinality(Busy(j)) <= lapses[j]

IInv == OutboxTypeOK /\ RowsAndWrites /\ Budget

\* The publishers of a row are finitely many.
LEMMA PublishersFinite ==
  ASSUME NEW j
  PROVE  /\ IsFiniteSet(Writers(j)) /\ Cardinality(Writers(j)) \in Nat
         /\ IsFiniteSet(Busy(j)) /\ Cardinality(Busy(j)) \in Nat
         /\ Cardinality(Writers(j))' \in Nat /\ Cardinality(Busy(j))' \in Nat
         /\ IsFiniteSet(Writers(j)') /\ IsFiniteSet(Busy(j)')
<1>1. /\ Writers(j) \in SUBSET Workers /\ Busy(j) \in SUBSET Workers
      /\ Writers(j)' \in SUBSET Workers /\ Busy(j)' \in SUBSET Workers
  BY DEF Writers, Busy
<1>. QED
  BY <1>1, JobOutboxAssumption, FS_Subset, FS_CardinalityType

\* A publisher that stops is one publisher less, and never one more.
LEMMA FewerPublishers ==
  ASSUME NEW j, Writers(j)' \subseteq Writers(j), Busy(j)' \subseteq Busy(j)
  PROVE  /\ Cardinality(Writers(j))' <= Cardinality(Writers(j))
         /\ Cardinality(Busy(j))' <= Cardinality(Busy(j))
  BY PublishersFinite, FS_Subset

\* A step that changes nothing of a job keeps its budget.
LEMMA SameJob ==
  ASSUME OutboxTypeOK, Budget, NEW j \in Jobs,
         row'[j] = row[j], copies'[j] = copies[j], lapses'[j] = lapses[j],
         Writers(j)' \subseteq Writers(j), Busy(j)' \subseteq Busy(j)
  PROVE  /\ copies'[j] + Cardinality(Writers(j))' <= 1 + lapses'[j]
         /\ Cardinality(Busy(j))' <= 1 + lapses'[j]
         /\ j \in Claimable' => /\ copies'[j] + Cardinality(Writers(j))' <= lapses'[j]
                                /\ Cardinality(Busy(j))' <= lapses'[j]
<1>1. j \in Claimable' <=> j \in Claimable
  BY DEF Claimable
<1>2. /\ copies[j] + Cardinality(Writers(j)) <= 1 + lapses[j]
      /\ Cardinality(Busy(j)) <= 1 + lapses[j]
      /\ j \in Claimable => /\ copies[j] + Cardinality(Writers(j)) <= lapses[j]
                            /\ Cardinality(Busy(j)) <= lapses[j]
      /\ copies[j] \in Nat /\ lapses[j] \in Nat
  BY DEF Budget, OutboxTypeOK
<1>. QED
  BY <1>1, <1>2, FewerPublishers, PublishersFinite

\* Rows and writes in one step.
LEMMA RowsStep ==
  ASSUME OutboxTypeOK, RowsAndWrites, [OutboxNext]_outboxVars
  PROVE  RowsAndWrites'
<1>. USE JobOutboxAssumption
<1>. SUFFICES ASSUME NEW j \in Jobs
              PROVE  /\ row'[j].status # "pending" => row'[j].token = None
                     /\ row'[j].status = "absent" => copies'[j] = 0 /\ Busy(j)' = {}
                     /\ row'[j].status = "published" => copies'[j] > 0
                     /\ \A w \in Workers : publisher'[<<w, j>>] = "appended" => copies'[j] > 0
  BY DEF RowsAndWrites
<1>. DEFINE Goal == /\ row'[j].status # "pending" => row'[j].token = None
                    /\ row'[j].status = "absent" => copies'[j] = 0 /\ Busy(j)' = {}
                    /\ row'[j].status = "published" => copies'[j] > 0
                    /\ \A w \in Workers : publisher'[<<w, j>>] = "appended" => copies'[j] > 0
<1>0. /\ row[j] \in Row /\ copies[j] \in Nat
      /\ row[j].status # "pending" => row[j].token = None
      /\ row[j].status = "absent" => copies[j] = 0 /\ Busy(j) = {}
      /\ row[j].status = "published" => copies[j] > 0
      /\ \A w \in Workers : publisher[<<w, j>>] = "appended" => copies[j] > 0
  BY DEF RowsAndWrites, OutboxTypeOK
<1>1. ASSUME NEW i \in Jobs, StageJob(i) PROVE Goal
  BY <1>0, <1>1 DEF StageJob, OutboxTypeOK, Unclaimed, Busy
<1>2. ASSUME NEW i \in Jobs, ClaimExpires(i) PROVE Goal
  BY <1>0, <1>2 DEF ClaimExpires, OutboxTypeOK, Row, Busy
<1>3. ASSUME NEW w \in Workers, ClaimOutboxJobs(w) PROVE Goal
  <2>1. PICK S \in SUBSET Claimable :
          /\ row' = [i \in Jobs |->
               IF i \in S THEN [status |-> "pending", token |-> w, expired |-> FALSE]
                          ELSE row[i]]
          /\ publisher' = [p \in Workers \X Jobs |->
               IF p[1] = w /\ p[2] \in S THEN "claimed" ELSE publisher[p]]
    BY <1>3 DEF ClaimOutboxJobs
  <2>2. UNCHANGED copies
    BY <1>3 DEF ClaimOutboxJobs
  <2>3. \A v \in Workers : publisher'[<<v, j>>] = "appended" => publisher[<<v, j>>] = "appended"
    BY <2>1
  <2>4. CASE j \in S
    BY <1>0, <2>1, <2>2, <2>3, <2>4
  <2>5. CASE j \notin S
    <3>1. row'[j] = row[j] /\ Busy(j)' = Busy(j)
      BY <2>1, <2>5 DEF Busy
    <3>. QED BY <1>0, <2>2, <2>3, <3>1
  <2>. QED BY <2>4, <2>5
<1>4. ASSUME NEW w \in Workers, RestartPublisher(w) PROVE Goal
  <2>1. Busy(j)' \subseteq Busy(j)
    BY <1>4 DEF RestartPublisher, Busy
  <2>2. \A v \in Workers : publisher'[<<v, j>>] = "appended" => publisher[<<v, j>>] = "appended"
    BY <1>4 DEF RestartPublisher
  <2>. QED BY <1>0, <1>4, <2>1, <2>2 DEF RestartPublisher
<1>5. ASSUME NEW w \in Workers, NEW i \in Jobs, PublishOutboxJob(w, i) PROVE Goal
  <2>1. w \in Busy(i)
    BY <1>5 DEF PublishOutboxJob, Busy
  <2>2. CASE i = j
    BY <1>0, <1>5, <2>1, <2>2 DEF PublishOutboxJob, OutboxTypeOK
  <2>3. CASE i # j
    <3>1. /\ \A v \in Workers : publisher'[<<v, j>>] = publisher[<<v, j>>]
          /\ copies'[j] = copies[j]
      BY <1>5, <2>3 DEF PublishOutboxJob, OutboxTypeOK
    <3>. QED BY <1>0, <1>5, <3>1 DEF PublishOutboxJob, Busy
  <2>. QED BY <2>2, <2>3
<1>6. ASSUME NEW w \in Workers, NEW i \in Jobs, MarkPublished(w, i) PROVE Goal
  <2>1. /\ \A v \in Workers : publisher'[<<v, j>>] # "idle" =>
                                publisher'[<<v, j>>] = publisher[<<v, j>>]
        /\ copies'[j] = copies[j]
    BY <1>6 DEF MarkPublished, OutboxTypeOK
  <2>2. Busy(j)' \subseteq Busy(j)
    BY <2>1 DEF Busy
  <2>3. \/ row'[j] = row[j]
        \/ i = j /\ row'[j] = Unclaimed("published") /\ publisher[<<w, j>>] = "appended"
    BY <1>6 DEF MarkPublished, OutboxTypeOK
  <2>. QED BY <1>0, <2>1, <2>2, <2>3 DEF Unclaimed
<1>7. ASSUME NEW w \in Workers, NEW i \in Jobs, NEW applied \in BOOLEAN,
             ReleaseClaim(w, i, applied)
      PROVE Goal
  <2>1. /\ \A v \in Workers : publisher'[<<v, j>>] # "idle" =>
                                publisher'[<<v, j>>] = publisher[<<v, j>>]
        /\ copies'[j] = copies[j] \/ (i = j /\ copies'[j] = copies[j] + 1)
    BY <1>7 DEF ReleaseClaim, OutboxTypeOK
  <2>2. Busy(j)' \subseteq Busy(j)
    BY <2>1 DEF Busy
  <2>3. w \in Busy(i)
    BY <1>7 DEF ReleaseClaim, Busy
  <2>4. row'[j] = row[j] \/ (i = j /\ row'[j] = Unclaimed("pending"))
    BY <1>7 DEF ReleaseClaim, OutboxTypeOK
  <2>. QED BY <1>0, <2>1, <2>2, <2>3, <2>4 DEF Unclaimed
<1>8. CASE UNCHANGED outboxVars
  BY <1>0, <1>8 DEF outboxVars, Busy
<1>. QED
  BY <1>1, <1>2, <1>3, <1>4, <1>5, <1>6, <1>7, <1>8 DEF OutboxNext

\* The budget in one step: a claim adds a publisher to a row that had one to
\* spare, and what makes a row claimable again counts as a lapse.
LEMMA BudgetStep ==
  ASSUME OutboxTypeOK, RowsAndWrites, Budget, [OutboxNext]_outboxVars
  PROVE  Budget'
<1>. USE JobOutboxAssumption
<1>. SUFFICES ASSUME NEW j \in Jobs
     PROVE  /\ copies'[j] + Cardinality(Writers(j))' <= 1 + lapses'[j]
            /\ Cardinality(Busy(j))' <= 1 + lapses'[j]
            /\ j \in Claimable' => /\ copies'[j] + Cardinality(Writers(j))' <= lapses'[j]
                                   /\ Cardinality(Busy(j))' <= lapses'[j]
  BY DEF Budget
<1>. DEFINE n == Cardinality(Writers(j))
            m == Cardinality(Busy(j))
            Goal == /\ copies'[j] + n' <= 1 + lapses'[j]
                    /\ m' <= 1 + lapses'[j]
                    /\ j \in Claimable' => copies'[j] + n' <= lapses'[j] /\ m' <= lapses'[j]
<1>0. /\ copies[j] + n <= 1 + lapses[j] /\ m <= 1 + lapses[j]
      /\ j \in Claimable => copies[j] + n <= lapses[j] /\ m <= lapses[j]
      /\ copies[j] \in Nat /\ lapses[j] \in Nat
      /\ n \in Nat /\ m \in Nat /\ n' \in Nat /\ m' \in Nat
  BY PublishersFinite DEF Budget, OutboxTypeOK
<1>s. ASSUME row'[j] = row[j], copies'[j] = copies[j], lapses'[j] = lapses[j],
             Writers(j)' \subseteq Writers(j), Busy(j)' \subseteq Busy(j)
      PROVE  Goal
  BY <1>s, SameJob
<1>1. ASSUME NEW i \in Jobs, StageJob(i) PROVE Goal
  <2>0. /\ Writers(j)' = Writers(j) /\ Busy(j)' = Busy(j)
        /\ copies'[j] = copies[j] /\ lapses'[j] = lapses[j]
    BY <1>1 DEF StageJob, Writers, Busy
  <2>1. CASE i = j
    <3>1. copies[j] = 0 /\ Busy(j) = {} /\ Writers(j) = {}
      BY <1>1, <2>1 DEF StageJob, RowsAndWrites, Writers, Busy
    <3>2. n = 0 /\ m = 0
      BY <3>1, FS_EmptySet
    <3>. QED BY <1>0, <2>0, <3>1, <3>2
  <2>2. CASE i # j
    <3>1. row'[j] = row[j]
      BY <1>1, <2>2 DEF StageJob, OutboxTypeOK
    <3>. QED BY <2>0, <3>1, <1>s
  <2>. QED BY <2>1, <2>2
<1>2. ASSUME NEW i \in Jobs, ClaimExpires(i) PROVE Goal
  <2>0. Writers(j)' = Writers(j) /\ Busy(j)' = Busy(j) /\ copies'[j] = copies[j]
    BY <1>2 DEF ClaimExpires, Writers, Busy
  <2>1. CASE i = j
    <3>1. lapses'[j] = lapses[j] + 1
      BY <1>2, <2>1 DEF ClaimExpires, OutboxTypeOK
    <3>. QED BY <1>0, <2>0, <3>1
  <2>2. CASE i # j
    <3>1. row'[j] = row[j] /\ lapses'[j] = lapses[j]
      BY <1>2, <2>2 DEF ClaimExpires, OutboxTypeOK
    <3>. QED BY <2>0, <3>1, <1>s
  <2>. QED BY <2>1, <2>2
<1>3. ASSUME NEW w \in Workers, ClaimOutboxJobs(w) PROVE Goal
  <2>1. PICK S \in SUBSET Claimable :
          /\ row' = [i \in Jobs |->
               IF i \in S THEN [status |-> "pending", token |-> w, expired |-> FALSE]
                          ELSE row[i]]
          /\ publisher' = [p \in Workers \X Jobs |->
               IF p[1] = w /\ p[2] \in S THEN "claimed" ELSE publisher[p]]
    BY <1>3 DEF ClaimOutboxJobs
  <2>2. UNCHANGED <<copies, lapses>> /\ publisher[<<w, j>>] = "idle"
    BY <1>3 DEF ClaimOutboxJobs
  <2>3. CASE j \in S
    <3>1. /\ Writers(j)' = Writers(j) \cup {w} /\ w \notin Writers(j)
          /\ Busy(j)' = Busy(j) \cup {w} /\ w \notin Busy(j)
      BY <2>1, <2>2, <2>3 DEF Writers, Busy
    <3>2. n' = n + 1 /\ m' = m + 1
      BY <3>1, PublishersFinite, FS_AddElement
    <3>3. j \in Claimable /\ j \notin Claimable'
      BY <2>1, <2>3 DEF Claimable
    <3>. QED BY <1>0, <2>2, <3>2, <3>3
  <2>4. CASE j \notin S
    <3>1. row'[j] = row[j] /\ Writers(j)' = Writers(j) /\ Busy(j)' = Busy(j)
      BY <2>1, <2>4 DEF Writers, Busy
    <3>. QED BY <2>2, <3>1, <1>s
  <2>. QED BY <2>3, <2>4
<1>4. ASSUME NEW w \in Workers, RestartPublisher(w) PROVE Goal
  <2>1. Writers(j)' \subseteq Writers(j) /\ Busy(j)' \subseteq Busy(j)
    BY <1>4 DEF RestartPublisher, Writers, Busy
  <2>. QED BY <1>4, <2>1, <1>s DEF RestartPublisher
<1>5. ASSUME NEW w \in Workers, NEW i \in Jobs, PublishOutboxJob(w, i) PROVE Goal
  <2>1. CASE i = j
    <3>1. /\ Writers(j)' = Writers(j) \ {w} /\ w \in Writers(j) /\ Busy(j)' = Busy(j)
      BY <1>5, <2>1 DEF PublishOutboxJob, Writers, Busy, OutboxTypeOK
    <3>2. n' = n - 1 /\ m' = m
      <4>1. IsFiniteSet(Writers(j))
        BY PublishersFinite
      <4>2. Cardinality(Writers(j) \ {w}) = Cardinality(Writers(j)) - 1
        BY <3>1, <4>1, FS_RemoveElement
      <4>. QED BY <3>1, <4>2
    <3>3. copies'[j] = copies[j] + 1 /\ lapses'[j] = lapses[j] /\ row'[j] = row[j]
      BY <1>5, <2>1 DEF PublishOutboxJob, OutboxTypeOK
    <3>4. j \in Claimable' <=> j \in Claimable
      BY <3>3 DEF Claimable
    <3>. QED BY <1>0, <3>2, <3>3, <3>4
  <2>2. CASE i # j
    <3>1. /\ Writers(j)' = Writers(j) /\ Busy(j)' = Busy(j)
          /\ copies'[j] = copies[j] /\ lapses'[j] = lapses[j] /\ row'[j] = row[j]
      BY <1>5, <2>2 DEF PublishOutboxJob, Writers, Busy, OutboxTypeOK
    <3>. QED BY <3>1, <1>s
  <2>. QED BY <2>1, <2>2
<1>6. ASSUME NEW w \in Workers, NEW i \in Jobs, MarkPublished(w, i) PROVE Goal
  <2>1. /\ Writers(j)' \subseteq Writers(j) /\ Busy(j)' \subseteq Busy(j)
        /\ copies'[j] = copies[j] /\ lapses'[j] = lapses[j]
    BY <1>6 DEF MarkPublished, Writers, Busy, OutboxTypeOK
  <2>2. CASE row'[j] = row[j]
    BY <2>1, <2>2, <1>s
  <2>3. CASE row'[j] = Unclaimed("published")
    <3>1. j \notin Claimable'
      BY <2>3 DEF Claimable, Unclaimed
    <3>. QED BY <1>0, <2>1, <3>1, FewerPublishers
  <2>. QED BY <1>6, <2>2, <2>3 DEF MarkPublished, OutboxTypeOK
<1>7. ASSUME NEW w \in Workers, NEW i \in Jobs, NEW applied \in BOOLEAN,
             ReleaseClaim(w, i, applied)
      PROVE Goal
  <2>1. CASE i = j
    <3>1. /\ Writers(j)' = Writers(j) \ {w} /\ w \in Writers(j)
          /\ Busy(j)' = Busy(j) \ {w} /\ w \in Busy(j)
      BY <1>7, <2>1 DEF ReleaseClaim, Writers, Busy, OutboxTypeOK
    <3>2. n' = n - 1 /\ m' = m - 1
      <4>1. IsFiniteSet(Writers(j)) /\ IsFiniteSet(Busy(j))
        BY PublishersFinite
      <4>2. Cardinality(Writers(j) \ {w}) = Cardinality(Writers(j)) - 1
        BY <3>1, <4>1, FS_RemoveElement
      <4>3. Cardinality(Busy(j) \ {w}) = Cardinality(Busy(j)) - 1
        BY <3>1, <4>1, FS_RemoveElement
      <4>. QED BY <3>1, <4>2, <4>3
    <3>3. copies'[j] \in {copies[j], copies[j] + 1}
      BY <1>7, <2>1 DEF ReleaseClaim, OutboxTypeOK
    <3>4. CASE row[j].token = w /\ ~row[j].expired
      <4>1. lapses'[j] = lapses[j] + 1
        BY <1>7, <2>1, <3>4 DEF ReleaseClaim, OutboxTypeOK
      <4>. QED BY <1>0, <3>2, <3>3, <4>1
    <3>5. CASE row[j].token = w /\ row[j].expired
      <4>1. lapses'[j] = lapses[j]
        BY <1>7, <2>1, <3>5 DEF ReleaseClaim, OutboxTypeOK
      <4>2. row[j].status = "pending"
        BY <3>5 DEF RowsAndWrites
      <4>3. j \in Claimable
        BY <3>5, <4>2 DEF Claimable
      <4>. QED BY <1>0, <3>2, <3>3, <4>1, <4>3
    <3>6. CASE row[j].token # w
      <4>1. lapses'[j] = lapses[j] /\ row'[j] = row[j]
        BY <1>7, <2>1, <3>6 DEF ReleaseClaim
      <4>2. j \in Claimable' <=> j \in Claimable
        BY <4>1 DEF Claimable
      <4>. QED BY <1>0, <3>2, <3>3, <4>1, <4>2
    <3>. QED BY <3>4, <3>5, <3>6
  <2>2. CASE i # j
    <3>1. /\ Writers(j)' = Writers(j) /\ Busy(j)' = Busy(j)
          /\ copies'[j] = copies[j] /\ lapses'[j] = lapses[j] /\ row'[j] = row[j]
      BY <1>7, <2>2 DEF ReleaseClaim, Writers, Busy, OutboxTypeOK
    <3>. QED BY <3>1, <1>s
  <2>. QED BY <2>1, <2>2
<1>8. CASE UNCHANGED outboxVars
  BY <1>8, <1>s DEF outboxVars, Writers, Busy
<1>. QED
  BY <1>1, <1>2, <1>3, <1>4, <1>5, <1>6, <1>7, <1>8 DEF OutboxNext

-----------------------------------------------------------------------------
(* What is proved of the outbox.                                           *)

\* The inductive invariant holds initially.
LEMMA InitInductive == OutboxInit => IInv
<1>. SUFFICES ASSUME OutboxInit PROVE IInv
  OBVIOUS
<1>1. OutboxTypeOK
  BY DEF OutboxInit, OutboxTypeOK, Row, Unclaimed
<1>2. \A j \in Jobs : Writers(j) = {} /\ Busy(j) = {}
  BY DEF OutboxInit, Writers, Busy
<1>3. RowsAndWrites
  BY <1>2 DEF OutboxInit, RowsAndWrites, Unclaimed
<1>4. Budget
  <2>1. \A j \in Jobs : Cardinality(Writers(j)) = 0 /\ Cardinality(Busy(j)) = 0
    BY <1>2, FS_EmptySet
  <2>2. \A j \in Jobs : copies[j] = 0 /\ lapses[j] = 0 /\ j \notin Claimable
    BY DEF OutboxInit, Claimable, Unclaimed
  <2>3. ASSUME NEW j \in Jobs
        PROVE  /\ copies[j] + Cardinality(Writers(j)) <= 1 + lapses[j]
               /\ Cardinality(Busy(j)) <= 1 + lapses[j]
               /\ j \notin Claimable
    BY <2>1, <2>2
  <2>. QED BY <2>3 DEF Budget
<1>. QED
  BY <1>1, <1>3, <1>4 DEF IInv

\* The inductive invariant holds in every reachable state.
LEMMA InductiveHolds == OutboxSpec => []IInv
<1>1. IInv /\ [OutboxNext]_outboxVars => IInv'
  BY OutboxStepTyped, RowsStep, BudgetStep DEF IInv
<1>. QED BY <1>1, InitInductive, PTL DEF OutboxSpec

\* It implies the invariant that the run checks.
LEMMA InductiveSuffices == IInv => OutboxInv
<1>. SUFFICES ASSUME IInv PROVE OutboxInv
  OBVIOUS
<1>1. NoRowSkipped
  BY DEF IInv, RowsAndWrites, NoRowSkipped
<1>2. DuplicatesNeedALapse
  <2>. SUFFICES ASSUME NEW j \in Jobs PROVE copies[j] <= 1 + lapses[j]
    BY DEF DuplicatesNeedALapse
  <2>1. /\ copies[j] + Cardinality(Writers(j)) <= 1 + lapses[j]
        /\ copies[j] \in Nat /\ lapses[j] \in Nat /\ Cardinality(Writers(j)) \in Nat
    BY PublishersFinite DEF IInv, Budget, OutboxTypeOK
  <2>. QED BY <2>1
<1>3. LiveClaimIsExclusive
  BY DEF IInv, Budget, LiveClaimIsExclusive, Busy
<1>. QED
  BY <1>1, <1>2, <1>3 DEF IInv, OutboxInv

\* For any number of jobs, workers and lapses: a published row was written,
\* and each lapse of a claim costs one write and one publisher more at most.
THEOREM LapsesAreCounted == OutboxSpec => []OutboxInv
  BY InductiveHolds, InductiveSuffices, PTL

\* Published is final, and a claim is given up by the publisher that has it.
THEOREM HoldersWrite == OutboxSpec => OnlyTheHolderWrites
<1>1. ASSUME IInv, [OutboxNext]_outboxVars, NEW j \in Jobs
      PROVE  /\ row[j].status = "published" => row'[j] = row[j]
             /\ (row[j].token # None /\ row'[j].token = None) =>
                  publisher[<<row[j].token, j>>] # "idle"
  <2>. USE JobOutboxAssumption
  <2>0. /\ OutboxTypeOK /\ row[j] \in Row
        /\ row[j].status # "pending" => row[j].token = None
    BY <1>1 DEF IInv, RowsAndWrites, OutboxTypeOK
  <2>. DEFINE Goal == /\ row[j].status = "published" => row'[j] = row[j]
                      /\ (row[j].token # None /\ row'[j].token = None) =>
                           publisher[<<row[j].token, j>>] # "idle"
  <2>1. ASSUME NEW i \in Jobs, StageJob(i) PROVE Goal
    BY <2>0, <2>1 DEF StageJob, OutboxTypeOK, Unclaimed
  <2>2. ASSUME NEW i \in Jobs, ClaimExpires(i) PROVE Goal
    BY <2>0, <2>2 DEF ClaimExpires, OutboxTypeOK, Row
  <2>3. ASSUME NEW w \in Workers, ClaimOutboxJobs(w) PROVE Goal
    BY <2>0, <2>3 DEF ClaimOutboxJobs, Claimable
  <2>4. ASSUME NEW w \in Workers, NEW i \in Jobs, MarkPublished(w, i) PROVE Goal
    BY <2>0, <2>4 DEF MarkPublished, OutboxTypeOK, Unclaimed
  <2>5. ASSUME NEW w \in Workers, NEW i \in Jobs, NEW applied \in BOOLEAN,
               ReleaseClaim(w, i, applied)
        PROVE  Goal
    BY <2>0, <2>5 DEF ReleaseClaim, OutboxTypeOK, Unclaimed
  <2>6. CASE UNCHANGED row
    BY <2>6
  <2>. QED
    BY <1>1, <2>1, <2>2, <2>3, <2>4, <2>5, <2>6
    DEF OutboxNext, RestartPublisher, PublishOutboxJob, outboxVars
<1>2. IInv /\ [OutboxNext]_outboxVars =>
        [\A j \in Jobs :
           /\ row[j].status = "published" => row'[j] = row[j]
           /\ (row[j].token # None /\ row'[j].token = None) =>
                publisher[<<row[j].token, j>>] # "idle"]_outboxVars
  BY <1>1
<1>. QED
  BY <1>2, InductiveHolds, PTL DEF OutboxSpec, OnlyTheHolderWrites

-----------------------------------------------------------------------------
(* The stream: type correctness.                                           *)

\* Moving an execution to a next phase keeps the executions well typed.
LEMMA BecomeTyped ==
  ASSUME StreamTypeOK, NEW x \in running, NEW p \in Phases, NEW f \in Failures
  PROVE  /\ (running \ {x}) \cup {[x EXCEPT !.phase = p]} \subseteq Execution
         /\ (running \ {x}) \cup {[x EXCEPT !.phase = p, !.failure = f]}
              \subseteq Execution
  BY DEF StreamTypeOK, Execution

\* The state keeps its type in every step of the stream.
LEMMA StreamStepTyped == StreamTypeOK /\ [StreamNext]_streamVars => StreamTypeOK'
<1> SUFFICES ASSUME StreamTypeOK, [StreamNext]_streamVars PROVE StreamTypeOK'
  OBVIOUS
<1> USE JobStreamAssumption
<1>1. ASSUME NEW j \in Jobs, Deliver(j) PROVE StreamTypeOK'
  BY <1>1 DEF StreamTypeOK, Deliver, Append, Envelope, Entry
<1>2. ASSUME NEW env \in delayed, PromoteDelayed(env) PROVE StreamTypeOK'
  BY <1>2 DEF StreamTypeOK, PromoteDelayed, Append, Envelope, Entry, history
<1>3. ASSUME NEW w \in Workers, RunJobWorker(w) PROVE StreamTypeOK'
  BY <1>3 DEF StreamTypeOK, RunJobWorker, history
<1>4. ASSUME NEW w \in Workers, ProcessJobBatch(w) PROVE StreamTypeOK'
  <2>1. PICK S \in SUBSET ready : /\ ready' = ready \ S
                                  /\ pending' = pending \cup S
                                  /\ running' = running \cup Started(w, "batch", S)
    BY <1>4 DEF ProcessJobBatch
  <2>2. Started(w, "batch", S) \subseteq Execution
    BY <2>1 DEF Started, StreamTypeOK, Execution, Loops, Phases, Failures
  <2>. QED
    BY <1>4, <2>1, <2>2 DEF StreamTypeOK, ProcessJobBatch, history
<1>5. ASSUME NEW w \in Workers, ReclaimStaleJobs(w) PROVE StreamTypeOK'
  <2>1. PICK S \in SUBSET pending : running' = running \cup Started(w, "reclaim", S)
    BY <1>5 DEF ReclaimStaleJobs
  <2>2. Started(w, "reclaim", S) \subseteq Execution
    BY <2>1 DEF Started, StreamTypeOK, Execution, Loops, Phases, Failures
  <2>. QED
    BY <1>5, <2>1, <2>2 DEF StreamTypeOK, ReclaimStaleJobs, history, redisVars
<1>6. ASSUME NEW x \in running, ProcessJob(x) PROVE StreamTypeOK'
  <2>0. x.entry \in Entry /\ x.failure \in Failures /\ x.entry.job \in Jobs
    BY DEF StreamTypeOK, Execution, Entry
  <2>1. CASE DecodeFails(x)
    BY <2>1, BecomeTyped DEF Advance, FailWith, Become, DecodeFails, StreamTypeOK,
                             redisVars, history, Phases, Failures
  <2>2. CASE Handle(x)
    <3>1. running' \subseteq Execution
      BY <2>2, BecomeTyped DEF Advance, FailWith, Become, Handle, Phases, Failures
    <3>2. [job |-> x.entry.job, attempts |-> Attempt(x)] \in Envelope
      BY <2>0 DEF Attempt, Entry, Envelope
    <3>. QED
      BY <2>2, <2>0, <3>1, <3>2 DEF Handle, StreamTypeOK, redisVars
  <2>3. CASE ScheduleRetry(x)
    <3>1. running' \subseteq Execution
      BY <2>0, <2>3, BecomeTyped DEF Advance, FailWith, Become, ScheduleRetry, Phases
    <3>2. [job |-> x.entry.job, attempts |-> Attempt(x)] \in Envelope
      BY <2>0 DEF Attempt, Entry, Envelope
    <3>. QED
      BY <2>3, <3>1, <3>2 DEF ScheduleRetry, StreamTypeOK, history
  <2>4. CASE OnDeadLetter(x)
    BY <2>4, <2>0, BecomeTyped DEF Advance, FailWith, Become, OnDeadLetter, StreamTypeOK,
                                   redisVars, Phases
  <2>5. CASE RecordDeadLetter(x)
    <3>1. running' \subseteq Execution
      BY <2>0, <2>5, BecomeTyped DEF Advance, FailWith, Become, RecordDeadLetter, Phases
    <3>2. [entry |-> x.entry, attempts |-> Attempt(x), failure |-> x.failure] \in DeadLetter
      BY <2>0 DEF Attempt, Entry, DeadLetter
    <3>. QED
      BY <2>5, <3>1, <3>2 DEF RecordDeadLetter, StreamTypeOK, redisVars, history
  <2>6. CASE Acknowledge(x)
    BY <2>6 DEF Acknowledge, StreamTypeOK, history
  <2>. QED
    BY <1>6, <2>1, <2>2, <2>3, <2>4, <2>5, <2>6 DEF ProcessJob
<1>7. CASE UNCHANGED streamVars
  BY <1>7 DEF StreamTypeOK, streamVars, redisVars, history
<1>. QED
  BY <1>1, <1>2, <1>3, <1>4, <1>5, <1>6, <1>7 DEF StreamNext, WorkerNext

\* The initial state is well typed.
LEMMA InitTyped == StreamInit => StreamTypeOK
<1>1. StreamInit => group \in BOOLEAN
  BY Zenon DEF StreamInit
<1>. QED
  BY <1>1 DEF StreamInit, StreamTypeOK

\* Every reachable state of the stream, its table and its workers is well
\* typed, for any constants.
THEOREM StreamTyped == StreamSpec => []StreamTypeOK
  BY InitTyped, StreamStepTyped, PTL DEF StreamSpec

-----------------------------------------------------------------------------
(* No job is lost.  An acknowledgement removes a carrier, so the invariant  *)
(* must say what made it safe: an execution about to acknowledge attempt k  *)
(* has settled its job or left an envelope with more than k attempts.       *)

Answered(j, k) == Settled(j) \/ Carried(j, k)

AckIsSafe ==
  \A x \in running : x.phase = "ack" => Answered(x.entry.job, Attempt(x))

LossInv == StreamTypeOK /\ NoJobLost /\ AckIsSafe

\* Carriers only change by additions in every action but the promotion, the
\* read of a batch and the acknowledgement, and no settled job is unsettled.
LEMMA AnsweredGrows ==
  ASSUME NEW j, NEW k,
         Answered(j, k),
         ready \cup pending \cup delayed \subseteq (ready \cup pending \cup delayed)',
         handled \subseteq handled', deadLetters \subseteq deadLetters'
  PROVE  Answered(j, k)'
  BY DEF Answered, Settled, Carried

\* A carrier with at least k + 1 attempts is one with at least k.
LEMMA AnsweredWeaker ==
  ASSUME StreamTypeOK, NEW j, NEW k \in Nat, Answered(j, k + 1)
  PROVE  Answered(j, k)
  BY DEF Answered, Carried, StreamTypeOK, Entry, Envelope

\* What was answered for stays answered for when a step only moves carriers.
LEMMA AnsweredMoves ==
  ASSUME StreamTypeOK, NEW j, NEW k, Answered(j, k),
         \/ \E env \in delayed : PromoteDelayed(env)
         \/ \E w \in Workers : ProcessJobBatch(w)
  PROVE  Answered(j, k)'
<1>1. ASSUME NEW env \in delayed, PromoteDelayed(env) PROVE Answered(j, k)'
  <2>1. handled' = handled /\ deadLetters' = deadLetters /\ pending' = pending
    BY <1>1 DEF PromoteDelayed, history
  <2>2. CASE Settled(j)
    BY <2>1, <2>2 DEF Answered, Settled
  <2>3. ASSUME NEW c \in ready \cup pending \cup delayed, c.job = j, c.attempts >= k
        PROVE  Carried(j, k)'
    <3>1. CASE c = env
      <4>1. [id |-> lastId + 1, job |-> env.job, attempts |-> env.attempts] \in ready'
        BY <1>1 DEF PromoteDelayed, Append
      <4>. QED
        BY <2>3, <3>1, <4>1 DEF Carried
    <3>2. CASE c # env
      BY <1>1, <2>1, <2>3, <3>2 DEF PromoteDelayed, Append, Carried
    <3>. QED
      BY <3>1, <3>2
  <2>. QED
    BY <2>2, <2>3 DEF Answered, Carried
<1>2. ASSUME NEW w \in Workers, ProcessJobBatch(w) PROVE Answered(j, k)'
  BY <1>2 DEF ProcessJobBatch, history, Answered, Settled, Carried
<1>. QED
  BY <1>1, <1>2

\* An acknowledgement takes a carrier away only with a later one, or an
\* outcome, in its place.
LEMMA AnsweredSurvivesAck ==
  ASSUME LossInv, NEW x \in running, Acknowledge(x), NEW j, NEW k \in Nat, Answered(j, k)
  PROVE  Answered(j, k)'
<1>1. Answered(x.entry.job, Attempt(x))
  BY DEF LossInv, AckIsSafe, Acknowledge
<1>2. /\ ready' = ready /\ delayed' = delayed /\ pending' = pending \ {x.entry}
      /\ handled' = handled /\ deadLetters' = deadLetters
  BY DEF Acknowledge, history
<1>3. x.entry.attempts \in Nat
  BY DEF LossInv, StreamTypeOK, Execution, Entry
<1>4. CASE Settled(j)
  BY <1>2, <1>4 DEF Answered, Settled
<1>5. ASSUME NEW c \in ready \cup pending \cup delayed, c.job = j, c.attempts >= k
      PROVE  Answered(j, k)'
  <2>1. CASE c # x.entry
    BY <1>2, <1>5, <2>1 DEF Answered, Carried
  <2>2. CASE c = x.entry /\ Settled(j)
    BY <1>2, <2>2 DEF Answered, Settled
  <2>3. CASE c = x.entry /\ ~Settled(j)
    <3>1. PICK d \in ready \cup pending \cup delayed :
            d.job = j /\ d.attempts >= x.entry.attempts + 1
      BY <1>1, <1>5, <2>3 DEF Answered, Carried, Attempt
    <3>2. d.attempts \in Nat
      BY DEF LossInv, StreamTypeOK, Entry, Envelope
    <3>3. d # x.entry /\ d.attempts >= k
      BY <1>3, <1>5, <2>3, <3>1, <3>2
    <3>. QED
      BY <1>2, <3>1, <3>3 DEF Answered, Carried
  <2>. QED
    BY <2>1, <2>2, <2>3
<1>. QED
  BY <1>4, <1>5 DEF Answered, Carried

\* In every step of the stream, what was answered for stays answered for.
LEMMA AnsweredStable ==
  ASSUME LossInv, [StreamNext]_streamVars, NEW j, NEW k \in Nat, Answered(j, k)
  PROVE  Answered(j, k)'
<1>1. ASSUME NEW i \in Jobs, Deliver(i) PROVE Answered(j, k)'
  BY <1>1, AnsweredGrows DEF Deliver, Append
<1>2. ASSUME NEW env \in delayed, PromoteDelayed(env) PROVE Answered(j, k)'
  BY <1>2, AnsweredMoves DEF LossInv
<1>3. ASSUME NEW w \in Workers, RunJobWorker(w) PROVE Answered(j, k)'
  BY <1>3, AnsweredGrows DEF RunJobWorker, history
<1>4. ASSUME NEW w \in Workers, ProcessJobBatch(w) PROVE Answered(j, k)'
  BY <1>4, AnsweredMoves DEF LossInv
<1>5. ASSUME NEW w \in Workers, ReclaimStaleJobs(w) PROVE Answered(j, k)'
  BY <1>5, AnsweredGrows DEF ReclaimStaleJobs, redisVars, history
<1>6. ASSUME NEW x \in running, ProcessJob(x) PROVE Answered(j, k)'
  <2>1. CASE DecodeFails(x)
    BY <2>1, AnsweredGrows DEF DecodeFails, redisVars, history
  <2>2. CASE Handle(x)
    BY <2>2, AnsweredGrows DEF Handle, redisVars
  <2>3. CASE ScheduleRetry(x)
    BY <2>3, AnsweredGrows DEF ScheduleRetry, history
  <2>4. CASE OnDeadLetter(x)
    BY <2>4, AnsweredGrows DEF OnDeadLetter, redisVars
  <2>5. CASE RecordDeadLetter(x)
    BY <2>5, AnsweredGrows DEF RecordDeadLetter, redisVars, history
  <2>6. CASE Acknowledge(x)
    BY <2>6, AnsweredSurvivesAck
  <2>. QED
    BY <1>6, <2>1, <2>2, <2>3, <2>4, <2>5, <2>6 DEF ProcessJob
<1>7. CASE UNCHANGED streamVars
  BY <1>7, AnsweredGrows DEF streamVars, redisVars, history
<1>. QED
  BY <1>1, <1>2, <1>3, <1>4, <1>5, <1>6, <1>7 DEF StreamNext, WorkerNext

\* Which executions a step can bring to the acknowledgement, other than those
\* already there: the one that just did the write that makes it safe.
LEMMA NewlyAcked ==
  ASSUME StreamTypeOK, [StreamNext]_streamVars, NEW y \in running', y.phase = "ack"
  PROVE  \/ y \in running
         \/ \E x \in running : /\ x.entry = y.entry
                               /\ \/ Handle(x) /\ x.entry.job \in handled'
                                  \/ ScheduleRetry(x)
                                  \/ RecordDeadLetter(x)
<1>1. ASSUME NEW w \in Workers, ProcessJobBatch(w) \/ ReclaimStaleJobs(w)
      PROVE  y \in running
  BY <1>1 DEF ProcessJobBatch, ReclaimStaleJobs, Started
<1>2. ASSUME NEW x \in running, ProcessJob(x), y \notin running
      PROVE  /\ x.entry = y.entry
             /\ \/ Handle(x) /\ x.entry.job \in handled'
                \/ ScheduleRetry(x)
                \/ RecordDeadLetter(x)
  <2>0. x \in Execution
    BY DEF StreamTypeOK
  <2>1. CASE DecodeFails(x)
    BY <1>2, <2>0, <2>1 DEF DecodeFails, FailWith, Become, Execution
  <2>2. CASE Handle(x)
    BY <1>2, <2>0, <2>2, ZenonT(40) DEF Handle, Advance, FailWith, Become, Execution
  <2>3. CASE ScheduleRetry(x) \/ RecordDeadLetter(x)
    BY <1>2, <2>0, <2>3 DEF ScheduleRetry, RecordDeadLetter, Advance, Become, Execution
  <2>4. CASE OnDeadLetter(x) \/ Acknowledge(x)
    BY <1>2, <2>0, <2>4 DEF OnDeadLetter, Acknowledge, Advance, Become, Execution
  <2>. QED
    BY <1>2, <2>1, <2>2, <2>3, <2>4 DEF ProcessJob
<1>3. ASSUME \/ UNCHANGED streamVars
             \/ \E w \in Workers : RunJobWorker(w)
             \/ \E j \in Jobs : Deliver(j)
             \/ \E env \in delayed : PromoteDelayed(env)
      PROVE  y \in running
  BY <1>3 DEF streamVars, RunJobWorker, Deliver, PromoteDelayed
<1>. QED
  BY <1>1, <1>2, <1>3 DEF StreamNext, WorkerNext

\* Every execution that reaches its acknowledgement is answered for by then.
LEMMA AckIsSafeStep ==
  ASSUME LossInv, [StreamNext]_streamVars PROVE AckIsSafe'
<1> SUFFICES ASSUME NEW y \in running', y.phase = "ack"
             PROVE  Answered(y.entry.job, Attempt(y))'
  BY DEF AckIsSafe, Attempt
<1>1. CASE y \in running
  <2>1. Answered(y.entry.job, Attempt(y)) /\ Attempt(y) \in Nat
    BY <1>1 DEF LossInv, AckIsSafe, StreamTypeOK, Execution, Entry, Attempt
  <2>2. Attempt(y)' = Attempt(y)
    BY DEF Attempt
  <2>. QED
    BY <2>1, <2>2, AnsweredStable DEF Attempt
<1>2. ASSUME NEW x \in running, x.entry = y.entry, Handle(x), x.entry.job \in handled'
      PROVE  Answered(y.entry.job, Attempt(y))'
  BY <1>2 DEF Answered, Settled
<1>3. ASSUME NEW x \in running, x.entry = y.entry, ScheduleRetry(x)
      PROVE  Answered(y.entry.job, Attempt(y))'
  <2>1. x.entry.attempts \in Nat
    BY DEF LossInv, StreamTypeOK, Execution, Entry
  <2>2. [job |-> x.entry.job, attempts |-> Attempt(x)] \in delayed'
    BY <1>3 DEF ScheduleRetry
  <2>. QED
    BY <1>3, <2>1, <2>2 DEF Answered, Carried, Attempt
<1>4. ASSUME NEW x \in running, x.entry = y.entry, RecordDeadLetter(x)
      PROVE  Answered(y.entry.job, Attempt(y))'
  <2>1. \E d \in deadLetters' : d.entry = x.entry
    <3>1. CASE \E d \in deadLetters : d.entry = x.entry
      BY <1>4, <3>1 DEF RecordDeadLetter
    <3>2. CASE ~ \E d \in deadLetters : d.entry = x.entry
      <4>1. [entry |-> x.entry, attempts |-> Attempt(x), failure |-> x.failure]
              \in deadLetters'
        BY <1>4, <3>2 DEF RecordDeadLetter
      <4>. QED
        BY <4>1
    <3>. QED
      BY <3>1, <3>2
  <2>. QED
    BY <1>4, <2>1 DEF Answered, Settled
<1>5. \/ y \in running
      \/ \E x \in running : /\ x.entry = y.entry
                            /\ \/ Handle(x) /\ x.entry.job \in handled'
                               \/ ScheduleRetry(x)
                               \/ RecordDeadLetter(x)
  BY NewlyAcked DEF LossInv
<1>. QED
  BY <1>1, <1>2, <1>3, <1>4, <1>5

\* No step loses a delivered job: a fresh one is carried, an old one stays
\* answered for.
LEMMA NoJobLostStep ==
  ASSUME LossInv, [StreamNext]_streamVars PROVE NoJobLost'
<1> SUFFICES ASSUME NEW j \in delivered' PROVE Answered(j, 0)'
  BY DEF NoJobLost, Answered
<1>1. CASE j \in delivered
  BY <1>1, AnsweredStable DEF LossInv, NoJobLost, Answered
<1>2. CASE j \notin delivered
  <2>1. PICK i \in Jobs : Deliver(i)
    BY <1>2 DEF StreamNext, WorkerNext, Deliver, PromoteDelayed, RunJobWorker, ProcessJobBatch,
                ReclaimStaleJobs, ProcessJob, DecodeFails, Handle, ScheduleRetry,
                OnDeadLetter, RecordDeadLetter, Acknowledge, streamVars, history
  <2>2. i = j
    BY <1>2, <2>1 DEF Deliver
  <2>3. CASE j \in DelayUntil
    <3>1. [job |-> j, attempts |-> 0] \in delayed'
      BY <2>1, <2>2, <2>3 DEF Deliver
    <3>. QED
      BY <3>1 DEF Answered, Carried
  <2>4. CASE j \notin DelayUntil
    <3>1. [id |-> lastId + 1, job |-> j, attempts |-> 0] \in ready'
      BY <2>1, <2>2, <2>4 DEF Deliver, Append
    <3>. QED
      BY <3>1 DEF Answered, Carried
  <2>. QED
    BY <2>3, <2>4
<1>. QED
  BY <1>1, <1>2

\* The strengthened invariant holds in every reachable state.
LEMMA LossInvariant == StreamSpec => []LossInv
<1>1. StreamInit => LossInv
  BY InitTyped DEF StreamInit, LossInv, NoJobLost, AckIsSafe
<1>2. LossInv /\ [StreamNext]_streamVars => LossInv'
  BY StreamStepTyped, NoJobLostStep, AckIsSafeStep DEF LossInv
<1>. QED
  BY <1>1, <1>2, PTL DEF StreamSpec

\* No delivered job is lost, in any behaviour of any instance: LossInv is
\* inductive and contains NoJobLost.
THEOREM NeverLost == StreamSpec => []NoJobLost
<1>1. LossInv => NoJobLost
  BY DEF LossInv
<1>. QED
  BY <1>1, LossInvariant, PTL

\* Only an acknowledgement shrinks the pending list, and only by an entry
\* whose successor or outcome is already durable.
THEOREM AcksComeLast == StreamSpec => AcknowledgedLast
<1>1. ASSUME LossInv, [StreamNext]_streamVars, NEW e \in pending \ pending'
      PROVE  Settled(e.job)' \/ Carried(e.job, e.attempts + 1)'
  <2>1. PICK x \in running : Acknowledge(x)
    BY <1>1 DEF StreamNext, WorkerNext, Deliver, PromoteDelayed, RunJobWorker, ProcessJobBatch,
                ReclaimStaleJobs, ProcessJob, DecodeFails, Handle, ScheduleRetry,
                OnDeadLetter, RecordDeadLetter, streamVars, redisVars
  <2>2. e = x.entry /\ x.phase = "ack" /\ Attempt(x) \in Nat
    BY <1>1, <2>1 DEF Acknowledge, Attempt, LossInv, StreamTypeOK, Execution, Entry
  <2>3. Answered(e.job, e.attempts + 1)
    BY <1>1, <2>2 DEF LossInv, AckIsSafe, Attempt
  <2>4. Answered(e.job, e.attempts + 1)'
    BY <1>1, <2>1, <2>2, <2>3, AnsweredSurvivesAck DEF Attempt
  <2>. QED
    BY <2>4 DEF Answered
<1>2. LossInv /\ [StreamNext]_streamVars =>
        [\A e \in pending \ pending' :
           Settled(e.job)' \/ Carried(e.job, e.attempts + 1)']_streamVars
  BY <1>1
<1>. QED
  BY <1>2, LossInvariant, PTL DEF StreamSpec, AcknowledgedLast

-----------------------------------------------------------------------------
(* The retry policy.  Envelopes carry only attempts that were tried and are *)
(* below the limit; executions remember why they are where they are.        *)

Tried(j, n) == \A k \in 1..n : [job |-> j, attempts |-> k] \in tried

EnvelopesWithinPolicy ==
  \A c \in ready \cup pending \cup delayed :
    c.attempts < MaxAttempts /\ Tried(c.job, c.attempts)

ExecutionsWithinPolicy ==
  \A x \in running :
    /\ x.entry.attempts < MaxAttempts
    /\ Tried(x.entry.job, x.entry.attempts)
    /\ x.phase = "retry" => Attempt(x) < MaxAttempts
    /\ x.phase \in {"retry", "cleanup"} => Tried(x.entry.job, Attempt(x))
    /\ x.phase = "cleanup" => x.failure \in {"retryable", "terminal"}
    /\ (x.phase \in {"cleanup", "record"} /\ x.failure = "retryable") =>
         Attempt(x) = MaxAttempts /\ Tried(x.entry.job, MaxAttempts)
    /\ x.phase = "record" => x.entry.job \in Malformed \cup cleaned

PolicyInv ==
  /\ StreamTypeOK
  /\ EnvelopesWithinPolicy
  /\ ExecutionsWithinPolicy
  /\ RetriesSpent
  /\ BuriedAfterCleanup

\* Nothing was tried and nothing is buried in the beginning.
LEMMA PolicyInitially == StreamInit => PolicyInv
  BY InitTyped DEF StreamInit, PolicyInv, EnvelopesWithinPolicy, ExecutionsWithinPolicy,
                   RetriesSpent, BuriedAfterCleanup

\* What was tried and what was cleaned up is never forgotten.
LEMMA HistoryGrows ==
  ASSUME [StreamNext]_streamVars
  PROVE  /\ tried \subseteq tried' /\ cleaned \subseteq cleaned'
         /\ \A j, n : Tried(j, n) => Tried(j, n)'
<1>1. tried \subseteq tried' /\ cleaned \subseteq cleaned'
  BY DEF StreamNext, WorkerNext, Deliver, PromoteDelayed, RunJobWorker, ProcessJobBatch,
         ReclaimStaleJobs, ProcessJob, DecodeFails, Handle, ScheduleRetry,
         OnDeadLetter, RecordDeadLetter, Acknowledge, streamVars, history
<1>. QED
  BY <1>1 DEF Tried

\* Where an envelope of the next state comes from: it was there, it is fresh,
\* or an execution scheduled it as a retry.
LEMMA EnvelopeOrigin ==
  ASSUME [StreamNext]_streamVars, NEW c \in (ready \cup pending \cup delayed)'
  PROVE  \/ \E b \in ready \cup pending \cup delayed :
              b.job = c.job /\ b.attempts = c.attempts
         \/ c.attempts = 0
         \/ \E x \in running : /\ ScheduleRetry(x)
                               /\ c.job = x.entry.job /\ c.attempts = Attempt(x)
<1>1. ASSUME NEW j \in Jobs, Deliver(j), c \notin ready \cup pending \cup delayed
      PROVE  c.attempts = 0
  BY <1>1 DEF Deliver, Append
<1>2. ASSUME NEW env \in delayed, PromoteDelayed(env), c \notin ready \cup pending \cup delayed
      PROVE  env.job = c.job /\ env.attempts = c.attempts
  BY <1>2 DEF PromoteDelayed, Append
<1>3. ASSUME \/ UNCHANGED streamVars
             \/ \E w \in Workers :
                  RunJobWorker(w) \/ ProcessJobBatch(w) \/ ReclaimStaleJobs(w)
      PROVE  c \in ready \cup pending \cup delayed
  BY <1>3 DEF streamVars, redisVars, RunJobWorker, ProcessJobBatch, ReclaimStaleJobs
<1>4. ASSUME NEW x \in running, ProcessJob(x), c \notin ready \cup pending \cup delayed
      PROVE  ScheduleRetry(x) /\ c.job = x.entry.job /\ c.attempts = Attempt(x)
  BY <1>4 DEF ProcessJob, DecodeFails, Handle, ScheduleRetry, OnDeadLetter,
              RecordDeadLetter, Acknowledge, redisVars
<1>. QED
  BY <1>1, <1>2, <1>3, <1>4 DEF StreamNext, WorkerNext

\* A retry envelope carries an attempt that was just tried and is below the
\* limit; every other envelope is an old one or a fresh one.
LEMMA EnvelopesStep ==
  ASSUME PolicyInv, [StreamNext]_streamVars PROVE EnvelopesWithinPolicy'
<1> SUFFICES ASSUME NEW c \in (ready \cup pending \cup delayed)'
             PROVE  c.attempts < MaxAttempts /\ Tried(c.job, c.attempts)'
  BY DEF EnvelopesWithinPolicy
<1>1. ASSUME NEW b \in ready \cup pending \cup delayed,
             b.job = c.job, b.attempts = c.attempts
      PROVE  c.attempts < MaxAttempts /\ Tried(c.job, c.attempts)'
  BY <1>1, HistoryGrows DEF PolicyInv, EnvelopesWithinPolicy
<1>2. CASE c.attempts = 0
  BY <1>2, JobStreamAssumption DEF Tried
<1>3. ASSUME NEW x \in running, ScheduleRetry(x),
             c.job = x.entry.job, c.attempts = Attempt(x)
      PROVE  c.attempts < MaxAttempts /\ Tried(c.job, c.attempts)'
  BY <1>3, HistoryGrows DEF PolicyInv, ExecutionsWithinPolicy, ScheduleRetry
<1>. QED
  BY <1>1, <1>2, <1>3, EnvelopeOrigin

\* What the policy invariant says of one execution.
WithinPolicy(x) ==
  /\ x.entry.attempts < MaxAttempts
  /\ Tried(x.entry.job, x.entry.attempts)
  /\ x.phase = "retry" => Attempt(x) < MaxAttempts
  /\ x.phase \in {"retry", "cleanup"} => Tried(x.entry.job, Attempt(x))
  /\ x.phase = "cleanup" => x.failure \in {"retryable", "terminal"}
  /\ (x.phase \in {"cleanup", "record"} /\ x.failure = "retryable") =>
       Attempt(x) = MaxAttempts /\ Tried(x.entry.job, MaxAttempts)
  /\ x.phase = "record" => x.entry.job \in Malformed \cup cleaned

\* One more attempt extends what was tried by one.
LEMMA TriedExtends ==
  ASSUME NEW j, NEW n \in Nat, Tried(j, n)', [job |-> j, attempts |-> n + 1] \in tried'
  PROVE  Tried(j, n + 1)'
  BY DEF Tried

\* An execution is due to retry, to clean up or to record only because of the
\* attempt it made.
LEMMA ExecutionsStep ==
  ASSUME PolicyInv, [StreamNext]_streamVars PROVE ExecutionsWithinPolicy'
<1> SUFFICES ASSUME NEW y \in running' PROVE WithinPolicy(y)'
  BY DEF ExecutionsWithinPolicy, WithinPolicy, Attempt
<1>0. \A x \in running : WithinPolicy(x) /\ x \in Execution /\ x.entry \in Entry
  BY DEF PolicyInv, ExecutionsWithinPolicy, WithinPolicy, StreamTypeOK, Execution
<1>1. CASE y \in running
  BY <1>0, <1>1, HistoryGrows DEF WithinPolicy, Attempt
<1>2. ASSUME NEW w \in Workers, ProcessJobBatch(w) \/ ReclaimStaleJobs(w), y \notin running
      PROVE  WithinPolicy(y)'
  <2>1. y.entry \in ready \cup pending /\ y.phase = "handle"
    BY <1>2 DEF ProcessJobBatch, ReclaimStaleJobs, Started
  <2>. QED
    BY <2>1, HistoryGrows DEF WithinPolicy, PolicyInv, EnvelopesWithinPolicy
<1>3. ASSUME NEW x \in running, ProcessJob(x), y \notin running
      PROVE  WithinPolicy(y)'
  <2>1. /\ WithinPolicy(x) /\ x \in Execution
        /\ x.entry.attempts \in Nat /\ x.entry.job \in Jobs
    BY <1>0 DEF Entry
  <2>2. /\ Tried(x.entry.job, x.entry.attempts)'
        /\ Tried(x.entry.job, Attempt(x)) => Tried(x.entry.job, Attempt(x))'
        /\ Tried(x.entry.job, MaxAttempts) => Tried(x.entry.job, MaxAttempts)'
    BY <2>1, HistoryGrows DEF WithinPolicy
  <2>3. CASE DecodeFails(x)
    <3>1. y.entry = x.entry /\ y.phase = "record" /\ y.failure = "undecodable"
      BY <1>3, <2>1, <2>3 DEF DecodeFails, FailWith, Become, Execution
    <3>. QED
      BY <2>1, <2>2, <2>3, <3>1 DEF WithinPolicy, DecodeFails
  <2>4. CASE Handle(x)
    <3>1. \/ y = [x EXCEPT !.phase = "ack"]
          \/ /\ y = [x EXCEPT !.phase = "retry", !.failure = "retryable"]
             /\ Attempt(x) < MaxAttempts
          \/ /\ y = [x EXCEPT !.phase = "cleanup", !.failure = "retryable"]
             /\ Attempt(x) >= MaxAttempts
          \/ y = [x EXCEPT !.phase = "cleanup", !.failure = "terminal"]
      BY <1>3, <2>4 DEF Handle, Advance, FailWith, Become
    <3>2. y.entry = x.entry
      BY <2>1, <3>1 DEF Execution
    <3>3. Attempt(y) = Attempt(x)
      BY <3>2 DEF Attempt
    <3>4. \/ y.phase = "ack"
          \/ y.phase = "retry" /\ Attempt(x) < MaxAttempts
          \/ y.phase = "cleanup" /\ y.failure = "retryable" /\ Attempt(x) >= MaxAttempts
          \/ y.phase = "cleanup" /\ y.failure = "terminal"
      BY <2>1, <3>1 DEF Execution
    <3>5. Tried(x.entry.job, Attempt(x))'
      BY <2>1, <2>2, <2>4, TriedExtends DEF Handle, Attempt
    <3>6. Attempt(x) <= MaxAttempts
      BY <2>1, JobStreamAssumption DEF WithinPolicy, Attempt
    <3>. QED
      BY <2>1, <2>2, <3>2, <3>3, <3>4, <3>5, <3>6, JobStreamAssumption DEF WithinPolicy, Attempt
  <2>5. CASE ScheduleRetry(x) \/ RecordDeadLetter(x)
    <3>1. y.entry = x.entry /\ y.phase = "ack"
      BY <1>3, <2>1, <2>5 DEF ScheduleRetry, RecordDeadLetter, Advance, Become, Execution
    <3>. QED
      BY <2>1, <2>2, <3>1 DEF WithinPolicy
  <2>6. CASE OnDeadLetter(x)
    <3>1. /\ y.entry = x.entry /\ y.phase = "record" /\ y.failure = x.failure
          /\ x.phase = "cleanup" /\ x.entry.job \in cleaned'
      BY <1>3, <2>1, <2>6 DEF OnDeadLetter, Advance, Become, Execution
    <3>2. Attempt(y) = Attempt(x)
      BY <3>1 DEF Attempt
    <3>. QED
      BY <2>1, <2>2, <3>1, <3>2 DEF WithinPolicy, Attempt
  <2>7. ~ Acknowledge(x)
    BY <1>3 DEF Acknowledge
  <2>. QED
    BY <1>3, <2>3, <2>4, <2>5, <2>6, <2>7 DEF ProcessJob
<1>4. ASSUME \/ UNCHANGED streamVars
             \/ \E w \in Workers : RunJobWorker(w)
             \/ \E j \in Jobs : Deliver(j)
             \/ \E env \in delayed : PromoteDelayed(env)
      PROVE  y \in running
  BY <1>4 DEF streamVars, RunJobWorker, Deliver, PromoteDelayed
<1>. QED
  BY <1>1, <1>2, <1>3, <1>4 DEF StreamNext, WorkerNext

\* A dead letter written in a step is the one its execution was due to write.
LEMMA DeadLettersStep ==
  ASSUME PolicyInv, [StreamNext]_streamVars PROVE (RetriesSpent /\ BuriedAfterCleanup)'
<1>1. ASSUME NEW d \in deadLetters'
      PROVE  /\ d.failure = "retryable" => Tried(d.entry.job, MaxAttempts)'
             /\ d.entry.job \in Malformed \cup cleaned'
  <2>1. CASE d \in deadLetters
    BY <2>1, HistoryGrows DEF PolicyInv, RetriesSpent, BuriedAfterCleanup, Tried
  <2>2. CASE d \notin deadLetters
    <3>1. PICK x \in running : RecordDeadLetter(x)
      BY <1>1, <2>2 DEF StreamNext, WorkerNext, Deliver, PromoteDelayed, RunJobWorker,
           ProcessJobBatch, ReclaimStaleJobs, ProcessJob, DecodeFails, Handle,
           ScheduleRetry, OnDeadLetter, Acknowledge, streamVars
    <3>2. d = [entry |-> x.entry, attempts |-> Attempt(x), failure |-> x.failure]
      BY <1>1, <2>2, <3>1 DEF RecordDeadLetter
    <3>3. d.entry = x.entry /\ d.failure = x.failure
      BY <3>2
    <3>. QED
      BY <3>1, <3>3, HistoryGrows DEF PolicyInv, ExecutionsWithinPolicy, RecordDeadLetter
  <2>. QED
    BY <2>1, <2>2
<1>2. ASSUME NEW t \in tried' PROVE t.attempts <= MaxAttempts
  <2>1. CASE t \in tried
    BY <2>1 DEF PolicyInv, RetriesSpent
  <2>2. CASE t \notin tried
    <3>1. PICK x \in running : Handle(x)
      BY <1>2, <2>2 DEF StreamNext, WorkerNext, Deliver, PromoteDelayed, RunJobWorker,
           ProcessJobBatch, ReclaimStaleJobs, ProcessJob, DecodeFails, ScheduleRetry,
           OnDeadLetter, RecordDeadLetter, Acknowledge, streamVars, history
    <3>2. t = [job |-> x.entry.job, attempts |-> Attempt(x)]
      BY <1>2, <2>2, <3>1 DEF Handle
    <3>3. x.entry.attempts \in Nat /\ x.entry.attempts < MaxAttempts
      BY DEF PolicyInv, StreamTypeOK, Execution, Entry, ExecutionsWithinPolicy
    <3>. QED
      BY <3>2, <3>3, JobStreamAssumption DEF Attempt
  <2>. QED
    BY <2>1, <2>2
<1>. QED
  BY <1>1, <1>2 DEF RetriesSpent, BuriedAfterCleanup, Tried

\* The policy invariant holds in every reachable state.
LEMMA PolicyInvariant == StreamSpec => []PolicyInv
<1>1. PolicyInv /\ [StreamNext]_streamVars => PolicyInv'
  BY StreamStepTyped, EnvelopesStep, ExecutionsStep, DeadLettersStep DEF PolicyInv
<1>. QED
  BY <1>1, PolicyInitially, PTL DEF StreamSpec

\* For any attempt limit and any interleaving of workers, crashes, reclaims
\* and duplicate deliveries, a job is buried for a retryable failure only when
\* every attempt of the policy was made, and none beyond it ever is.
THEOREM RetriesAreSpent == StreamSpec => []RetriesSpent
<1>1. PolicyInv => RetriesSpent
  BY DEF PolicyInv
<1>. QED
  BY <1>1, PolicyInvariant, PTL

\* No decodable job is buried before its onDeadLetter hook completed.
THEOREM BurialFollowsCleanup == StreamSpec => []BuriedAfterCleanup
<1>1. PolicyInv => BuriedAfterCleanup
  BY DEF PolicyInv
<1>. QED
  BY <1>1, PolicyInvariant, PTL

\* Types, retry policy and cleanup together, for every value of the constants:
\* the invariant that the small instance checks of processJob.
THEOREM EnvelopesAndBurials == StreamSpec => []StreamInv
  BY StreamTyped, RetriesAreSpent, BurialFollowsCleanup, PTL DEF StreamInv

-----------------------------------------------------------------------------
(* The composition: every step of the runtime is a step of the stream.     *)

\* The steps of the outbox alone leave the stream as it is.
LEMMA StreamSteps ==
  ASSUME [Next]_vars PROVE [StreamNext]_streamVars
<1>. USE DEF streamVars, redisVars, history
<1>0. Transactional \subseteq Jobs
  BY JobQueueAssumption
<1>1. ASSUME NEW j \in Jobs, Enqueue(j) PROVE [StreamNext]_streamVars
  BY <1>1 DEF Enqueue, StreamNext
<1>2. ASSUME NEW w \in Workers, NEW j \in Transactional, Publish(w, j)
      PROVE  [StreamNext]_streamVars
  BY <1>0, <1>2 DEF Publish, StreamNext
<1>3. ASSUME NEW w \in Workers, Restart(w) PROVE StreamNext
  BY <1>3 DEF Restart, StreamNext, WorkerNext
<1>4. ASSUME Consume PROVE StreamNext
  BY <1>4 DEF Consume, StreamNext, WorkerNext
<1>5. ASSUME NEW w \in Workers, Claim(w) PROVE UNCHANGED streamVars
  BY <1>5 DEF Claim
<1>6. ASSUME NEW j \in Transactional, Expire(j) PROVE UNCHANGED streamVars
  BY <1>6 DEF Expire
<1>7. CASE UNCHANGED vars
  BY <1>7 DEF vars
<1>. QED
  BY <1>1, <1>2, <1>3, <1>4, <1>5, <1>6, <1>7 DEF Next

\* The invariant of the stream's proof is one of the runtime.
LEMMA StreamLossStep ==
  ASSUME LossInv, [Next]_vars PROVE LossInv'
<1>1. StreamTypeOK /\ [StreamNext]_streamVars => StreamTypeOK'
  BY StreamStepTyped
<1>2. LossInv /\ [StreamNext]_streamVars => AckIsSafe'
  BY AckIsSafeStep
<1>3. LossInv /\ [StreamNext]_streamVars => NoJobLost'
  BY NoJobLostStep
<1>. QED
  BY <1>1, <1>2, <1>3, StreamSteps DEF LossInv

-----------------------------------------------------------------------------
(* What a step does to the jobs that Redis carries and to the settled ones.  *)

CarriedJobs == {j \in Jobs : Carried(j, 0)}
EndedJobs   == {j \in Jobs : Settled(j)}

\* Whatever Redis or a worker holds was delivered.
HeldWasDelivered ==
  /\ \A c \in ready \cup pending \cup delayed : c.job \in delivered
  /\ \A x \in running : x.entry.job \in delivered

\* The parts of an execution and of a carrier.
LEMMA StreamParts ==
  ASSUME StreamTypeOK
  PROVE  /\ \A c \in ready \cup pending \cup delayed : c.job \in Jobs /\ c.attempts \in Nat
         /\ \A x \in running : x.entry.job \in Jobs /\ x.entry.attempts \in Nat
  BY DEF StreamTypeOK, Entry, Envelope, Execution

\* An execution that moves on keeps its entry.
LEMMA MovedEntry ==
  ASSUME StreamTypeOK, NEW x \in running, NEW p, NEW f,
         \/ running' = (running \ {x}) \cup {[x EXCEPT !.phase = p]}
         \/ running' = (running \ {x}) \cup {[x EXCEPT !.phase = p, !.failure = f]}
  PROVE  \A y \in running' : y \in running \/ y.entry = x.entry
<1>1. /\ [x EXCEPT !.phase = p].entry = x.entry
      /\ [x EXCEPT !.phase = p, !.failure = f].entry = x.entry
  BY DEF StreamTypeOK, Execution
<1>. QED
  BY <1>1

\* A delivery adds its job to what is carried.
LEMMA DeliverEffect ==
  ASSUME StreamTypeOK, HeldWasDelivered, NEW j \in Jobs, Deliver(j)
  PROVE  /\ CarriedJobs' = CarriedJobs \cup {j} /\ EndedJobs' = EndedJobs
         /\ delivered' = delivered \cup {j} /\ HeldWasDelivered'
<1>1. PICK c : /\ c.job = j /\ c.attempts = 0
               /\ (ready \cup pending \cup delayed)' = ready \cup pending \cup delayed \cup {c}
  <2>1. CASE delayed' = delayed \cup {[job |-> j, attempts |-> 0]} /\ UNCHANGED ready
    BY <2>1 DEF Deliver
  <2>2. CASE /\ ready' = ready \cup {[id |-> lastId + 1, job |-> j, attempts |-> 0]}
             /\ UNCHANGED delayed
    BY <2>2 DEF Deliver
  <2>. QED BY <2>1, <2>2 DEF Deliver, Append
<1>2. /\ UNCHANGED <<handled, deadLetters, running>> /\ delivered' = delivered \cup {j}
  BY DEF Deliver
<1>3. \A i : Carried(i, 0)' <=> Carried(i, 0) \/ i = j
  BY <1>1 DEF Carried
<1>4. \A i : Settled(i)' <=> Settled(i)
  BY <1>2 DEF Settled
<1>. QED
  BY <1>1, <1>2, <1>3, <1>4 DEF CarriedJobs, EndedJobs, HeldWasDelivered

\* A restart carries and settles what was carried and settled.
LEMMA RestartEffect ==
  ASSUME HeldWasDelivered, NEW w, RunJobWorker(w)
  PROVE  UNCHANGED <<CarriedJobs, EndedJobs, delivered>> /\ HeldWasDelivered'
<1>1. /\ UNCHANGED <<ready, pending, delayed, handled, deadLetters, delivered>>
      /\ running' \subseteq running
  BY DEF RunJobWorker, history
<1>. QED
  BY <1>1 DEF CarriedJobs, EndedJobs, HeldWasDelivered, Carried, Settled

\* A step that moves envelopes without dropping the last one of a job.
LEMMA MoveEffect ==
  ASSUME StreamTypeOK, HeldWasDelivered,
         \/ \E env \in delayed : PromoteDelayed(env)
         \/ \E w \in Workers : ProcessJobBatch(w) \/ ReclaimStaleJobs(w)
  PROVE  UNCHANGED <<CarriedJobs, EndedJobs, delivered>> /\ HeldWasDelivered'
<1>. DEFINE All == ready \cup pending \cup delayed
<1>. DEFINE Goal == /\ \A c \in All' : \E b \in All : b.job = c.job
                    /\ \A b \in All : \E c \in All' : b.job = c.job /\ c.attempts >= 0
                    /\ UNCHANGED <<handled, deadLetters, delivered>>
                    /\ \A x \in running' : x \in running \/ x.entry \in All
<1>1. ASSUME NEW env \in delayed, PromoteDelayed(env) PROVE Goal
  <2>. DEFINE e == [id |-> lastId + 1, job |-> env.job, attempts |-> env.attempts]
  <2>1. /\ ready' = ready \cup {e} /\ delayed' = delayed \ {env} /\ pending' = pending
        /\ running' = running /\ UNCHANGED <<handled, deadLetters, delivered>>
    BY <1>1 DEF PromoteDelayed, Append, history
  <2>2. e.job = env.job /\ e.attempts >= 0
    BY StreamParts
  <2>. HIDE DEF e
  <2>. QED BY <2>1, <2>2, StreamParts
<1>2. ASSUME NEW w \in Workers, ProcessJobBatch(w) PROVE Goal
  <2>1. PICK S \in SUBSET ready : /\ ready' = ready \ S
                                  /\ pending' = pending \cup S
                                  /\ running' = running \cup Started(w, "batch", S)
    BY <1>2 DEF ProcessJobBatch
  <2>2. delayed' = delayed /\ UNCHANGED <<handled, deadLetters, delivered>>
    BY <1>2 DEF ProcessJobBatch, history
  <2>3. \A x \in Started(w, "batch", S) : x.entry \in S
    BY DEF Started
  <2>4. All' = All
    BY <2>1, <2>2
  <2>. QED BY <2>1, <2>2, <2>3, <2>4, StreamParts
<1>3. ASSUME NEW w \in Workers, ReclaimStaleJobs(w) PROVE Goal
  <2>1. PICK S \in SUBSET pending : running' = running \cup Started(w, "reclaim", S)
    BY <1>3 DEF ReclaimStaleJobs
  <2>2. UNCHANGED <<ready, pending, delayed, handled, deadLetters, delivered>>
    BY <1>3 DEF ReclaimStaleJobs, history, redisVars
  <2>3. \A x \in Started(w, "reclaim", S) : x.entry \in S
    BY DEF Started
  <2>. QED BY <2>1, <2>2, <2>3, StreamParts
<1>4. Goal
  BY <1>1, <1>2, <1>3
<1>5. \A i : Carried(i, 0)' <=> Carried(i, 0)
  BY <1>4, StreamParts DEF Carried
<1>6. \A i : Settled(i)' <=> Settled(i)
  BY <1>4 DEF Settled
<1>7. HeldWasDelivered'
  BY <1>4 DEF HeldWasDelivered
<1>. QED
  BY <1>4, <1>5, <1>6, <1>7 DEF CarriedJobs, EndedJobs

\* One step of an execution settles its job, or carries it again, or stops
\* carrying it, and changes nothing of any other job.
LEMMA ProcessEffect ==
  ASSUME StreamTypeOK, HeldWasDelivered, NEW x \in running, ProcessJob(x)
  PROVE  /\ \/ UNCHANGED <<CarriedJobs, EndedJobs>>
            \/ UNCHANGED CarriedJobs /\ EndedJobs' = EndedJobs \cup {x.entry.job}
            \/ CarriedJobs' = CarriedJobs \cup {x.entry.job} /\ UNCHANGED EndedJobs
            \/ CarriedJobs' = CarriedJobs \ {x.entry.job} /\ UNCHANGED EndedJobs
         /\ UNCHANGED delivered /\ HeldWasDelivered'
<1>. DEFINE j == x.entry.job
            Goal == /\ \/ UNCHANGED <<CarriedJobs, EndedJobs>>
                       \/ UNCHANGED CarriedJobs /\ EndedJobs' = EndedJobs \cup {j}
                       \/ CarriedJobs' = CarriedJobs \cup {j} /\ UNCHANGED EndedJobs
                       \/ CarriedJobs' = CarriedJobs \ {j} /\ UNCHANGED EndedJobs
                    /\ UNCHANGED delivered
                    /\ \A c \in (ready \cup pending \cup delayed)' :
                         c \in ready \cup pending \cup delayed \/ c.job = j
                    /\ \A y \in running' : y \in running \/ y.entry = x.entry
<1>0. j \in Jobs /\ j \in delivered
  BY StreamParts DEF HeldWasDelivered
<1>1. ASSUME DecodeFails(x) PROVE Goal
  <2>1. UNCHANGED <<ready, pending, delayed, handled, deadLetters, delivered>>
    BY <1>1 DEF DecodeFails, redisVars, history
  <2>2. \A y \in running' : y \in running \/ y.entry = x.entry
    BY <1>1, MovedEntry, Zenon DEF DecodeFails, FailWith, Become
  <2>3. UNCHANGED <<CarriedJobs, EndedJobs>>
    BY <2>1 DEF CarriedJobs, EndedJobs, Carried, Settled
  <2>. QED BY <2>1, <2>2, <2>3
<1>2. ASSUME Handle(x) PROVE Goal
  <2>1. /\ UNCHANGED <<ready, pending, delayed, deadLetters, delivered>>
        /\ handled' = handled \cup {j} \/ handled' = handled
    BY <1>2 DEF Handle, redisVars
  <2>2. \A y \in running' : y \in running \/ y.entry = x.entry
    <3>1. \E p, f : \/ running' = (running \ {x}) \cup {[x EXCEPT !.phase = p]}
                   \/ running' = (running \ {x}) \cup
                                   {[x EXCEPT !.phase = p, !.failure = f]}
      BY <1>2, Zenon DEF Handle, Advance, FailWith, Become
    <3>. QED BY <3>1, MovedEntry, Zenon
  <2>3. UNCHANGED CarriedJobs
    BY <2>1 DEF CarriedJobs, Carried
  <2>4. UNCHANGED EndedJobs \/ EndedJobs' = EndedJobs \cup {j}
    BY <2>1, <1>0 DEF EndedJobs, Settled
  <2>. QED BY <2>1, <2>2, <2>3, <2>4
<1>3. ASSUME ScheduleRetry(x) PROVE Goal
  <2>. DEFINE c == [job |-> j, attempts |-> Attempt(x)]
  <2>1. /\ UNCHANGED <<ready, pending, handled, deadLetters, delivered>>
        /\ delayed' = delayed \cup {c}
    BY <1>3 DEF ScheduleRetry, history
  <2>2. \A y \in running' : y \in running \/ y.entry = x.entry
    BY <1>3, MovedEntry, Zenon DEF ScheduleRetry, Advance, Become
  <2>3. c.job = j /\ c.attempts >= 0
    BY StreamParts DEF Attempt
  <2>. HIDE DEF c, j
  <2>4. \A i : Carried(i, 0)' <=> Carried(i, 0) \/ i = j
    BY <2>1, <2>3 DEF Carried
  <2>5. UNCHANGED EndedJobs
    BY <2>1 DEF EndedJobs, Settled
  <2>6. CarriedJobs' = CarriedJobs \cup {j}
    BY <2>4, <1>0 DEF CarriedJobs
  <2>. QED BY <2>1, <2>2, <2>3, <2>5, <2>6
<1>4. ASSUME OnDeadLetter(x) PROVE Goal
  <2>1. UNCHANGED <<ready, pending, delayed, handled, deadLetters, delivered>>
    BY <1>4 DEF OnDeadLetter, redisVars
  <2>2. \A y \in running' : y \in running \/ y.entry = x.entry
    BY <1>4, MovedEntry, Zenon DEF OnDeadLetter, Advance, Become
  <2>3. UNCHANGED <<CarriedJobs, EndedJobs>>
    BY <2>1 DEF CarriedJobs, EndedJobs, Carried, Settled
  <2>. QED BY <2>1, <2>2, <2>3
<1>5. ASSUME RecordDeadLetter(x) PROVE Goal
  <2>. DEFINE d == [entry |-> x.entry, attempts |-> Attempt(x), failure |-> x.failure]
  <2>1. /\ UNCHANGED <<ready, pending, delayed, handled, delivered>>
        /\ \/ deadLetters' = deadLetters
           \/ deadLetters' = deadLetters \cup {d}
    BY <1>5 DEF RecordDeadLetter, redisVars, history
  <2>2. \A y \in running' : y \in running \/ y.entry = x.entry
    BY <1>5, MovedEntry, Zenon DEF RecordDeadLetter, Advance, Become
  <2>3. UNCHANGED CarriedJobs
    BY <2>1 DEF CarriedJobs, Carried
  <2>4. d.entry.job = j
    OBVIOUS
  <2>. HIDE DEF d, j
  <2>5. UNCHANGED EndedJobs \/ EndedJobs' = EndedJobs \cup {j}
    BY <2>1, <2>4, <1>0 DEF EndedJobs, Settled
  <2>. QED BY <2>1, <2>2, <2>3, <2>5
<1>6. ASSUME Acknowledge(x) PROVE Goal
  <2>1. /\ UNCHANGED <<ready, delayed, handled, deadLetters, delivered>>
        /\ pending' = pending \ {x.entry} /\ running' \subseteq running
    BY <1>6 DEF Acknowledge, history
  <2>2. UNCHANGED EndedJobs
    BY <2>1 DEF EndedJobs, Settled
  <2>3. \A i : /\ Carried(i, 0)' => Carried(i, 0)
               /\ Carried(i, 0) => Carried(i, 0)' \/ i = j
    BY <2>1 DEF Carried
  <2>4. UNCHANGED CarriedJobs \/ CarriedJobs' = CarriedJobs \ {j}
    BY <2>3 DEF CarriedJobs
  <2>. QED BY <2>1, <2>2, <2>4
<1>7. Goal
  BY <1>1, <1>2, <1>3, <1>4, <1>5, <1>6 DEF ProcessJob
<1>8. HeldWasDelivered'
  BY <1>0, <1>7 DEF HeldWasDelivered
<1>. QED
  BY <1>7, <1>8

-----------------------------------------------------------------------------
(* What a step does to the rows: only an enqueue stages one, and only the     *)
(* publisher that appended a row's job takes it from the pending ones.        *)

Staged  == {j \in Transactional : row[j].status # "absent"}
Pending == {j \in Transactional : row[j].status = "pending"}

\* A job is in Redis only if its row was staged, a published row's job is, and
\* so is the job of a publisher that appended it.
RowsAndDeliveries ==
  /\ row \in [Jobs -> Row]
  /\ publisher \in [Workers \X Jobs -> {"idle", "claimed", "appended"}]
  /\ \A j \in Transactional :
       /\ row[j].status # "pending" => row[j].token = None
       /\ row[j].status = "published" => j \in delivered
       /\ row[j].status = "absent" =>
            j \notin delivered /\ \A w \in Workers : publisher[<<w, j>>] = "idle"
       /\ \A w \in Workers : publisher[<<w, j>>] = "appended" => j \in delivered

\* An enqueue stages a row that neither was staged nor delivered.
LEMMA EnqueueRow ==
  ASSUME RowsAndDeliveries, NEW j \in Transactional, StageJob(j),
         delivered' = delivered
  PROVE  /\ j \notin Staged \cup delivered
         /\ Staged' = Staged \cup {j} /\ Pending' = Pending \cup {j}
         /\ RowsAndDeliveries'
  BY JobQueueAssumption DEF StageJob, Unclaimed, Row, RowsAndDeliveries, Staged, Pending

\* A lease that lapses leaves every row staged and pending as it was.
LEMMA ExpireRow ==
  ASSUME RowsAndDeliveries, NEW j \in Transactional, ClaimExpires(j),
         delivered' = delivered
  PROVE  UNCHANGED <<Staged, Pending>> /\ RowsAndDeliveries'
<1>1. [row[j] EXCEPT !.expired = TRUE] \in Row
  BY JobQueueAssumption DEF RowsAndDeliveries, Row
<1>2. /\ [row[j] EXCEPT !.expired = TRUE].status = row[j].status
      /\ [row[j] EXCEPT !.expired = TRUE].token = row[j].token
  BY DEF RowsAndDeliveries, Row
<1>3. /\ row' \in [Jobs -> Row] /\ publisher' = publisher
      /\ \A i \in Transactional : row'[i].status = row[i].status /\ row'[i].token = row[i].token
  BY <1>1, <1>2, JobQueueAssumption DEF ClaimExpires, RowsAndDeliveries
<1>. QED
  BY <1>3 DEF RowsAndDeliveries, Staged, Pending

\* So does the claim of a batch.
LEMMA ClaimRows ==
  ASSUME RowsAndDeliveries, NEW w \in Workers, ClaimOutboxJobs(w),
         delivered' = delivered
  PROVE  UNCHANGED <<Staged, Pending>> /\ RowsAndDeliveries'
<1>1. PICK S \in SUBSET Claimable :
        /\ row' = [j \in Jobs |->
             IF j \in S THEN [status |-> "pending", token |-> w, expired |-> FALSE]
                        ELSE row[j]]
        /\ publisher' = [p \in Workers \X Jobs |->
             IF p[1] = w /\ p[2] \in S THEN "claimed" ELSE publisher[p]]
  BY DEF ClaimOutboxJobs
<1>2. \A j \in S : row[j].status = "pending"
  BY DEF Claimable
<1>3. /\ row' \in [Jobs -> Row]
      /\ publisher' \in [Workers \X Jobs -> {"idle", "claimed", "appended"}]
  BY <1>1 DEF RowsAndDeliveries, Row
<1>4. \A j \in Transactional :
        /\ row'[j].status = row[j].status
        /\ row[j].status # "pending" => row'[j] = row[j]
        /\ \A v \in Workers :
             /\ publisher'[<<v, j>>] = "appended" => publisher[<<v, j>>] = "appended"
             /\ row[j].status # "pending" => publisher'[<<v, j>>] = publisher[<<v, j>>]
  BY <1>1, <1>2, JobQueueAssumption
<1>. QED
  BY <1>3, <1>4 DEF RowsAndDeliveries, Staged, Pending

\* So does a restart of the publisher.
LEMMA RestartRows ==
  ASSUME RowsAndDeliveries, NEW w \in Workers, RestartPublisher(w),
         delivered' = delivered
  PROVE  UNCHANGED <<Staged, Pending>> /\ RowsAndDeliveries'
  BY JobQueueAssumption DEF RestartPublisher, RowsAndDeliveries, Staged, Pending

\* So does a write that reaches Redis, which delivers the job of a staged row.
LEMMA PublishRow ==
  ASSUME RowsAndDeliveries, NEW w \in Workers, NEW j \in Transactional,
         PublishOutboxJob(w, j), delivered' = delivered \cup {j}
  PROVE  j \in Staged /\ UNCHANGED <<Staged, Pending>> /\ RowsAndDeliveries'
  BY JobQueueAssumption DEF PublishOutboxJob, RowsAndDeliveries, Staged, Pending

\* So does a write that is reported failed.
LEMMA ReleaseRow ==
  ASSUME RowsAndDeliveries, NEW w \in Workers, NEW j \in Transactional,
         NEW applied \in BOOLEAN, ReleaseClaim(w, j, applied),
         delivered' = delivered \/ delivered' = delivered \cup {j}
  PROVE  j \in Staged /\ UNCHANGED <<Staged, Pending>> /\ RowsAndDeliveries'
<1>1. w # None /\ j \in Jobs
  BY JobOutboxAssumption, JobQueueAssumption
<1>2. /\ row[j].status # "absent"
      /\ publisher' = [publisher EXCEPT ![<<w, j>>] = "idle"]
      /\ \/ row' = row
         \/ row[j].status = "pending" /\ row' = [row EXCEPT ![j] = Unclaimed("pending")]
  BY <1>1 DEF ReleaseClaim, RowsAndDeliveries
<1>3. \A i \in Transactional, v \in Workers :
        publisher'[<<v, i>>] = publisher[<<v, i>>] \/ publisher'[<<v, i>>] = "idle"
  BY <1>2, JobQueueAssumption DEF RowsAndDeliveries
<1>4. publisher' \in [Workers \X Jobs -> {"idle", "claimed", "appended"}]
  BY <1>2 DEF RowsAndDeliveries
<1>5. Unclaimed("pending") \in Row
  BY DEF Unclaimed, Row
<1>6. row' \in [Jobs -> Row]
  BY <1>2, <1>5 DEF RowsAndDeliveries
<1>7. \A i \in Transactional : \/ row'[i] = row[i]
                               \/ /\ i = j /\ row[i].status = "pending"
                                  /\ row'[i].status = "pending" /\ row'[i].token = None
  BY <1>2, JobQueueAssumption DEF Unclaimed, RowsAndDeliveries
<1>8. j \in Staged /\ UNCHANGED <<Staged, Pending>>
  BY <1>2, <1>7 DEF Staged, Pending
<1>. QED
  BY <1>2, <1>3, <1>4, <1>6, <1>7, <1>8 DEF RowsAndDeliveries

\* Only the publisher that appended a job takes its row from the pending ones.
LEMMA MarkRow ==
  ASSUME RowsAndDeliveries, NEW w \in Workers, NEW j \in Transactional,
         MarkPublished(w, j), delivered' = delivered
  PROVE  /\ j \in delivered /\ UNCHANGED Staged
         /\ UNCHANGED Pending \/ (j \in Pending /\ Pending' = Pending \ {j})
         /\ RowsAndDeliveries'
<1>1. w # None /\ j \in Jobs
  BY JobOutboxAssumption, JobQueueAssumption
<1>2. /\ j \in delivered
      /\ publisher' = [publisher EXCEPT ![<<w, j>>] = "idle"]
      /\ \/ row' = row
         \/ row[j].status = "pending" /\ row' = [row EXCEPT ![j] = Unclaimed("published")]
  BY <1>1 DEF MarkPublished, RowsAndDeliveries
<1>3. \A i \in Transactional, v \in Workers :
        publisher'[<<v, i>>] = publisher[<<v, i>>] \/ publisher'[<<v, i>>] = "idle"
  BY <1>2, JobQueueAssumption DEF RowsAndDeliveries
<1>4. publisher' \in [Workers \X Jobs -> {"idle", "claimed", "appended"}]
  BY <1>2 DEF RowsAndDeliveries
<1>5. Unclaimed("published") \in Row
  BY DEF Unclaimed, Row
<1>6. row' \in [Jobs -> Row]
  BY <1>2, <1>5 DEF RowsAndDeliveries
<1>7. \A i \in Transactional : \/ row'[i] = row[i]
                               \/ /\ i = j /\ row[i].status = "pending"
                                  /\ row'[i].status = "published" /\ row'[i].token = None
  BY <1>2, JobQueueAssumption DEF Unclaimed, RowsAndDeliveries
<1>8. UNCHANGED Staged /\ (UNCHANGED Pending \/ (j \in Pending /\ Pending' = Pending \ {j}))
  BY <1>2, <1>7 DEF Staged, Pending
<1>. QED
  BY <1>2, <1>3, <1>4, <1>6, <1>7, <1>8 DEF RowsAndDeliveries

-----------------------------------------------------------------------------
(* The invariant of the runtime and what it says of the queue.               *)

QueueInv == LossInv /\ HeldWasDelivered /\ RowsAndDeliveries

\* The invariant holds initially.
LEMMA QueueInvInitially == Init => QueueInv
<1>. SUFFICES ASSUME Init PROVE QueueInv
  OBVIOUS
<1>1. StreamTypeOK
  <2>1. group \in BOOLEAN
    BY Zenon DEF Init, StreamInit
  <2>. QED BY <2>1 DEF Init, StreamInit, StreamTypeOK
<1>2. NoJobLost /\ AckIsSafe
  BY DEF Init, StreamInit, NoJobLost, AckIsSafe
<1>3. HeldWasDelivered
  BY DEF Init, StreamInit, HeldWasDelivered
<1>4. RowsAndDeliveries
  BY JobQueueAssumption DEF Init, StreamInit, OutboxInit, Unclaimed, Row, RowsAndDeliveries
<1>. QED
  BY <1>1, <1>2, <1>3, <1>4 DEF QueueInv, LossInv

\* In terms of rows, carried and settled jobs: what was accepted, what is owed,
\* and that every delivered job is carried or settled.
LEMMA QueueState ==
  ASSUME QueueInv
  PROVE  /\ Accepted = Staged \cup delivered
         /\ Owed = Pending \cup CarriedJobs
         /\ SettledJobs = EndedJobs
         /\ CarriedJobs \subseteq delivered
         /\ delivered \subseteq CarriedJobs \cup EndedJobs
         /\ Staged \subseteq Pending \cup delivered /\ Pending \subseteq Staged
         /\ delivered \subseteq Jobs /\ Staged \subseteq Jobs
<1>1. \A j : (Carried(j, 0) <=> Carried(j, 0)) /\ (Settled(j) <=> Settled(j))
  BY DEF Carried, Carried, Settled, Settled
<1>2. delivered \subseteq Jobs /\ Transactional \subseteq Jobs
  BY JobQueueAssumption DEF QueueInv, LossInv, StreamTypeOK
<1>3. CarriedJobs \subseteq delivered
  BY DEF CarriedJobs, Carried, QueueInv, HeldWasDelivered
<1>4. delivered \subseteq CarriedJobs \cup EndedJobs
  BY <1>2 DEF CarriedJobs, EndedJobs, QueueInv, LossInv, NoJobLost
<1>5. Staged \subseteq Pending \cup delivered /\ Pending \subseteq Staged
  BY JobQueueAssumption DEF Staged, Pending, QueueInv, RowsAndDeliveries, Row
<1>6. Accepted = Staged \cup delivered
  BY DEF Accepted, Staged, QueueInv, RowsAndDeliveries
<1>7. SettledJobs = EndedJobs
  BY <1>1 DEF SettledJobs, EndedJobs
<1>8. Owed = Pending \cup CarriedJobs
  <2>1. \A j \in Jobs : j \in CarriedJobs <=> Carried(j, 0)
    BY <1>1 DEF CarriedJobs
  <2>2. Accepted \subseteq Jobs
    BY <1>2, <1>6 DEF Staged
  <2>3. Pending \cup CarriedJobs \subseteq Accepted
    BY <1>3, <1>5, <1>6
  <2>. HIDE DEF CarriedJobs
  <2>. QED BY <2>1, <2>2, <2>3 DEF Owed, Pending
<1>. QED
  BY <1>2, <1>3, <1>4, <1>5, <1>6, <1>7, <1>8 DEF Staged

\* What every step does, in the same terms.
Effect ==
  \/ \E j \in Jobs : /\ j \notin Staged \cup delivered
                     /\ \/ /\ Staged' = Staged \cup {j} /\ Pending' = Pending \cup {j}
                           /\ UNCHANGED <<delivered, CarriedJobs, EndedJobs>>
                        \/ /\ delivered' = delivered \cup {j}
                           /\ CarriedJobs' = CarriedJobs \cup {j}
                           /\ UNCHANGED <<Staged, Pending, EndedJobs>>
  \/ \E j \in Staged : /\ delivered' = delivered \cup {j}
                       /\ CarriedJobs' = CarriedJobs \cup {j}
                       /\ UNCHANGED <<Staged, Pending, EndedJobs>>
  \/ \E j \in Pending \cap delivered :
       Pending' = Pending \ {j} /\ UNCHANGED <<Staged, delivered, CarriedJobs, EndedJobs>>
  \/ \E j \in delivered :
       /\ UNCHANGED <<Staged, Pending, delivered>>
       /\ \/ UNCHANGED CarriedJobs /\ EndedJobs' = EndedJobs \cup {j}
          \/ CarriedJobs' = CarriedJobs \cup {j} /\ UNCHANGED EndedJobs
          \/ CarriedJobs' = CarriedJobs \ {j} /\ UNCHANGED EndedJobs
  \/ UNCHANGED <<Staged, Pending, delivered, CarriedJobs, EndedJobs>>

\* Every step has one of these effects and keeps the invariant.
LEMMA StepEffect ==
  ASSUME QueueInv, [Next]_vars PROVE Effect /\ QueueInv'
<1>. DEFINE Goal == Effect /\ HeldWasDelivered' /\ RowsAndDeliveries'
<1>0. /\ StreamTypeOK /\ HeldWasDelivered /\ RowsAndDeliveries
      /\ Transactional \subseteq Jobs
  BY JobQueueAssumption DEF QueueInv, LossInv
<1>a. ASSUME UNCHANGED streamVars
      PROVE  UNCHANGED <<delivered, CarriedJobs, EndedJobs>> /\ HeldWasDelivered'
  BY <1>0, <1>a DEF streamVars, redisVars, history, CarriedJobs, EndedJobs, Carried, Settled,
                    HeldWasDelivered
<1>b. ASSUME UNCHANGED outboxVars
      PROVE  UNCHANGED <<row, publisher, Staged, Pending>>
  BY <1>b DEF outboxVars, Staged, Pending
<1>1. ASSUME NEW j \in Jobs, Enqueue(j) PROVE Goal
  <2>1. CASE j \in Transactional /\ StageJob(j) /\ UNCHANGED streamVars
    BY <1>0, <1>a, <2>1, EnqueueRow DEF Effect
  <2>2. CASE j \in Jobs \ Transactional /\ j \notin delivered /\ Deliver(j)
             /\ UNCHANGED outboxVars
    <3>1. Deliver(j)
      BY <2>2
    <3>2. j \notin Staged
      BY <2>2 DEF Staged
    <3>3. /\ CarriedJobs' = CarriedJobs \cup {j} /\ EndedJobs' = EndedJobs
          /\ delivered' = delivered \cup {j} /\ HeldWasDelivered'
      BY <1>0, <3>1, DeliverEffect
    <3>4. RowsAndDeliveries'
      BY <1>0, <1>b, <2>2, <3>3 DEF RowsAndDeliveries
    <3>. QED BY <1>b, <2>2, <3>2, <3>3, <3>4 DEF Effect
  <2>. QED BY <1>1, <2>1, <2>2 DEF Enqueue
<1>2. ASSUME NEW w \in Workers, NEW j \in Transactional, Publish(w, j) PROVE Goal
  <2>1. ASSUME Deliver(j)
        PROVE  /\ CarriedJobs' = CarriedJobs \cup {j} /\ EndedJobs' = EndedJobs
               /\ delivered' = delivered \cup {j} /\ HeldWasDelivered'
    <3>1. Deliver(j)
      BY <2>1
    <3>. QED BY <1>0, <3>1, DeliverEffect
  <2>2. CASE PublishOutboxJob(w, j) /\ Deliver(j)
    BY <1>0, <2>1, <2>2, PublishRow DEF Effect
  <2>3. CASE ReleaseClaim(w, j, TRUE) /\ Deliver(j)
    <3>1. j \in Staged /\ UNCHANGED <<Staged, Pending>> /\ RowsAndDeliveries'
      BY <1>0, <2>1, <2>3, ReleaseRow
    <3>. QED BY <2>1, <2>3, <3>1 DEF Effect
  <2>4. CASE ReleaseClaim(w, j, FALSE) /\ UNCHANGED streamVars
    <3>1. UNCHANGED <<Staged, Pending>> /\ RowsAndDeliveries'
      BY <1>0, <1>a, <2>4, ReleaseRow
    <3>. QED BY <1>a, <2>4, <3>1 DEF Effect
  <2>5. CASE MarkPublished(w, j) /\ UNCHANGED streamVars
    BY <1>0, <1>a, <2>5, MarkRow DEF Effect
  <2>. QED BY <1>2, <2>2, <2>3, <2>4, <2>5 DEF Publish
<1>3. ASSUME NEW w \in Workers, Restart(w) PROVE Goal
  BY <1>0, <1>3, RestartEffect, RestartRows DEF Restart, Effect
<1>4. ASSUME Consume PROVE Goal
  <2>1. UNCHANGED <<Staged, Pending>> /\ UNCHANGED <<row, publisher>>
    BY <1>4, <1>b DEF Consume
  <2>2. CASE \/ \E env \in delayed : PromoteDelayed(env)
             \/ \E w \in Workers : ProcessJobBatch(w) \/ ReclaimStaleJobs(w)
    <3>1. UNCHANGED <<CarriedJobs, EndedJobs, delivered>> /\ HeldWasDelivered'
      BY <1>0, <2>2, MoveEffect
    <3>2. RowsAndDeliveries'
      BY <1>0, <2>1, <3>1 DEF RowsAndDeliveries
    <3>. QED BY <2>1, <3>1, <3>2 DEF Effect
  <2>3. ASSUME NEW x \in running, ProcessJob(x) PROVE Goal
    <3>1. /\ \/ UNCHANGED <<CarriedJobs, EndedJobs>>
             \/ UNCHANGED CarriedJobs /\ EndedJobs' = EndedJobs \cup {x.entry.job}
             \/ CarriedJobs' = CarriedJobs \cup {x.entry.job} /\ UNCHANGED EndedJobs
             \/ CarriedJobs' = CarriedJobs \ {x.entry.job} /\ UNCHANGED EndedJobs
          /\ UNCHANGED delivered /\ HeldWasDelivered'
      BY <1>0, <2>3, ProcessEffect
    <3>2. RowsAndDeliveries'
      BY <1>0, <2>1, <3>1 DEF RowsAndDeliveries
    <3>3. x.entry.job \in delivered
      BY <1>0 DEF HeldWasDelivered
    <3>. QED BY <2>1, <3>1, <3>2, <3>3 DEF Effect
  <2>. QED BY <1>4, <2>2, <2>3 DEF Consume
<1>5. ASSUME NEW w \in Workers, Claim(w) PROVE Goal
  BY <1>0, <1>a, <1>5, ClaimRows DEF Claim, Effect
<1>6. ASSUME NEW j \in Transactional, Expire(j) PROVE Goal
  BY <1>0, <1>a, <1>6, ExpireRow DEF Expire, Effect
<1>7. ASSUME UNCHANGED vars PROVE Goal
  <2>1. RowsAndDeliveries'
    BY <1>0, <1>7 DEF vars, outboxVars, streamVars, history, RowsAndDeliveries
  <2>2. UNCHANGED streamVars /\ UNCHANGED outboxVars
    BY <1>7 DEF vars
  <2>3. UNCHANGED <<Staged, Pending, delivered, CarriedJobs, EndedJobs>> /\ HeldWasDelivered'
    BY <1>a, <1>b, <2>2
  <2>. QED BY <2>1, <2>3 DEF Effect
<1>8. Goal
  BY <1>1, <1>2, <1>3, <1>4, <1>5, <1>6, <1>7 DEF Next
<1>9. LossInv'
  BY StreamLossStep DEF QueueInv
<1>. QED
  BY <1>8, <1>9 DEF QueueInv

\* The invariant holds in every reachable state.
LEMMA QueueInvariant == Spec => []QueueInv
<1>1. QueueInv /\ [Next]_vars => QueueInv'
  BY StepEffect
<1>. QED
  BY <1>1, QueueInvInitially, PTL DEF Spec

\* A committed job is never lost between its outbox row and its last
\* acknowledgement (outbox.ts and worker.ts), for any number of jobs, workers,
\* attempts and lapses.
THEOREM NeverLostEndToEnd == Spec => []NoAcceptedJobLost
<1>1. QueueInv => NoAcceptedJobLost
  BY QueueState DEF NoAcceptedJobLost
<1>. QED
  BY <1>1, QueueInvariant, PTL

-----------------------------------------------------------------------------
(* The refinement.                                                          *)

\* Every step of the runtime accepts, settles, discharges or revives one job,
\* or changes nothing that its callers rely on.
LEMMA ContractStep ==
  ASSUME QueueInv, QueueInv', Effect
  PROVE  [Contract!Next]_<<Accepted, Owed, SettledJobs>>
<1>1. /\ Accepted = Staged \cup delivered
      /\ Owed = Pending \cup CarriedJobs
      /\ SettledJobs = EndedJobs
      /\ CarriedJobs \subseteq delivered
      /\ delivered \subseteq CarriedJobs \cup EndedJobs
      /\ Staged \subseteq Pending \cup delivered /\ Pending \subseteq Staged
      /\ delivered \subseteq Jobs /\ Staged \subseteq Jobs
  BY QueueState
<1>2. /\ Accepted' = Staged' \cup delivered'
      /\ Owed' = Pending' \cup CarriedJobs'
      /\ SettledJobs' = EndedJobs'
      /\ delivered' \subseteq CarriedJobs' \cup EndedJobs'
  <2>1. (/\ Accepted = Staged \cup delivered
         /\ Owed = Pending \cup CarriedJobs
         /\ SettledJobs = EndedJobs
         /\ delivered \subseteq CarriedJobs \cup EndedJobs)'
    BY QueueState, PTL
  <2>. QED BY <2>1
<1>. USE DEF Contract!Next, Contract!Accept, Contract!Settle, Contract!Discharge, Contract!Revive
<1>. HIDE DEF Staged, Pending, CarriedJobs, EndedJobs, Accepted, Owed, SettledJobs
<1>3. ASSUME NEW j \in Jobs, j \notin Staged \cup delivered,
             \/ /\ Staged' = Staged \cup {j} /\ Pending' = Pending \cup {j}
                /\ UNCHANGED <<delivered, CarriedJobs, EndedJobs>>
             \/ /\ delivered' = delivered \cup {j} /\ CarriedJobs' = CarriedJobs \cup {j}
                /\ UNCHANGED <<Staged, Pending, EndedJobs>>
      PROVE  Contract!Accept(j)
  BY <1>1, <1>2, <1>3
<1>4. ASSUME NEW j \in Staged,
             delivered' = delivered \cup {j}, CarriedJobs' = CarriedJobs \cup {j},
             UNCHANGED <<Staged, Pending, EndedJobs>>
      PROVE  Contract!Revive(j) \/ UNCHANGED <<Accepted, Owed, SettledJobs>>
  BY <1>1, <1>2, <1>4
<1>5. ASSUME NEW j \in Pending \cap delivered,
             Pending' = Pending \ {j},
             UNCHANGED <<Staged, delivered, CarriedJobs, EndedJobs>>
      PROVE  Contract!Discharge(j) \/ UNCHANGED <<Accepted, Owed, SettledJobs>>
  BY <1>1, <1>2, <1>5
<1>6. ASSUME NEW j \in delivered, UNCHANGED <<Staged, Pending, delivered>>,
             UNCHANGED CarriedJobs, EndedJobs' = EndedJobs \cup {j}
      PROVE  Contract!Settle(j) \/ UNCHANGED <<Accepted, Owed, SettledJobs>>
  BY <1>1, <1>2, <1>6
<1>7. ASSUME NEW j \in delivered, UNCHANGED <<Staged, Pending, delivered>>,
             CarriedJobs' = CarriedJobs \cup {j}, UNCHANGED EndedJobs
      PROVE  Contract!Revive(j) \/ UNCHANGED <<Accepted, Owed, SettledJobs>>
  BY <1>1, <1>2, <1>7
<1>8. ASSUME NEW j \in delivered, UNCHANGED <<Staged, Pending, delivered>>,
             CarriedJobs' = CarriedJobs \ {j}, UNCHANGED EndedJobs
      PROVE  Contract!Discharge(j) \/ UNCHANGED <<Accepted, Owed, SettledJobs>>
  BY <1>1, <1>2, <1>8
<1>9. CASE UNCHANGED <<Staged, Pending, delivered, CarriedJobs, EndedJobs>>
  BY <1>1, <1>2, <1>9
<1>10. Staged \subseteq Jobs /\ Pending \subseteq Jobs /\ delivered \subseteq Jobs
  BY <1>1
<1>. HIDE DEF Contract!Accept, Contract!Settle, Contract!Discharge, Contract!Revive
<1>. QED
  BY <1>3, <1>4, <1>5, <1>6, <1>7, <1>8, <1>9, <1>10 DEF Effect

\* The outbox, the stream and their workers implement the queue that promises
\* at-least-once execution: a job is accepted once, is owed until it is
\* settled, and is settled only while it is owed (the contract of
\* packages/jobs), for every value of the constants.
THEOREM ImplementsAtLeastOnce == Spec => AtLeastOnceContract
<1>1. Init => Contract!Init
  <2>. SUFFICES ASSUME Init PROVE Contract!Init
    OBVIOUS
  <2>1. Accepted = {} /\ Owed = {}
    BY JobQueueAssumption DEF Init, StreamInit, OutboxInit, Unclaimed, Accepted, Owed
  <2>2. SettledJobs = {}
    BY DEF Init, StreamInit, SettledJobs, Settled
  <2>. QED BY <2>1, <2>2 DEF Contract!Init
<1>2. QueueInv /\ QueueInv' /\ [Next]_vars => [Contract!Next]_<<Accepted, Owed, SettledJobs>>
  BY StepEffect, ContractStep
<1>. QED
  BY <1>1, <1>2, QueueInvariant, PTL DEF Spec, AtLeastOnceContract, Contract!Spec

-----------------------------------------------------------------------------
(* The Usage ledger.                                                       *)

USE UsageLedgerAssumption, NoReservationAssumption

\* The keys of a reservation and the buckets a policy charges are buckets.
LEMMA KeysAreBuckets ==
  ASSUME NEW p \in Policies, NEW kind \in Kinds, NEW day \in Days, NEW period \in Periods
  PROVE  /\ CounterKeys(kind, day, period) \subseteq Buckets
         /\ Charged(p, kind, day) \subseteq CounterKeys(kind, day, PeriodOf[p])
         /\ \A b \in CounterKeys(kind, day, period) : b[1] = kind
  BY DEF CounterKeys, Charged, Buckets, Windows

\* Recount only moves counters up or down within the naturals.
LEMMA RecountType ==
  ASSUME LedgerTypeOK, NEW up, NEW down, Recount(up, down)
  PROVE  count' \in [Buckets -> Nat]
  <1>1. \A b \in Buckets : count[b] \in Nat
    BY DEF LedgerTypeOK
  <1>2. \A b \in Buckets : (IF b \in up THEN count[b] + 1
                           ELSE IF b \in down /\ count[b] > 0 THEN count[b] - 1
                           ELSE count[b]) \in Nat
    BY <1>1
  <1> QED BY <1>2 DEF Recount

\* Every script leaves well-typed reservations and counters behind.
LEMMA LedgerStepTyped == LedgerTypeOK /\ [LedgerNext]_ledgerVars => LedgerTypeOK'
  <1> SUFFICES ASSUME LedgerTypeOK, [LedgerNext]_ledgerVars PROVE LedgerTypeOK'
    OBVIOUS
  <1>1. ASSUME NEW d \in Deliveries, NEW kind \in Kinds, NEW p \in Policies,
               NEW day \in Days, Reserve(d, kind, day, p)
        PROVE  LedgerTypeOK'
    <2>1. count' \in [Buckets -> Nat]
      BY <1>1, RecountType DEF Reserve
    <2>2. [status |-> "reserved", kind |-> kind, day |-> day, period |-> PeriodOf[p]]
            \in Reservation
      BY DEF Reservation
    <2> QED BY <1>1, <2>1, <2>2 DEF Reserve, SetReservation, LedgerTypeOK
  <1>2. ASSUME NEW d \in Deliveries, NEW kind \in Kinds, NEW p \in Policies,
               Remeter(d, kind, p)
        PROVE  LedgerTypeOK'
    <2>1. count' \in [Buckets -> Nat]
      BY <1>2, RecountType DEF Remeter
    <2>2. reservation[d] \in Reservation
      BY <1>2 DEF Remeter, LedgerTypeOK
    <2>3. [reservation[d] EXCEPT !.kind = kind, !.period = PeriodOf[p]] \in Reservation
      BY <2>2 DEF Reservation
    <2> QED BY <1>2, <2>1, <2>3 DEF Remeter, SetReservation, LedgerTypeOK
  <1>3. ASSUME NEW d \in Deliveries, Confirm(d) PROVE LedgerTypeOK'
    <2>1. reservation[d] \in Reservation
      BY <1>3 DEF Confirm, LedgerTypeOK
    <2>2. [reservation[d] EXCEPT !.status = "confirmed"] \in Reservation
      BY <2>1 DEF Reservation
    <2> QED BY <1>3, <2>2 DEF Confirm, SetReservation, LedgerTypeOK
  <1>4. ASSUME NEW d \in Deliveries, Release(d) PROVE LedgerTypeOK'
    <2>1. count' \in [Buckets -> Nat]
      BY <1>4, RecountType DEF Release
    <2>2. reservation[d] \in Reservation
      BY <1>4 DEF Release, LedgerTypeOK
    <2>3. [reservation[d] EXCEPT !.status = "released"] \in Reservation
      BY <2>2 DEF Reservation
    <2> QED BY <1>4, <2>1, <2>3 DEF Release, SetReservation, LedgerTypeOK
  <1>5. ASSUME NEW w \in Windows, WindowEnds(w) PROVE LedgerTypeOK'
    BY <1>5 DEF WindowEnds, LedgerTypeOK
  <1>6. ASSUME NEW b \in Buckets, CounterExpires(b) PROVE LedgerTypeOK'
    BY <1>6 DEF CounterExpires, LedgerTypeOK
  <1>7. CASE UNCHANGED ledgerVars
    BY <1>7 DEF ledgerVars, LedgerTypeOK
  <1> QED BY <1>1, <1>2, <1>3, <1>4, <1>5, <1>6, <1>7 DEF LedgerNext

\* The reservations, counters and ended windows keep their types (LedgerTypeOK).
THEOREM LedgerTypeCorrect == LedgerSpec => []LedgerTypeOK
  <1>1. LedgerInit => LedgerTypeOK
    BY DEF LedgerInit, LedgerTypeOK
  <1> QED BY <1>1, LedgerStepTyped, PTL DEF LedgerSpec

-----------------------------------------------------------------------------
\* The holders of a bucket are finitely many.
LEMMA HoldersFinite ==
  ASSUME NEW b
  PROVE  /\ IsFiniteSet(Holders(b)) /\ Cardinality(Holders(b)) \in Nat
         /\ Cardinality(Holders(b))' \in Nat
  <1>1. Holders(b) \subseteq Deliveries /\ Holders(b)' \subseteq Deliveries
    BY DEF Holders, Holds, KeysOf, CounterKeys
  <1> QED BY <1>1, FS_Subset, FS_CardinalityType

\* Changing the reservation of one Delivery moves the number of holders of a
\* bucket by what that Delivery held before and holds after.
LEMMA HoldersMove ==
  ASSUME LedgerTypeOK, NEW d \in Deliveries, NEW r, SetReservation(d, r), NEW b \in Buckets
  PROVE  Cardinality(Holders(b))' =
           IF Holds(r, b) /\ ~Holds(reservation[d], b) THEN Cardinality(Holders(b)) + 1
           ELSE IF ~Holds(r, b) /\ Holds(reservation[d], b)
             THEN Cardinality(Holders(b)) - 1
           ELSE Cardinality(Holders(b))
  <1>1. /\ reservation'[d] = r
        /\ \A x \in Deliveries \ {d} : reservation'[x] = reservation[x]
    BY DEF SetReservation, LedgerTypeOK
  <1>2. Holders(b)' = {x \in Deliveries : Holds(reservation'[x], b)}
    BY DEF Holders, Holds, KeysOf, CounterKeys
  <1>3. CASE Holds(r, b) /\ ~Holds(reservation[d], b)
    <2>1. Holders(b)' = Holders(b) \cup {d} /\ d \notin Holders(b)
      BY <1>1, <1>2, <1>3 DEF Holders
    <2> QED BY <2>1, <1>3, HoldersFinite, FS_AddElement
  <1>4. CASE ~Holds(r, b) /\ Holds(reservation[d], b)
    <2>1. Holders(b)' = Holders(b) \ {d} /\ d \in Holders(b)
      BY <1>1, <1>2, <1>4 DEF Holders
    <2> QED BY <2>1, <1>4, HoldersFinite, FS_RemoveElement
  <1>5. CASE Holds(r, b) <=> Holds(reservation[d], b)
    <2>1. Holders(b)' = Holders(b)
      BY <1>1, <1>2, <1>5 DEF Holders
    <2> QED BY <2>1, <1>5
  <1> QED BY <1>3, <1>4, <1>5

-----------------------------------------------------------------------------
\* What relates the counters to their holders.
Metering == NeverOvercharged /\ CountersExact

\* A script that takes one Delivery to reservation r, counts up only buckets
\* it newly holds, counts down exactly the buckets it leaves, and newly holds
\* an uncounted bucket only where some policy does not meter, keeps Metering.
LEMMA MeteringMoves ==
  ASSUME LedgerTypeOK, Metering,
         NEW d \in Deliveries, NEW r, SetReservation(d, r), UNCHANGED over,
         NEW up, NEW down, Recount(up, down),
         \A b \in up : Holds(r, b) /\ ~Holds(reservation[d], b),
         \A b \in Buckets \ up :
           /\ b \in down <=> (~Holds(r, b) /\ Holds(reservation[d], b))
           /\ (Holds(r, b) /\ ~Holds(reservation[d], b)) => ~AlwaysMetered(b)
  PROVE  Metering'
  <1> SUFFICES ASSUME NEW b \in Buckets
               PROVE  /\ count'[b] <= Cardinality(Holders(b))'
                      /\ (AlwaysMetered(b) /\ b[2] \notin over) =>
                           count'[b] = Cardinality(Holders(b))'
    BY DEF Metering, NeverOvercharged, CountersExact, AlwaysMetered, Metered, LimitOf
  <1> DEFINE n == Cardinality(Holders(b))
  <1>1. /\ count[b] \in Nat /\ n \in Nat
        /\ count[b] <= n
        /\ (AlwaysMetered(b) /\ b[2] \notin over) => count[b] = n
    BY HoldersFinite DEF LedgerTypeOK, Metering, NeverOvercharged, CountersExact
  <1>2. count'[b] = IF b \in up THEN count[b] + 1
                    ELSE IF b \in down /\ count[b] > 0 THEN count[b] - 1
                    ELSE count[b]
    BY DEF Recount
  <1>3. n' = IF Holds(r, b) /\ ~Holds(reservation[d], b) THEN n + 1
             ELSE IF ~Holds(r, b) /\ Holds(reservation[d], b) THEN n - 1
             ELSE n
    BY HoldersMove
  <1>4. CASE b \in up
    <2>1. count'[b] = count[b] + 1 /\ n' = n + 1
      BY <1>2, <1>3, <1>4
    <2> QED BY <1>1, <2>1
  <1>5. CASE b \notin up /\ b \in down
    <2>1. n' = n - 1 /\ d \in Holders(b)
      BY <1>3, <1>5 DEF Holders
    <2>2. n # 0
      BY <2>1, HoldersFinite, FS_EmptySet
    <2> QED BY <1>1, <1>2, <1>5, <2>1, <2>2
  <1>6. CASE b \notin up /\ b \notin down
    <2>1. count'[b] = count[b]
      BY <1>2, <1>6
    <2>2. CASE Holds(r, b) /\ ~Holds(reservation[d], b)
      <3>1. n' = n + 1 /\ ~AlwaysMetered(b)
        BY <1>3, <1>6, <2>2
      <3> QED BY <1>1, <2>1, <3>1
    <2>3. CASE ~(Holds(r, b) /\ ~Holds(reservation[d], b))
      <3>1. n' = n
        BY <1>3, <1>6, <2>3
      <3> QED BY <1>1, <2>1, <3>1
    <2> QED BY <2>2, <2>3
  <1> QED BY <1>4, <1>5, <1>6

\* A step that keeps what every Delivery holds, and lets a counter fall only
\* in a window that is over, keeps Metering.
LEMMA MeteringStays ==
  ASSUME LedgerTypeOK, Metering,
         \A b \in Buckets : Holders(b)' = Holders(b), over \subseteq over',
         \A b \in Buckets :
           count'[b] = count[b] \/ (count'[b] = 0 /\ b[2] \in over)
  PROVE  Metering'
  <1> SUFFICES ASSUME NEW b \in Buckets
               PROVE  /\ count'[b] <= Cardinality(Holders(b))'
                      /\ (AlwaysMetered(b) /\ b[2] \notin over') =>
                           count'[b] = Cardinality(Holders(b))'
    BY DEF Metering, NeverOvercharged, CountersExact, AlwaysMetered, Metered, LimitOf
  <1>1. /\ count[b] \in Nat /\ Cardinality(Holders(b)) \in Nat
        /\ count[b] <= Cardinality(Holders(b))
        /\ (AlwaysMetered(b) /\ b[2] \notin over) => count[b] = Cardinality(Holders(b))
    BY HoldersFinite DEF LedgerTypeOK, Metering, NeverOvercharged, CountersExact
  <1>2. Cardinality(Holders(b))' = Cardinality(Holders(b))
    OBVIOUS
  <1>3. CASE count'[b] = count[b]
    BY <1>1, <1>2, <1>3
  <1>4. CASE count'[b] = 0 /\ b[2] \in over
    BY <1>1, <1>2, <1>4
  <1> QED BY <1>3, <1>4

\* Every script, and the expiry of a counter whose window is over, keeps the
\* counters in step with their holders.
LEMMA MeteringStep == LedgerTypeOK /\ Metering /\ [LedgerNext]_ledgerVars => Metering'
  <1> SUFFICES ASSUME LedgerTypeOK, Metering, [LedgerNext]_ledgerVars PROVE Metering'
    OBVIOUS
  <1>1. ASSUME NEW d \in Deliveries, NEW kind \in Kinds, NEW p \in Policies,
               NEW day \in Days, Reserve(d, kind, day, p)
        PROVE  Metering'
    <2> DEFINE r == [status |-> "reserved", kind |-> kind, day |-> day,
                     period |-> PeriodOf[p]]
    <2>1. ~ \E b \in Buckets : Holds(reservation[d], b)
      BY <1>1 DEF Reserve, Holds
    <2>2. r \in Reservation /\ r # NoReservation /\ KeysOf(r) = CounterKeys(kind, day, PeriodOf[p])
      BY DEF Reservation, KeysOf
    <2>3. \A b \in Buckets : Holds(r, b) <=> b \in CounterKeys(kind, day, PeriodOf[p])
      BY <2>2 DEF Holds
    <2>4. /\ Charged(p, kind, day) \subseteq Buckets
          /\ \A b \in Charged(p, kind, day) : Holds(r, b)
      BY <2>3, KeysAreBuckets
    <2>5. \A b \in Buckets \ Charged(p, kind, day) : Holds(r, b) => ~AlwaysMetered(b)
      BY <2>3 DEF Charged, AlwaysMetered
    <2>6. /\ SetReservation(d, r) /\ UNCHANGED over
          /\ Recount(Charged(p, kind, day), {})
      BY <1>1 DEF Reserve
    <2> HIDE DEF r
    <2> QED BY <2>1, <2>4, <2>5, <2>6, MeteringMoves
  <1>2. ASSUME NEW d \in Deliveries, NEW kind \in Kinds, NEW p \in Policies,
               Remeter(d, kind, p)
        PROVE  Metering'
    <2> DEFINE old == reservation[d]
               new == [old EXCEPT !.kind = kind, !.period = PeriodOf[p]]
    <2>1. old \in Reservation /\ old.status = "reserved" /\ old.kind # kind
      BY <1>2 DEF Remeter, LedgerTypeOK
    <2>2. new \in Reservation /\ new.status = "reserved"
      BY <2>1 DEF Reservation
    <2>3. KeysOf(new) = CounterKeys(kind, old.day, PeriodOf[p])
      BY <2>1 DEF KeysOf, Reservation
    <2>4. \A b \in Buckets : /\ Holds(old, b) <=> b \in KeysOf(old)
                             /\ Holds(new, b) <=> b \in KeysOf(new)
      BY <2>1, <2>2 DEF Holds
    <2>5. \A b \in KeysOf(new) : b \notin KeysOf(old)
      BY <2>1, <2>3 DEF KeysOf, CounterKeys
    <2>6. Charged(p, kind, old.day) \subseteq KeysOf(new) \cap Buckets
      BY <2>1, <2>3, KeysAreBuckets DEF Reservation
    <2>7. \A b \in Buckets \ Charged(p, kind, old.day) :
            b \in KeysOf(new) => ~AlwaysMetered(b)
      BY <2>3 DEF Charged, AlwaysMetered
    <2>8. /\ SetReservation(d, new) /\ UNCHANGED over
          /\ Recount(Charged(p, kind, old.day), KeysOf(old))
      BY <1>2 DEF Remeter
    <2> HIDE DEF new
    <2> QED BY <2>4, <2>5, <2>6, <2>7, <2>8, MeteringMoves
  <1>3. ASSUME NEW d \in Deliveries, Confirm(d) PROVE Metering'
    <2> DEFINE old == reservation[d]
               new == [old EXCEPT !.status = "confirmed"]
    <2>1. old \in Reservation /\ old.status = "reserved"
      BY <1>3 DEF Confirm, LedgerTypeOK
    <2>2. new \in Reservation /\ new.status = "confirmed" /\ KeysOf(new) = KeysOf(old)
      BY <2>1 DEF Reservation, KeysOf
    <2>3. \A b : Holds(new, b) <=> Holds(old, b)
      BY <2>1, <2>2 DEF Holds
    <2>4. \A x \in Deliveries : \A b : Holds(reservation'[x], b) <=> Holds(reservation[x], b)
      BY <1>3, <2>3 DEF Confirm, SetReservation, LedgerTypeOK
    <2>5. \A b \in Buckets : Holders(b)' = Holders(b)
      BY <2>4 DEF Holders, Holds, KeysOf, CounterKeys
    <2>6. UNCHANGED <<count, over>>
      BY <1>3 DEF Confirm
    <2> QED BY <2>5, <2>6, MeteringStays
  <1>4. ASSUME NEW d \in Deliveries, Release(d) PROVE Metering'
    <2> DEFINE old == reservation[d]
               new == [old EXCEPT !.status = "released"]
    <2>1. old \in Reservation /\ old.status = "reserved"
      BY <1>4 DEF Release, LedgerTypeOK
    <2>2. new \in Reservation /\ new.status = "released"
      BY <2>1 DEF Reservation
    <2>3. \A b : ~Holds(new, b) /\ (Holds(old, b) <=> b \in KeysOf(old))
      BY <2>1, <2>2 DEF Holds
    <2>4. /\ SetReservation(d, new) /\ UNCHANGED over
          /\ Recount({}, KeysOf(old))
      BY <1>4 DEF Release
    <2> HIDE DEF new
    <2> QED BY <2>3, <2>4, MeteringMoves
  <1>5. ASSUME NEW w \in Windows, WindowEnds(w) PROVE Metering'
    <2>1. \A b \in Buckets : Holders(b)' = Holders(b)
      BY <1>5 DEF WindowEnds, Holders, Holds, KeysOf, CounterKeys
    <2>2. count' = count /\ over \subseteq over'
      BY <1>5 DEF WindowEnds
    <2> QED BY <2>1, <2>2, MeteringStays
  <1>6. ASSUME NEW c \in Buckets, CounterExpires(c) PROVE Metering'
    <2>1. \A b \in Buckets : Holders(b)' = Holders(b)
      BY <1>6 DEF CounterExpires, Holders, Holds, KeysOf, CounterKeys
    <2>2. /\ over' = over
          /\ \A b \in Buckets :
               count'[b] = count[b] \/ (count'[b] = 0 /\ b[2] \in over)
      BY <1>6 DEF CounterExpires, LedgerTypeOK
    <2> QED BY <2>1, <2>2, MeteringStays
  <1>7. CASE UNCHANGED ledgerVars
    <2>1. \A b \in Buckets : Holders(b)' = Holders(b)
      BY <1>7 DEF ledgerVars, Holders, Holds, KeysOf, CounterKeys
    <2>2. UNCHANGED <<count, over>>
      BY <1>7 DEF ledgerVars
    <2> QED BY <2>1, <2>2, MeteringStays
  <1> QED BY <1>1, <1>2, <1>3, <1>4, <1>5, <1>6, <1>7 DEF LedgerNext

\* Nothing is held and nothing is counted in the beginning.
LEMMA MeteringInitially == LedgerInit => Metering
  <1> SUFFICES ASSUME LedgerInit, NEW b \in Buckets
               PROVE  count[b] = Cardinality(Holders(b)) /\ Cardinality(Holders(b)) \in Nat
    BY DEF Metering, NeverOvercharged, CountersExact
  <1>1. Holders(b) = {}
    BY DEF LedgerInit, Holders, Holds
  <1> QED BY <1>1, FS_EmptySet DEF LedgerInit

\* No counter ever exceeds the number of Deliveries that hold a place in its
\* bucket, whatever the plan becomes (NeverOvercharged).
THEOREM NoUserIsOvercharged == LedgerSpec => []NeverOvercharged
  <1>1. LedgerInit => LedgerTypeOK
    BY DEF LedgerInit, LedgerTypeOK
  <1>2. Metering => NeverOvercharged
    BY DEF Metering
  <1> QED BY <1>1, <1>2, MeteringInitially, LedgerStepTyped, MeteringStep, PTL DEF LedgerSpec

\* The counter of a bucket every policy meters is the number of its holders
\* until its window is over (CountersExact).
THEOREM CountersStayExact == LedgerSpec => []CountersExact
  <1>1. LedgerInit => LedgerTypeOK
    BY DEF LedgerInit, LedgerTypeOK
  <1>2. Metering => CountersExact
    BY DEF Metering
  <1> QED BY <1>1, <1>2, MeteringInitially, LedgerStepTyped, MeteringStep, PTL DEF LedgerSpec

-----------------------------------------------------------------------------
\* Types, nobody overcharged and exact counters together, for every value of
\* the constants: the invariant that the small instance checks of the scripts.
THEOREM CountersAgree == LedgerSpec => []LedgerInv
  BY LedgerTypeCorrect, NoUserIsOvercharged, CountersStayExact, PTL DEF LedgerInv

\* A bucket that gains a holder was charged, below a limit, by the policy of
\* that call, or is a bucket that policy does not meter.
LEMMA GainIsCharged ==
  ASSUME LedgerTypeOK, LedgerNext, NEW b \in Buckets, ~(Holders(b)' \subseteq Holders(b)),
         AlwaysMetered(b)
  PROVE  /\ \E p \in Policies : count[b] < LimitOf(p, b) /\ LimitOf(p, b) \in Nat
         /\ count'[b] = count[b] + 1
         /\ UNCHANGED over
  <1>1. ASSUME NEW d \in Deliveries, NEW r, SetReservation(d, r)
        PROVE  Holds(r, b)
    <2>1. PICK x \in Deliveries : Holds(reservation'[x], b) /\ ~Holds(reservation[x], b)
      BY DEF Holders, Holds, KeysOf, CounterKeys
    <2>2. reservation'[d] = r /\ \A y \in Deliveries \ {d} : reservation'[y] = reservation[y]
      BY <1>1 DEF SetReservation, LedgerTypeOK
    <2> QED BY <2>1, <2>2
  <1>2. ~(Holders(b)' = Holders(b))
    OBVIOUS
  <1>3. ASSUME NEW kind \in Kinds, NEW p \in Policies, NEW day \in Days,
               HasRoom(p, kind, day), b \in CounterKeys(kind, day, PeriodOf[p]),
               NEW down, Recount(Charged(p, kind, day), down)
        PROVE  count[b] < LimitOf(p, b) /\ LimitOf(p, b) \in Nat /\ count'[b] = count[b] + 1
    <2>1. b \in Charged(p, kind, day) /\ LimitOf(p, b) # Unlimited
      BY <1>3 DEF Charged, AlwaysMetered, Metered
    <2>2. count[b] < LimitOf(p, b) /\ count'[b] = count[b] + 1
      BY <1>3, <2>1 DEF HasRoom, Recount
    <2>3. b[1] \in Kinds
      BY DEF Buckets
    <2>4. (IF b[2] \in Days THEN "daily" ELSE "monthly") \in Spans
      BY DEF Spans
    <2>5. LimitOf(p, b) \in Nat \cup {Unlimited}
      BY <2>3, <2>4, ZenonT(30) DEF LimitOf
    <2> QED BY <2>1, <2>2, <2>5
  <1>4. ASSUME NEW d \in Deliveries, NEW kind \in Kinds, NEW p \in Policies,
               NEW day \in Days, Reserve(d, kind, day, p)
        PROVE  b \in CounterKeys(kind, day, PeriodOf[p])
    <2> DEFINE r == [status |-> "reserved", kind |-> kind, day |-> day,
                     period |-> PeriodOf[p]]
    <2>1. Holds(r, b)
      BY <1>1, <1>4 DEF Reserve
    <2> QED BY <2>1 DEF Holds, KeysOf
  <1>5. ASSUME NEW d \in Deliveries, NEW kind \in Kinds, NEW p \in Policies,
               Remeter(d, kind, p)
        PROVE  b \in CounterKeys(kind, reservation[d].day, PeriodOf[p]) /\ reservation[d].day \in Days
    <2> DEFINE old == reservation[d]
               new == [old EXCEPT !.kind = kind, !.period = PeriodOf[p]]
    <2>1. old \in Reservation
      BY <1>5 DEF Remeter, LedgerTypeOK
    <2>2. Holds(new, b)
      BY <1>1, <1>5 DEF Remeter
    <2>3. KeysOf(new) = CounterKeys(kind, old.day, PeriodOf[p])
      BY <2>1 DEF KeysOf, Reservation
    <2> QED BY <2>1, <2>2, <2>3 DEF Holds, Reservation
  <1>6. ASSUME NEW d \in Deliveries, Confirm(d) PROVE FALSE
    <2> DEFINE old == reservation[d]
               new == [old EXCEPT !.status = "confirmed"]
    <2>1. old \in Reservation /\ old.status = "reserved" /\ SetReservation(d, new)
      BY <1>6 DEF Confirm, LedgerTypeOK
    <2>2. Holds(new, b) <=> Holds(old, b)
      BY <2>1 DEF Holds, KeysOf, Reservation
    <2>3. \A x \in Deliveries : Holds(reservation'[x], b) <=> Holds(reservation[x], b)
      BY <2>1, <2>2 DEF SetReservation, LedgerTypeOK
    <2> QED BY <1>2, <2>3 DEF Holders, Holds, KeysOf, CounterKeys
  <1>7. ASSUME NEW d \in Deliveries, Release(d) PROVE FALSE
    <2> DEFINE new == [reservation[d] EXCEPT !.status = "released"]
    <2>1. reservation[d] \in Reservation /\ SetReservation(d, new)
      BY <1>7 DEF Release, LedgerTypeOK
    <2>2. new.status = "released"
      BY <2>1 DEF Reservation
    <2> QED BY <1>1, <2>1, <2>2 DEF Holds
  <1>8. ASSUME UNCHANGED reservation PROVE FALSE
    BY <1>2, <1>8 DEF Holders, Holds, KeysOf, CounterKeys
  <1>9. ASSUME NEW d \in Deliveries, NEW kind \in Kinds, NEW p \in Policies,
               \/ \E day \in Days : Reserve(d, kind, day, p)
               \/ Remeter(d, kind, p)
        PROVE  /\ \E q \in Policies : count[b] < LimitOf(q, b) /\ LimitOf(q, b) \in Nat
               /\ count'[b] = count[b] + 1
               /\ UNCHANGED over
    <2>1. ASSUME NEW day \in Days, Reserve(d, kind, day, p)
          PROVE  /\ count[b] < LimitOf(p, b) /\ LimitOf(p, b) \in Nat
                 /\ count'[b] = count[b] + 1 /\ UNCHANGED over
      <3>1. /\ HasRoom(p, kind, day) /\ Recount(Charged(p, kind, day), {})
            /\ UNCHANGED over
        BY <2>1 DEF Reserve
      <3> QED BY <1>3, <1>4, <2>1, <3>1
    <2>2. ASSUME Remeter(d, kind, p)
          PROVE  /\ count[b] < LimitOf(p, b) /\ LimitOf(p, b) \in Nat
                 /\ count'[b] = count[b] + 1 /\ UNCHANGED over
      <3>1. /\ HasRoom(p, kind, reservation[d].day)
            /\ Recount(Charged(p, kind, reservation[d].day), KeysOf(reservation[d]))
            /\ UNCHANGED over
        BY <2>2 DEF Remeter
      <3> QED BY <1>3, <1>5, <2>2, <3>1
    <2> QED BY <1>9, <2>1, <2>2
  <1>10. ASSUME NEW w \in Windows, WindowEnds(w) PROVE FALSE
    BY <1>8, <1>10 DEF WindowEnds
  <1>11. ASSUME NEW c \in Buckets, CounterExpires(c) PROVE FALSE
    BY <1>8, <1>11 DEF CounterExpires
  <1> QED BY <1>6, <1>7, <1>9, <1>10, <1>11 DEF LedgerNext

\* The quota is kept by every step: a place is only taken below the limit.
LEMMA QuotaStep ==
  LedgerTypeOK /\ Metering /\ QuotaHeld /\ [LedgerNext]_ledgerVars => QuotaHeld'
  <1> SUFFICES ASSUME LedgerTypeOK, Metering, QuotaHeld, [LedgerNext]_ledgerVars, NEW b \in Buckets,
                      AlwaysMetered(b), b[2] \notin over', (Holders(b) # {})'
               PROVE  \E p \in Policies : Cardinality(Holders(b))' <= LimitOf(p, b)
    BY DEF QuotaHeld, AlwaysMetered, Metered, LimitOf
  <1>1. over \subseteq over'
    BY DEF LedgerNext, Reserve, Remeter, Confirm, Release, WindowEnds, CounterExpires, ledgerVars
  <1>2. b[2] \notin over
    BY <1>1
  <1>3. /\ Cardinality(Holders(b)) \in Nat /\ Cardinality(Holders(b))' \in Nat
        /\ IsFiniteSet(Holders(b))
    BY HoldersFinite
  <1>4. CASE Holders(b)' \subseteq Holders(b)
    <2>1. Cardinality(Holders(b))' <= Cardinality(Holders(b))
      BY <1>3, <1>4, FS_Subset
    <2>2. Holders(b) # {}
      BY <1>4
    <2>3. PICK p \in Policies : Cardinality(Holders(b)) <= LimitOf(p, b)
      BY <1>2, <2>2 DEF QuotaHeld
    <2>4. LimitOf(p, b) \in Nat
      <3>1. LimitOf(p, b) # Unlimited
        BY DEF AlwaysMetered, Metered
      <3>2. b[1] \in Kinds /\ (IF b[2] \in Days THEN "daily" ELSE "monthly") \in Spans
        BY DEF Buckets, Spans
      <3>3. LimitOf(p, b) \in Nat \cup {Unlimited}
        BY <3>2, ZenonT(30) DEF LimitOf
      <3> QED BY <3>1, <3>3
    <2> QED BY <1>3, <2>1, <2>3, <2>4
  <1>5. CASE ~(Holders(b)' \subseteq Holders(b))
    <2>1. LedgerNext
      BY <1>5 DEF ledgerVars, Holders, Holds, KeysOf, CounterKeys
    <2>2. PICK p \in Policies : count[b] < LimitOf(p, b) /\ LimitOf(p, b) \in Nat
      BY <1>5, <2>1, GainIsCharged
    <2>3. count'[b] = count[b] + 1
      BY <1>5, <2>1, GainIsCharged
    <2>4. count'[b] = Cardinality(Holders(b))' /\ count[b] \in Nat
      <3>1. Metering'
        BY MeteringStep
      <3>2. CountersExact'
        BY <3>1 DEF Metering
      <3> QED BY <3>2 DEF CountersExact, AlwaysMetered, Metered, LimitOf, LedgerTypeOK
    <2> QED BY <2>2, <2>3, <2>4
  <1> QED BY <1>4, <1>5

\* No more Deliveries hold a place in a metered bucket than the largest limit
\* its policies give it, until its window is over (QuotaHeld).
THEOREM QuotaIsHeld == LedgerSpec => []QuotaHeld
  <1>1. LedgerInit => LedgerTypeOK
    BY DEF LedgerInit, LedgerTypeOK
  <1>2. LedgerInit => QuotaHeld
    BY DEF LedgerInit, QuotaHeld, Holders, Holds
  <1> QED
    BY <1>1, <1>2, MeteringInitially, LedgerStepTyped, MeteringStep, QuotaStep, PTL DEF LedgerSpec

\* A confirmed or released reservation never changes again (FinalizedOnce).
THEOREM UsageIsFinalizedOnce == LedgerSpec => FinalizedOnce
  <1>1. ASSUME LedgerTypeOK, [LedgerNext]_ledgerVars, NEW d \in Deliveries,
               reservation[d] # NoReservation, reservation[d].status # "reserved"
        PROVE  reservation'[d] = reservation[d]
    <2>1. ASSUME NEW e \in Deliveries, NEW r, SetReservation(e, r), e # d
          PROVE  reservation'[d] = reservation[d]
      BY <1>1, <2>1 DEF SetReservation, LedgerTypeOK
    <2>2. ASSUME NEW e \in Deliveries, NEW kind \in Kinds, NEW p \in Policies,
                 NEW day \in Days, Reserve(e, kind, day, p)
          PROVE  reservation'[d] = reservation[d]
      BY <1>1, <2>1, <2>2 DEF Reserve
    <2>3. ASSUME NEW e \in Deliveries, NEW kind \in Kinds, NEW p \in Policies,
                 Remeter(e, kind, p)
          PROVE  reservation'[d] = reservation[d]
      BY <1>1, <2>1, <2>3 DEF Remeter
    <2>4. ASSUME NEW e \in Deliveries, Confirm(e)
          PROVE  reservation'[d] = reservation[d]
      BY <1>1, <2>1, <2>4 DEF Confirm
    <2>5. ASSUME NEW e \in Deliveries, Release(e)
          PROVE  reservation'[d] = reservation[d]
      BY <1>1, <2>1, <2>5 DEF Release
    <2> QED
      BY <1>1, <2>2, <2>3, <2>4, <2>5 DEF LedgerNext, WindowEnds, CounterExpires, ledgerVars
  <1>2. LedgerTypeOK /\ [LedgerNext]_ledgerVars =>
          [\A d \in Deliveries :
             (reservation[d] # NoReservation /\ reservation[d].status # "reserved") =>
               reservation'[d] = reservation[d]]_ledgerVars
    BY <1>1
  <1> QED BY <1>2, LedgerTypeCorrect, PTL DEF LedgerSpec, FinalizedOnce

\* A counter falls in a live window only because a reserved Delivery left its
\* bucket, and by one (OnlyOwnPlaceFreed).
THEOREM PlacesAreFreedByTheirHolder == LedgerSpec => OnlyOwnPlaceFreed
  <1>1. ASSUME LedgerTypeOK, [LedgerNext]_ledgerVars, NEW b \in Buckets,
               b[2] \notin over', count'[b] < count[b]
        PROVE  /\ count'[b] = count[b] - 1
               /\ \E d \in Holders(b) : reservation[d].status = "reserved"
                                        /\ d \notin Holders(b)'
    <2>1. count[b] \in Nat /\ ~(count[b] < count[b])
      BY <1>1 DEF LedgerTypeOK
    <2>2. ASSUME NEW up, NEW down, Recount(up, down)
          PROVE  b \in down /\ b \notin up /\ count'[b] = count[b] - 1
      BY <1>1, <2>1, <2>2 DEF Recount
    <2>3. ASSUME NEW d \in Deliveries, NEW kind \in Kinds, NEW p \in Policies,
                 NEW day \in Days, Reserve(d, kind, day, p)
          PROVE  FALSE
      BY <2>2, <2>3 DEF Reserve
    <2>4. ASSUME NEW d \in Deliveries, NEW kind \in Kinds, NEW p \in Policies,
                 Remeter(d, kind, p)
          PROVE  /\ count'[b] = count[b] - 1
                 /\ d \in Holders(b) /\ reservation[d].status = "reserved"
                 /\ d \notin Holders(b)'
      <3> DEFINE old == reservation[d]
                 new == [old EXCEPT !.kind = kind, !.period = PeriodOf[p]]
      <3>1. /\ old \in Reservation /\ old # NoReservation
            /\ old.status = "reserved" /\ old.kind # kind
        BY <1>1, <2>4 DEF Remeter, LedgerTypeOK
      <3>2. b \in KeysOf(old) /\ count'[b] = count[b] - 1
        BY <2>2, <2>4 DEF Remeter
      <3>3. reservation'[d] = new
        BY <1>1, <2>4 DEF Remeter, SetReservation, LedgerTypeOK
      <3>4. KeysOf(new) = CounterKeys(kind, old.day, PeriodOf[p])
        BY <3>1 DEF KeysOf, Reservation
      <3>5. b \notin KeysOf(new)
        BY <3>1, <3>2, <3>4 DEF KeysOf, CounterKeys
      <3>6. d \notin Holders(b)'
        <4>1. Holders(b)' = {x \in Deliveries : Holds(reservation'[x], b)}
          BY DEF Holders, Holds, KeysOf, CounterKeys
        <4> QED BY <3>3, <3>5, <4>1 DEF Holds
      <3> QED BY <3>1, <3>2, <3>6 DEF Holders, Holds
    <2>5. ASSUME NEW d \in Deliveries, Confirm(d) PROVE FALSE
      BY <1>1, <2>1, <2>5 DEF Confirm
    <2>6. ASSUME NEW d \in Deliveries, Release(d)
          PROVE  /\ count'[b] = count[b] - 1
                 /\ d \in Holders(b) /\ reservation[d].status = "reserved"
                 /\ d \notin Holders(b)'
      <3> DEFINE new == [reservation[d] EXCEPT !.status = "released"]
      <3>1. /\ reservation[d] \in Reservation /\ reservation[d] # NoReservation
            /\ reservation[d].status = "reserved"
        BY <1>1, <2>6 DEF Release, LedgerTypeOK
      <3>2. b \in KeysOf(reservation[d]) /\ count'[b] = count[b] - 1
        BY <2>2, <2>6 DEF Release
      <3>3. reservation'[d] = new /\ new.status = "released"
        BY <1>1, <2>6, <3>1 DEF Release, SetReservation, LedgerTypeOK, Reservation
      <3>4. Holders(b)' = {x \in Deliveries : Holds(reservation'[x], b)}
        BY DEF Holders, Holds, KeysOf, CounterKeys
      <3> QED BY <3>1, <3>2, <3>3, <3>4 DEF Holders, Holds
    <2>7. ASSUME NEW w \in Windows, WindowEnds(w) PROVE FALSE
      BY <1>1, <2>1, <2>7 DEF WindowEnds
    <2>8. ASSUME NEW c \in Buckets, CounterExpires(c) PROVE FALSE
      BY <1>1, <2>1, <2>8 DEF CounterExpires, LedgerTypeOK
    <2>9. CASE UNCHANGED ledgerVars
      BY <1>1, <2>1, <2>9 DEF ledgerVars
    <2> QED
      BY <1>1, <2>3, <2>4, <2>5, <2>6, <2>7, <2>8, <2>9 DEF LedgerNext
  <1>2. LedgerTypeOK /\ [LedgerNext]_ledgerVars =>
          [\A b \in Buckets :
             (b[2] \notin over' /\ count'[b] < count[b]) =>
               /\ count'[b] = count[b] - 1
               /\ \E d \in Holders(b) : reservation[d].status = "reserved"
                                        /\ d \notin Holders(b)']_ledgerVars
    BY <1>1
  <1> QED BY <1>2, LedgerTypeCorrect, PTL DEF LedgerSpec, OnlyOwnPlaceFreed
=============================================================================
