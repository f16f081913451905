----------------- MODULE DeliverabilityAndVerificationProofs -----------------
(***************************************************************************)
(* Proofs about what a Workspace's mail rests on.                          *)
(*                                                                         *)
(* DomainVerification, for any identities and records, whatever it meets:  *)
(* a row that exists has its next check scheduled, waiting or at work, so  *)
(* the invariant follows each execution to the schedule it leaves behind.  *)
(*                                                                         *)
(* EmailAcceptance and Deliverability, for any requests, keys, recipients  *)
(* and notifications, whatever fails: the invariant follows each request   *)
(* step by step, and each key from one record to the next.                 *)
(***************************************************************************)
EXTENDS Deliverability, DomainVerification, FiniteSetTheorems, TLAPS

-----------------------------------------------------------------------------
(* The checks of a Domain: the inductive invariant.                        *)

\* Where an execution of each key may be.
IdentitySteps == {"ask", "recordIdentity", "dns", "recordDomain", "scheduleDomain", "reload",
                  "finish"}
DomainSteps   == {"ask", "recordIdentity", "dns", "recordDomain", "scheduleIdentity", "finish"}
ClaimSteps    == {"loadLink", "challenge", "recordLink", "settle"}
PageSteps     == {"ask", "recordIdentity", "dns", "recordDomain", "loadLink", "challenge",
                  "recordLink"}

\* What is known of an execution wherever it interleaves: an identity's job
\* checks that identity alone, whose row was there, and past its record the row
\* has a next check or is gone.
Working(x) ==
  /\ x.key \in Identities => x.step \in IdentitySteps
  /\ x.key = Domain       => x.step \in DomainSteps
  /\ x.key = Claim        => x.step \in ClaimSteps
  /\ x.key = Page         => x.step \in PageSteps
  /\ x.step = "ask" => x.left # {}
  /\ x.step \in {"recordIdentity", "dns", "recordDomain", "scheduleIdentity",
                 "scheduleDomain", "reload"} => x.id \in Identities
  /\ x.key \in Identities =>
       /\ x.left \subseteq {x.key} /\ x.id \in {x.key, Absent}
       /\ row[x.key] # Absent \/ x.key \in gone
       /\ x.step \in {"dns", "recordDomain", "scheduleDomain", "reload", "finish"} =>
            row[x.key] = Absent \/ row[x.key].next # Absent
       /\ x.step = "scheduleDomain" => x.soonest # Absent
       /\ x.step = "finish" /\ x.soonest = Absent => row[x.key] = Absent

\* Rows go with the Domain, and where nothing is removed they all stay.
RowsStay ==
  /\ customDomain = Absent => link = Absent /\ Present = {}
  /\ "removal" \notin meets => gone = {}

\* Executions are alone where they do not overlap, and pages are of the behaviours
\* that meet them.
Alone ==
  /\ "overlap" \notin meets => \A x, y \in running : x = y
  /\ "refresh" \notin meets => \A x \in running : x.key # Page

\* One check of the claim is scheduled, waits or is at work where nothing makes a
\* second one.
OneClaim ==
  /\ \A x, y \in running : x.key = Claim /\ y.key = Claim => x = y
  /\ \A d, e \in ready \cup delayed : d.key = Claim /\ e.key = Claim => d = e
  /\ \A e \in ready \cup delayed, x \in running : ~(e.key = Claim /\ x.key = Claim)
  /\ \A e \in ready \cap delayed : e.key # Claim
  /\ scheduled[Claim] # Absent =>
       /\ \A x \in running : x.key # Claim
       /\ \A e \in ready \cup delayed : e.key # Claim

Tokens == "overlap" \in meets /\ meets \cap {"refresh", "failures"} = {} => OneClaim

\* What an execution of the claim has found still holds of its link.
Claiming(x) ==
  /\ x.key = Claim /\ x.step = "settle" /\ x.answer => link = Absent \/ link.status = "verified"
  /\ x.key = Page /\ x.step \in {"challenge", "recordLink"} => link = Absent \/ Pending

LinkWaits ==
  ~ClaimsOverlap =>
    /\ \A x \in running : Claiming(x)
    /\ link # Absent /\ Claim \notin lost => link.status = "verified" \/ Waiting(Claim)

Forgotten == \A k \in Present \ lost : Waiting(k)

\* Where the Domain's check is scheduled later than its record says, a job is
\* on the way that schedules it anew.
Late ==
  /\ customDomain # Absent /\ customDomain.next # Absent
  /\ scheduled[Domain] # Absent /\ Domain \notin lost
  /\ ~(scheduled[Domain] <= customDomain.next)

Scheduling(x) ==
  \/ x.key = Domain
  \/ x.key \in Identities /\ x.step \in IdentitySteps \ {"reload", "finish"}

Chased ==
  \/ \E x \in running : Scheduling(x)
  \/ /\ "failures" \in meets
     /\ \E e \in ready \cup delayed : e.key \in Present \cup {Domain}

\* The delay an execution is about to ask for the Domain is not later.
OnPace(x) ==
  (/\ customDomain # Absent /\ x.soonest # Absent
   /\ x.key = Domain \/ x.step = "scheduleDomain") =>
    customDomain.next # Absent /\ x.soonest <= customDomain.next

MayPace == /\ meets \cap {"overlap", "refresh"} = {}
           /\ ~({"failures", "removal"} \subseteq meets)

InPace == MayPace => (\A x \in running : OnPace(x)) /\ (Late => Chased)

\* The Domain's status is what its records say, or what an execution has found
\* so far and is about to record.
Recorded ==
  /\ customDomain.status = "verified"     <=> \A r \in Records : status[r] = "active"
  /\ customDomain.status = "not_verified" <=> \A r \in Records : status[r] # "active"

Looking(x) == x.step \in {"dns", "recordDomain"}

LooksWell(x) ==
  Looking(x) =>
    /\ \A r \in Records \ x.todo : status[r] = "active" <=> r \in x.seen
    /\ x.seen \cap x.todo = {}
    /\ x.step = "recordDomain" => x.todo = {}

InStatus ==
  (meets \cap {"overlap", "failures"} = {} /\ customDomain # Absent) =>
    /\ \A x \in running : LooksWell(x)
    /\ customDomain.next # Absent /\ (\A x \in running : ~Looking(x)) => Recorded

ChecksInv ==
  /\ VerificationTypeOK
  /\ \A x \in running : Working(x)
  /\ RowsStay /\ Alone /\ Tokens /\ LinkWaits /\ Forgotten /\ InPace /\ InStatus
-----------------------------------------------------------------------------
(* The checks of a Domain: the cadence, and types.                         *)

\* A power of two is a number: it counts the subsets of a set.
LEMMA PowerOfTwo == \A n \in Nat : 2 ^ n \in Nat
<1> TAKE n \in Nat
<1>1. IsFiniteSet(1..n) /\ Cardinality(1..n) = n
  BY FS_Interval
<1>2. IsFiniteSet(SUBSET (1..n)) /\ Cardinality(SUBSET (1..n)) = 2 ^ Cardinality(1..n)
  BY <1>1, FS_SUBSET
<1> QED
  BY <1>1, <1>2, FS_CardinalityType

\* What a check records is a check with a delay.
LEMMA NextCheckTyped ==
  ASSUME NEW s \in Status, NEW level \in Levels
  PROVE  /\ NextCheck(s, level) \in Checks
         /\ NextCheck(s, level).next \in Delays /\ NextCheck(s, level).next # Absent
         /\ NextCheck(s, level).status = s
<1> USE VerificationAssumption, ChecksAssumption
<1>1. NextLevel(s, level) \in Levels
  BY DEF NextLevel, Status, Levels, Least
<1>2. NextDelay(s, level) \in Delays
  <2> DEFINE n == Least(level, MaxBackoffLevel)
  <2>1. n \in Nat
    BY DEF Least, Levels
  <2>2. PICK p \in Nat : p = 2 ^ n
    BY <2>1, PowerOfTwo
  <2>3. PICK q \in Nat : q = PendingBase * p
    OBVIOUS
  <2>4. NextDelay(s, level) = IF s = "verified" THEN VerifiedInterval ELSE Least(q, PendingMax)
    BY <2>2, <2>3 DEF NextDelay
  <2> QED
    BY <2>3, <2>4 DEF Least, Delays
<1> QED
  BY <1>1, <1>2 DEF NextCheck, Checks

\* The sooner of two delays is one, and not later than either.
LEMMA SoonerTyped ==
  ASSUME NEW a \in Delays, NEW b \in Delays
  PROVE  /\ DomainDelay(a, b) \in Delays /\ DomainDelay(a, b) <= b
         /\ Least(a, b) \in Delays /\ Least(a, b) <= a /\ Least(a, b) <= b
BY VerificationAssumption, ChecksAssumption DEF DomainDelay, Least, Delays

\* What a Domain's check concludes from the records it has found.
LEMMA FoundRecords ==
  ASSUME NEW seen \in SUBSET Records
  PROVE  LET found == Cardinality(seen)
             s     == MergeStatus(found, Cardinality(Records) - found)
         IN /\ s \in Status
            /\ s = "verified" <=> seen = Records
            /\ s = "not_verified" <=> seen = {}
<1>1. IsFiniteSet(seen) /\ Cardinality(seen) \in Nat /\ Cardinality(Records) \in Nat
  BY VerificationAssumption, FS_Subset, FS_CardinalityType
<1>2. Cardinality(seen) <= Cardinality(Records)
      /\ (Cardinality(seen) = Cardinality(Records) => seen = Records)
  BY VerificationAssumption, FS_Subset
<1>3. (Cardinality(seen) = 0 <=> seen = {}) /\ Records # {}
  BY <1>1, FS_EmptySet, VerificationAssumption
<1> QED
  BY <1>1, <1>2, <1>3 DEF MergeStatus, Status

\* An execution that is replaced by another leaves executions.
LEMMA ProceedTyped ==
  ASSUME VerificationTypeOK, NEW x \in running, NEW y \in Executions, Proceed(x, y)
  PROVE  running' \subseteq Executions
BY DEF VerificationTypeOK, Proceed

\* Schedule and Cancel keep the types.
LEMMA ScheduleTyped ==
  ASSUME VerificationTypeOK, NEW k \in CheckKeys, NEW delay \in Delays,
         Schedule(k, delay) \/ Cancel(k)
  PROVE  scheduled' \in [CheckKeys -> Delays \cup {Absent}] /\ lost' \subseteq CheckKeys
BY DEF VerificationTypeOK, Schedule, Cancel

\* So does a failure.
LEMMA FailedTyped ==
  ASSUME VerificationTypeOK, NEW x \in running, Failed(x)
  PROVE  running' \subseteq Executions /\ delayed' \subseteq Entries /\ lost' \subseteq CheckKeys
<1>1. x \in Executions /\ x.key \in CheckKeys \cup {Page} /\ x.attempts \in 0..MaxAttempts - 1
  BY DEF VerificationTypeOK, Executions
<1>2. MaxAttempts \in Nat
  BY VerificationAssumption
<1>3. {Domain, Claim} \subseteq CheckKeys
  BY DEF CheckKeys
<1>4. CASE x.key # Page /\ x.attempts + 1 < MaxAttempts
  <2>1. Entry(x.key, x.attempts + 1) \in Entries
    BY <1>1, <1>2, <1>4 DEF Entry, Entries
  <2> QED
    BY <1>4, <2>1 DEF Failed, VerificationTypeOK
<1> QED
  BY <1>1, <1>3, <1>4 DEF Failed, VerificationTypeOK

\* And a start.
LEMMA StartTyped ==
  ASSUME VerificationTypeOK, NEW k \in CheckKeys \cup {Page}, NEW n \in 0..MaxAttempts - 1,
         NEW s \in CheckSteps, NEW left \in SUBSET Present, MayStart, Start(k, n, s, left)
  PROVE  running' \subseteq Executions /\ overlaps' \in 0..MaxOverlaps
<1>0. MaxOverlaps \in Nat /\ MaxBackoffLevel \in Nat /\ VerifiedInterval \in Nat
  BY VerificationAssumption
<1>1. overlaps' \in 0..MaxOverlaps
  BY <1>0 DEF MayStart, Start, VerificationTypeOK
<1>2. PICK levels \in [Identities -> Levels] :
        levels = [i \in Identities |-> IF i \in left THEN row[i].level ELSE 0]
  <2>1. \A i \in Identities : (IF i \in left THEN row[i].level ELSE 0) \in Levels
    BY <1>0 DEF VerificationTypeOK, Present, Checks, Levels
  <2> QED
    BY <2>1
<1>3. left \in SUBSET Identities
  BY DEF Present
<1>4. PICK t \in 0..MaxOverlaps : t = overlaps'
  BY <1>1
<1> DEFINE y == [key |-> k, attempts |-> n, step |-> s, levels |-> levels, left |-> left,
                 id |-> Absent, answer |-> FALSE, todo |-> {}, seen |-> {}, level |-> 0,
                 delay |-> 0, soonest |-> Absent, turn |-> t]
<1>5. y \in Executions
  BY <1>0, <1>3 DEF Executions, Levels, Delays
<1>6. running' = running \cup {y}
  BY <1>2, <1>4 DEF Start
<1> QED
  BY <1>1, <1>5, <1>6 DEF VerificationTypeOK

\* Every step of an execution keeps the types.
LEMMA StepTyped ==
  ASSUME VerificationTypeOK, NEW x \in running, Working(x), Step(x), UNCHANGED overlaps
  PROVE  VerificationTypeOK'
<1>0. x \in Executions
  BY DEF VerificationTypeOK
<1> USE <1>0
<1>1. ASSUME NEW i \in Identities, Ask(x, i), UNCHANGED mishaps
      PROVE  VerificationTypeOK'
  <2>1. PICK said \in BOOLEAN : said = (i \in vendor)
    <3>1. CASE i \in vendor
      <4>1. TRUE = (i \in vendor)
        BY <3>1
      <4> QED
        BY <4>1
    <3>2. CASE i \notin vendor
      <4>1. FALSE = (i \in vendor)
        BY <3>2
      <4> QED
        BY <4>1
    <3> QED
      BY <3>1, <3>2
  <2>2. [x EXCEPT !.step = "recordIdentity", !.id = i, !.left = @ \ {i}, !.answer = said]
          \in Executions
    BY DEF Executions, CheckSteps
  <2>3. running' \subseteq Executions
    BY <1>1, <2>1, <2>2, ProceedTyped DEF Ask
  <2> QED
    BY <1>1, <2>3 DEF VerificationTypeOK, Ask, rows, facts, queue
<1>2. ASSUME RecordIdentity(x), UNCHANGED mishaps
      PROVE  VerificationTypeOK'
  <2>1. x.id \in Identities
    BY <1>2 DEF Working, RecordIdentity
  <2>2. x.levels[x.id] \in Levels
    BY <2>1 DEF Executions
  <2>3. PICK s \in Status : s = IF x.answer THEN "verified" ELSE "not_verified"
    BY DEF Status
  <2>4. PICK check \in Checks : check = NextCheck(s, x.levels[x.id]) /\ check.next \in Delays
    BY <2>2, NextCheckTyped
  <2>5. PICK todo \in SUBSET Records : todo = IF customDomain = Absent THEN {} ELSE Records
    OBVIOUS
  <2>6. [x EXCEPT !.step = "dns", !.delay = check.next, !.todo = todo, !.seen = {}] \in Executions
    BY <2>4 DEF Executions, CheckSteps
  <2>7. running' \subseteq Executions
    BY <1>2, <2>3, <2>4, <2>5, <2>6, ProceedTyped DEF RecordIdentity
  <2>8. row' = [row EXCEPT ![x.id] = IF @ = Absent THEN Absent ELSE check]
    BY <1>2, <2>3, <2>4 DEF RecordIdentity
  <2>9. row' \in [Identities -> Checks \cup {Absent}]
    BY <2>8 DEF VerificationTypeOK
  <2> QED
    BY <1>2, <2>7, <2>9 DEF VerificationTypeOK, RecordIdentity, facts, queue
<1>3. ASSUME NEW r \in Records, CheckRecord(x, r)
      PROVE  VerificationTypeOK'
  <2>1. PICK matches \in BOOLEAN :
          /\ Answers(Matches(r), matches)
          /\ status' = IF customDomain = Absent THEN status ELSE
               [status EXCEPT ![r] = IF matches THEN "active"
                                     ELSE IF @ = "pending" THEN @ ELSE "missing"]
          /\ Proceed(x, [x EXCEPT !.todo = @ \ {r},
                                   !.seen = IF matches THEN @ \cup {r} ELSE @])
    BY <1>3 DEF CheckRecord
  <2>2. [x EXCEPT !.todo = @ \ {r}, !.seen = IF matches THEN @ \cup {r} ELSE @] \in Executions
    BY DEF Executions
  <2>3. running' \subseteq Executions
    BY <2>1, <2>2, ProceedTyped
  <2>4. status' \in [Records -> {"pending", "active", "missing"}]
    BY <2>1 DEF VerificationTypeOK
  <2>5. mishaps' \in 0..MaxMishaps
    BY <2>1, VerificationAssumption DEF Answers, Mishap, VerificationTypeOK
  <2> QED
    BY <1>3, <2>3, <2>4, <2>5 DEF VerificationTypeOK, CheckRecord, facts, queue
<1>4. ASSUME LoadDomain(x), UNCHANGED mishaps
      PROVE  VerificationTypeOK'
  <2>1. PICK level \in Levels : level = IF customDomain = Absent THEN 0 ELSE customDomain.level
    BY VerificationAssumption DEF VerificationTypeOK, Checks, Levels
  <2>2. [x EXCEPT !.step = "recordDomain", !.level = level] \in Executions
    BY DEF Executions, CheckSteps
  <2>3. running' \subseteq Executions
    BY <1>4, <2>1, <2>2, ProceedTyped DEF LoadDomain
  <2> QED
    BY <1>4, <2>3 DEF VerificationTypeOK, LoadDomain, rows, facts, queue
<1>5. ASSUME RecordDomain(x), UNCHANGED mishaps
      PROVE  VerificationTypeOK'
  <2>1. PICK s \in Status : s = MergeStatus(Cardinality(x.seen),
                                            Cardinality(Records) - Cardinality(x.seen))
    <3>1. x.seen \in SUBSET Records
      BY DEF Executions
    <3> QED
      BY <3>1, FoundRecords
  <2>2. x.level \in Levels /\ x.delay \in Delays /\ x.soonest \in Delays \cup {Absent}
    BY DEF Executions
  <2>3. PICK check \in Checks : check = NextCheck(s, x.level) /\ check.next \in Delays
    BY <2>2, NextCheckTyped
  <2>4. PICK delay \in Delays : delay = DomainDelay(x.delay, check.next)
    BY <2>2, <2>3, SoonerTyped
  <2>5. PICK soonest \in Delays : soonest = IF x.soonest = Absent THEN delay
                                            ELSE Least(x.soonest, delay)
    BY <2>2, SoonerTyped
  <2>6. AfterIdentity(x) \in CheckSteps
    BY DEF AfterIdentity, CheckSteps
  <2>7. [x EXCEPT !.step = AfterIdentity(x), !.soonest = soonest] \in Executions
    BY <2>6 DEF Executions
  <2>8. /\ customDomain' = IF customDomain = Absent THEN Absent ELSE check
        /\ Proceed(x, [x EXCEPT !.step = AfterIdentity(x), !.soonest = soonest])
    BY <1>5, <2>1, <2>3, <2>4, <2>5 DEF RecordDomain
  <2>9. running' \subseteq Executions
    BY <2>7, <2>8, ProceedTyped
  <2> QED
    BY <1>5, <2>8, <2>9 DEF VerificationTypeOK, RecordDomain, facts, queue
<1>6. ASSUME ScheduleIdentity(x), UNCHANGED mishaps
      PROVE  VerificationTypeOK'
  <2>1. x.id \in CheckKeys /\ x.delay \in Delays
    BY <1>6 DEF Working, ScheduleIdentity, CheckKeys, Executions
  <2>2. [x EXCEPT !.step = IF x.left = {} THEN "finish" ELSE "ask"] \in Executions
    BY DEF Executions, CheckSteps
  <2>3. running' \subseteq Executions
    BY <1>6, <2>2, ProceedTyped DEF ScheduleIdentity
  <2>4. scheduled' \in [CheckKeys -> Delays \cup {Absent}] /\ lost' \subseteq CheckKeys
    BY <1>6, <2>1, ScheduleTyped DEF ScheduleIdentity
  <2> QED
    BY <1>6, <2>3, <2>4 DEF VerificationTypeOK, ScheduleIdentity, rows, facts, queue
<1>7. ASSUME ScheduleDomain(x), UNCHANGED mishaps
      PROVE  VerificationTypeOK'
  <2>1. Domain \in CheckKeys /\ x.soonest \in Delays
    <3>1. x.key \in Identities
      BY <1>7 DEF Working, ScheduleDomain, DomainSteps, ClaimSteps, PageSteps, Executions, CheckKeys
    <3> QED
      BY <1>7, <3>1 DEF Working, ScheduleDomain, CheckKeys, Executions
  <2>2. [x EXCEPT !.step = "reload"] \in Executions
    BY DEF Executions, CheckSteps
  <2>3. running' \subseteq Executions
    BY <1>7, <2>2, ProceedTyped DEF ScheduleDomain
  <2>4. scheduled' \in [CheckKeys -> Delays \cup {Absent}] /\ lost' \subseteq CheckKeys
    BY <1>7, <2>1, ScheduleTyped DEF ScheduleDomain
  <2> QED
    BY <1>7, <2>3, <2>4 DEF VerificationTypeOK, ScheduleDomain, rows, facts, queue
<1>8. ASSUME Reload(x), UNCHANGED mishaps
      PROVE  VerificationTypeOK'
  <2>1. x.id \in Identities
    BY <1>8 DEF Working, Reload
  <2>2. PICK soonest \in Delays \cup {Absent} :
          soonest = IF row[x.id] = Absent THEN Absent ELSE row[x.id].next
    BY <2>1 DEF VerificationTypeOK, Checks
  <2>3. [x EXCEPT !.step = "finish", !.soonest = soonest] \in Executions
    BY DEF Executions, CheckSteps
  <2>4. running' \subseteq Executions
    BY <1>8, <2>2, <2>3, ProceedTyped DEF Reload
  <2> QED
    BY <1>8, <2>4 DEF VerificationTypeOK, Reload, rows, facts, queue
<1>9. ASSUME Finish(x), UNCHANGED mishaps
      PROVE  VerificationTypeOK'
  <2>1. x.key \in CheckKeys
    BY <1>9 DEF Working, Finish, PageSteps, Executions
  <2>2. scheduled' \in [CheckKeys -> Delays \cup {Absent}] /\ lost' \subseteq CheckKeys
    <3>1. x.soonest \in Delays \cup {Absent} /\ 0 \in Delays
      BY VerificationAssumption DEF Executions, Delays
    <3> QED
      BY <1>9, <2>1, <3>1, ScheduleTyped DEF Finish
  <2> QED
    BY <1>9, <2>2 DEF VerificationTypeOK, Finish, rows, facts, queue
<1>10. ASSUME LoadLink(x), UNCHANGED mishaps
       PROVE  VerificationTypeOK'
  <2>1. CASE Proceed(x, [x EXCEPT !.step = "challenge", !.level = link.level]) /\ link # Absent
             /\ UNCHANGED <<delayed, lost>>
    <3>1. link.level \in Levels
      BY <2>1 DEF VerificationTypeOK, Checks
    <3>2. [x EXCEPT !.step = "challenge", !.level = link.level] \in Executions
      BY <3>1 DEF Executions, CheckSteps
    <3>3. running' \subseteq Executions
      BY <2>1, <3>2, ProceedTyped
    <3> QED
      BY <1>10, <2>1, <3>3 DEF VerificationTypeOK, LoadLink, rows, facts
  <2>2. CASE running' = running \ {x} /\ UNCHANGED <<delayed, lost>>
    BY <1>10, <2>2 DEF VerificationTypeOK, LoadLink, rows, facts
  <2>3. CASE Failed(x)
    BY <1>10, <2>3, FailedTyped DEF VerificationTypeOK, LoadLink, rows, facts
  <2> QED
    BY <1>10, <2>1, <2>2, <2>3 DEF LoadLink, Pending
<1>11. ASSUME Challenge(x)
       PROVE  VerificationTypeOK'
  <2>1. PICK found \in BOOLEAN :
          Answers(proof, found) /\ Proceed(x, [x EXCEPT !.step = "recordLink", !.answer = found])
    BY <1>11 DEF Challenge
  <2>2. [x EXCEPT !.step = "recordLink", !.answer = found] \in Executions
    BY DEF Executions, CheckSteps
  <2>3. running' \subseteq Executions
    BY <2>1, <2>2, ProceedTyped
  <2>4. mishaps' \in 0..MaxMishaps
    BY <2>1, VerificationAssumption DEF Answers, Mishap, VerificationTypeOK
  <2> QED
    BY <1>11, <2>3, <2>4 DEF VerificationTypeOK, Challenge, rows, facts, queue
<1>12. ASSUME RecordLink(x), UNCHANGED mishaps
       PROVE  VerificationTypeOK'
  <2>1. PICK s \in Status : s = IF x.answer THEN "verified" ELSE "not_verified"
    BY DEF Status
  <2>2. x.level \in Levels
    BY DEF Executions
  <2>3. PICK check \in Checks : check = NextCheck(s, x.level) /\ check.next \in Delays
    BY <2>2, NextCheckTyped
  <2>4. [x EXCEPT !.step = "settle", !.delay = check.next] \in Executions
    BY <2>3 DEF Executions, CheckSteps
  <2>5. /\ link' = IF link = Absent THEN Absent ELSE check
        /\ IF x.key = Page THEN running' = running \ {x}
           ELSE Proceed(x, [x EXCEPT !.step = "settle", !.delay = check.next])
    BY <1>12, <2>1, <2>3 DEF RecordLink
  <2>6. running' \subseteq Executions
    BY <2>4, <2>5, ProceedTyped DEF VerificationTypeOK
  <2> QED
    BY <1>12, <2>5, <2>6 DEF VerificationTypeOK, RecordLink, facts, queue
<1>13. ASSUME Settle(x), UNCHANGED mishaps
       PROVE  VerificationTypeOK'
  <2>1. Claim \in CheckKeys /\ x.delay \in Delays
    BY DEF CheckKeys, Executions
  <2>2. scheduled' \in [CheckKeys -> Delays \cup {Absent}] /\ lost' \subseteq CheckKeys
    BY <1>13, <2>1, ScheduleTyped DEF Settle
  <2> QED
    BY <1>13, <2>2 DEF VerificationTypeOK, Settle, rows, facts, queue
<1> QED
  BY <1>1, <1>2, <1>3, <1>4, <1>5, <1>6, <1>7, <1>8, <1>9, <1>10, <1>11, <1>12, <1>13 DEF Step

\* A retried job whose row is there, and the executions it starts.
LEMMA LoadTyped ==
  ASSUME VerificationTypeOK, NEW e \in Entries, MayStart, Load(e)
  PROVE  running' \subseteq Executions /\ overlaps' \in 0..MaxOverlaps
<1>0. /\ e.key \in CheckKeys /\ e.attempts \in 0..MaxAttempts - 1
      /\ Domain \notin Present /\ Claim \notin Present /\ Domain # Claim
  BY VerificationAssumption DEF Entries, Present
<1>1. CASE e.key \in Present
  <2>1. "ask" \in CheckSteps /\ {e.key} \in SUBSET Present
    BY <1>1 DEF CheckSteps
  <2> QED
    BY <1>0, <1>1, <2>1, StartTyped DEF Load
<1>2. CASE e.key \notin Present /\ e.key = Domain /\ customDomain # Absent
  <2>1. PICK s \in CheckSteps : s = IF Present = {} THEN "finish" ELSE "ask"
    BY DEF CheckSteps
  <2>2. Start(Domain, e.attempts, s, Present)
    BY <1>0, <1>2, <2>1 DEF Load
  <2> QED
    BY <1>0, <1>2, <2>1, <2>2, StartTyped
<1>3. CASE e.key \notin Present /\ e.key = Claim /\ e.key # Domain /\ customDomain # Absent
  <2>1. "loadLink" \in CheckSteps /\ {} \in SUBSET Present
    BY DEF CheckSteps
  <2> QED
    BY <1>0, <1>3, <2>1, StartTyped DEF Load
<1>4. CASE /\ e.key \notin Present
           /\ ~(e.key = Domain /\ customDomain # Absent)
           /\ ~(e.key = Claim /\ customDomain # Absent)
  BY <1>4 DEF Load, VerificationTypeOK
<1> QED
  BY <1>1, <1>2, <1>3, <1>4

\* Every step keeps the types.
LEMMA NextTyped ==
  ASSUME VerificationTypeOK, \A x \in running : Working(x), VerificationNext
  PROVE  VerificationTypeOK'
<1>1. ASSUME NEW x \in running, Step(x), UNCHANGED overlaps
      PROVE  VerificationTypeOK'
  BY <1>1, StepTyped
<1>2. ASSUME NEW k \in CheckKeys, Promote(k)
      PROVE  VerificationTypeOK'
  <2>1. Entry(k, 0) \in Entries
    BY VerificationAssumption DEF Entry, Entries
  <2> QED
    BY <1>2, <2>1 DEF Promote, VerificationTypeOK, rows, facts
<1>3. ASSUME NEW e \in Entries, Retry(e)
      PROVE  VerificationTypeOK'
  BY <1>3 DEF Retry, VerificationTypeOK, rows, facts
<1>4. ASSUME NEW e \in Entries, StartJob(e)
      PROVE  VerificationTypeOK'
  <2>1. running' \subseteq Executions /\ overlaps' \in 0..MaxOverlaps
    BY <1>4, LoadTyped DEF StartJob
  <2> QED
    BY <1>4, <2>1 DEF StartJob, VerificationTypeOK, rows, facts
<1>5. ASSUME StartRefresh
      PROVE  VerificationTypeOK'
  <2>1. "ask" \in CheckSteps /\ Present \in SUBSET Present /\ 0 \in 0..MaxAttempts - 1
    BY VerificationAssumption DEF CheckSteps
  <2>2. running' \subseteq Executions /\ overlaps' \in 0..MaxOverlaps
    BY <1>5, <2>1, StartTyped DEF StartRefresh
  <2> QED
    BY <1>5, <2>2 DEF StartRefresh, VerificationTypeOK, rows, facts, queue
<1>6. ASSUME NEW x \in running, Fail(x), UNCHANGED overlaps
      PROVE  VerificationTypeOK'
  <2>1. mishaps' \in 0..MaxMishaps
    BY <1>6, VerificationAssumption DEF Fail, Mishap, VerificationTypeOK
  <2> QED
    BY <1>6, <2>1, FailedTyped DEF Fail, VerificationTypeOK, rows, facts
<1>7. ASSUME NEW x \in running, Crash(x), UNCHANGED overlaps
      PROVE  VerificationTypeOK'
  <2>1. mishaps' \in 0..MaxMishaps
    BY <1>7, VerificationAssumption DEF Crash, Mishap, VerificationTypeOK
  <2>2. x.key # Page => Entry(x.key, x.attempts) \in Entries
    BY DEF VerificationTypeOK, Executions, Entry, Entries
  <2> QED
    BY <1>7, <2>1, <2>2 DEF Crash, VerificationTypeOK, rows, facts
<1>8. ASSUME NEW i \in Identities, Register(i), UNCHANGED overlaps
      PROVE  VerificationTypeOK'
  <2>1. Fresh \in Checks /\ 0 \in Delays
    BY VerificationAssumption DEF Fresh, Checks, Status, Levels, Delays
  <2>2. PICK done \in {{}, {Domain}, {Domain, i}} :
          /\ IF i \in done THEN UNCHANGED mishaps ELSE Mishap
          /\ scheduled' = [k \in CheckKeys |-> IF k \in done THEN 0 ELSE scheduled[k]]
          /\ lost' = (lost \cup {i, Domain}) \ done
    BY <1>8 DEF Register
  <2>3. mishaps' \in 0..MaxMishaps
    BY <2>2, VerificationAssumption DEF Mishap, VerificationTypeOK
  <2>4. scheduled' \in [CheckKeys -> Delays \cup {Absent}] /\ lost' \subseteq CheckKeys
    BY <2>1, <2>2 DEF VerificationTypeOK, CheckKeys
  <2>5. row' \in [Identities -> Checks \cup {Absent}]
    BY <1>8, <2>1 DEF Register, VerificationTypeOK
  <2> QED
    BY <1>8, <2>3, <2>4, <2>5 DEF Register, VerificationTypeOK, facts, queue
<1>9. ASSUME Drift, UNCHANGED overlaps
      PROVE  VerificationTypeOK'
  <2>1. mishaps' \in 0..MaxMishaps
    BY <1>9, VerificationAssumption DEF Drift, Mishap, VerificationTypeOK
  <2>2. vendor' \subseteq Identities /\ live' \subseteq Records /\ proof' \in BOOLEAN
    <3>1. CASE \E i \in Present :
                 /\ vendor' = IF i \in vendor THEN vendor \ {i} ELSE vendor \cup {i}
                 /\ UNCHANGED <<live, proof>>
      BY <3>1 DEF VerificationTypeOK, Present
    <3>2. CASE \E r \in Records :
                 /\ live' = IF r \in live THEN live \ {r} ELSE live \cup {r}
                 /\ UNCHANGED <<vendor, proof>>
      BY <3>2 DEF VerificationTypeOK
    <3>3. CASE proof' = ~proof /\ UNCHANGED <<vendor, live>>
      BY <3>3 DEF VerificationTypeOK
    <3> QED
      BY <1>9, <3>1, <3>2, <3>3 DEF Drift
  <2> QED
    BY <1>9, <2>1, <2>2 DEF Drift, VerificationTypeOK, rows, queue
<1>10. ASSUME NEW i \in Identities, RemoveIdentity(i), UNCHANGED <<overlaps, mishaps>>
       PROVE  VerificationTypeOK'
  BY <1>10 DEF RemoveIdentity, VerificationTypeOK, facts, queue
<1>11. ASSUME Reconcile, UNCHANGED <<overlaps, mishaps>>
       PROVE  VerificationTypeOK'
  <2>1. \A k \in CheckKeys : NextOf(k) \in Delays \cup {Absent}
    BY DEF NextOf, VerificationTypeOK, Checks, CheckKeys, Pending
  <2>2. scheduled' \in [CheckKeys -> Delays \cup {Absent}] /\ lost' \subseteq CheckKeys
    BY <1>11, <2>1 DEF Reconcile, VerificationTypeOK
  <2> QED
    BY <1>11, <2>2 DEF Reconcile, VerificationTypeOK, rows, facts, queue
<1>12. ASSUME RemoveDomain, UNCHANGED <<overlaps, mishaps>>
       PROVE  VerificationTypeOK'
  BY <1>12 DEF RemoveDomain, VerificationTypeOK, facts, queue
<1> QED
  BY <1>1, <1>2, <1>3, <1>4, <1>5, <1>6, <1>7, <1>8, <1>9, <1>10, <1>11, <1>12
  DEF VerificationNext, Worker

LEMMA InitTyped == VerificationInit => VerificationTypeOK
<1> SUFFICES ASSUME VerificationInit
             PROVE  VerificationTypeOK
  OBVIOUS
<1>1. Fresh \in Checks /\ 0 \in Delays /\ 0 \in 0..MaxOverlaps /\ 0 \in 0..MaxMishaps
  BY VerificationAssumption DEF Fresh, Checks, Status, Levels, Delays
<1>2. row \in [Identities -> Checks \cup {Absent}]
      /\ scheduled \in [CheckKeys -> Delays \cup {Absent}]
  BY <1>1 DEF VerificationInit
<1>3. status \in [Records -> {"pending", "active", "missing"}]
  BY DEF VerificationInit
<1>4. vendor \subseteq Identities /\ live \subseteq Records /\ proof \in BOOLEAN
  BY DEF VerificationInit
<1> QED
  BY <1>1, <1>2, <1>3, <1>4 DEF VerificationInit, VerificationTypeOK

-----------------------------------------------------------------------------
(* The checks of a Domain: what an execution knows.                        *)

\* What no step does to a row that is or was there: bring it back, or forget
\* its next check.
RowsGoOn ==
  \A i \in Identities : row[i] # Absent \/ i \in gone =>
    /\ row'[i] # Absent \/ i \in gone'
    /\ row[i] = Absent => row'[i] = Absent
    /\ row[i] # Absent /\ row[i].next # Absent => row'[i] = Absent \/ row'[i].next # Absent

\* A job that starts and an execution that goes on, as far as the rows matter.
LEMMA IdentityRecorded ==
  ASSUME VerificationTypeOK, NEW x \in running, Working(x), RecordIdentity(x)
  PROVE  \E check \in Checks :
           /\ check.next \in Delays /\ check.next # Absent
           /\ row' = [row EXCEPT ![x.id] = IF @ = Absent THEN Absent ELSE check]
           /\ Proceed(x, [x EXCEPT !.step = "dns", !.delay = check.next,
                                   !.todo = IF customDomain = Absent THEN {} ELSE Records,
                                   !.seen = {}])
<1>1. x \in Executions /\ x.id \in Identities
  BY DEF VerificationTypeOK, Working, RecordIdentity
<1>2. x.levels[x.id] \in Levels
  BY <1>1 DEF Executions
<1>3. PICK s \in Status : s = IF x.answer THEN "verified" ELSE "not_verified"
  BY DEF Status
<1>4. PICK check \in Checks :
        /\ check = NextCheck(s, x.levels[x.id])
        /\ check.next \in Delays /\ check.next # Absent
  BY <1>2, NextCheckTyped
<1> QED
  BY <1>3, <1>4 DEF RecordIdentity

\* The rows go on.
LEMMA NextRowsGoOn ==
  ASSUME VerificationTypeOK, \A x \in running : Working(x), VerificationNext
  PROVE  RowsGoOn
<1>1. ASSUME NEW x \in running, RecordIdentity(x)
      PROVE  RowsGoOn
  <2>1. PICK check \in Checks :
          /\ check.next \in Delays /\ check.next # Absent
          /\ row' = [row EXCEPT ![x.id] = IF @ = Absent THEN Absent ELSE check]
    BY <1>1, IdentityRecorded
  <2>2. gone' = gone
    BY <1>1 DEF RecordIdentity
  <2>3. check # Absent
    BY ChecksAssumption
  <2>4. row \in [Identities -> Checks \cup {Absent}]
    BY DEF VerificationTypeOK
  <2> QED
    BY <2>1, <2>2, <2>3, <2>4 DEF RowsGoOn
<1>2. ASSUME NEW i \in Identities, Register(i)
      PROVE  RowsGoOn
  BY <1>2 DEF Register, RowsGoOn, Present, VerificationTypeOK
<1>3. ASSUME NEW i \in Identities, RemoveIdentity(i)
      PROVE  RowsGoOn
  BY <1>3 DEF RemoveIdentity, RowsGoOn, VerificationTypeOK
<1>4. CASE RemoveDomain
  BY <1>4 DEF RemoveDomain, RowsGoOn
<1>5. CASE UNCHANGED <<row, gone>>
  BY <1>5 DEF RowsGoOn
<1>6. ASSUME NEW x \in running, Step(x)
      PROVE  RecordIdentity(x) \/ UNCHANGED <<row, gone>>
  BY <1>6 DEF Step, Ask, LoadDomain, RecordDomain, ScheduleIdentity, ScheduleDomain, Reload,
              Finish, LoadLink, RecordLink, Settle, CheckRecord, Challenge, rows
<1> QED
  BY <1>1, <1>2, <1>3, <1>4, <1>5, <1>6
  DEF VerificationNext, Worker, Promote, Retry, StartJob, StartRefresh, Fail, Crash, Drift,
      Reconcile, rows

LEMMA WorkingGoesOn ==
  ASSUME RowsGoOn, NEW x, Working(x)
  PROVE  Working(x)'
BY DEF RowsGoOn, Working

\* An execution that starts knows what its first step needs.
LEMMA StartWorking ==
  ASSUME VerificationTypeOK, NEW k \in CheckKeys \cup {Page}, NEW n \in 0..MaxAttempts - 1,
         NEW s \in CheckSteps, NEW left \in SUBSET Present, Start(k, n, s, left),
         \/ k \in Present /\ s = "ask" /\ left = {k}
         \/ k = Domain /\ s = "finish"
         \/ k \in {Domain, Page} /\ s = "ask" /\ left # {}
         \/ k = Claim /\ s = "loadLink"
  PROVE  \E y : /\ running' = running \cup {y} /\ Working(y)
                /\ y.key = k /\ y.step = s /\ y.soonest = Absent /\ y.attempts = n
<1>1. PICK levels, t :
        running' = running \cup
          {[key |-> k, attempts |-> n, step |-> s, levels |-> levels, left |-> left,
            id |-> Absent, answer |-> FALSE, todo |-> {}, seen |-> {}, level |-> 0,
            delay |-> 0, soonest |-> Absent, turn |-> t]}
  BY DEF Start
<1> DEFINE y == [key |-> k, attempts |-> n, step |-> s, levels |-> levels, left |-> left,
                 id |-> Absent, answer |-> FALSE, todo |-> {}, seen |-> {}, level |-> 0,
                 delay |-> 0, soonest |-> Absent, turn |-> t]
<1>2. /\ y.key = k /\ y.step = s /\ y.left = left /\ y.id = Absent
      /\ y.soonest = Absent /\ y.attempts = n
  OBVIOUS
<1> HIDE DEF y
<1>3. /\ Domain \notin Identities /\ Claim \notin Identities /\ Page \notin Identities
      /\ Domain # Claim /\ Page # Domain /\ Page # Claim /\ Present \subseteq Identities
      /\ \A i \in Present : row[i] # Absent
  BY VerificationAssumption DEF Present
<1>4. Working(y)
  BY <1>2, <1>3 DEF Working, IdentitySteps, DomainSteps, ClaimSteps, PageSteps
<1> QED
  BY <1>1, <1>2, <1>4 DEF y

\* What a job finds, and what it then starts.
LEMMA LoadStarts ==
  ASSUME VerificationTypeOK, NEW e \in Entries, Load(e)
  PROVE  \/ /\ e.key \in Present \/ (e.key \in {Domain, Claim} /\ customDomain # Absent)
            /\ \E y : /\ running' = running \cup {y} /\ Working(y)
                      /\ y.key = e.key /\ y.soonest = Absent /\ y.attempts = e.attempts
                      /\ y.step \in {"ask", "finish", "loadLink"}
                      /\ y.step = "finish" => e.key = Domain
         \/ /\ e.key \notin Present
            /\ e.key \in {Domain, Claim} => customDomain = Absent
            /\ running' = running
<1>0. /\ e.key \in CheckKeys /\ e.attempts \in 0..MaxAttempts - 1
      /\ Domain \notin Present /\ Claim \notin Present /\ Domain # Claim
  BY VerificationAssumption DEF Entries, Present
<1>1. CASE e.key \in Present
  <2>1. "ask" \in CheckSteps /\ {e.key} \in SUBSET Present
    BY <1>1 DEF CheckSteps
  <2>2. Start(e.key, e.attempts, "ask", {e.key})
    BY <1>0, <1>1 DEF Load
  <2>3. PICK y : /\ running' = running \cup {y} /\ Working(y)
                 /\ y.key = e.key /\ y.step = "ask" /\ y.soonest = Absent
                 /\ y.attempts = e.attempts
    BY <1>0, <1>1, <2>1, <2>2, StartWorking
  <2> QED
    BY <1>1, <2>3
<1>2. CASE e.key = Domain /\ customDomain # Absent
  <2>1. PICK s \in CheckSteps : s = IF Present = {} THEN "finish" ELSE "ask"
    BY DEF CheckSteps
  <2>2. Start(Domain, e.attempts, s, Present) /\ Present \in SUBSET Present
    BY <1>0, <1>2, <2>1 DEF Load
  <2>3. s = "finish" \/ (s = "ask" /\ Present # {})
    BY <2>1
  <2>4. PICK y : /\ running' = running \cup {y} /\ Working(y)
                 /\ y.key = Domain /\ y.step = s /\ y.soonest = Absent
                 /\ y.attempts = e.attempts
    BY <1>0, <1>2, <2>2, <2>3, StartWorking
  <2> QED
    BY <1>2, <2>3, <2>4
<1>3. CASE e.key = Claim /\ customDomain # Absent
  <2>1. "loadLink" \in CheckSteps /\ {} \in SUBSET Present
    BY DEF CheckSteps
  <2>2. Start(Claim, e.attempts, "loadLink", {})
    BY <1>0, <1>3 DEF Load
  <2>3. PICK y : /\ running' = running \cup {y} /\ Working(y)
                 /\ y.key = Claim /\ y.step = "loadLink" /\ y.soonest = Absent
                 /\ y.attempts = e.attempts
    BY <1>0, <1>3, <2>1, <2>2, StartWorking
  <2> QED
    BY <1>0, <1>3, <2>3
<1>4. CASE /\ e.key \notin Present
           /\ ~(e.key = Domain /\ customDomain # Absent)
           /\ ~(e.key = Claim /\ customDomain # Absent)
  BY <1>4 DEF Load
<1> QED
  BY <1>1, <1>2, <1>3, <1>4

\* A page starts with the identities it finds.
LEMMA RefreshStarts ==
  ASSUME VerificationTypeOK, StartRefresh
  PROVE  \E y : /\ running' = running \cup {y} /\ Working(y)
                /\ y.key = Page /\ y.step = "ask" /\ y.soonest = Absent
<1>1. "ask" \in CheckSteps /\ Present \in SUBSET Present /\ 0 \in 0..MaxAttempts - 1
  BY VerificationAssumption DEF CheckSteps
<1>2. Start(Page, 0, "ask", Present) /\ Present # {}
  BY DEF StartRefresh
<1> QED
  BY <1>1, <1>2, StartWorking

\* An execution that takes a step goes on with what it knows, or ends.
LEMMA StepWorking ==
  ASSUME VerificationTypeOK, NEW x \in running, Working(x), Step(x), RowsGoOn
  PROVE  \/ \E y : Proceed(x, y) /\ y.key = x.key /\ y.attempts = x.attempts /\ Working(y)'
         \/ running' = running \ {x}
<1>0. x \in Executions
  BY DEF VerificationTypeOK
<1>k. /\ Domain \notin Identities /\ Claim \notin Identities /\ Page \notin Identities
      /\ Domain # Claim /\ Page # Domain /\ Page # Claim /\ Absent \notin Identities
  BY VerificationAssumption
<1> USE <1>0
<1> DEFINE Goal == \/ \E y : Proceed(x, y) /\ y.key = x.key /\ y.attempts = x.attempts
                               /\ Working(y)'
                   \/ running' = running \ {x}
<1>1. ASSUME NEW i \in Identities, Ask(x, i)
      PROVE  Goal
  <2>1. PICK y : Proceed(x, y) /\ y = [x EXCEPT !.step = "recordIdentity", !.id = i, !.left = @ \ {i},
                                   !.answer = i \in vendor]
    BY <1>1 DEF Ask
  <2>1a. /\ y.key = x.key /\ y.step = "recordIdentity" /\ y.id = i
        /\ y.left = x.left \ {i} /\ y.attempts = x.attempts
    BY <2>1 DEF Executions
  <2>2. x.step = "ask" /\ i \in x.left
    BY <1>1 DEF Ask
  <2>3. Working(y)
    BY <1>1, <1>k, <2>1, <2>1a, <2>2 DEF Working, IdentitySteps, DomainSteps, ClaimSteps, PageSteps
  <2> QED
    BY <2>1, <2>1a, <2>3, WorkingGoesOn
<1>2. ASSUME RecordIdentity(x)
      PROVE  Goal
  <2>1. PICK check \in Checks :
          /\ check.next \in Delays /\ check.next # Absent
          /\ row' = [row EXCEPT ![x.id] = IF @ = Absent THEN Absent ELSE check]
          /\ Proceed(x, [x EXCEPT !.step = "dns", !.delay = check.next,
                                  !.todo = IF customDomain = Absent THEN {} ELSE Records,
                                  !.seen = {}])
    BY <1>2, IdentityRecorded
  <2>2. PICK y : Proceed(x, y) /\ y = [x EXCEPT !.step = "dns", !.delay = check.next,
                                   !.todo = IF customDomain = Absent THEN {} ELSE Records,
                                   !.seen = {}]
    BY <2>1
  <2>2a. /\ y.key = x.key /\ y.step = "dns" /\ y.id = x.id
        /\ y.left = x.left /\ y.attempts = x.attempts
    BY <2>2 DEF Executions
  <2>3. x.step = "recordIdentity" /\ gone' = gone
    BY <1>2 DEF RecordIdentity
  <2>4. row \in [Identities -> Checks \cup {Absent}]
    BY DEF VerificationTypeOK
  <2>5. x.key \in Identities =>
          /\ x.id = x.key
          /\ row'[x.key] = Absent \/ row'[x.key].next # Absent
          /\ row'[x.key] # Absent \/ x.key \in gone'
    <3>1. x.key \in Identities => x.id = x.key /\ (row[x.key] # Absent \/ x.key \in gone)
      BY <1>k, <2>3 DEF Working
    <3> QED
      BY <2>1, <2>4, <3>1 DEF RowsGoOn
  <2>6. Working(y)'
    BY <1>k, <2>2, <2>2a, <2>3, <2>5
    DEF Working, IdentitySteps, DomainSteps, ClaimSteps, PageSteps
  <2> QED
    BY <2>2, <2>2a, <2>6
<1>3. ASSUME NEW r \in Records, CheckRecord(x, r)
      PROVE  Goal
  <2>1. PICK matches \in BOOLEAN :
          Proceed(x, [x EXCEPT !.todo = @ \ {r}, !.seen = IF matches THEN @ \cup {r} ELSE @])
    BY <1>3 DEF CheckRecord
  <2>2. PICK y : Proceed(x, y) /\ y = [x EXCEPT !.todo = @ \ {r},
                                   !.seen = IF matches THEN @ \cup {r} ELSE @]
    BY <2>1
  <2>2a. /\ y.key = x.key /\ y.step = x.step /\ y.id = x.id
        /\ y.left = x.left /\ y.soonest = x.soonest /\ y.attempts = x.attempts
    BY <2>2 DEF Executions
  <2>3. Working(y)
    BY <2>2, <2>2a DEF Working
  <2> QED
    BY <2>2, <2>2a, <2>3, WorkingGoesOn
<1>4. ASSUME LoadDomain(x)
      PROVE  Goal
  <2>1. PICK y : Proceed(x, y) /\ y = [x EXCEPT !.step = "recordDomain",
                                   !.level = IF customDomain = Absent THEN 0
                                             ELSE customDomain.level]
    BY <1>4 DEF LoadDomain
  <2>1a. /\ y.key = x.key /\ y.step = "recordDomain" /\ y.id = x.id
        /\ y.left = x.left /\ y.attempts = x.attempts
    BY <2>1 DEF Executions
  <2>2. x.step = "dns"
    BY <1>4 DEF LoadDomain
  <2>3. Working(y)
    BY <1>k, <2>1, <2>1a, <2>2 DEF Working, IdentitySteps, DomainSteps, ClaimSteps, PageSteps
  <2> QED
    BY <2>1, <2>1a, <2>3, WorkingGoesOn
<1>5. ASSUME RecordDomain(x)
      PROVE  Goal
  <2>1. PICK delay \in Delays, s \in CheckSteps :
          /\ s = AfterIdentity(x)
          /\ Proceed(x, [x EXCEPT !.step = s,
                                  !.soonest = IF @ = Absent THEN delay ELSE Least(@, delay)])
    <3>1. PICK d : Proceed(x, [x EXCEPT !.step = AfterIdentity(x),
                                 !.soonest = IF @ = Absent THEN DomainDelay(x.delay, d.next)
                                             ELSE Least(@, DomainDelay(x.delay, d.next))])
                   /\ d \in Checks /\ d.next \in Delays
      <4>1. PICK s \in Status : s = MergeStatus(Cardinality(x.seen),
                                                Cardinality(Records) - Cardinality(x.seen))
        <5>1. x.seen \in SUBSET Records
          BY DEF Executions
        <5> QED
          BY <5>1, FoundRecords
      <4>2. x.level \in Levels
        BY DEF Executions
      <4>3. PICK d \in Checks : d = NextCheck(s, x.level) /\ d.next \in Delays
        BY <4>2, NextCheckTyped
      <4> QED
        BY <1>5, <4>1, <4>3 DEF RecordDomain
    <3>2. x.delay \in Delays
      BY DEF Executions
    <3>3. DomainDelay(x.delay, d.next) \in Delays
      BY <3>1, <3>2, SoonerTyped
    <3>4. AfterIdentity(x) \in CheckSteps
      BY DEF AfterIdentity, CheckSteps
    <3> QED
      BY <3>1, <3>3, <3>4
  <2>2. \E y : /\ Proceed(x, y) /\ y.key = x.key /\ y.step = s /\ y.id = x.id
               /\ y.left = x.left /\ y.soonest # Absent /\ y.attempts = x.attempts
    <3>1. PICK soonest \in Delays : soonest = IF x.soonest = Absent THEN delay
                                              ELSE Least(x.soonest, delay)
      BY SoonerTyped DEF Executions
    <3>2. soonest # Absent
      BY ChecksAssumption
    <3>3. PICK y : Proceed(x, y) /\ y = [x EXCEPT !.step = s, !.soonest = soonest]
      BY <2>1, <3>1
    <3>4. /\ y.key = x.key /\ y.step = s /\ y.id = x.id
          /\ y.left = x.left /\ y.soonest = soonest /\ y.attempts = x.attempts
      BY <3>3 DEF Executions
    <3> QED
      BY <3>2, <3>3, <3>4
  <2>2a. PICK y : /\ Proceed(x, y) /\ y.key = x.key /\ y.step = s /\ y.id = x.id
                  /\ y.left = x.left /\ y.soonest # Absent /\ y.attempts = x.attempts
    BY <2>2
  <2>3. x.step = "recordDomain" /\ s = AfterIdentity(x)
    BY <1>5, <2>1 DEF RecordDomain
  <2>4. x.key \in Identities \cup {Domain, Page}
    BY <1>k, <2>3 DEF Working, ClaimSteps, Executions, CheckKeys
  <2>5. Working(y)
    BY <1>k, <2>2a, <2>3, <2>4
    DEF Working, IdentitySteps, DomainSteps, ClaimSteps, PageSteps, AfterIdentity
  <2> QED
    BY <2>2a, <2>5, WorkingGoesOn
<1>6. ASSUME ScheduleIdentity(x)
      PROVE  Goal
  <2>0. PICK s : s = IF x.left = {} THEN "finish" ELSE "ask"
    OBVIOUS
  <2>1. PICK y : Proceed(x, y) /\ y = [x EXCEPT !.step = s]
    BY <1>6, <2>0 DEF ScheduleIdentity
  <2>1a. /\ y.key = x.key /\ y.attempts = x.attempts /\ y.step = s
         /\ y.left = x.left /\ y.id = x.id
    BY <2>1 DEF Executions
  <2>2. x.step = "scheduleIdentity" /\ x.key = Domain
    BY <1>6 DEF ScheduleIdentity, Working, IdentitySteps, ClaimSteps, PageSteps, Executions, CheckKeys
  <2>3. Working(y)
    BY <1>k, <2>0, <2>1a, <2>2 DEF Working, DomainSteps
  <2> QED
    BY <2>1, <2>1a, <2>3, WorkingGoesOn
<1>7. ASSUME ScheduleDomain(x)
      PROVE  Goal
  <2>1. PICK y : Proceed(x, y) /\ y = [x EXCEPT !.step = "reload"]
    BY <1>7 DEF ScheduleDomain
  <2>1a. /\ y.key = x.key /\ y.step = "reload" /\ y.id = x.id
        /\ y.left = x.left /\ y.soonest = x.soonest /\ y.attempts = x.attempts
    BY <2>1 DEF Executions
  <2>2. x.step = "scheduleDomain" /\ x.key \in Identities
    BY <1>7 DEF ScheduleDomain, Working, DomainSteps, ClaimSteps, PageSteps, Executions, CheckKeys
  <2>3. Working(y)
    BY <1>k, <2>1, <2>1a, <2>2 DEF Working, IdentitySteps
  <2> QED
    BY <2>1, <2>1a, <2>3, WorkingGoesOn
<1>8. ASSUME Reload(x)
      PROVE  Goal
  <2>1. PICK y : Proceed(x, y) /\ y = [x EXCEPT !.step = "finish",
                                   !.soonest = IF row[x.id] = Absent THEN Absent
                                               ELSE row[x.id].next]
    BY <1>8 DEF Reload
  <2>1a. /\ y.key = x.key /\ y.step = "finish" /\ y.id = x.id
        /\ y.left = x.left /\ y.attempts = x.attempts
        /\ y.soonest = IF row[x.id] = Absent THEN Absent ELSE row[x.id].next
    BY <2>1 DEF Executions
  <2>2. x.step = "reload" /\ x.key \in Identities
    BY <1>8 DEF Reload, Working, DomainSteps, ClaimSteps, PageSteps, Executions, CheckKeys
  <2>3. x.id = x.key
    BY <1>k, <2>2 DEF Working
  <2>4. Working(y)
    BY <1>k, <2>1, <2>1a, <2>2, <2>3 DEF Working, IdentitySteps
  <2> QED
    BY <2>1, <2>1a, <2>4, WorkingGoesOn
<1>9. ASSUME LoadLink(x)
      PROVE  Goal
  <2>1. CASE Proceed(x, [x EXCEPT !.step = "challenge", !.level = link.level])
    <3>1. PICK y : Proceed(x, y) /\ y = [x EXCEPT !.step = "challenge", !.level = link.level]
      BY <2>1
    <3>1a. /\ y.key = x.key /\ y.step = "challenge" /\ y.id = x.id
          /\ y.left = x.left /\ y.soonest = x.soonest /\ y.attempts = x.attempts
      BY <3>1 DEF Executions
    <3>2. x.step = "loadLink"
      BY <1>9 DEF LoadLink
    <3>3. Working(y)
      BY <1>k, <3>1, <3>1a, <3>2 DEF Working, IdentitySteps, DomainSteps, ClaimSteps, PageSteps
    <3> QED
      BY <3>1, <3>1a, <3>3, WorkingGoesOn
  <2>2. CASE running' = running \ {x}
    BY <2>2
  <2> QED
    BY <1>9, <2>1, <2>2 DEF LoadLink, Failed
<1>10. ASSUME Challenge(x)
       PROVE  Goal
  <2>1. PICK found \in BOOLEAN : Proceed(x, [x EXCEPT !.step = "recordLink", !.answer = found])
    BY <1>10 DEF Challenge
  <2>2. PICK y : Proceed(x, y) /\ y = [x EXCEPT !.step = "recordLink", !.answer = found]
    BY <2>1
  <2>2a. /\ y.key = x.key /\ y.step = "recordLink" /\ y.id = x.id
        /\ y.left = x.left /\ y.soonest = x.soonest /\ y.attempts = x.attempts
    BY <2>2 DEF Executions
  <2>3. x.step = "challenge"
    BY <1>10 DEF Challenge
  <2>4. Working(y)
    BY <1>k, <2>2, <2>2a, <2>3 DEF Working, IdentitySteps, DomainSteps, ClaimSteps, PageSteps
  <2> QED
    BY <2>2, <2>2a, <2>4, WorkingGoesOn
<1>11. ASSUME RecordLink(x)
       PROVE  Goal
  <2>1. CASE x.key # Page
    <3>1. PICK delay : Proceed(x, [x EXCEPT !.step = "settle", !.delay = delay])
      BY <1>11, <2>1 DEF RecordLink
    <3>2. PICK y : Proceed(x, y) /\ y = [x EXCEPT !.step = "settle", !.delay = delay]
      BY <3>1
    <3>2a. /\ y.key = x.key /\ y.step = "settle" /\ y.id = x.id
          /\ y.left = x.left /\ y.soonest = x.soonest /\ y.attempts = x.attempts
      BY <3>2 DEF Executions
    <3>3. x.step = "recordLink"
      BY <1>11 DEF RecordLink
    <3>4. Working(y)
      BY <1>k, <2>1, <3>2, <3>2a, <3>3 DEF Working, IdentitySteps, DomainSteps, ClaimSteps, PageSteps
    <3> QED
      BY <3>2, <3>2a, <3>4, WorkingGoesOn
  <2>2. CASE x.key = Page
    BY <1>11, <2>2 DEF RecordLink
  <2> QED
    BY <2>1, <2>2
<1>12. ASSUME Finish(x) \/ Settle(x)
       PROVE  Goal
  BY <1>12 DEF Finish, Settle
<1> QED
  BY <1>1, <1>2, <1>3, <1>4, <1>5, <1>6, <1>7, <1>8, <1>9, <1>10, <1>11, <1>12 DEF Step

\* What a step does to the executions at work.
LEMMA NextShape ==
  ASSUME VerificationTypeOK, \A x \in running : Working(x), VerificationNext
  PROVE  /\ meets' = meets
         /\ \/ running' \subseteq running
            \/ \E x \in running : \E y :
                 Proceed(x, y) /\ y.key = x.key /\ y.attempts = x.attempts /\ Working(y)'
            \/ \E y : /\ MayStart /\ running' = running \cup {y} /\ Working(y)'
                      /\ y.key = Page => "refresh" \in meets
<1>1. RowsGoOn
  BY NextRowsGoOn
<1>2. ASSUME NEW x \in running, Step(x)
      PROVE  /\ meets' = meets
             /\ \/ running' \subseteq running
                \/ \E y : Proceed(x, y) /\ y.key = x.key /\ y.attempts = x.attempts /\ Working(y)'
  <2>1. meets' = meets
    BY <1>2 DEF Step, Ask, RecordIdentity, LoadDomain, RecordDomain, ScheduleIdentity,
                ScheduleDomain, Reload, Finish, LoadLink, RecordLink, Settle, CheckRecord, Challenge
  <2> QED
    BY <1>1, <1>2, <2>1, StepWorking
<1>3. ASSUME NEW e \in Entries, StartJob(e)
      PROVE  /\ meets' = meets
             /\ \/ running' = running
                \/ \E y : /\ MayStart /\ running' = running \cup {y} /\ Working(y)'
                          /\ y.key = Page => "refresh" \in meets
  <2>1. Load(e) /\ MayStart /\ meets' = meets
    BY <1>3 DEF StartJob
  <2>2. e.key # Page
    BY VerificationAssumption DEF Entries, CheckKeys
  <2> QED
    BY <1>1, <2>1, <2>2, LoadStarts, WorkingGoesOn
<1>4. ASSUME StartRefresh
      PROVE  /\ meets' = meets
             /\ \E y : /\ MayStart /\ running' = running \cup {y} /\ Working(y)'
                       /\ y.key = Page => "refresh" \in meets
  <2>1. "refresh" \in meets /\ MayStart /\ meets' = meets
    BY <1>4 DEF StartRefresh
  <2>2. PICK y : running' = running \cup {y} /\ Working(y)
    BY <1>4, RefreshStarts
  <2>3. Working(y)'
    BY <1>1, <2>2, WorkingGoesOn
  <2> QED
    BY <2>1, <2>2, <2>3
<1>5. ASSUME NEW x \in running, Fail(x) \/ Crash(x)
      PROVE  meets' = meets /\ running' \subseteq running
  BY <1>5 DEF Fail, Failed, Crash
<1>6. ASSUME \/ \E k \in CheckKeys : Promote(k)
             \/ \E e \in Entries : Retry(e)
             \/ \E i \in Identities : Register(i) \/ RemoveIdentity(i)
             \/ Drift \/ Reconcile \/ RemoveDomain
      PROVE  meets' = meets /\ running' \subseteq running
  BY <1>6 DEF Promote, Retry, Register, RemoveIdentity, Drift, Reconcile, RemoveDomain
<1> QED
  BY <1>2, <1>3, <1>4, <1>5, <1>6 DEF VerificationNext, Worker

\* Every execution keeps knowing it.
LEMMA NextWorking ==
  ASSUME VerificationTypeOK, \A x \in running : Working(x), VerificationNext
  PROVE  (\A x \in running : Working(x))'
<1>1. \A z : Working(z) => Working(z)'
  BY NextRowsGoOn, WorkingGoesOn
<1>2. \A x \in running : Working(x)'
  BY <1>1
<1>3. ASSUME NEW x \in running, NEW y, Proceed(x, y), Working(y)'
      PROVE  \A z \in running' : Working(z)'
  BY <1>2, <1>3 DEF Proceed
<1>4. ASSUME NEW y, running' = running \cup {y}, Working(y)'
      PROVE  \A z \in running' : Working(z)'
  BY <1>2, <1>4
<1>5. \A z \in running' : Working(z)'
  BY <1>2, <1>3, <1>4, NextShape
<1> QED
  BY <1>5

\* Executions stay alone, and the page away.
LEMMA NextAlone ==
  ASSUME VerificationTypeOK, \A x \in running : Working(x), Alone, VerificationNext
  PROVE  Alone'
<1>1. CASE running' \subseteq running
  BY <1>1, NextShape DEF Alone
<1>2. ASSUME NEW x \in running, NEW y, Proceed(x, y), y.key = x.key
      PROVE  Alone'
  BY <1>2, NextShape DEF Alone, Proceed
<1>3. ASSUME NEW y, MayStart, running' = running \cup {y}, y.key = Page => "refresh" \in meets
      PROVE  Alone'
  BY <1>3, NextShape DEF Alone, MayStart
<1> QED
  BY <1>1, <1>2, <1>3, NextShape

-----------------------------------------------------------------------------
(* The checks of a Domain: rows, and what waits.                           *)

\* The rows a step leaves.
LEMMA NextRowsStay ==
  ASSUME VerificationTypeOK, \A x \in running : Working(x), RowsStay, VerificationNext
  PROVE  /\ RowsStay'
         /\ customDomain = Absent => customDomain' = Absent
         /\ link = Absent => link' = Absent
<1>1. Absent \notin Checks /\ row \in [Identities -> Checks \cup {Absent}]
  BY ChecksAssumption DEF VerificationTypeOK
<1>2. ASSUME NEW x \in running, Step(x)
      PROVE  /\ gone' = gone /\ meets' = meets
             /\ customDomain = Absent <=> customDomain' = Absent
             /\ link = Absent <=> link' = Absent
             /\ \A i \in Identities : row[i] = Absent <=> row'[i] = Absent
  <2>1. CASE RecordIdentity(x)
    <3>1. PICK check \in Checks :
            row' = [row EXCEPT ![x.id] = IF @ = Absent THEN Absent ELSE check]
      BY <2>1, IdentityRecorded
    <3>2. \A i \in Identities : row[i] = Absent <=> row'[i] = Absent
      BY <1>1, <3>1
    <3> QED
      BY <2>1, <3>2 DEF RecordIdentity
  <2>2. CASE RecordDomain(x)
    <3>1. x \in Executions /\ x.seen \in SUBSET Records /\ x.level \in Levels
      BY DEF VerificationTypeOK, Executions
    <3>2. PICK s \in Status : s = MergeStatus(Cardinality(x.seen),
                                              Cardinality(Records) - Cardinality(x.seen))
      BY <3>1, FoundRecords
    <3>3. PICK check \in Checks : check = NextCheck(s, x.level)
      BY <3>1, NextCheckTyped
    <3>4. customDomain' = IF customDomain = Absent THEN Absent ELSE check
      BY <2>2, <3>2, <3>3 DEF RecordDomain
    <3> QED
      BY <1>1, <2>2, <3>3, <3>4 DEF RecordDomain
  <2>3. CASE RecordLink(x)
    <3>1. x.level \in Levels
      BY DEF VerificationTypeOK, Executions
    <3>2. PICK s \in Status : s = IF x.answer THEN "verified" ELSE "not_verified"
      BY DEF Status
    <3>3. PICK check \in Checks : check = NextCheck(s, x.level)
      BY <3>1, NextCheckTyped
    <3>4. link' = IF link = Absent THEN Absent ELSE check
      BY <2>3, <3>2, <3>3 DEF RecordLink
    <3> QED
      BY <1>1, <2>3, <3>3, <3>4 DEF RecordLink
  <2>4. CASE UNCHANGED <<meets, rows>>
    BY <2>4 DEF rows
  <2>5. CASE UNCHANGED <<meets, row, gone, customDomain, link>>
    BY <2>5
  <2> QED
    BY <1>2, <2>1, <2>2, <2>3, <2>4, <2>5
    DEF Step, Ask, LoadDomain, ScheduleIdentity, ScheduleDomain, Reload, Finish, LoadLink,
        Settle, CheckRecord, Challenge
<1>3. ASSUME NEW x \in running, Step(x)
      PROVE  /\ RowsStay'
             /\ customDomain = Absent => customDomain' = Absent
             /\ link = Absent => link' = Absent
  BY <1>2, <1>3 DEF RowsStay, Present
<1>4. ASSUME NEW i \in Identities, Register(i)
      PROVE  /\ RowsStay'
             /\ customDomain = Absent => customDomain' = Absent
             /\ link = Absent => link' = Absent
  BY <1>4 DEF Register, RowsStay, Present
<1>5. ASSUME NEW i \in Identities, RemoveIdentity(i)
      PROVE  /\ RowsStay'
             /\ customDomain = Absent => customDomain' = Absent
             /\ link = Absent => link' = Absent
  BY <1>1, <1>5 DEF RemoveIdentity, RowsStay, Present
<1>6. ASSUME RemoveDomain
      PROVE  /\ RowsStay'
             /\ customDomain = Absent => customDomain' = Absent
             /\ link = Absent => link' = Absent
  BY <1>6 DEF RemoveDomain, RowsStay, Present
<1>7. ASSUME UNCHANGED <<meets, rows>>
      PROVE  /\ RowsStay'
             /\ customDomain = Absent => customDomain' = Absent
             /\ link = Absent => link' = Absent
  BY <1>7 DEF RowsStay, Present, rows
<1> QED
  BY <1>3, <1>4, <1>5, <1>6, <1>7
  DEF VerificationNext, Worker, Promote, Retry, StartJob, StartRefresh, Fail, Crash, Drift,
      Reconcile

\* A key waits on while its schedule, its entries and its executions stay.
LEMMA WaitingStays ==
  ASSUME NEW k, Waiting(k),
         scheduled[k] # Absent => scheduled'[k] # Absent,
         ready \cup delayed \subseteq ready' \cup delayed',
         \A x \in running : x.key = k => \E z \in running' : z.key = k
  PROVE  Waiting(k)'
BY DEF Waiting

LEMMA ScheduleKeeps ==
  ASSUME VerificationTypeOK, NEW k \in CheckKeys, NEW h \in CheckKeys, NEW delay \in Delays,
         Schedule(h, delay)
  PROVE  /\ scheduled[k] # Absent => scheduled'[k] # Absent
         /\ scheduled'[h] = delay /\ delay # Absent
         /\ lost' = lost \ {h}
BY ChecksAssumption DEF VerificationTypeOK, Schedule

\* The key of an execution that proceeds stays at work.
LEMMA ProceedKeeps ==
  ASSUME NEW x \in running, NEW y, Proceed(x, y), y.key = x.key, NEW k
  PROVE  \A w \in running : w.key = k => \E z \in running' : z.key = k
BY DEF Proceed

\* A failed execution is retried or its key is lost.
LEMMA FailedWaits ==
  ASSUME VerificationTypeOK, NEW x \in running, Failed(x), UNCHANGED <<scheduled, ready>>,
         NEW k \in CheckKeys, Waiting(k)
  PROVE  Waiting(k)' \/ k \in lost'
<1>1. k # Page
  BY VerificationAssumption DEF CheckKeys
<1>2. delayed \subseteq delayed'
  BY DEF Failed
<1>3. CASE x.key # k
  BY <1>2, <1>3, WaitingStays DEF Failed
<1>4. CASE x.key = k /\ x.attempts + 1 < MaxAttempts
  <2>1. Entry(k, x.attempts + 1) \in delayed' /\ Entry(k, x.attempts + 1).key = k
    BY <1>1, <1>4 DEF Failed, Entry
  <2> QED
    BY <2>1 DEF Waiting
<1>5. CASE x.key = k /\ ~(x.attempts + 1 < MaxAttempts)
  BY <1>1, <1>5 DEF Failed
<1> QED
  BY <1>3, <1>4, <1>5

\* Nothing stops waiting but what is lost, what an execution finds gone or
\* proved, and a job whose row is gone.
Drops(k) ==
  \/ \E x \in running : x.key = k /\ Finish(x) /\ x.soonest = Absent
  \/ k = Claim /\ \E x \in running : Settle(x) /\ x.key = Claim /\ x.answer
  \/ /\ \E e \in Entries : e.key = k /\ StartJob(e)
     /\ k \notin Present /\ (k \in {Domain, Claim} => customDomain = Absent)

LEMMA StepWaits ==
  ASSUME VerificationTypeOK, NEW x \in running, Working(x), Step(x),
         NEW k \in CheckKeys, Waiting(k)
  PROVE  Waiting(k)' \/ k \in lost' \/ Drops(k)
<1>0. x \in Executions /\ k # Page
  BY VerificationAssumption DEF VerificationTypeOK, CheckKeys
<1>k. /\ Domain \in CheckKeys /\ Claim \in CheckKeys /\ Domain \notin Identities
      /\ Claim \notin Identities /\ Page \notin Identities
      /\ Domain # Claim /\ Page # Domain /\ Page # Claim
  BY VerificationAssumption DEF CheckKeys
<1> USE <1>0
<1> DEFINE Goal == Waiting(k)' \/ k \in lost' \/ Drops(k)
<1>1. ASSUME NEW i \in Identities, Ask(x, i)
      PROVE  Goal
  <2>1. PICK y : Proceed(x, y) /\ y = [x EXCEPT !.step = "recordIdentity", !.id = i, !.left = @ \ {i},
                                   !.answer = i \in vendor]
    BY <1>1 DEF Ask
  <2>1a. y.key = x.key
    BY <2>1 DEF Executions
  <2> QED
    BY <1>1, <2>1, <2>1a, ProceedKeeps, WaitingStays DEF Ask, queue
<1>2. CASE RecordIdentity(x)
  <2>0. PICK check :
          Proceed(x, [x EXCEPT !.step = "dns", !.delay = check.next,
                               !.todo = IF customDomain = Absent THEN {} ELSE Records,
                               !.seen = {}])
    BY <1>2, IdentityRecorded
  <2>1. PICK y : Proceed(x, y) /\ y = [x EXCEPT !.step = "dns", !.delay = check.next,
                                   !.todo = IF customDomain = Absent THEN {} ELSE Records,
                                   !.seen = {}]
    BY <2>0
  <2>1a. y.key = x.key
    BY <2>1 DEF Executions
  <2> QED
    BY <1>2, <2>1, <2>1a, ProceedKeeps, WaitingStays DEF RecordIdentity, queue
<1>3. ASSUME NEW r \in Records, CheckRecord(x, r)
      PROVE  Goal
  <2>1. PICK matches \in BOOLEAN :
          Proceed(x, [x EXCEPT !.todo = @ \ {r}, !.seen = IF matches THEN @ \cup {r} ELSE @])
    BY <1>3 DEF CheckRecord
  <2>2. PICK y : Proceed(x, y) /\ y = [x EXCEPT !.todo = @ \ {r},
                                   !.seen = IF matches THEN @ \cup {r} ELSE @]
    BY <2>1
  <2>2a. y.key = x.key
    BY <2>2 DEF Executions
  <2> QED
    BY <1>3, <2>2, <2>2a, ProceedKeeps, WaitingStays DEF CheckRecord, queue
<1>4. CASE LoadDomain(x)
  <2>1. PICK y : Proceed(x, y) /\ y = [x EXCEPT !.step = "recordDomain",
                                   !.level = IF customDomain = Absent THEN 0
                                             ELSE customDomain.level]
    BY <1>4 DEF LoadDomain
  <2>1a. y.key = x.key
    BY <2>1 DEF Executions
  <2> QED
    BY <1>4, <2>1, <2>1a, ProceedKeeps, WaitingStays DEF LoadDomain, queue
<1>5. CASE RecordDomain(x)
  <2>0. PICK delay :
          Proceed(x, [x EXCEPT !.step = AfterIdentity(x),
                               !.soonest = IF @ = Absent THEN delay ELSE Least(@, delay)])
    BY <1>5 DEF RecordDomain
  <2>1. PICK y : Proceed(x, y) /\ y = [x EXCEPT !.step = AfterIdentity(x),
                                   !.soonest = IF @ = Absent THEN delay ELSE Least(@, delay)]
    BY <2>0
  <2>1a. y.key = x.key
    BY <2>1 DEF Executions
  <2> QED
    BY <1>5, <2>1, <2>1a, ProceedKeeps, WaitingStays DEF RecordDomain, queue
<1>6. CASE ScheduleIdentity(x)
  <2>1. PICK y : Proceed(x, y) /\ y.key = x.key
    BY <1>6 DEF ScheduleIdentity, Executions
  <2>2. x.id \in CheckKeys /\ x.delay \in Delays
    BY <1>6 DEF ScheduleIdentity, Working, CheckKeys, Executions
  <2>3. scheduled[k] # Absent => scheduled'[k] # Absent
    BY <1>6, <2>2, ScheduleKeeps DEF ScheduleIdentity
  <2> QED
    BY <1>6, <2>1, <2>3, ProceedKeeps, WaitingStays DEF ScheduleIdentity, queue
<1>7. CASE ScheduleDomain(x)
  <2>1. PICK y : Proceed(x, y) /\ y.key = x.key
    BY <1>7 DEF ScheduleDomain, Executions
  <2>2. x.soonest \in Delays
    <3>1. x.key \in Identities /\ x.step = "scheduleDomain"
      BY <1>7 DEF Working, ScheduleDomain, DomainSteps, ClaimSteps, PageSteps, Executions, CheckKeys
    <3> QED
      BY <3>1 DEF Working, Executions
  <2>3. scheduled[k] # Absent => scheduled'[k] # Absent
    BY <1>7, <1>k, <2>2, ScheduleKeeps DEF ScheduleDomain
  <2> QED
    BY <1>7, <2>1, <2>3, ProceedKeeps, WaitingStays DEF ScheduleDomain, queue
<1>8. CASE Reload(x)
  <2>1. PICK y : Proceed(x, y) /\ y = [x EXCEPT !.step = "finish",
                                   !.soonest = IF row[x.id] = Absent THEN Absent
                                               ELSE row[x.id].next]
    BY <1>8 DEF Reload
  <2>1a. y.key = x.key
    BY <2>1 DEF Executions
  <2> QED
    BY <1>8, <2>1, <2>1a, ProceedKeeps, WaitingStays DEF Reload, queue
<1>9. CASE Finish(x)
  <2>1. CASE x.soonest = Absent /\ x.key = k
    BY <1>9, <2>1 DEF Drops
  <2>2. CASE x.soonest = Absent /\ x.key # k
    <3>1. scheduled[k] # Absent => scheduled'[k] # Absent
      BY <1>9, <2>2 DEF Finish, Cancel, VerificationTypeOK
    <3> QED
      BY <1>9, <2>2, <3>1, WaitingStays DEF Finish, queue
  <2>3. CASE x.soonest # Absent
    <3>1. x.key \in CheckKeys /\ x.soonest \in Delays
      BY <1>9, <2>3 DEF Finish, Working, PageSteps, Executions
    <3>2. scheduled[k] # Absent => scheduled'[k] # Absent
      BY <1>9, <2>3, <3>1, ScheduleKeeps DEF Finish
    <3>3. scheduled'[x.key] # Absent
      BY <1>9, <2>3, <3>1, ScheduleKeeps DEF Finish
    <3>4. CASE x.key = k
      BY <3>3, <3>4 DEF Waiting
    <3>5. CASE x.key # k
      BY <1>9, <3>2, <3>5, WaitingStays DEF Finish, queue
    <3> QED
      BY <3>4, <3>5
  <2> QED
    BY <2>1, <2>2, <2>3
<1>10. CASE LoadLink(x)
  <2>1. CASE Proceed(x, [x EXCEPT !.step = "challenge", !.level = link.level])
             /\ UNCHANGED <<delayed, lost>>
    <3>1. PICK y : Proceed(x, y) /\ y = [x EXCEPT !.step = "challenge", !.level = link.level]
      BY <2>1
    <3>1a. y.key = x.key
      BY <3>1 DEF Executions
    <3> QED
      BY <1>10, <2>1, <3>1, <3>1a, ProceedKeeps, WaitingStays DEF LoadLink
  <2>2. CASE x.key = Page /\ running' = running \ {x} /\ UNCHANGED <<delayed, lost>>
    BY <1>10, <2>2, WaitingStays DEF LoadLink
  <2>3. CASE Failed(x)
    BY <1>10, <2>3, FailedWaits DEF LoadLink
  <2> QED
    BY <1>10, <2>1, <2>2, <2>3 DEF LoadLink
<1>11. CASE Challenge(x)
  <2>0. PICK found \in BOOLEAN : Proceed(x, [x EXCEPT !.step = "recordLink", !.answer = found])
    BY <1>11 DEF Challenge
  <2>1. PICK y : Proceed(x, y) /\ y = [x EXCEPT !.step = "recordLink", !.answer = found]
    BY <2>0
  <2>1a. y.key = x.key
    BY <2>1 DEF Executions
  <2> QED
    BY <1>11, <2>1, <2>1a, ProceedKeeps, WaitingStays DEF Challenge, queue
<1>12. CASE RecordLink(x)
  <2>1. CASE x.key = Page
    BY <1>12, <2>1, WaitingStays DEF RecordLink, queue
  <2>2. CASE x.key # Page
    <3>0. PICK delay : Proceed(x, [x EXCEPT !.step = "settle", !.delay = delay])
      BY <1>12, <2>2 DEF RecordLink
    <3>1. PICK y : Proceed(x, y) /\ y = [x EXCEPT !.step = "settle", !.delay = delay]
      BY <3>0
    <3>1a. y.key = x.key
      BY <3>1 DEF Executions
    <3> QED
      BY <1>12, <3>1, <3>1a, ProceedKeeps, WaitingStays DEF RecordLink, queue
  <2> QED
    BY <2>1, <2>2
<1>13. CASE Settle(x)
  <2>1. x.key = Claim /\ x.delay \in Delays
    BY <1>13, <1>k DEF Settle, Working, IdentitySteps, DomainSteps, PageSteps, Executions, CheckKeys
  <2>2. CASE ~x.answer
    <3>1. scheduled[k] # Absent => scheduled'[k] # Absent
      BY <1>13, <1>k, <2>1, <2>2, ScheduleKeeps DEF Settle
    <3>2. scheduled'[Claim] # Absent
      BY <1>13, <1>k, <2>1, <2>2, ScheduleKeeps DEF Settle
    <3>3. CASE k = Claim
      BY <3>2, <3>3 DEF Waiting
    <3>4. CASE k # Claim
      BY <1>13, <2>1, <3>1, <3>4, WaitingStays DEF Settle, queue
    <3> QED
      BY <3>3, <3>4
  <2>3. CASE x.answer /\ k = Claim
    BY <1>13, <2>1, <2>3 DEF Drops
  <2>4. CASE x.answer /\ k # Claim
    <3>1. scheduled[k] # Absent => scheduled'[k] # Absent
      BY <1>13, <2>4 DEF Settle, Cancel, VerificationTypeOK
    <3> QED
      BY <1>13, <2>1, <2>4, <3>1, WaitingStays DEF Settle, queue
  <2> QED
    BY <2>2, <2>3, <2>4
<1> QED
  BY <1>1, <1>2, <1>3, <1>4, <1>5, <1>6, <1>7, <1>8, <1>9, <1>10, <1>11, <1>12, <1>13 DEF Step

LEMMA NextWaits ==
  ASSUME VerificationTypeOK, \A x \in running : Working(x), VerificationNext,
         NEW k \in CheckKeys, Waiting(k)
  PROVE  Waiting(k)' \/ k \in lost' \/ Drops(k)
<1>k. k # Page
  BY VerificationAssumption DEF CheckKeys
<1> DEFINE Goal == Waiting(k)' \/ k \in lost' \/ Drops(k)
<1>1. ASSUME NEW x \in running, Step(x)
      PROVE  Goal
  BY <1>1, StepWaits
<1>2. ASSUME NEW h \in CheckKeys, Promote(h)
      PROVE  Goal
  <2>1. CASE h = k
    <3>1. Entry(k, 0) \in ready' /\ Entry(k, 0).key = k
      BY <1>2, <2>1 DEF Promote, Entry
    <3> QED
      BY <3>1 DEF Waiting
  <2>2. CASE h # k
    <3>1. scheduled[k] # Absent => scheduled'[k] # Absent
      BY <1>2, <2>2 DEF Promote, VerificationTypeOK
    <3> QED
      BY <1>2, <3>1, WaitingStays DEF Promote
  <2> QED
    BY <2>1, <2>2
<1>3. ASSUME NEW e \in Entries, Retry(e)
      PROVE  Goal
  BY <1>3, WaitingStays DEF Retry
<1>4. ASSUME NEW e \in Entries, StartJob(e)
      PROVE  Goal
  <2>1. /\ scheduled' = scheduled /\ delayed' = delayed /\ ready' = ready \ {e} /\ Load(e)
        /\ running \subseteq running'
    <3>1. running \subseteq running'
      BY <1>4, LoadStarts DEF StartJob
    <3> QED
      BY <1>4, <3>1 DEF StartJob
  <2>2. CASE e.key = k
    <3>1. CASE \E y : running' = running \cup {y} /\ y.key = e.key
      BY <2>2, <3>1 DEF Waiting
    <3> QED
      BY <1>4, <2>1, <2>2, <3>1, LoadStarts DEF Drops
  <2>3. CASE e.key # k
    BY <2>1, <2>3 DEF Waiting
  <2> QED
    BY <2>2, <2>3
<1>5. ASSUME StartRefresh
      PROVE  Goal
  <2>1. running \subseteq running'
    BY <1>5, RefreshStarts
  <2> QED
    BY <1>5, <2>1, WaitingStays DEF StartRefresh, queue
<1>6. ASSUME NEW x \in running, Fail(x)
      PROVE  Goal
  BY <1>6, FailedWaits DEF Fail
<1>7. ASSUME NEW x \in running, Crash(x)
      PROVE  Goal
  <2>1. CASE x.key = k
    <3>1. Entry(k, x.attempts) \in ready' /\ Entry(k, x.attempts).key = k
      BY <1>7, <1>k, <2>1 DEF Crash, Entry
    <3> QED
      BY <3>1 DEF Waiting
  <2>2. CASE x.key # k
    <3>1. ready \cup delayed \subseteq ready' \cup delayed'
      BY <1>7 DEF Crash
    <3> QED
      BY <1>7, <2>2, <3>1, WaitingStays DEF Crash
  <2> QED
    BY <2>1, <2>2
<1>8. ASSUME NEW i \in Identities, Register(i)
      PROVE  Goal
  <2>1. PICK done \in {{}, {Domain}, {Domain, i}} :
          scheduled' = [h \in CheckKeys |-> IF h \in done THEN 0 ELSE scheduled[h]]
    BY <1>8 DEF Register
  <2>2. 0 # Absent
    BY ChecksAssumption, VerificationAssumption DEF Delays
  <2>3. scheduled[k] # Absent => scheduled'[k] # Absent
    BY <2>1, <2>2
  <2> QED
    BY <1>8, <2>3, WaitingStays DEF Register, queue
<1>9. ASSUME Reconcile
      PROVE  Goal
  <2>1. scheduled[k] # Absent => scheduled'[k] # Absent
    BY <1>9 DEF Reconcile
  <2> QED
    BY <1>9, <2>1, WaitingStays DEF Reconcile, queue
<1>10. ASSUME Drift \/ RemoveDomain \/ \E i \in Identities : RemoveIdentity(i)
       PROVE  Goal
  BY <1>10, WaitingStays DEF Drift, RemoveDomain, RemoveIdentity, queue
<1> QED
  BY <1>1, <1>2, <1>3, <1>4, <1>5, <1>6, <1>7, <1>8, <1>9, <1>10 DEF VerificationNext, Worker

\* A key that was lost is found again by a schedule.
LEMMA NextFound ==
  ASSUME VerificationTypeOK, \A x \in running : Working(x), VerificationNext,
         NEW k \in CheckKeys, k \in lost, k \notin lost'
  PROVE  Waiting(k)'
<1>k. /\ Domain \in CheckKeys /\ Claim \in CheckKeys /\ Domain # Claim
      /\ Domain \notin Identities /\ Claim \notin Identities /\ Page \notin Identities
      /\ Page # Domain /\ Page # Claim
  BY VerificationAssumption DEF CheckKeys
<1>1. ASSUME NEW h \in CheckKeys, NEW delay \in Delays, Schedule(h, delay)
      PROVE  Waiting(k)'
  BY <1>1, ScheduleKeeps DEF Waiting
<1>2. ASSUME NEW x \in running, Step(x)
      PROVE  Waiting(k)'
  <2>0. x \in Executions /\ Working(x)
    BY DEF VerificationTypeOK
  <2>1. CASE ScheduleIdentity(x)
    <3>1. x.id \in CheckKeys /\ x.delay \in Delays
      BY <2>0, <2>1 DEF ScheduleIdentity, Working, CheckKeys, Executions
    <3> QED
      BY <1>1, <2>1, <3>1 DEF ScheduleIdentity
  <2>2. CASE ScheduleDomain(x)
    <3>1. x.key \in Identities /\ x.step = "scheduleDomain"
      BY <2>0, <2>2 DEF Working, ScheduleDomain, DomainSteps, ClaimSteps, PageSteps, Executions,
                   CheckKeys
    <3>2. x.soonest \in Delays
      BY <2>0, <3>1 DEF Working, Executions
    <3> QED
      BY <1>1, <1>k, <2>2, <3>2 DEF ScheduleDomain
  <2>3. CASE Finish(x)
    <3>1. x.key \in CheckKeys /\ x.soonest \in Delays \cup {Absent}
      BY <2>0, <2>3 DEF Finish, Working, PageSteps, Executions
    <3> QED
      BY <1>1, <2>3, <3>1 DEF Finish, Cancel
  <2>4. CASE Settle(x)
    <3>1. x.delay \in Delays
      BY <2>0 DEF Executions
    <3> QED
      BY <1>1, <1>k, <2>4, <3>1 DEF Settle, Cancel
  <2>5. CASE lost \subseteq lost'
    BY <2>5
  <2> QED
    BY <1>2, <2>1, <2>2, <2>3, <2>4, <2>5
    DEF Step, Ask, RecordIdentity, LoadDomain, RecordDomain, Reload, LoadLink, Failed, RecordLink,
        CheckRecord, Challenge
<1>3. ASSUME NEW i \in Identities, Register(i)
      PROVE  Waiting(k)'
  <2>1. PICK done \in {{}, {Domain}, {Domain, i}} :
          /\ scheduled' = [h \in CheckKeys |-> IF h \in done THEN 0 ELSE scheduled[h]]
          /\ lost' = (lost \cup {i, Domain}) \ done
    BY <1>3 DEF Register
  <2>2. 0 # Absent
    BY ChecksAssumption, VerificationAssumption DEF Delays
  <2> QED
    BY <2>1, <2>2 DEF Waiting
<1>4. CASE Reconcile
  <2>1. NextOf(k) # Absent
    BY <1>4 DEF Reconcile
  <2>2. scheduled'[k] = NextOf(k)
    BY <1>4, <2>1 DEF Reconcile
  <2> QED
    BY <2>1, <2>2 DEF Waiting
<1>5. CASE lost \subseteq lost'
  BY <1>5
<1> QED
  BY <1>2, <1>3, <1>4, <1>5
  DEF VerificationNext, Worker, Promote, Retry, StartJob, StartRefresh, Fail, Failed, Crash, Drift,
      RemoveIdentity, RemoveDomain

\* No check of a row that is there is forgotten.
LEMMA NextForgotten ==
  ASSUME VerificationTypeOK, \A x \in running : Working(x), Forgotten, VerificationNext
  PROVE  Forgotten'
<1> SUFFICES ASSUME NEW k \in Present', k \notin lost'
             PROVE  Waiting(k)'
  BY DEF Forgotten
<1>0. k \in Identities /\ row'[k] # Absent
  BY DEF Present
<1>k. /\ k \in CheckKeys /\ k \notin {Domain, Claim, Page}
  BY <1>0, VerificationAssumption DEF CheckKeys
<1>1. CASE k \in lost
  BY <1>1, <1>k, NextFound
<1>2. CASE k \notin lost /\ k \in Present
  <2>1. Waiting(k)
    BY <1>2 DEF Forgotten
  <2>2. ~Drops(k)
    <3>1. ASSUME NEW x \in running, x.key = k, Finish(x), x.soonest = Absent
          PROVE  FALSE
      <4>1. Working(x) /\ x.step = "finish" /\ row' = row
        BY <3>1 DEF Finish, rows
      <4> QED
        BY <1>0, <3>1, <4>1 DEF Working
    <3> QED
      BY <1>2, <1>k, <3>1 DEF Drops
  <2> QED
    BY <1>k, <2>1, <2>2, NextWaits
<1>3. CASE k \notin lost /\ k \notin Present
  <2>1. row[k] = Absent /\ row' # row
    BY <1>0, <1>3 DEF Present
  <2>2. ASSUME NEW i \in Identities, Register(i)
        PROVE  Waiting(k)'
    <3>1. i = k
      BY <1>0, <2>1, <2>2 DEF Register, VerificationTypeOK
    <3>2. PICK done \in {{}, {Domain}, {Domain, i}} :
            /\ scheduled' = [h \in CheckKeys |-> IF h \in done THEN 0 ELSE scheduled[h]]
            /\ lost' = (lost \cup {i, Domain}) \ done
      BY <2>2 DEF Register
    <3>3. 0 # Absent
      BY ChecksAssumption, VerificationAssumption DEF Delays
    <3> QED
      BY <1>k, <3>1, <3>2, <3>3 DEF Waiting
  <2>3. ASSUME NEW x \in running, Step(x)
        PROVE  FALSE
    <3>1. CASE RecordIdentity(x)
      <4>1. PICK check \in Checks :
              row' = [row EXCEPT ![x.id] = IF @ = Absent THEN Absent ELSE check]
        BY <3>1, IdentityRecorded
      <4> QED
        BY <1>0, <2>1, <4>1 DEF VerificationTypeOK
    <3>2. CASE row' = row
      BY <2>1, <3>2
    <3> QED
      BY <2>3, <3>1, <3>2
      DEF Step, Ask, LoadDomain, RecordDomain, ScheduleIdentity, ScheduleDomain, Reload, Finish,
          LoadLink, RecordLink, Settle, CheckRecord, Challenge, rows
  <2>4. ASSUME RemoveDomain \/ \E i \in Identities : RemoveIdentity(i)
        PROVE  FALSE
    BY <1>0, <2>1, <2>4 DEF RemoveDomain, RemoveIdentity, VerificationTypeOK
  <2> QED
    BY <2>1, <2>2, <2>3, <2>4
    DEF VerificationNext, Worker, Promote, Retry, StartJob, StartRefresh, Fail, Crash, Drift,
        Reconcile, rows
<1> QED
  BY <1>1, <1>2, <1>3

-----------------------------------------------------------------------------
(* The checks of a Domain: the ownership claim.                            *)

\* There stays one check of the claim.
LEMMA SameClaim ==
  ASSUME OneClaim, scheduled'[Claim] = scheduled[Claim], ready' = ready, delayed' = delayed,
         \/ running' \subseteq running
         \/ \E x \in running : \E y : Proceed(x, y) /\ y.key = x.key
         \/ \E y : running' = running \cup {y} /\ y.key # Claim
  PROVE  OneClaim'
BY DEF OneClaim, Proceed

LEMMA StepOneClaim ==
  ASSUME VerificationTypeOK, NEW x \in running, Working(x), RowsGoOn, OneClaim, Step(x)
  PROVE  OneClaim'
<1>0. x \in Executions
  BY DEF VerificationTypeOK
<1>k. /\ Domain \notin Identities /\ Claim \notin Identities /\ Page \notin Identities
      /\ Domain # Claim /\ Page # Domain /\ Page # Claim /\ Claim \in CheckKeys
  BY VerificationAssumption DEF CheckKeys
<1>1. \/ \E y : Proceed(x, y) /\ y.key = x.key
      \/ running' = running \ {x}
  BY StepWorking
<1>2. CASE ScheduleIdentity(x)
  <2>1. x.id # Claim
    BY <1>k, <1>2 DEF ScheduleIdentity, Working
  <2> QED
    BY <1>1, <1>2, <2>1, SameClaim DEF ScheduleIdentity, Schedule, queue, VerificationTypeOK
<1>3. CASE ScheduleDomain(x)
  BY <1>k, <1>1, <1>3, SameClaim DEF ScheduleDomain, Schedule, queue, VerificationTypeOK
<1>4. CASE Finish(x)
  <2>1. x.key # Claim
    BY <1>4 DEF Finish, Working, ClaimSteps
  <2>2. scheduled'[Claim] = scheduled[Claim]
    BY <1>k, <1>4, <2>1 DEF Finish, Schedule, Cancel, VerificationTypeOK
  <2> QED
    BY <1>1, <1>4, <2>2, SameClaim DEF Finish, queue
<1>5. CASE Settle(x)
  <2>1. x.key = Claim
    BY <1>5, <1>0 DEF Settle, Working, IdentitySteps, DomainSteps, PageSteps, Executions, CheckKeys
  <2>2. running' = running \ {x} /\ ready' = ready /\ delayed' = delayed
    BY <1>5 DEF Settle, queue
  <2> QED
    BY <2>1, <2>2 DEF OneClaim
<1>6. CASE LoadLink(x)
  <2>1. CASE Failed(x) /\ x.key = Claim
    <3>1. /\ running' = running \ {x} /\ ready' = ready /\ scheduled' = scheduled
          /\ delayed' \subseteq delayed \cup {Entry(x.key, x.attempts + 1)}
      BY <1>6, <2>1 DEF LoadLink, Failed
    <3>2. PICK e : delayed' \subseteq delayed \cup {e}
      BY <3>1
    <3> QED
      BY <2>1, <3>1, <3>2 DEF OneClaim
  <2>2. CASE UNCHANGED <<delayed, lost>>
    BY <1>1, <1>6, <2>2, SameClaim DEF LoadLink
  <2> QED
    BY <1>6, <2>1, <2>2 DEF LoadLink
<1>7. CASE UNCHANGED <<scheduled, queue>>
  BY <1>1, <1>7, SameClaim DEF queue
<1> QED
  BY <1>2, <1>3, <1>4, <1>5, <1>6, <1>7
  DEF Step, Ask, RecordIdentity, LoadDomain, RecordDomain, Reload, RecordLink, CheckRecord, Challenge

LEMMA NextTokens ==
  ASSUME VerificationTypeOK, \A x \in running : Working(x), Tokens, VerificationNext
  PROVE  Tokens'
<1> SUFFICES ASSUME ("overlap" \in meets /\ meets \cap {"refresh", "failures"} = {})'
             PROVE  OneClaim'
  BY DEF Tokens
<1>1. /\ OneClaim /\ "refresh" \notin meets /\ "failures" \notin meets
  BY NextShape DEF Tokens
<1>k. Claim \in CheckKeys /\ Claim \notin Identities /\ Claim # Domain
  BY VerificationAssumption DEF CheckKeys
<1>2. ASSUME NEW x \in running, Step(x)
      PROVE  OneClaim'
  BY <1>1, <1>2, StepOneClaim, NextRowsGoOn
<1>3. ASSUME NEW k \in CheckKeys, Promote(k)
      PROVE  OneClaim'
  <2>1. CASE k = Claim
    BY <1>1, <1>3, <2>1 DEF Promote, OneClaim, Entry, VerificationTypeOK
  <2>2. CASE k # Claim
    <3>1. scheduled'[Claim] = scheduled[Claim] /\ running' = running /\ delayed' = delayed
      BY <1>3, <2>2 DEF Promote, VerificationTypeOK
    <3>2. \A e \in ready' : e.key = Claim => e \in ready
      BY <1>3, <2>2 DEF Promote, Entry
    <3> QED
      BY <1>1, <3>1, <3>2 DEF OneClaim
  <2> QED
    BY <2>1, <2>2
<1>4. ASSUME NEW e \in Entries, Retry(e)
      PROVE  OneClaim'
  BY <1>1, <1>4 DEF Retry, OneClaim
<1>5. ASSUME NEW e \in Entries, StartJob(e)
      PROVE  OneClaim'
  <2>1. /\ scheduled' = scheduled /\ delayed' = delayed /\ ready' = ready \ {e} /\ e \in ready
        /\ \/ running' = running
           \/ \E y : running' = running \cup {y} /\ y.key = e.key
    <3>1. Load(e)
      BY <1>5 DEF StartJob
    <3>2. \/ running' = running
          \/ \E y : running' = running \cup {y} /\ y.key = e.key
      BY <3>1, LoadStarts
    <3> QED
      BY <1>5, <3>2 DEF StartJob
  <2>2. CASE e.key = Claim
    BY <1>1, <2>1, <2>2 DEF OneClaim
  <2>3. CASE e.key # Claim
    BY <1>1, <2>1, <2>3 DEF OneClaim
  <2> QED
    BY <2>2, <2>3
<1>6. ASSUME NEW i \in Identities, Register(i)
      PROVE  OneClaim'
  <2>1. scheduled'[Claim] = scheduled[Claim]
    BY <1>k, <1>6 DEF Register
  <2> QED
    BY <1>1, <1>6, <2>1, SameClaim DEF Register, queue
<1>7. ASSUME Drift \/ RemoveDomain \/ \E i \in Identities : RemoveIdentity(i)
      PROVE  OneClaim'
  BY <1>1, <1>7, SameClaim DEF Drift, RemoveDomain, RemoveIdentity, queue
<1> QED
  BY <1>1, <1>2, <1>3, <1>4, <1>5, <1>6, <1>7
  DEF VerificationNext, Worker, StartRefresh, Fail, Crash, MayFail, Reconcile

\* Nobody else is at the claim while an execution is.
LEMMA ClaimAlone ==
  ASSUME Alone, Tokens, ~ClaimsOverlap, NEW x \in running, NEW z \in running,
         x.key \in {Claim, Page}, z.key \in {Claim, Page}
  PROVE  x = z
BY DEF Alone, Tokens, ClaimsOverlap, OneClaim

\* Of the link only RecordLink writes what stays.
LEMMA NextLink ==
  ASSUME VerificationNext
  PROVE  \/ link' = link
         \/ link' = Absent /\ running' = running
         \/ \E x \in running : RecordLink(x)
<1>1. ASSUME NEW x \in running, Step(x)
      PROVE  link' = link \/ RecordLink(x)
  BY <1>1 DEF Step, Ask, RecordIdentity, LoadDomain, RecordDomain, ScheduleIdentity,
              ScheduleDomain, Reload, Finish, LoadLink, Settle, CheckRecord, Challenge, rows
<1> QED
  BY <1>1 DEF VerificationNext, Worker, Promote, Retry, StartJob, StartRefresh, Fail, Crash, Drift,
              Reconcile, Register, RemoveIdentity, RemoveDomain, rows

\* What RecordLink writes, and who goes on.
LEMMA LinkRecorded ==
  ASSUME VerificationTypeOK, NEW x \in running, RecordLink(x)
  PROVE  \E check \in Checks :
           /\ check.status = "verified" <=> x.answer
           /\ link' = IF link = Absent THEN Absent ELSE check
           /\ \/ x.key = Page /\ running' = running \ {x}
              \/ /\ x.key # Page
                 /\ \E y : /\ Proceed(x, y) /\ y.key = x.key
                           /\ y.step = "settle" /\ y.answer = x.answer
<1>0. x \in Executions /\ x.level \in Levels
  BY DEF VerificationTypeOK, Executions
<1>1. PICK s \in Status : s = IF x.answer THEN "verified" ELSE "not_verified"
  BY DEF Status
<1>2. PICK check \in Checks : check = NextCheck(s, x.level) /\ check.status = s
  BY <1>0, NextCheckTyped
<1>3. /\ link' = IF link = Absent THEN Absent ELSE check
      /\ IF x.key = Page THEN running' = running \ {x}
         ELSE Proceed(x, [x EXCEPT !.step = "settle", !.delay = check.next])
  BY <1>1, <1>2 DEF RecordLink
<1>4. CASE x.key # Page
  <2>1. PICK y : Proceed(x, y) /\ y = [x EXCEPT !.step = "settle", !.delay = check.next]
    BY <1>3, <1>4
  <2>2. y.key = x.key /\ y.step = "settle" /\ y.answer = x.answer
    BY <1>0, <2>1 DEF Executions
  <2> QED
    BY <1>1, <1>2, <1>3, <1>4, <2>1, <2>2
<1>5. CASE x.key = Page
  BY <1>1, <1>2, <1>3, <1>5
<1> QED
  BY <1>4, <1>5

\* What an execution has found of the claim stays so.
LEMMA StepClaiming ==
  ASSUME VerificationTypeOK, NEW x \in running, Working(x), Claiming(x), Step(x), RowsGoOn,
         ~RecordLink(x)
  PROVE  \/ \E y : Proceed(x, y) /\ y.key = x.key /\ Claiming(y)
         \/ running' = running \ {x}
<1>0. x \in Executions
  BY DEF VerificationTypeOK
<1>k. /\ Domain \notin Identities /\ Claim \notin Identities /\ Page \notin Identities
      /\ Domain # Claim /\ Page # Domain /\ Page # Claim
  BY VerificationAssumption
<1> USE <1>0
<1> DEFINE Goal == \/ \E y : Proceed(x, y) /\ y.key = x.key /\ Claiming(y)
                   \/ running' = running \ {x}
<1>1. ASSUME NEW y, Proceed(x, y), y.key = x.key,
             y.step \notin {"settle", "challenge", "recordLink"}
      PROVE  Goal
  BY <1>1 DEF Claiming
<1>2. ASSUME NEW i \in Identities, Ask(x, i)
      PROVE  Goal
  <2>1. PICK y : Proceed(x, y) /\ y = [x EXCEPT !.step = "recordIdentity", !.id = i,
                                                !.left = @ \ {i}, !.answer = i \in vendor]
    BY <1>2 DEF Ask
  <2>2. y.key = x.key /\ y.step = "recordIdentity"
    BY <2>1 DEF Executions
  <2> QED
    BY <1>1, <2>1, <2>2
<1>3. ASSUME RecordIdentity(x)
      PROVE  Goal
  <2>1. PICK check : Proceed(x, [x EXCEPT !.step = "dns", !.delay = check.next,
                                  !.todo = IF customDomain = Absent THEN {} ELSE Records,
                                  !.seen = {}])
    BY <1>3, IdentityRecorded
  <2>2. PICK y : Proceed(x, y) /\ y = [x EXCEPT !.step = "dns", !.delay = check.next,
                                         !.todo = IF customDomain = Absent THEN {} ELSE Records,
                                         !.seen = {}]
    BY <2>1
  <2>3. y.key = x.key /\ y.step = "dns"
    BY <2>2 DEF Executions
  <2> QED
    BY <1>1, <2>2, <2>3
<1>4. ASSUME NEW r \in Records, CheckRecord(x, r)
      PROVE  Goal
  <2>1. PICK matches \in BOOLEAN :
          Proceed(x, [x EXCEPT !.todo = @ \ {r}, !.seen = IF matches THEN @ \cup {r} ELSE @])
    BY <1>4 DEF CheckRecord
  <2>2. PICK y : Proceed(x, y) /\ y = [x EXCEPT !.todo = @ \ {r},
                                         !.seen = IF matches THEN @ \cup {r} ELSE @]
    BY <2>1
  <2>3. y.key = x.key /\ y.step = x.step /\ x.step = "dns"
    BY <1>4, <2>2 DEF CheckRecord, Executions
  <2> QED
    BY <1>1, <2>2, <2>3
<1>5. ASSUME LoadDomain(x)
      PROVE  Goal
  <2>1. PICK y : Proceed(x, y) /\ y = [x EXCEPT !.step = "recordDomain",
                         !.level = IF customDomain = Absent THEN 0 ELSE customDomain.level]
    BY <1>5 DEF LoadDomain
  <2>2. y.key = x.key /\ y.step = "recordDomain"
    BY <2>1 DEF Executions
  <2> QED
    BY <1>1, <2>1, <2>2
<1>6. ASSUME RecordDomain(x)
      PROVE  Goal
  <2>1. PICK delay :
          Proceed(x, [x EXCEPT !.step = AfterIdentity(x),
                               !.soonest = IF @ = Absent THEN delay ELSE Least(@, delay)])
    BY <1>6 DEF RecordDomain
  <2>2. PICK y : Proceed(x, y) /\ y = [x EXCEPT !.step = AfterIdentity(x),
                                 !.soonest = IF @ = Absent THEN delay ELSE Least(@, delay)]
    BY <2>1
  <2>3. y.key = x.key /\ y.step = AfterIdentity(x)
    BY <2>2 DEF Executions
  <2>4. AfterIdentity(x) \notin {"settle", "challenge", "recordLink"}
    BY DEF AfterIdentity
  <2> QED
    BY <1>1, <2>2, <2>3, <2>4
<1>7. ASSUME ScheduleIdentity(x)
      PROVE  Goal
  <2>1. PICK s : s = IF x.left = {} THEN "finish" ELSE "ask"
    OBVIOUS
  <2>2. PICK y : Proceed(x, y) /\ y = [x EXCEPT !.step = s]
    BY <1>7, <2>1 DEF ScheduleIdentity
  <2>3. y.key = x.key /\ y.step = s /\ s \in {"ask", "finish"}
    BY <2>1, <2>2 DEF Executions
  <2> QED
    BY <1>1, <2>2, <2>3
<1>8. ASSUME ScheduleDomain(x)
      PROVE  Goal
  <2>1. PICK y : Proceed(x, y) /\ y = [x EXCEPT !.step = "reload"]
    BY <1>8 DEF ScheduleDomain
  <2>2. y.key = x.key /\ y.step = "reload"
    BY <2>1 DEF Executions
  <2> QED
    BY <1>1, <2>1, <2>2
<1>9. ASSUME Reload(x)
      PROVE  Goal
  <2>1. PICK y : Proceed(x, y) /\ y = [x EXCEPT !.step = "finish",
                         !.soonest = IF row[x.id] = Absent THEN Absent ELSE row[x.id].next]
    BY <1>9 DEF Reload
  <2>2. y.key = x.key /\ y.step = "finish"
    BY <2>1 DEF Executions
  <2> QED
    BY <1>1, <2>1, <2>2
<1>10. ASSUME LoadLink(x)
       PROVE  Goal
  <2>1. CASE /\ Proceed(x, [x EXCEPT !.step = "challenge", !.level = link.level])
             /\ IF x.key = Page THEN Pending ELSE link # Absent
    <3>1. PICK y : Proceed(x, y) /\ y = [x EXCEPT !.step = "challenge", !.level = link.level]
      BY <2>1
    <3>2. y.key = x.key /\ y.step = "challenge"
      BY <3>1 DEF Executions
    <3> QED
      BY <1>k, <2>1, <3>1, <3>2 DEF Claiming
  <2>2. CASE running' = running \ {x}
    BY <2>2
  <2> QED
    BY <1>10, <2>1, <2>2 DEF LoadLink, Failed
<1>11. ASSUME Challenge(x)
       PROVE  Goal
  <2>1. PICK found \in BOOLEAN : Proceed(x, [x EXCEPT !.step = "recordLink", !.answer = found])
    BY <1>11 DEF Challenge
  <2>2. PICK y : Proceed(x, y) /\ y = [x EXCEPT !.step = "recordLink", !.answer = found]
    BY <2>1
  <2>3. y.key = x.key /\ y.step = "recordLink" /\ x.step = "challenge"
    BY <1>11, <2>2 DEF Executions, Challenge
  <2> QED
    BY <1>k, <2>2, <2>3 DEF Claiming
<1>12. ASSUME Finish(x) \/ Settle(x)
       PROVE  Goal
  BY <1>12 DEF Finish, Settle
<1> QED
  BY <1>2, <1>3, <1>4, <1>5, <1>6, <1>7, <1>8, <1>9, <1>10, <1>11, <1>12 DEF Step

LEMMA NextClaiming ==
  ASSUME VerificationTypeOK, \A x \in running : Working(x), Alone, Tokens, ~ClaimsOverlap,
         \A x \in running : Claiming(x), VerificationNext
  PROVE  \A x \in running' : Claiming(x)'
<1>k. /\ Domain # Claim /\ Page # Domain /\ Page # Claim
  BY VerificationAssumption
<1>1. CASE link' = link
  <2>1. \A z : Claiming(z) => Claiming(z)'
    BY <1>1 DEF Claiming, Pending
  <2>2. CASE running' \subseteq running
    BY <2>1, <2>2
  <2>3. ASSUME NEW x \in running, Step(x), ~RecordLink(x)
        PROVE  \A z \in running' : Claiming(z)'
    <3>1. CASE running' = running \ {x}
      BY <2>1, <3>1
    <3>2. ASSUME NEW y, Proceed(x, y), Claiming(y)
          PROVE  \A z \in running' : Claiming(z)'
      BY <2>1, <3>2 DEF Proceed
    <3> QED
      BY <2>3, <3>1, <3>2, StepClaiming, NextRowsGoOn
  <2>4. ASSUME NEW x \in running, RecordLink(x)
        PROVE  \A z \in running' : Claiming(z)'
    <3>1. CASE running' = running \ {x}
      BY <2>1, <3>1
    <3>2. ASSUME NEW check \in Checks, NEW y, check.status = "verified" <=> x.answer,
                 link' = IF link = Absent THEN Absent ELSE check,
                 Proceed(x, y), y.key # Page, y.answer = x.answer
          PROVE  \A z \in running' : Claiming(z)'
      <4>1. Claiming(y)'
        BY <3>2 DEF Claiming
      <4> QED
        BY <2>1, <3>2, <4>1 DEF Proceed
    <3> QED
      BY <2>4, <3>1, <3>2, LinkRecorded
  <2>5. ASSUME NEW e \in Entries, StartJob(e)
        PROVE  \A z \in running' : Claiming(z)'
    <3>1. CASE running' = running
      BY <2>1, <3>1
    <3>2. ASSUME NEW y, running' = running \cup {y}, y.step \in {"ask", "finish", "loadLink"}
          PROVE  \A z \in running' : Claiming(z)'
      <4>1. Claiming(y)'
        BY <3>2 DEF Claiming
      <4> QED
        BY <2>1, <3>2, <4>1
    <3>3. Load(e)
      BY <2>5 DEF StartJob
    <3> QED
      BY <3>1, <3>2, <3>3, LoadStarts
  <2>6. ASSUME StartRefresh
        PROVE  \A z \in running' : Claiming(z)'
    <3>1. PICK y : running' = running \cup {y} /\ y.step = "ask"
      BY <2>6, RefreshStarts
    <3>2. Claiming(y)'
      BY <3>1 DEF Claiming
    <3> QED
      BY <2>1, <3>1, <3>2
  <2>7. ASSUME NEW x \in running, Fail(x) \/ Crash(x)
        PROVE  running' \subseteq running
    BY <2>7 DEF Fail, Failed, Crash
  <2> QED
    BY <2>2, <2>3, <2>4, <2>5, <2>6, <2>7
    DEF VerificationNext, Worker, Promote, Retry, Register, RemoveIdentity, Drift, Reconcile,
        RemoveDomain
<1>2. CASE link' = Absent /\ running' = running
  BY <1>2 DEF Claiming
<1>3. ASSUME NEW x \in running, RecordLink(x)
      PROVE  \A z \in running' : Claiming(z)'
  <2>1. x.key \in {Claim, Page}
    BY <1>3 DEF RecordLink, Working, IdentitySteps, DomainSteps, VerificationTypeOK, Executions,
                CheckKeys
  <2>2. \A z \in running : z # x => Claiming(z)'
    BY <2>1, ClaimAlone DEF Claiming
  <2>3. CASE running' = running \ {x}
    BY <2>2, <2>3
  <2>4. ASSUME NEW check \in Checks, NEW y, check.status = "verified" <=> x.answer,
               link' = IF link = Absent THEN Absent ELSE check,
               Proceed(x, y), y.key # Page, y.answer = x.answer
        PROVE  \A z \in running' : Claiming(z)'
    <3>1. Claiming(y)'
      BY <2>4 DEF Claiming
    <3> QED
      BY <2>2, <2>4, <3>1 DEF Proceed
  <2> QED
    BY <1>3, <2>3, <2>4, LinkRecorded
<1> QED
  BY <1>1, <1>2, <1>3, NextLink

\* A claim that is not proved has a next check.
LEMMA NextLinkWaits ==
  ASSUME VerificationTypeOK, \A x \in running : Working(x), RowsStay, Alone, Tokens, LinkWaits,
         VerificationNext
  PROVE  LinkWaits'
<1> SUFFICES ASSUME ~ClaimsOverlap'
             PROVE  /\ \A x \in running' : Claiming(x)'
                    /\ link' # Absent /\ Claim \notin lost' =>
                         link'.status = "verified" \/ Waiting(Claim)'
  BY DEF LinkWaits
<1>1. ~ClaimsOverlap
  BY NextShape DEF ClaimsOverlap
<1>k. Claim \in CheckKeys /\ Claim \notin Identities /\ Claim # Domain /\ Claim # Page
  BY VerificationAssumption DEF CheckKeys
<1>2. \A x \in running' : Claiming(x)'
  BY <1>1, NextClaiming DEF LinkWaits
<1>3. ASSUME link' # Absent, Claim \notin lost'
      PROVE  link'.status = "verified" \/ Waiting(Claim)'
  <2>1. link # Absent /\ customDomain # Absent
    BY <1>3, NextRowsStay DEF RowsStay
  <2>2. CASE Claim \in lost
    BY <1>3, <1>k, <2>2, NextFound
  <2>3. CASE Claim \notin lost /\ Waiting(Claim)
    <3>1. CASE Drops(Claim)
      <4>1. \A x \in running : x.key = Claim => ~Finish(x)
        BY DEF Finish, Working, ClaimSteps
      <4>2. PICK x \in running : Settle(x) /\ x.key = Claim /\ x.answer
        BY <1>k, <2>1, <3>1, <4>1 DEF Drops
      <4>3. link.status = "verified" /\ link' = link
        BY <1>1, <2>1, <4>2 DEF LinkWaits, Claiming, Settle, rows
      <4> QED
        BY <4>3
    <3> QED
      BY <1>3, <1>k, <2>3, <3>1, NextWaits
  <2>4. CASE link.status = "verified"
    <3>1. CASE link' = link
      BY <2>4, <3>1
    <3>2. ASSUME NEW x \in running, RecordLink(x)
          PROVE  Waiting(Claim)'
      <4>1. x.key \in {Claim, Page} /\ x.step = "recordLink"
        BY <3>2 DEF RecordLink, Working, IdentitySteps, DomainSteps, VerificationTypeOK, Executions,
                    CheckKeys
      <4>2. x.key # Page
        BY <1>1, <2>1, <2>4, <4>1 DEF LinkWaits, Claiming, Pending
      <4>3. \E y \in running' : y.key = Claim
        BY <3>2, <4>1, <4>2, LinkRecorded DEF Proceed
      <4> QED
        BY <4>3 DEF Waiting
    <3> QED
      BY <1>3, <3>1, <3>2, NextLink
  <2> QED
    BY <1>1, <1>3, <2>1, <2>2, <2>3, <2>4 DEF LinkWaits
<1> QED
  BY <1>2, <1>3

-----------------------------------------------------------------------------
(* The checks of a Domain: its cadence.                                    *)

\* A job that is on its way to the Domain's schedule stays there.
LEMMA StepPace ==
  ASSUME VerificationTypeOK, NEW x \in running, Working(x), running = {x}, OnPace(x),
         Late => Chased, x.key # Page, Step(x)
  PROVE  (\A z \in running' : OnPace(z)') /\ (Late' => Chased')
<1>0. x \in Executions /\ x.key \in CheckKeys
  BY DEF VerificationTypeOK, Executions
<1>k. /\ Domain \notin Identities /\ Claim \notin Identities /\ Page \notin Identities
      /\ Domain # Claim /\ Page # Domain /\ Page # Claim /\ Domain \in CheckKeys
  BY VerificationAssumption DEF CheckKeys
<1> DEFINE Goal == (\A z \in running' : OnPace(z)') /\ (Late' => Chased')
\* An execution that goes on towards the schedule, with the Domain's row as it was.
<1>1. ASSUME NEW y, Proceed(x, y), Scheduling(y), y.key = x.key, y.soonest = x.soonest,
             y.step # "scheduleDomain", customDomain' = customDomain
      PROVE  Goal
  <2>1. running' = {y}
    BY <1>1 DEF Proceed
  <2>2. OnPace(y)'
    BY <1>1 DEF OnPace
  <2> QED
    BY <1>1, <2>1, <2>2 DEF Chased, Scheduling
\* One that does not touch it.
<1>2. ASSUME NEW more, running' = more, \A z \in more : z.key # Domain /\ z.step # "scheduleDomain",
             ~Scheduling(x), UNCHANGED <<meets, row, customDomain>>,
             ready \cup delayed \subseteq ready' \cup delayed',
             scheduled'[Domain] = scheduled[Domain] \/ Domain \in lost',
             Domain \in lost => Domain \in lost'
      PROVE  Goal
  <2>1. \A z \in running' : OnPace(z)'
    BY <1>2 DEF OnPace
  <2>2. ASSUME Late' PROVE Chased'
    <3>1. Late
      BY <1>2, <2>2 DEF Late
    <3> QED
      BY <1>2, <3>1 DEF Chased, Present
  <2> QED
    BY <2>1, <2>2
<1>3. ASSUME NEW i \in Identities, Ask(x, i)
      PROVE  Goal
  <2>1. PICK y : Proceed(x, y) /\ y = [x EXCEPT !.step = "recordIdentity", !.id = i,
                                                !.left = @ \ {i}, !.answer = i \in vendor]
    BY <1>3 DEF Ask
  <2>2. y.key = x.key /\ y.step = "recordIdentity" /\ y.soonest = x.soonest
    BY <1>0, <2>1 DEF Executions
  <2>3. Scheduling(y)
    BY <1>0, <1>3, <2>2 DEF Scheduling, Ask, Working, ClaimSteps, IdentitySteps, CheckKeys
  <2> QED
    BY <1>1, <1>3, <2>1, <2>2, <2>3 DEF Ask, rows
<1>4. ASSUME RecordIdentity(x)
      PROVE  Goal
  <2>1. PICK check : Proceed(x, [x EXCEPT !.step = "dns", !.delay = check.next,
                                  !.todo = IF customDomain = Absent THEN {} ELSE Records,
                                  !.seen = {}])
    BY <1>4, IdentityRecorded
  <2>2. PICK y : Proceed(x, y) /\ y = [x EXCEPT !.step = "dns", !.delay = check.next,
                                         !.todo = IF customDomain = Absent THEN {} ELSE Records,
                                         !.seen = {}]
    BY <2>1
  <2>3. y.key = x.key /\ y.step = "dns" /\ y.soonest = x.soonest
    BY <1>0, <2>2 DEF Executions
  <2>4. Scheduling(y)
    BY <1>0, <1>4, <2>3 DEF Scheduling, RecordIdentity, Working, ClaimSteps, IdentitySteps, CheckKeys
  <2> QED
    BY <1>1, <1>4, <2>2, <2>3, <2>4 DEF RecordIdentity
<1>5. ASSUME NEW r \in Records, CheckRecord(x, r)
      PROVE  Goal
  <2>1. PICK matches \in BOOLEAN :
          Proceed(x, [x EXCEPT !.todo = @ \ {r}, !.seen = IF matches THEN @ \cup {r} ELSE @])
    BY <1>5 DEF CheckRecord
  <2>2. PICK y : Proceed(x, y) /\ y = [x EXCEPT !.todo = @ \ {r},
                                         !.seen = IF matches THEN @ \cup {r} ELSE @]
    BY <2>1
  <2>3. y.key = x.key /\ y.step = "dns" /\ y.soonest = x.soonest
    BY <1>0, <1>5, <2>2 DEF CheckRecord, Executions
  <2>4. Scheduling(y)
    BY <1>0, <1>5, <2>3 DEF Scheduling, CheckRecord, Working, ClaimSteps, IdentitySteps, CheckKeys
  <2> QED
    BY <1>1, <1>5, <2>2, <2>3, <2>4 DEF CheckRecord
<1>6. ASSUME LoadDomain(x)
      PROVE  Goal
  <2>1. PICK y : Proceed(x, y) /\ y = [x EXCEPT !.step = "recordDomain",
                         !.level = IF customDomain = Absent THEN 0 ELSE customDomain.level]
    BY <1>6 DEF LoadDomain
  <2>2. y.key = x.key /\ y.step = "recordDomain" /\ y.soonest = x.soonest
    BY <1>0, <2>1 DEF Executions
  <2>3. Scheduling(y)
    BY <1>0, <1>6, <2>2 DEF Scheduling, LoadDomain, Working, ClaimSteps, IdentitySteps, CheckKeys
  <2> QED
    BY <1>1, <1>6, <2>1, <2>2, <2>3 DEF LoadDomain, rows
<1>7. ASSUME RecordDomain(x)
      PROVE  Goal
  <2>1. x.seen \in SUBSET Records /\ x.level \in Levels /\ x.delay \in Delays
        /\ x.soonest \in Delays \cup {Absent}
    BY <1>0 DEF Executions
  <2>2. PICK s \in Status : s = MergeStatus(Cardinality(x.seen),
                                            Cardinality(Records) - Cardinality(x.seen))
    BY <2>1, FoundRecords
  <2>3. PICK check \in Checks :
          check = NextCheck(s, x.level) /\ check.next \in Delays /\ check.next # Absent
    BY <2>1, NextCheckTyped
  <2>4. PICK delay \in Delays : delay = DomainDelay(x.delay, check.next) /\ delay <= check.next
    BY <2>1, <2>3, SoonerTyped
  <2>5. PICK soonest \in Delays :
          /\ soonest = IF x.soonest = Absent THEN delay ELSE Least(x.soonest, delay)
          /\ soonest <= delay
    <3>1. CASE x.soonest = Absent
      BY <3>1, VerificationAssumption DEF Delays
    <3>2. CASE x.soonest # Absent
      <4>1. Least(x.soonest, delay) \in Delays /\ Least(x.soonest, delay) <= delay
        BY <2>1, <3>2, SoonerTyped
      <4> QED
        BY <3>2, <4>1
    <3> QED
      BY <3>1, <3>2
  <2>6. /\ customDomain' = IF customDomain = Absent THEN Absent ELSE check
        /\ Proceed(x, [x EXCEPT !.step = AfterIdentity(x), !.soonest = soonest])
    BY <1>7, <2>2, <2>3, <2>4, <2>5 DEF RecordDomain
  <2>7. PICK y : Proceed(x, y) /\ y = [x EXCEPT !.step = AfterIdentity(x), !.soonest = soonest]
    BY <2>6
  <2>8. y.key = x.key /\ y.step = AfterIdentity(x) /\ y.soonest = soonest
    BY <1>0, <2>7 DEF Executions
  <2>9. Scheduling(y)
    BY <1>0, <1>k, <1>7, <2>8
    DEF Scheduling, RecordDomain, Working, ClaimSteps, IdentitySteps, CheckKeys, AfterIdentity
  <2>10. soonest <= check.next
    BY <2>3, <2>4, <2>5, VerificationAssumption DEF Delays
  <2>11. OnPace(y)'
    BY <2>3, <2>6, <2>8, <2>10 DEF OnPace
  <2>12. running' = {y}
    BY <2>7 DEF Proceed
  <2> QED
    BY <2>9, <2>11, <2>12 DEF Chased, Scheduling
<1>8. ASSUME ScheduleIdentity(x)
      PROVE  Goal
  <2>1. PICK s : s = IF x.left = {} THEN "finish" ELSE "ask"
    OBVIOUS
  <2>2. PICK y : Proceed(x, y) /\ y = [x EXCEPT !.step = s]
    BY <1>8, <2>1 DEF ScheduleIdentity
  <2>3. y.key = x.key /\ y.step = s /\ s \in {"ask", "finish"} /\ y.soonest = x.soonest
    BY <1>0, <2>1, <2>2 DEF Executions
  <2>4. x.key = Domain
    BY <1>0, <1>8 DEF ScheduleIdentity, Working, IdentitySteps, ClaimSteps, CheckKeys
  <2> QED
    BY <1>1, <1>8, <2>2, <2>3, <2>4 DEF ScheduleIdentity, Scheduling, rows
<1>9. ASSUME ScheduleDomain(x)
      PROVE  Goal
  <2>1. x.step = "scheduleDomain" /\ x.key \in Identities
    BY <1>0, <1>9 DEF ScheduleDomain, Working, DomainSteps, ClaimSteps, CheckKeys
  <2>2. scheduled'[Domain] = x.soonest /\ customDomain' = customDomain
    BY <1>k, <1>9 DEF ScheduleDomain, Schedule, rows, VerificationTypeOK
  <2>3. ~Late'
    BY <2>1, <2>2 DEF Late, OnPace
  <2>4. PICK y : Proceed(x, y) /\ y = [x EXCEPT !.step = "reload"]
    BY <1>9 DEF ScheduleDomain
  <2>5. y.key = x.key /\ y.step = "reload"
    BY <1>0, <2>4 DEF Executions
  <2>6. running' = {y} /\ OnPace(y)'
    BY <1>k, <2>1, <2>4, <2>5 DEF Proceed, OnPace
  <2> QED
    BY <2>3, <2>6
<1>10. ASSUME Reload(x)
       PROVE  Goal
  <2>1. x.step = "reload" /\ x.key \in Identities
    BY <1>0, <1>10 DEF Reload, Working, DomainSteps, ClaimSteps, CheckKeys
  <2>2. PICK y : Proceed(x, y) /\ y = [x EXCEPT !.step = "finish",
                         !.soonest = IF row[x.id] = Absent THEN Absent ELSE row[x.id].next]
    BY <1>10 DEF Reload
  <2>3. y.key = x.key /\ y.step = "finish"
    BY <1>0, <2>2 DEF Executions
  <2>4. ~Scheduling(x)
    BY <1>k, <2>1 DEF Scheduling
  <2>5. running' = {y} /\ \A z \in {y} : z.key # Domain /\ z.step # "scheduleDomain"
    BY <1>k, <2>1, <2>2, <2>3 DEF Proceed
  <2> QED
    BY <1>2, <1>10, <2>4, <2>5 DEF Reload, rows, queue
<1>11. ASSUME Finish(x)
       PROVE  Goal
  <2>1. running' = {} /\ customDomain' = customDomain /\ x.step = "finish"
    BY <1>11 DEF Finish, rows
  <2>2. CASE x.key = Domain /\ x.soonest = Absent
    <3>1. scheduled'[Domain] = Absent
      BY <1>k, <1>11, <2>2 DEF Finish, Cancel, VerificationTypeOK
    <3> QED
      BY <2>1, <3>1 DEF Late
  <2>3. CASE x.key = Domain /\ x.soonest # Absent
    <3>1. scheduled'[Domain] = x.soonest
      BY <1>k, <1>11, <2>3 DEF Finish, Schedule, VerificationTypeOK
    <3> QED
      BY <2>1, <2>3, <3>1 DEF Late, OnPace
  <2>4. CASE x.key # Domain
    <3>1. scheduled'[Domain] = scheduled[Domain] /\ (Domain \in lost => Domain \in lost')
      BY <1>k, <1>11, <2>4 DEF Finish, Schedule, Cancel, VerificationTypeOK
    <3>2. ~Scheduling(x)
      BY <2>1, <2>4 DEF Scheduling
    <3> QED
      BY <1>2, <1>11, <2>1, <3>1, <3>2 DEF Finish, rows, queue
  <2> QED
    BY <2>2, <2>3, <2>4
<1>12. ASSUME x.key = Claim
       PROVE  Goal
  <2>1. x.step \in ClaimSteps /\ ~Scheduling(x)
    BY <1>k, <1>12 DEF Working, Scheduling
  <2>2. LoadLink(x) \/ Challenge(x) \/ RecordLink(x) \/ Settle(x)
    BY <2>1 DEF Step, ClaimSteps, Ask, RecordIdentity, LoadDomain, RecordDomain, ScheduleIdentity,
                ScheduleDomain, Reload, Finish, CheckRecord
  <2>3. UNCHANGED <<meets, row, customDomain>>
    BY <2>2 DEF LoadLink, Challenge, RecordLink, Settle, rows
  <2>4. ready \cup delayed \subseteq ready' \cup delayed'
    BY <2>2 DEF LoadLink, Failed, Challenge, RecordLink, Settle, queue
  <2>5. /\ scheduled'[Domain] = scheduled[Domain]
        /\ Domain \in lost => Domain \in lost'
    BY <1>k, <2>2 DEF LoadLink, Failed, Challenge, RecordLink, Settle, Schedule, Cancel,
                      VerificationTypeOK
  <2>6. \A z \in running' : z.key # Domain /\ z.step # "scheduleDomain"
    <3>1. CASE running' = {}
      BY <3>1
    <3>2. CASE LoadLink(x) /\ Proceed(x, [x EXCEPT !.step = "challenge", !.level = link.level])
      BY <1>0, <1>k, <1>12, <3>2 DEF Proceed, Executions
    <3>3. CASE Challenge(x)
      <4>1. PICK found \in BOOLEAN :
              Proceed(x, [x EXCEPT !.step = "recordLink", !.answer = found])
        BY <3>3 DEF Challenge
      <4> QED
        BY <1>0, <1>k, <1>12, <4>1 DEF Proceed, Executions
    <3>4. CASE RecordLink(x)
      BY <1>k, <1>12, <3>4, LinkRecorded DEF Proceed
    <3> QED
      BY <1>12, <1>k, <2>2, <3>1, <3>2, <3>3, <3>4 DEF LoadLink, Failed, Settle
  <2> QED
    BY <1>2, <2>1, <2>3, <2>4, <2>5, <2>6
<1>13. CASE LoadLink(x) \/ Challenge(x) \/ RecordLink(x) \/ Settle(x)
  <2>1. x.key = Claim
    BY <1>0, <1>13 DEF LoadLink, Challenge, RecordLink, Settle, Working, IdentitySteps, DomainSteps,
                       CheckKeys
  <2> QED
    BY <1>12, <2>1
<1> QED
  BY <1>3, <1>4, <1>5, <1>6, <1>7, <1>8, <1>9, <1>10, <1>11, <1>13 DEF Step

LEMMA NextInPace ==
  ASSUME VerificationTypeOK, \A x \in running : Working(x), RowsStay, Alone, InPace,
         VerificationNext
  PROVE  InPace'
<1> SUFFICES ASSUME MayPace'
             PROVE  (\A x \in running' : OnPace(x)') /\ (Late' => Chased')
  BY DEF InPace
<1>1. /\ meets' = meets /\ "overlap" \notin meets /\ "refresh" \notin meets
      /\ ~({"failures", "removal"} \subseteq meets)
      /\ \A x \in running : OnPace(x)
      /\ Late => Chased
  BY NextShape DEF MayPace, InPace
<1>k. /\ Domain \notin Identities /\ Claim \notin Identities /\ Page \notin Identities
      /\ Domain # Claim /\ Page # Domain /\ Page # Claim /\ Domain \in CheckKeys
      /\ 0 \in Delays /\ 0 # Absent
  BY VerificationAssumption, ChecksAssumption DEF CheckKeys, Delays
<1> DEFINE Goal == (\A x \in running' : OnPace(x)') /\ (Late' => Chased')
\* Executions and the Domain's row stay, its check gets no later.
<1>2. ASSUME running' = running, customDomain' = customDomain \/ customDomain' = Absent, ~Late'
      PROVE  Goal
  BY <1>1, <1>2 DEF OnPace
<1>3. ASSUME running' = running, UNCHANGED customDomain, Late' => Late,
             \/ "failures" \notin meets
             \/ row' = row /\ \A e \in ready \cup delayed : \E f \in ready' \cup delayed' : f.key = e.key
      PROVE  Goal
  BY <1>1, <1>3 DEF OnPace, Chased, Scheduling, Present
<1>4. ASSUME NEW x \in running, Step(x)
      PROVE  Goal
  <2>1. running = {x} /\ x.key # Page
    BY <1>1 DEF Alone
  <2> QED
    BY <1>1, <1>4, <2>1, StepPace
<1>5. ASSUME NEW k \in CheckKeys, Promote(k)
      PROVE  Goal
  <2>1. Late' => Late
    BY <1>5 DEF Promote, Late, VerificationTypeOK, rows
  <2> QED
    BY <1>3, <1>5, <2>1 DEF Promote, rows
<1>6. ASSUME NEW e \in Entries, Retry(e)
      PROVE  Goal
  <2>1. ready \cup delayed \subseteq ready' \cup delayed'
    BY <1>6 DEF Retry
  <2> QED
    BY <1>3, <1>6, <2>1 DEF Retry, rows, Late
<1>7. ASSUME NEW e \in Entries, StartJob(e)
      PROVE  Goal
  <2>1. /\ running = {} /\ Load(e) /\ ready' = ready \ {e} /\ delayed' = delayed
        /\ UNCHANGED <<row, customDomain>> /\ (Late' <=> Late)
    BY <1>1, <1>7 DEF StartJob, MayStart, rows, Late
  <2>2. CASE e.key \in Present \/ (e.key \in {Domain, Claim} /\ customDomain # Absent)
    <3>1. CASE running' = running
      BY <2>1, <2>2, <3>1, LoadStarts
    <3>2. ASSUME NEW y, running' = running \cup {y}, Working(y), y.key = e.key,
                 y.soonest = Absent, y.step \in {"ask", "finish", "loadLink"},
                 y.step = "finish" => e.key = Domain
          PROVE  Goal
      <4>1. running' = {y} /\ OnPace(y)'
        BY <2>1, <3>2 DEF OnPace
      <4>2. CASE e.key \in Present \cup {Domain}
        <5>1. Scheduling(y)'
          BY <1>k, <3>2, <4>2 DEF Scheduling, Working, IdentitySteps, Present
        <5> QED
          BY <4>1, <5>1 DEF Chased
      <4>3. CASE e.key \notin Present \cup {Domain}
        BY <1>1, <2>1, <4>1, <4>3 DEF Chased, Present
      <4> QED
        BY <4>2, <4>3
    <3> QED
      BY <2>1, <2>2, <3>1, <3>2, LoadStarts
  <2>3. CASE ~(e.key \in Present \/ (e.key \in {Domain, Claim} /\ customDomain # Absent))
    <3>1. running' = {}
      BY <2>1, <2>3, LoadStarts
    <3>2. ASSUME Late' PROVE Chased'
      <4>1. customDomain # Absent /\ Late
        BY <2>1, <3>2 DEF Late
      <4>2. "failures" \in meets /\ \E f \in ready \cup delayed : f.key \in Present \cup {Domain}
        BY <1>1, <2>1, <4>1 DEF Chased
      <4>3. \E f \in ready' \cup delayed' : f.key \in Present \cup {Domain}
        BY <2>1, <2>3, <4>1, <4>2
      <4> QED
        BY <1>1, <2>1, <4>2, <4>3 DEF Chased, Present
    <3> QED
      BY <3>1, <3>2
  <2> QED
    BY <2>2, <2>3
<1>8. ASSUME NEW x \in running, Fail(x) \/ Crash(x)
      PROVE  Goal
  <2>1. /\ running' = {} /\ "failures" \in meets /\ gone = {}
        /\ UNCHANGED <<row, customDomain, scheduled>>
        /\ ready \cup delayed \subseteq ready' \cup delayed'
    BY <1>1, <1>8 DEF Fail, Failed, Crash, MayFail, Alone, RowsStay, rows
  <2>2. x.key # Page /\ x.key \in CheckKeys
    BY <1>1 DEF Alone, VerificationTypeOK, Executions
  <2>3. ASSUME Late' PROVE Chased'
    <3>1. Late
      BY <1>8, <2>1, <2>3 DEF Late, Fail, Failed, Crash
    <3>2. CASE x.key = Claim
      <4>1. ~Scheduling(x) /\ running = {x}
        BY <1>1, <1>k, <3>2 DEF Scheduling, Alone
      <4> QED
        BY <1>1, <2>1, <3>1, <4>1 DEF Chased, Present
    <3>3. CASE x.key \in Identities \cup {Domain}
      <4>1. x.key \in Present \cup {Domain}
        BY <2>1, <3>3 DEF Working, Present
      <4>2. \/ Entry(x.key, x.attempts) \in ready'
            \/ Entry(x.key, x.attempts + 1) \in delayed'
            \/ Domain \in lost'
        BY <1>k, <1>8, <2>2, <3>3 DEF Fail, Failed, Crash
      <4>3. \E f \in ready' \cup delayed' : f.key = x.key
        BY <2>3, <4>2 DEF Entry, Late
      <4> QED
        BY <1>1, <2>1, <4>1, <4>3 DEF Chased, Present
    <3> QED
      BY <2>2, <3>2, <3>3 DEF CheckKeys
  <2> QED
    BY <2>1, <2>3
<1>9. ASSUME NEW i \in Identities, Register(i)
      PROVE  Goal
  <2>1. PICK done \in {{}, {Domain}, {Domain, i}} :
          /\ scheduled' = [h \in CheckKeys |-> IF h \in done THEN 0 ELSE scheduled[h]]
          /\ lost' = (lost \cup {i, Domain}) \ done
    BY <1>9 DEF Register
  <2>2. customDomain' = customDomain /\ running' = running
    BY <1>9 DEF Register
  <2>3. ~Late'
    <3>1. CASE Domain \in done
      <4>1. scheduled'[Domain] = 0
        BY <1>k, <2>1, <3>1
      <4>2. customDomain # Absent /\ customDomain.next # Absent => customDomain.next \in Delays
        BY DEF VerificationTypeOK, Checks
      <4>3. \A d \in Delays : 0 <= d
        BY VerificationAssumption DEF Delays
      <4> QED
        BY <2>2, <4>1, <4>2, <4>3 DEF Late
    <3>2. CASE Domain \notin done
      BY <2>1, <3>2 DEF Late
    <3> QED
      BY <3>1, <3>2
  <2> QED
    BY <1>2, <2>2, <2>3
<1>10. ASSUME Drift
       PROVE  Goal
  BY <1>3, <1>10 DEF Drift, rows, queue, Late
<1>11. ASSUME NEW i \in Identities, RemoveIdentity(i)
       PROVE  Goal
  <2>1. "failures" \notin meets
    BY <1>1, <1>11 DEF RemoveIdentity
  <2> QED
    BY <1>3, <1>11, <2>1 DEF RemoveIdentity, Late
<1>12. ASSUME Reconcile
       PROVE  Goal
  <2>1. running' = running /\ customDomain' = customDomain
    BY <1>12 DEF Reconcile, rows
  <2>2. ~Late'
    <3>1. CASE customDomain = Absent \/ customDomain.next = Absent
      BY <2>1, <3>1 DEF Late
    <3>2. CASE customDomain # Absent /\ customDomain.next # Absent
      <4>1. NextOf(Domain) = customDomain.next
        BY <1>k, <3>2 DEF NextOf
      <4>2. scheduled'[Domain] = customDomain.next
        BY <1>k, <1>12, <3>2, <4>1 DEF Reconcile
      <4>3. customDomain.next \in Delays
        BY <3>2 DEF VerificationTypeOK, Checks
      <4>4. customDomain.next <= customDomain.next
        BY <4>3, VerificationAssumption DEF Delays
      <4> QED
        BY <2>1, <4>2, <4>4 DEF Late
    <3> QED
      BY <3>1, <3>2
  <2> QED
    BY <1>2, <2>1, <2>2
<1>13. ASSUME RemoveDomain
       PROVE  Goal
  BY <1>2, <1>13 DEF RemoveDomain, Late
<1> QED
  BY <1>1, <1>4, <1>5, <1>6, <1>7, <1>8, <1>9, <1>10, <1>11, <1>12, <1>13
  DEF VerificationNext, Worker, StartRefresh

-----------------------------------------------------------------------------
(* The checks of a Domain: its status.                                     *)

\* An execution alone finds the records as it goes and records what they say.
LEMMA StepInStatus ==
  ASSUME VerificationTypeOK, NEW x \in running, Working(x), running = {x},
         customDomain # Absent, customDomain' # Absent, LooksWell(x),
         customDomain.next # Absent /\ ~Looking(x) => Recorded, Step(x)
  PROVE  /\ \A z \in running' : LooksWell(z)'
         /\ customDomain'.next # Absent /\ (\A z \in running' : ~Looking(z)) => Recorded'
<1>0. x \in Executions
  BY DEF VerificationTypeOK
<1> USE <1>0
<1> DEFINE Goal ==
      /\ \A z \in running' : LooksWell(z)'
      /\ customDomain'.next # Absent /\ (\A z \in running' : ~Looking(z)) => Recorded'
<1>1. ASSUME NEW more, running' = more, \A z \in more : ~Looking(z), ~Looking(x),
             UNCHANGED <<customDomain, status>>
      PROVE  Goal
  BY <1>1 DEF LooksWell, Recorded
<1>2. ASSUME NEW y, Proceed(x, y), LooksWell(y)', Looking(y)
      PROVE  Goal
  BY <1>2 DEF Proceed
<1>3. ASSUME NEW i \in Identities, Ask(x, i)
      PROVE  Goal
  <2>1. PICK y : Proceed(x, y) /\ y = [x EXCEPT !.step = "recordIdentity", !.id = i,
                                                !.left = @ \ {i}, !.answer = i \in vendor]
    BY <1>3 DEF Ask
  <2>2. y.step = "recordIdentity"
    BY <2>1 DEF Executions
  <2>3. running' = {y} /\ ~Looking(y) /\ ~Looking(x)
    BY <1>3, <2>1, <2>2 DEF Proceed, Looking, Ask
  <2> QED
    BY <1>1, <1>3, <2>3 DEF Ask, rows
<1>4. ASSUME RecordIdentity(x)
      PROVE  Goal
  <2>1. PICK check : Proceed(x, [x EXCEPT !.step = "dns", !.delay = check.next,
                                  !.todo = IF customDomain = Absent THEN {} ELSE Records,
                                  !.seen = {}])
    BY <1>4, IdentityRecorded
  <2>2. PICK y : Proceed(x, y) /\ y = [x EXCEPT !.step = "dns", !.delay = check.next,
                                         !.todo = Records, !.seen = {}]
    BY <2>1
  <2>3. y.step = "dns" /\ y.todo = Records /\ y.seen = {}
    BY <2>2 DEF Executions
  <2>4. Looking(y) /\ LooksWell(y)'
    BY <2>3 DEF Looking, LooksWell
  <2> QED
    BY <1>2, <2>2, <2>4
<1>5. ASSUME NEW r \in Records, CheckRecord(x, r)
      PROVE  Goal
  <2>1. PICK matches \in BOOLEAN :
          /\ status' = [status EXCEPT ![r] = IF matches THEN "active"
                                             ELSE IF @ = "pending" THEN @ ELSE "missing"]
          /\ Proceed(x, [x EXCEPT !.todo = @ \ {r}, !.seen = IF matches THEN @ \cup {r} ELSE @])
    BY <1>5 DEF CheckRecord
  <2>2. PICK y : Proceed(x, y) /\ y = [x EXCEPT !.todo = @ \ {r},
                                         !.seen = IF matches THEN @ \cup {r} ELSE @]
    BY <2>1
  <2>3. x.step = "dns" /\ y.step = "dns" /\ y.todo = x.todo \ {r} /\ r \in x.todo
        /\ y.seen = (IF matches THEN x.seen \cup {r} ELSE x.seen)
    BY <1>5, <2>2 DEF CheckRecord, Executions
  <2>4. PICK still \in SUBSET Records : still = x.seen
    BY DEF Executions
  <2>t. status \in [Records -> {"pending", "active", "missing"}]
    BY DEF VerificationTypeOK
  <2>5. Looking(y) /\ LooksWell(y)'
    <3>1. ASSUME NEW o \in Records \ y.todo
          PROVE  status'[o] = "active" <=> o \in y.seen
      <4>1. CASE o # r
        BY <2>1, <2>3, <2>t, <3>1, <4>1 DEF LooksWell, Looking
      <4>2. CASE o = r /\ matches
        BY <2>1, <2>3, <2>t, <4>2
      <4>3. CASE o = r /\ ~matches
        <5>1. status'[r] # "active" /\ r \notin x.seen
          BY <2>1, <2>3, <2>t, <4>3 DEF LooksWell, Looking
        <5> QED
          BY <2>3, <4>3, <5>1
      <4> QED
        BY <4>1, <4>2, <4>3
    <3>2. y.seen \cap y.todo = {}
      BY <2>3 DEF LooksWell, Looking
    <3> QED
      BY <2>3, <3>1, <3>2 DEF LooksWell, Looking
  <2> QED
    BY <1>2, <2>2, <2>5
<1>6. ASSUME LoadDomain(x)
      PROVE  Goal
  <2>1. PICK y : Proceed(x, y) /\ y = [x EXCEPT !.step = "recordDomain",
                         !.level = IF customDomain = Absent THEN 0 ELSE customDomain.level]
    BY <1>6 DEF LoadDomain
  <2>2. /\ x.step = "dns" /\ y.step = "recordDomain" /\ x.todo = {}
        /\ y.todo = x.todo /\ y.seen = x.seen /\ status' = status
    BY <1>6, <2>1 DEF LoadDomain, Executions, rows
  <2>3. Looking(y) /\ LooksWell(y)'
    BY <2>2 DEF LooksWell, Looking
  <2> QED
    BY <1>2, <2>1, <2>3
<1>7. ASSUME RecordDomain(x)
      PROVE  Goal
  <2>1. x.seen \in SUBSET Records /\ x.level \in Levels
    BY DEF Executions
  <2>2. PICK s \in Status :
          /\ s = MergeStatus(Cardinality(x.seen), Cardinality(Records) - Cardinality(x.seen))
          /\ s = "verified" <=> x.seen = Records
          /\ s = "not_verified" <=> x.seen = {}
    BY <2>1, FoundRecords
  <2>3. PICK check \in Checks : check = NextCheck(s, x.level) /\ check.status = s
    BY <2>1, NextCheckTyped
  <2>4. customDomain' = check /\ status' = status
    BY <1>7, <2>2, <2>3 DEF RecordDomain
  <2>5. \A r \in Records : status[r] = "active" <=> r \in x.seen
    BY <1>7 DEF RecordDomain, LooksWell, Looking
  <2>6. Recorded'
    BY <2>1, <2>2, <2>3, <2>4, <2>5 DEF Recorded
  <2>7. PICK delay :
          Proceed(x, [x EXCEPT !.step = AfterIdentity(x),
                               !.soonest = IF @ = Absent THEN delay ELSE Least(@, delay)])
    BY <1>7 DEF RecordDomain
  <2>8. PICK y : Proceed(x, y) /\ y = [x EXCEPT !.step = AfterIdentity(x),
                                 !.soonest = IF @ = Absent THEN delay ELSE Least(@, delay)]
    BY <2>7
  <2>9. y.step = AfterIdentity(x)
    BY <2>8 DEF Executions
  <2>a. AfterIdentity(x) \notin {"dns", "recordDomain"}
    BY DEF AfterIdentity
  <2>10. running' = {y} /\ ~Looking(y)
    BY <2>8, <2>9, <2>a DEF Proceed, Looking
  <2> QED
    BY <2>6, <2>10 DEF LooksWell, Looking
<1>8. ASSUME ScheduleIdentity(x)
      PROVE  Goal
  <2>1. PICK s : s = IF x.left = {} THEN "finish" ELSE "ask"
    OBVIOUS
  <2>2. PICK y : Proceed(x, y) /\ y = [x EXCEPT !.step = s]
    BY <1>8, <2>1 DEF ScheduleIdentity
  <2>3. y.step \in {"ask", "finish"} /\ x.step = "scheduleIdentity"
    BY <1>8, <2>1, <2>2 DEF Executions, ScheduleIdentity
  <2>4. running' = {y} /\ ~Looking(y) /\ ~Looking(x)
    BY <2>2, <2>3 DEF Proceed, Looking
  <2> QED
    BY <1>1, <1>8, <2>4 DEF ScheduleIdentity, rows
<1>9. ASSUME ScheduleDomain(x)
      PROVE  Goal
  <2>1. PICK y : Proceed(x, y) /\ y = [x EXCEPT !.step = "reload"]
    BY <1>9 DEF ScheduleDomain
  <2>2. y.step = "reload" /\ x.step = "scheduleDomain"
    BY <1>9, <2>1 DEF Executions, ScheduleDomain
  <2>3. running' = {y} /\ ~Looking(y) /\ ~Looking(x)
    BY <2>1, <2>2 DEF Proceed, Looking
  <2> QED
    BY <1>1, <1>9, <2>3 DEF ScheduleDomain, rows
<1>10. ASSUME Reload(x)
       PROVE  Goal
  <2>1. PICK y : Proceed(x, y) /\ y = [x EXCEPT !.step = "finish",
                         !.soonest = IF row[x.id] = Absent THEN Absent ELSE row[x.id].next]
    BY <1>10 DEF Reload
  <2>2. y.step = "finish" /\ x.step = "reload"
    BY <1>10, <2>1 DEF Executions, Reload
  <2>3. running' = {y} /\ ~Looking(y) /\ ~Looking(x)
    BY <2>1, <2>2 DEF Proceed, Looking
  <2> QED
    BY <1>1, <1>10, <2>3 DEF Reload, rows
<1>11. ASSUME Finish(x) \/ Settle(x)
       PROVE  Goal
  <2>1. running' = {} /\ ~Looking(x) /\ UNCHANGED <<customDomain, status>>
    BY <1>11 DEF Finish, Settle, Looking, rows
  <2> QED
    BY <1>1, <2>1
<1>12. ASSUME LoadLink(x)
       PROVE  Goal
  <2>1. ~Looking(x) /\ UNCHANGED <<customDomain, status>>
    BY <1>12 DEF LoadLink, Looking, rows
  <2>2. CASE Proceed(x, [x EXCEPT !.step = "challenge", !.level = link.level])
    <3>1. PICK y : Proceed(x, y) /\ y = [x EXCEPT !.step = "challenge", !.level = link.level]
      BY <2>2
    <3>2. y.step = "challenge"
      BY <3>1 DEF Executions
    <3>3. running' = {y} /\ ~Looking(y)
      BY <3>1, <3>2 DEF Proceed, Looking
    <3> QED
      BY <1>1, <2>1, <3>3
  <2>3. CASE running' = {}
    BY <1>1, <2>1, <2>3
  <2> QED
    BY <1>12, <2>2, <2>3 DEF LoadLink, Failed
<1>13. ASSUME Challenge(x)
       PROVE  Goal
  <2>1. PICK found \in BOOLEAN : Proceed(x, [x EXCEPT !.step = "recordLink", !.answer = found])
    BY <1>13 DEF Challenge
  <2>2. PICK y : Proceed(x, y) /\ y = [x EXCEPT !.step = "recordLink", !.answer = found]
    BY <2>1
  <2>3. y.step = "recordLink" /\ x.step = "challenge"
    BY <1>13, <2>2 DEF Executions, Challenge
  <2>4. running' = {y} /\ ~Looking(y) /\ ~Looking(x)
    BY <2>2, <2>3 DEF Proceed, Looking
  <2> QED
    BY <1>1, <1>13, <2>4 DEF Challenge, rows
<1>14. ASSUME RecordLink(x)
       PROVE  Goal
  <2>1. ~Looking(x) /\ UNCHANGED <<customDomain, status>>
    BY <1>14 DEF RecordLink, Looking
  <2>2. CASE running' = running \ {x}
    <3>1. running' = {}
      BY <2>2
    <3> QED
      BY <1>1, <2>1, <3>1
  <2>3. ASSUME NEW y, Proceed(x, y), y.step = "settle"
        PROVE  Goal
    <3>1. running' = {y} /\ ~Looking(y)
      BY <2>3 DEF Proceed, Looking
    <3> QED
      BY <1>1, <2>1, <3>1
  <2> QED
    BY <1>14, <2>2, <2>3, LinkRecorded
<1> QED
  BY <1>3, <1>4, <1>5, <1>6, <1>7, <1>8, <1>9, <1>10, <1>11, <1>12, <1>13, <1>14 DEF Step

LEMMA NextInStatus ==
  ASSUME VerificationTypeOK, \A x \in running : Working(x), RowsStay, Alone, InStatus,
         VerificationNext
  PROVE  InStatus'
<1> SUFFICES ASSUME (meets \cap {"overlap", "failures"} = {} /\ customDomain # Absent)'
             PROVE  /\ \A x \in running' : LooksWell(x)'
                    /\ customDomain'.next # Absent /\ (\A x \in running' : ~Looking(x)) => Recorded'
  BY DEF InStatus, Looking
<1>1. /\ meets' = meets /\ "overlap" \notin meets /\ "failures" \notin meets
      /\ customDomain # Absent /\ customDomain' # Absent
      /\ \A x \in running : LooksWell(x)
      /\ customDomain.next # Absent /\ (\A x \in running : ~Looking(x)) => Recorded
  BY NextShape, NextRowsStay DEF InStatus
<1> DEFINE Goal ==
      /\ \A x \in running' : LooksWell(x)'
      /\ customDomain'.next # Absent /\ (\A x \in running' : ~Looking(x)) => Recorded'
<1>2. ASSUME UNCHANGED <<running, customDomain, status>>
      PROVE  Goal
  BY <1>1, <1>2 DEF LooksWell, Looking, Recorded
\* An execution that starts does not look yet.
<1>3. ASSUME NEW y, running = {}, running' = {y}, ~Looking(y), UNCHANGED <<customDomain, status>>
      PROVE  Goal
  BY <1>1, <1>3 DEF LooksWell, Recorded
<1>4. ASSUME NEW x \in running, Step(x)
      PROVE  Goal
  <2>1. running = {x}
    BY <1>1 DEF Alone
  <2> QED
    BY <1>1, <1>4, <2>1, StepInStatus
<1>5. ASSUME NEW e \in Entries, StartJob(e)
      PROVE  Goal
  <2>1. running = {} /\ Load(e) /\ UNCHANGED <<customDomain, status>>
    BY <1>1, <1>5 DEF StartJob, MayStart, rows
  <2>2. CASE running' = running
    BY <1>2, <2>1, <2>2
  <2>3. ASSUME NEW y, running' = running \cup {y}, y.step \in {"ask", "finish", "loadLink"}
        PROVE  Goal
    BY <1>3, <2>1, <2>3 DEF Looking
  <2> QED
    BY <2>1, <2>2, <2>3, LoadStarts
<1>6. ASSUME StartRefresh
      PROVE  Goal
  <2>1. running = {} /\ UNCHANGED <<customDomain, status>>
    BY <1>1, <1>6 DEF StartRefresh, MayStart, rows
  <2>2. PICK y : running' = running \cup {y} /\ y.step = "ask"
    BY <1>6, RefreshStarts
  <2> QED
    BY <1>3, <2>1, <2>2 DEF Looking
<1> QED
  BY <1>1, <1>2, <1>4, <1>5, <1>6
  DEF VerificationNext, Worker, Promote, Retry, Fail, Crash, MayFail, Register, Drift,
      RemoveIdentity, Reconcile, RemoveDomain, rows

-----------------------------------------------------------------------------
(* The checks of a Domain: the theorems.                                   *)

LEMMA ChecksBegin == VerificationInit => ChecksInv
<1> SUFFICES ASSUME VerificationInit
             PROVE  ChecksInv
  OBVIOUS
<1>0. PICK here \in Starts :
        /\ row = [i \in Identities |-> IF i \in here THEN Fresh ELSE Absent]
        /\ scheduled = [k \in CheckKeys |->
             IF k \in here \cup {Domain} \/ (k = Claim /\ "claim" \in meets)
             THEN 0 ELSE Absent]
  BY DEF VerificationInit
<1>1. VerificationTypeOK
  BY InitTyped
<1>2. /\ running = {} /\ ready = {} /\ delayed = {} /\ gone = {} /\ lost = {}
      /\ customDomain = Fresh /\ link = IF "claim" \in meets THEN Fresh ELSE Absent
  BY DEF VerificationInit
<1>3. Fresh.next = Absent /\ Fresh # Absent
  <2>1. Fresh \in Checks
    BY VerificationAssumption DEF Fresh, Checks, Status, Levels
  <2> QED
    BY <2>1, ChecksAssumption DEF Fresh
<1>4. 0 # Absent /\ Claim \in CheckKeys /\ Identities \subseteq CheckKeys
  BY VerificationAssumption, ChecksAssumption DEF Delays, CheckKeys
<1>5. (\A x \in running : Working(x)) /\ RowsStay /\ Alone
  BY <1>2, <1>3 DEF RowsStay, Alone
<1>6. Tokens
  BY <1>2 DEF Tokens, OneClaim
<1>7. LinkWaits
  BY <1>0, <1>2, <1>4 DEF LinkWaits, Waiting
<1>8. Forgotten
  <2>1. \A k \in Present : k \in CheckKeys /\ scheduled[k] = 0
    BY <1>0, <1>4 DEF Present
  <2> QED
    BY <1>4, <2>1 DEF Forgotten, Waiting
<1>9. InPace /\ InStatus
  BY <1>2, <1>3 DEF InPace, Late, InStatus
<1> QED
  BY <1>1, <1>5, <1>6, <1>7, <1>8, <1>9 DEF ChecksInv

LEMMA ChecksGoOn == ChecksInv /\ [VerificationNext]_verificationVars => ChecksInv'
<1> SUFFICES ASSUME ChecksInv, [VerificationNext]_verificationVars
             PROVE  ChecksInv'
  OBVIOUS
<1>1. CASE VerificationNext
  BY <1>1, NextTyped, NextWorking, NextRowsStay, NextAlone, NextTokens, NextLinkWaits,
     NextForgotten, NextInPace, NextInStatus DEF ChecksInv
<1>2. CASE UNCHANGED verificationVars
  <2>1. VerificationTypeOK' /\ (\A x \in running : Working(x))'
    BY <1>2 DEF ChecksInv, verificationVars, VerificationTypeOK, Working
  <2>2. RowsStay' /\ Alone' /\ Tokens'
    BY <1>2 DEF ChecksInv, verificationVars, RowsStay, Present, Alone, Tokens, OneClaim
  <2>3. LinkWaits' /\ Forgotten'
    BY <1>2 DEF ChecksInv, verificationVars, LinkWaits, ClaimsOverlap, Claiming, Pending, Waiting,
                Forgotten, Present
  <2>4. InPace'
    BY <1>2 DEF ChecksInv, verificationVars, InPace, MayPace, OnPace, Late, Chased, Scheduling, Present
  <2>5. InStatus'
    BY <1>2 DEF ChecksInv, verificationVars, InStatus, LooksWell, Looking, Recorded
  <2> QED
    BY <2>1, <2>2, <2>3, <2>4, <2>5 DEF ChecksInv
<1> QED
  BY <1>1, <1>2

LEMMA ChecksInductive == VerificationSpec => []ChecksInv
<1>1. VerificationInit => ChecksInv
  BY ChecksBegin
<1>2. ChecksInv /\ [VerificationNext]_verificationVars => ChecksInv'
  BY ChecksGoOn
<1> QED
  BY <1>1, <1>2, PTL DEF VerificationSpec

\* Every row that is there has its next check scheduled, waiting or at work, unless its
\* job was buried or its registration failed half way; and a claim until it is proved,
\* where one check of it is at work at a time.
THEOREM NoCheckForgotten == VerificationSpec => []ChecksContinue
<1>1. ChecksInv => ChecksContinue
  <2> SUFFICES ASSUME ChecksInv
               PROVE  ChecksContinue
    OBVIOUS
  <2>1. \A i \in Present \ lost : Waiting(i)
    BY DEF ChecksInv, Forgotten
  <2>2. (Present # {} /\ lost \cap (Present \cup {Domain}) = {}) =>
          \E k \in Present \cup {Domain} : Waiting(k)
    BY <2>1
  <2>3. (link # Absent /\ Claim \notin lost /\ ~ClaimsOverlap) =>
          link.status = "verified" \/ Waiting(Claim)
    BY DEF ChecksInv, LinkWaits
  <2> QED
    BY <2>1, <2>2, <2>3 DEF ChecksContinue
<1> QED
  BY <1>1, ChecksInductive, PTL

\* Between jobs the Domain's check is never scheduled later than its row says,
\* as long as no executions overlap, nobody refreshes the Domain's page, and
\* failures do not come together with removed identities (ChecksKeepPace).
THEOREM SoonerCadenceWins == VerificationSpec => []ChecksKeepPace
<1>1. ChecksInv => ChecksKeepPace
  <2> SUFFICES ASSUME ChecksInv, MayPace, Quiet, customDomain # Absent, Domain \notin lost,
                      scheduled[Domain] # Absent, customDomain.next # Absent
               PROVE  scheduled[Domain] <= customDomain.next
    BY DEF ChecksKeepPace, OnTime, MayPace
  <2>1. ~Chased
    BY DEF Chased, Quiet
  <2> QED
    BY <2>1 DEF ChecksInv, InPace, Late
<1> QED
  BY <1>1, ChecksInductive, PTL

\* The rows keep their types, and between jobs the Domain's status is what its records
\* say.
THEOREM StatusFollowsRecords == VerificationSpec => []VerificationInv
<1>1. ChecksInv => VerificationInv
  BY DEF ChecksInv, VerificationInv, StatusMatchesRecords, Quiet, InStatus, Recorded
<1> QED
  BY <1>1, ChecksInductive, PTL

-----------------------------------------------------------------------------
(* Acceptance and reports: the inductive invariant.                        *)

\* The steps of a request before it has reserved Usage.
Before == {"idle", "lookup", "expire", "sender", "recipients", "reserve"}
\* Those of a request that was answered or is being compensated.
After == {"release", "unstage", "done"}

\* A record that a request has read is that of an accepted Message.
Known(m, k) == m = Earlier \/ (m \in Committed /\ k # None /\ KeyOf[m] = k)

\* What is known of a request at each of its steps.
InStep(r) ==
  LET k == KeyOf[r]  step == request[r].step IN
  /\ r \in Committed => step \in After
  /\ step \in Before => usage[r] = "none" /\ r \notin files
  /\ step \in Open => Reserved(r)
  /\ step \in {"contacts", "conflict", "commit"} /\ r \in Attached => r \in files
  /\ request[r].found = None \/ Known(request[r].found, k)
  /\ answer[r] \in Requests => answer[r] \in Committed /\ KeyOf[answer[r]] = k
  /\ step = "expire" =>
       /\ k # None /\ Known(request[r].found, k)
       /\ (idem[k] # None /\ idem[k].message = request[r].found) => ~idem[k].live
  /\ step = "conflict" => k # None
  /\ (step = "commit" /\ k # None) => idem[k] = None

\* What the compensations have done, where they are not cut off.
Compensated(r) ==
  LET step == request[r].step IN
  "outages" \notin mode =>
    /\ r \in Committed => step = "done"
    /\ step = "unstage" => ~Reserved(r)
    /\ step = "done" /\ r \notin Committed /\ "interrupts" \notin mode =>
         ~Reserved(r) /\ r \notin files

\* The record of a key: the Message of its last era while it is live.
InRecord(k) ==
  /\ idem[k] # None => /\ Known(idem[k].message, k)
                       /\ idem[k].live => idem[k].message # Earlier
  /\ \A r \in Committed : KeyOf[r] = k =>
       /\ delivery[r].era <= era[k]
       /\ delivery[r].era = era[k] => idem[k] # None /\ idem[k].live /\ idem[k].message = r

\* One request at a time is about to commit a key.
OneWriter ==
  \A r, s \in Requests :
    (At(r, "commit") /\ At(s, "commit") /\ KeyOf[r] = KeyOf[s] /\ KeyOf[r] # None) => r = s

AcceptInv ==
  /\ AcceptTypeOK
  /\ \A r \in Requests : InStep(r) /\ Compensated(r)
  /\ \A k \in Keys : InRecord(k)
  /\ OneWriter
  /\ OneMessagePerKey
  /\ AcceptedCanBeSent

\* A notification has done to a recipient what it must.
Effect(n, c) == /\ n[2] = "bounced" => contact[c] = "all"
                /\ n[2] = "complained" => contact[c] \in {"marketing", "all"}

\* What is known of a notification, once it is answered, and of an execution of
\* its handler.
InNotice(n) == notice[n] # "none" => n[1] \in Committed /\ n[3] \subseteq delivery[n[1]].to
Answered(n) == (notice[n] = "answered" /\ n \notin early) =>
  n \in events /\ \A c \in n[3] : Effect(n, c)
InIngest(x) ==
  LET n == x.notice IN
  /\ n[1] \in Committed /\ n[3] \subseteq delivery[n[1]].to
  /\ x.step = "suppress" =>
       /\ n \in events /\ x.left \subseteq n[3]
       /\ \A c \in n[3] \ x.left : Effect(n, c)

IngestInv ==
  /\ notice \in [Notices -> {"none", "pending", "answered"}]
  /\ ingesting \subseteq Ingest /\ started \in 0..MaxIngests
  /\ events \subseteq Notices /\ early \subseteq Notices
  /\ \A r \in Committed : \A c \in delivery[r].to : contact[c] # "absent"
  /\ \A n \in Notices : InNotice(n) /\ Answered(n)
  /\ \A x \in ingesting : InIngest(x)

IInv == AcceptInv /\ IngestInv

-----------------------------------------------------------------------------
(* How a request goes on.                                                  *)

USE AcceptanceAssumption, NamesAssumption

\* What is known of a request, part by part.
LEMMA Parts ==
  ASSUME AcceptInv, NEW r \in Requests
  PROVE  /\ request[r] \in Progress /\ request[r].step \in Steps
         /\ request[r].found \in Requests \cup {Earlier, None}
         /\ request[r].to \in SUBSET Contacts /\ request[r].left \in SUBSET Contacts
         /\ request \in [Requests -> Progress]
         /\ answer \in [Requests -> Requests \cup Refusals \cup {None}]
         /\ idem \in [Keys -> Record \cup {None}]
         /\ usage \in [Requests -> {"none", "reserved", "confirmed", "released"}]
         /\ files \subseteq Attached
         /\ KeyOf[r] # None => KeyOf[r] \in Keys
         /\ InStep(r) /\ Compensated(r)
         /\ ~At(r, "done") /\ "outages" \notin mode => r \notin Committed
  BY DEF AcceptInv, AcceptTypeOK, Progress, Compensated, At

\* A request that becomes p, and the others as they were.
LEMMA Updated ==
  ASSUME request \in [Requests -> Progress], NEW r \in Requests, NEW p \in Progress,
         request' = [request EXCEPT ![r] = p]
  PROVE  /\ request' \in [Requests -> Progress] /\ request'[r] = p
         /\ \A s \in Requests \ {r} : request'[s] = request[s]
  OBVIOUS

LEMMA GoUpdate ==
  ASSUME AcceptInv, NEW r \in Requests, NEW step \in Steps, Go(r, step)
  PROVE  /\ request' \in [Requests -> Progress] /\ request'[r].step = step
         /\ request'[r].found = request[r].found
         /\ request'[r].to = request[r].to /\ request'[r].left = request[r].left
         /\ \A s \in Requests \ {r} : request'[s] = request[s]
<1>1. PICK p : p = [request[r] EXCEPT !.step = step]
  OBVIOUS
<1>2. request[r] \in Progress /\ request \in [Requests -> Progress]
  BY Parts
<1>3. /\ p \in Progress /\ p.step = step /\ p.found = request[r].found
      /\ p.to = request[r].to /\ p.left = request[r].left
  BY <1>1, <1>2 DEF Progress
<1>4. request' = [request EXCEPT ![r] = p]
  BY <1>1 DEF Go
<1>. QED
  BY <1>2, <1>3, <1>4, Updated

LEMMA EndUpdate ==
  ASSUME AcceptInv, NEW r \in Requests, NEW a \in Requests \cup Refusals, End(r, a)
  PROVE  /\ request' \in [Requests -> Progress] /\ request'[r].step = "done"
         /\ request'[r].found = request[r].found
         /\ answer' \in [Requests -> Requests \cup Refusals \cup {None}] /\ answer'[r] = a
         /\ \A s \in Requests \ {r} : request'[s] = request[s] /\ answer'[s] = answer[s]
<1>1. PICK p : p = [request[r] EXCEPT !.step = "done", !.left = {}]
  OBVIOUS
<1>2. /\ request[r] \in Progress /\ request \in [Requests -> Progress]
      /\ answer \in [Requests -> Requests \cup Refusals \cup {None}]
  BY Parts
<1>3. "done" \in Steps
  BY DEF Steps
<1>4. p \in Progress /\ p.step = "done" /\ p.found = request[r].found
  <2>1. PICK q : q = [request[r] EXCEPT !.step = "done"]
    OBVIOUS
  <2>2. q \in Progress /\ q.step = "done" /\ q.found = request[r].found
    BY <1>2, <1>3, <2>1 DEF Progress
  <2>3. p = [q EXCEPT !.left = {}]
    BY <1>1, <1>2, <2>1 DEF Progress
  <2>. QED BY <2>2, <2>3 DEF Progress
<1>5. request' = [request EXCEPT ![r] = p] /\ answer' = [answer EXCEPT ![r] = a]
  BY <1>1 DEF End
<1>6. /\ request' \in [Requests -> Progress] /\ request'[r] = p
      /\ \A s \in Requests \ {r} : request'[s] = request[s]
  BY <1>2, <1>4, <1>5, Updated
<1>. QED
  BY <1>2, <1>4, <1>5, <1>6

\* A request that reads a record, or gives up with what it has read.
LEMMA ReadUpdate ==
  ASSUME AcceptInv, NEW r \in Requests, NEW step \in Steps,
         NEW m \in Requests \cup {Earlier, None},
         NEW p, p = [request[r] EXCEPT !.step = step, !.found = m],
         request' = [request EXCEPT ![r] = p]
  PROVE  /\ request' \in [Requests -> Progress] /\ request'[r].step = step
         /\ request'[r].found = m
         /\ \A s \in Requests \ {r} : request'[s] = request[s]
<1>2. request[r] \in Progress /\ request \in [Requests -> Progress]
  BY Parts
<1>3. p \in Progress /\ p.step = step /\ p.found = m
  <2>1. PICK q : q = [request[r] EXCEPT !.step = step]
    OBVIOUS
  <2>2. q \in Progress /\ q.step = step
    BY <1>2, <2>1 DEF Progress
  <2>3. p = [q EXCEPT !.found = m]
    BY <1>2, <2>1 DEF Progress
  <2>. QED BY <2>2, <2>3 DEF Progress
<1>. QED
  BY <1>2, <1>3, Updated

\* Steps are told apart.
LEMMA StepsApart ==
  /\ Before \subseteq Steps /\ Open \subseteq Steps /\ After \subseteq Steps
  /\ Before \cap Open = {} /\ Before \cap After = {} /\ Open \cap After = {}
  /\ "commit" \in Open /\ {"contacts", "conflict", "commit"} \subseteq Open
  /\ "done" \in After /\ "expire" \in Before
  BY DEF Before, Open, After, Steps

\* A request that changes nothing but itself, its Usage and its files keeps
\* the invariant when what is known of it still holds.
LEMMA Moves ==
  ASSUME AcceptInv, AcceptTypeOK', NEW r \in Requests, ~At(r, "done"),
         UNCHANGED <<mode, era, idem, delivery>>,
         \A s \in Requests \ {r} :
           request'[s] = request[s] /\ answer'[s] = answer[s] /\ usage'[s] = usage[s]
           /\ (s \in files' <=> s \in files),
         InStep(r)', Compensated(r)',
         At(r, "commit")' /\ KeyOf[r] # None => ~KeyTaken(KeyOf[r]) \/ At(r, "commit")
  PROVE  AcceptInv'
<1>1. Committed' = Committed
  BY DEF Committed
<1>2. ASSUME NEW s \in Requests, s # r PROVE InStep(s)' /\ Compensated(s)'
  <2>1. InStep(s) /\ Compensated(s)
    BY Parts
  <2>2. \A m, k : Known(m, k)' = Known(m, k)
    BY <1>1 DEF Known
  <2>. QED BY <1>1, <1>2, <2>1, <2>2 DEF InStep, Compensated, Reserved
<1>3. \A k \in Keys : InRecord(k)'
  <2>1. \A m, k : Known(m, k)' = Known(m, k)
    BY <1>1 DEF Known
  <2>2. \A k \in Keys : InRecord(k)
    BY DEF AcceptInv
  <2>. QED BY <1>1, <2>1, <2>2 DEF InRecord
<1>4. OneWriter'
  BY DEF AcceptInv, OneWriter, At, KeyTaken
<1>5. OneMessagePerKey'
  BY <1>1 DEF AcceptInv, OneMessagePerKey
<1>6. AcceptedCanBeSent'
  <2>1. "outages" \notin mode => r \notin Committed
    BY Parts
  <2>2. ASSUME "outages" \notin mode, NEW s \in Committed, delivery[s].status = "queued"
        PROVE  Reserved(s)' /\ (s \in Attached => s \in files')
    <3>1. s \in Requests \ {r}
      BY <2>1, <2>2 DEF Committed
    <3>2. Reserved(s) /\ (s \in Attached => s \in files)
      BY <2>2 DEF AcceptInv, AcceptedCanBeSent
    <3>. QED BY <3>1, <3>2 DEF Reserved
  <2>. QED BY <1>1, <2>2 DEF AcceptedCanBeSent
<1>. QED
  BY <1>2, <1>3, <1>4, <1>5, <1>6 DEF AcceptInv

-----------------------------------------------------------------------------
(* Requests that end, go on or are rolled back.                            *)

\* What a request knows does not change while no row does.
LEMMA KnownStays ==
  ASSUME UNCHANGED delivery
  PROVE  Committed' = Committed /\ \A m, k : Known(m, k)' = Known(m, k)
  BY DEF Committed, Known

\* A request is refused; where nothing is cut off it holds nothing.
LEMMA EndKeeps ==
  ASSUME AcceptInv, NEW r \in Requests, ~At(r, "done"),
         NEW a \in Requests \cup Refusals, End(r, a),
         UNCHANGED <<mode, domain, contact, era, idem, delivery>>,
         usage' \in [Requests -> {"none", "reserved", "confirmed", "released"}],
         files' \subseteq Attached,
         \A s \in Requests \ {r} : usage'[s] = usage[s] /\ (s \in files' <=> s \in files),
         a \in Requests => a \in Committed /\ KeyOf[a] = KeyOf[r],
         mode \cap {"outages", "interrupts"} = {} => usage'[r] # "reserved" /\ r \notin files'
  PROVE  AcceptInv'
<1>1. /\ request' \in [Requests -> Progress] /\ request'[r].step = "done"
      /\ request'[r].found = request[r].found
      /\ answer' \in [Requests -> Requests \cup Refusals \cup {None}] /\ answer'[r] = a
      /\ \A s \in Requests \ {r} : request'[s] = request[s] /\ answer'[s] = answer[s]
  BY EndUpdate
<1>2. AcceptTypeOK'
  BY <1>1 DEF AcceptInv, AcceptTypeOK
<1>3. /\ Committed' = Committed /\ \A m, k : Known(m, k)' = Known(m, k)
      /\ InStep(r) /\ Compensated(r)
  BY KnownStays, Parts
<1>4. request'[r].step \in After /\ request'[r].step \notin Before \cup Open
  BY <1>1, StepsApart
<1>5. InStep(r)'
  BY <1>1, <1>3, <1>4, StepsApart DEF InStep
<1>6. Compensated(r)'
  BY <1>1, <1>3 DEF Compensated, Reserved
<1>7. ~At(r, "commit")'
  BY <1>1 DEF At
<1>. QED
  BY <1>1, <1>2, <1>5, <1>6, <1>7, Moves

\* A request goes on to a step after which nothing more is known of it.
LEMMA GoKeeps ==
  ASSUME AcceptInv, NEW r \in Requests, ~At(r, "done"), NEW step \in Steps, Go(r, step),
         UNCHANGED <<mode, domain, contact, era, idem, delivery, answer>>,
         usage' \in [Requests -> {"none", "reserved", "confirmed", "released"}],
         files' \subseteq Attached,
         \A s \in Requests \ {r} : usage'[s] = usage[s] /\ (s \in files' <=> s \in files),
         InStep(r)', Compensated(r)',
         step = "commit" /\ KeyOf[r] # None => ~KeyTaken(KeyOf[r])
  PROVE  AcceptInv'
<1>1. /\ request' \in [Requests -> Progress] /\ request'[r].step = step
      /\ \A s \in Requests \ {r} : request'[s] = request[s]
  BY GoUpdate
<1>2. AcceptTypeOK'
  BY <1>1 DEF AcceptInv, AcceptTypeOK
<1>3. At(r, "commit")' => step = "commit"
  BY <1>1 DEF At
<1>. QED
  BY <1>1, <1>2, <1>3, Moves

\* Within the steps before it reserves, and within the transaction.
LEMMA GoWithin ==
  ASSUME AcceptInv, NEW r \in Requests, NEW step \in Steps, Go(r, step),
         UNCHANGED <<mode, domain, contact, era, idem, delivery, answer, usage, files>>,
         \/ request[r].step \in Before /\ step \in Before \ {"expire"}
         \/ /\ request[r].step \in Open /\ step \in Open
            /\ step \in {"contacts", "conflict", "commit"} /\ r \in Attached => r \in files
            /\ step = "conflict" => KeyOf[r] # None
            /\ step = "commit" /\ KeyOf[r] # None =>
                 idem[KeyOf[r]] = None /\ ~KeyTaken(KeyOf[r])
  PROVE  AcceptInv'
<1>1. request'[r].step = step /\ request'[r].found = request[r].found
  BY GoUpdate
<1>2. /\ Committed' = Committed /\ \A m, k : Known(m, k)' = Known(m, k)
      /\ InStep(r) /\ Compensated(r) /\ files \subseteq Attached
      /\ usage \in [Requests -> {"none", "reserved", "confirmed", "released"}]
  BY KnownStays, Parts
<1>3. request[r].step \notin After /\ step \notin After /\ step # "expire" /\ ~At(r, "done")
  BY StepsApart DEF At
<1>4. r \notin Committed
  BY <1>2, <1>3 DEF InStep
<1>5. InStep(r)'
  BY <1>1, <1>2, <1>3, <1>4, StepsApart DEF InStep, Reserved
<1>6. Compensated(r)'
  BY <1>1, <1>2, <1>3, <1>4, StepsApart DEF Compensated, After
<1>7. step = "commit" /\ KeyOf[r] # None => ~KeyTaken(KeyOf[r])
  BY StepsApart
<1>. QED
  BY <1>2, <1>3, <1>5, <1>6, <1>7, GoKeeps

\* A transaction is rolled back; a file may be left to delete.
LEMMA AbortKeeps ==
  ASSUME AcceptInv, NEW r \in Requests, NEW m \in Requests \cup {Earlier, None}, Abort(r, m),
         request[r].step \in Open, m = None \/ Known(m, KeyOf[r]),
         UNCHANGED <<mode, domain, contact, era, idem, delivery, answer, usage>>,
         files' \subseteq Attached, \A s \in Requests \ {r} : s \in files' <=> s \in files
  PROVE  AcceptInv'
<1>0. "release" \in Steps /\ "release" \in After
  BY DEF Steps, After
<1>1. /\ request' \in [Requests -> Progress] /\ request'[r].step = "release"
      /\ request'[r].found = m /\ \A s \in Requests \ {r} : request'[s] = request[s]
  <2>1. PICK step : step = "release"
    OBVIOUS
  <2>2. PICK p : p = [request[r] EXCEPT !.step = step, !.found = m]
    OBVIOUS
  <2>3. request' = [request EXCEPT ![r] = p]
    BY <2>1, <2>2 DEF Abort
  <2>4. step \in Steps
    BY <1>0, <2>1
  <2>5. /\ request' \in [Requests -> Progress] /\ request'[r].step = step
        /\ request'[r].found = m /\ \A s \in Requests \ {r} : request'[s] = request[s]
    BY <2>2, <2>3, <2>4, ReadUpdate
  <2>. QED BY <2>1, <2>5
<1>2. /\ Committed' = Committed /\ \A n, k : Known(n, k)' = Known(n, k)
      /\ InStep(r) /\ Compensated(r)
  BY KnownStays, Parts
<1>3. AcceptTypeOK'
  BY <1>1 DEF AcceptInv, AcceptTypeOK
<1>4. request[r].step \notin After /\ request'[r].step \notin Open \cup Before /\ ~At(r, "done")
  BY <1>0, <1>1, StepsApart DEF At
<1>5. r \notin Committed
  BY <1>2, <1>4 DEF InStep
<1>6. InStep(r)' /\ Compensated(r)' /\ ~At(r, "commit")'
  BY <1>1, <1>2, <1>4, <1>5, StepsApart DEF InStep, Compensated, At
<1>. QED
  BY <1>1, <1>3, <1>4, <1>6, Moves

-----------------------------------------------------------------------------
(* The steps of a request that write no shared row.                        *)

\* A request that has reserved nothing holds nothing.
LEMMA NothingYet ==
  ASSUME AcceptInv, NEW r \in Requests, request[r].step \in Before
  PROVE  /\ usage[r] # "reserved" /\ r \notin files /\ r \notin Committed /\ ~At(r, "done")
         /\ usage \in [Requests -> {"none", "reserved", "confirmed", "released"}]
         /\ files \subseteq Attached
<1>1. usage[r] = "none" /\ r \notin files /\ request[r].step \notin After
  BY Parts, StepsApart DEF InStep
<1>. QED
  BY <1>1, Parts, StepsApart DEF InStep, At

LEMMA RefusedBefore ==
  ASSUME AcceptInv, NEW r \in Requests, request[r].step \in Before,
         NEW a \in Refusals, End(r, a),
         UNCHANGED <<world, contact, idem, usage, files, delivery>>
  PROVE  AcceptInv'
<1>1. a \notin Requests
  OBVIOUS
<1>. QED
  BY <1>1, NothingYet, EndKeeps DEF world

LEMMA BeforeKeeps ==
  ASSUME AcceptInv, NEW r \in Requests,
         \/ Receive(r) \/ PrepareEmailContent(r) \/ ResolveEmailSender(r)
         \/ ResolveEmailAttachments(r) \/ LookupFails(r)
  PROVE  AcceptInv'
<1>0. /\ {"lookup", "recipients"} \subseteq Before \ {"expire"} /\ {"lookup", "recipients"} \subseteq Steps
      /\ {"rejected", "failed"} \subseteq Refusals
  BY DEF Before, Steps, Refusals
<1>1. request[r].step \in Before
  BY DEF Receive, PrepareEmailContent, ResolveEmailSender, ResolveEmailAttachments, LookupFails, At, Before
<1>2. UNCHANGED <<world, contact, idem, usage, files, delivery>>
  BY DEF Receive, PrepareEmailContent, ResolveEmailSender, ResolveEmailAttachments, LookupFails
<1>3. ASSUME NEW a \in {"rejected", "failed"}, End(r, a) PROVE AcceptInv'
  BY <1>0, <1>1, <1>2, <1>3, RefusedBefore
<1>4. ASSUME NEW step \in {"lookup", "recipients"}, Go(r, step), UNCHANGED answer PROVE AcceptInv'
  BY <1>0, <1>1, <1>2, <1>4, GoWithin DEF world
<1>. QED
  BY <1>3, <1>4 DEF Receive, PrepareEmailContent, ResolveEmailSender, ResolveEmailAttachments, LookupFails

LEMMA FindKeeps ==
  ASSUME AcceptInv, NEW r \in Requests, FindMessageReplay(r)
  PROVE  AcceptInv'
<1>. DEFINE k == KeyOf[r]
<1>0. /\ request[r].step = "lookup" /\ request[r].step \in Before
      /\ UNCHANGED <<mode, domain, era, contact, idem, usage, files, delivery>>
      /\ "sender" \in Before \ {"expire"} /\ {"sender", "expire"} \subseteq Steps
  BY DEF FindMessageReplay, At, Before, Steps, world
<1>1. CASE Go(r, "sender") /\ UNCHANGED answer
  BY <1>0, <1>1, GoWithin
<1>2. ASSUME k # None, idem[k] # None PROVE AcceptInv'
  <2>1. /\ k \in Keys /\ idem[k] \in Record /\ Known(idem[k].message, k)
        /\ idem[k].message \in Requests \cup {Earlier}
    BY <1>2, Parts DEF AcceptInv, InRecord, Record
  <2>2. ASSUME idem[k].live, idem[k].message \in Committed, End(r, idem[k].message)
        PROVE  AcceptInv'
    <3>1. idem[k].message # Earlier /\ KeyOf[idem[k].message] = k
      BY <2>1, <2>2 DEF Known, Committed
    <3>2. idem[k].message \in Requests
      BY <2>1, <3>1
    <3>. QED BY <1>0, <2>2, <3>1, <3>2, NothingYet, EndKeeps
  <2>3. ASSUME NEW step \in {"sender", "expire"}, step = "expire" <=> ~idem[k].live,
               request' = [request EXCEPT ![r] = [@ EXCEPT !.step = step, !.found = idem[k].message]],
               UNCHANGED answer
        PROVE  AcceptInv'
    <3>1. /\ request' \in [Requests -> Progress] /\ request'[r].step = step
          /\ request'[r].found = idem[k].message /\ \A s \in Requests \ {r} : request'[s] = request[s]
      <4>1. PICK p : p = [request[r] EXCEPT !.step = step, !.found = idem[k].message]
        OBVIOUS
      <4>2. request' = [request EXCEPT ![r] = p] /\ step \in Steps
        BY <1>0, <2>3, <4>1
      <4>3. PICK m \in Requests \cup {Earlier, None} : m = idem[k].message
        BY <2>1
      <4>. QED BY <4>1, <4>2, <4>3, ReadUpdate, ZenonT(40)
    <3>2. /\ Committed' = Committed /\ \A n, j : Known(n, j)' = Known(n, j)
          /\ InStep(r) /\ Compensated(r) /\ r \notin Committed /\ ~At(r, "done")
      BY <1>0, KnownStays, Parts, NothingYet
    <3>3. AcceptTypeOK'
      BY <1>0, <2>3, <3>1 DEF AcceptInv, AcceptTypeOK
    <3>4. step \in Before /\ step \notin Open \cup After
      BY StepsApart DEF Before, Open, After
    <3>5. InStep(r)'
      BY <1>0, <1>2, <2>1, <2>3, <3>1, <3>2, <3>4, StepsApart DEF InStep
    <3>6. Compensated(r)' /\ ~At(r, "commit")'
      BY <3>1, <3>2, <2>3 DEF Compensated, At
    <3>. QED BY <1>0, <2>3, <3>1, <3>2, <3>3, <3>5, <3>6, Moves
  <2>4. \/ idem[k].live /\ idem[k].message \in Committed /\ End(r, idem[k].message)
        \/ /\ request' = [request EXCEPT ![r] =
                [@ EXCEPT !.step = IF idem[k].live THEN "sender" ELSE "expire",
                          !.found = idem[k].message]]
           /\ UNCHANGED answer
        \/ Go(r, "sender") /\ UNCHANGED answer
    BY <1>2 DEF FindMessageReplay
  <2>5. CASE /\ request' = [request EXCEPT ![r] =
                   [@ EXCEPT !.step = IF idem[k].live THEN "sender" ELSE "expire",
                             !.found = idem[k].message]]
             /\ UNCHANGED answer
    <3>1. idem[k].live \in BOOLEAN
      BY <2>1 DEF Record
    <3>2. PICK step \in {"sender", "expire"} :
            /\ step = IF idem[k].live THEN "sender" ELSE "expire"
            /\ step = "expire" <=> ~idem[k].live
      BY <3>1
    <3>. QED BY <2>3, <2>5, <3>2
  <2>. QED BY <1>1, <2>2, <2>4, <2>5
<1>. QED
  BY <1>1, <1>2 DEF FindMessageReplay

LEMMA FilterKeeps ==
  ASSUME AcceptInv, NEW r \in Requests, FilterSuppressedContacts(r)
  PROVE  AcceptInv'
<1>. DEFINE kept == {c \in To[r] : contact[c] # "all"}
<1>0. /\ request[r].step \in Before /\ "rejected" \in Refusals /\ "reserve" \in Steps
      /\ UNCHANGED <<world, contact, idem, usage, files, delivery>>
      /\ kept \in SUBSET Contacts
  BY DEF FilterSuppressedContacts, At, Before, Refusals, Steps
<1>1. CASE End(r, "rejected")
  BY <1>0, <1>1, RefusedBefore
<1>2. ASSUME request' = [request EXCEPT ![r] =
               [@ EXCEPT !.step = "reserve", !.to = kept, !.left = kept]],
             UNCHANGED answer
      PROVE  AcceptInv'
  <2>. HIDE DEF kept
  <2>1. PICK p : p = [request[r] EXCEPT !.step = "reserve", !.to = kept, !.left = kept]
    OBVIOUS
  <2>2. /\ request[r] \in Progress /\ request \in [Requests -> Progress]
        /\ InStep(r) /\ Compensated(r) /\ r \notin Committed /\ ~At(r, "done")
    BY <1>0, Parts, NothingYet
  <2>3. p \in Progress /\ p.step = "reserve" /\ p.found = request[r].found
    <3>1. PICK u : u = [request[r] EXCEPT !.step = "reserve"]
      OBVIOUS
    <3>2. PICK v : v = [u EXCEPT !.to = kept]
      OBVIOUS
    <3>3. u \in Progress /\ u.step = "reserve" /\ u.found = request[r].found
      BY <1>0, <2>2, <3>1 DEF Progress
    <3>4. v \in Progress /\ v.step = "reserve" /\ v.found = request[r].found
      BY <1>0, <3>2, <3>3 DEF Progress
    <3>5. p = [v EXCEPT !.left = kept]
      BY <2>1, <2>2, <3>1, <3>2 DEF Progress
    <3>. QED BY <1>0, <3>4, <3>5 DEF Progress
  <2>4. request' = [request EXCEPT ![r] = p]
    BY <1>2, <2>1
  <2>5. /\ request' \in [Requests -> Progress] /\ request'[r] = p
        /\ \A s \in Requests \ {r} : request'[s] = request[s]
    BY <2>2, <2>3, <2>4, Updated
  <2>6. AcceptTypeOK'
    BY <1>0, <1>2, <2>5 DEF AcceptInv, AcceptTypeOK, world
  <2>7. /\ Committed' = Committed /\ \A n, j : Known(n, j)' = Known(n, j)
    BY <1>0, KnownStays
  <2>8. "reserve" \in Before /\ "reserve" \notin Open \cup After
    BY DEF Before, Open, After
  <2>9. InStep(r)' /\ Compensated(r)' /\ ~At(r, "commit")'
    BY <1>0, <1>2, <2>2, <2>3, <2>5, <2>7, <2>8, StepsApart DEF InStep, Compensated, world, At
  <2>. QED BY <1>0, <1>2, <2>2, <2>5, <2>6, <2>9, Moves DEF world
<1>. QED
  BY <1>1, <1>2 DEF FilterSuppressedContacts

LEMMA ReserveKeeps ==
  ASSUME AcceptInv, NEW r \in Requests, ReserveUsage(r)
  PROVE  AcceptInv'
<1>0. /\ request[r].step \in Before /\ {"limited", "failed"} \subseteq Refusals
      /\ "insert" \in Steps /\ "insert" \in Open
      /\ UNCHANGED <<mode, domain, era, contact, idem, files, delivery>>
  BY DEF ReserveUsage, At, Before, Refusals, Steps, Open, world
<1>1. /\ r \notin files /\ r \notin Committed /\ ~At(r, "done") /\ files \subseteq Attached
      /\ usage \in [Requests -> {"none", "reserved", "confirmed", "released"}]
      /\ InStep(r) /\ Compensated(r)
  BY <1>0, NothingYet, Parts
<1>2. CASE End(r, "limited") /\ UNCHANGED usage
  BY <1>0, <1>2, RefusedBefore DEF world
<1>3. ASSUME usage' = [usage EXCEPT ![r] = "reserved"] PROVE
        (Go(r, "insert") /\ UNCHANGED answer) \/ ("outages" \in mode /\ End(r, "failed")) => AcceptInv'
  <2>1. /\ usage' \in [Requests -> {"none", "reserved", "confirmed", "released"}]
        /\ usage'[r] = "reserved" /\ \A s \in Requests \ {r} : usage'[s] = usage[s]
    BY <1>1, <1>3
  <2>2. CASE "outages" \in mode /\ End(r, "failed")
    <3>1. "failed" \notin Requests /\ mode \cap {"outages", "interrupts"} # {}
      BY <1>0, <2>2
    <3>. QED BY <1>0, <1>1, <2>1, <2>2, <3>1, EndKeeps
  <2>3. CASE Go(r, "insert") /\ UNCHANGED answer
    <3>1. request'[r].step = "insert" /\ request'[r].found = request[r].found
      BY <1>0, <2>3, GoUpdate
    <3>2. /\ Committed' = Committed /\ \A m, k : Known(m, k)' = Known(m, k)
      BY <1>0, KnownStays
    <3>3. "insert" \notin {"contacts", "conflict", "commit", "done", "unstage", "expire"}
      OBVIOUS
    <3>4. InStep(r)' /\ Compensated(r)'
      BY <1>0, <1>1, <2>1, <2>3, <3>1, <3>2, <3>3, StepsApart DEF InStep, Reserved, Compensated
    <3>. QED BY <1>0, <1>1, <2>1, <2>3, <3>3, <3>4, GoKeeps
  <2>. QED BY <2>2, <2>3
<1>. QED
  BY <1>2, <1>3 DEF ReserveUsage

LEMMA InsertKeeps ==
  ASSUME AcceptInv, NEW r \in Requests, InsertDelivery(r)
  PROVE  AcceptInv'
<1>0. /\ request[r].step \in Open /\ "upload" \in Open /\ "upload" \in Steps
      /\ UNCHANGED <<mode, domain, era, contact, answer, idem, usage, files, delivery>>
      /\ "upload" \notin {"contacts", "conflict", "commit"} /\ files \subseteq Attached
  BY Parts DEF InsertDelivery, At, Open, Steps, world
<1>1. CASE Go(r, "upload")
  BY <1>0, <1>1, GoWithin
<1>2. CASE Abort(r, None)
  BY <1>0, <1>2, AbortKeeps
<1>. QED
  BY <1>1, <1>2 DEF InsertDelivery

LEMMA StageKeeps ==
  ASSUME AcceptInv, NEW r \in Requests, StageEmailAttachments(r)
  PROVE  AcceptInv'
<1>0. /\ request[r].step \in Open /\ "contacts" \in Open /\ "contacts" \in Steps
      /\ UNCHANGED <<mode, domain, era, contact, answer, idem, usage, delivery>>
      /\ files \subseteq Attached /\ request[r].step = "upload" /\ ~At(r, "done")
      /\ "contacts" \notin After \cup Before
  BY Parts DEF StageEmailAttachments, At, Open, Steps, After, Before, world
<1>1. /\ r \in Attached => files' \subseteq Attached
      /\ files' = files \/ files' = files \cup {r}
      /\ \A s \in Requests \ {r} : s \in files' <=> s \in files
  BY <1>0 DEF StageEmailAttachments
<1>2. CASE r \notin Attached
  BY <1>0, <1>2, GoWithin DEF StageEmailAttachments
<1>3. CASE r \in Attached /\ Abort(r, None)
  BY <1>0, <1>1, <1>3, AbortKeeps
<1>4. CASE r \in Attached /\ Go(r, "contacts") /\ files' = files \cup {r}
  <2>1. request'[r].step = "contacts" /\ request'[r].found = request[r].found
    BY <1>0, <1>4, GoUpdate
  <2>2. /\ Committed' = Committed /\ \A m, k : Known(m, k)' = Known(m, k)
        /\ InStep(r) /\ Compensated(r)
        /\ usage \in [Requests -> {"none", "reserved", "confirmed", "released"}]
    BY <1>0, KnownStays, Parts
  <2>3. r \notin Committed /\ Reserved(r)
    BY <1>0, <2>2, StepsApart DEF InStep
  <2>4. InStep(r)'
    BY <1>0, <1>4, <2>1, <2>2, <2>3 DEF InStep, Reserved
  <2>5. Compensated(r)'
    BY <1>0, <2>1, <2>2, <2>3 DEF Compensated
  <2>6. \A s \in Requests \ {r} : usage'[s] = usage[s] /\ (s \in files' <=> s \in files)
    BY <1>0, <1>1
  <2>7. usage' \in [Requests -> {"none", "reserved", "confirmed", "released"}] /\ files' \subseteq Attached
    BY <1>0, <1>1, <1>4, <2>2
  <2>. QED BY <1>0, <1>4, <2>4, <2>5, <2>6, <2>7, GoKeeps
<1>. QED
  BY <1>2, <1>3, <1>4 DEF StageEmailAttachments

LEMMA UpsertKeeps ==
  ASSUME AcceptInv, NEW r \in Requests, NEW c \in Contacts, UpsertMessageContact(r, c)
  PROVE  AcceptInv'
<1>0. /\ request[r].step = "contacts" /\ ~At(r, "done")
      /\ UNCHANGED <<mode, domain, era, contact, answer, idem, usage, files, delivery>>
      /\ request' = [request EXCEPT ![r].left = request[r].left \ {c}]
  BY DEF UpsertMessageContact, At, world
<1>1. /\ request[r] \in Progress /\ request \in [Requests -> Progress] /\ InStep(r) /\ Compensated(r)
  BY Parts
<1>2. PICK p : p = [request[r] EXCEPT !.left = request[r].left \ {c}]
  OBVIOUS
<1>3. p \in Progress /\ p.step = request[r].step /\ p.found = request[r].found
  BY <1>1, <1>2 DEF Progress
<1>4. /\ request' \in [Requests -> Progress] /\ request'[r] = p
      /\ \A s \in Requests \ {r} : request'[s] = request[s]
  <2>1. request' = [request EXCEPT ![r] = p]
    BY <1>0, <1>2
  <2>. QED BY <1>1, <1>3, <2>1, Updated
<1>5. AcceptTypeOK'
  BY <1>0, <1>4 DEF AcceptInv, AcceptTypeOK
<1>6. /\ Committed' = Committed /\ \A m, k : Known(m, k)' = Known(m, k)
  BY <1>0, KnownStays
<1>7. InStep(r)' /\ Compensated(r)' /\ ~At(r, "commit")'
  BY <1>0, <1>1, <1>3, <1>4, <1>6 DEF InStep, Compensated, Reserved, At
<1>. QED
  BY <1>0, <1>4, <1>5, <1>7, Moves

LEMMA RecordKeeps ==
  ASSUME AcceptInv, NEW r \in Requests, RecordMessageIdempotency(r)
  PROVE  AcceptInv'
<1>0. /\ request[r].step = "contacts" /\ {"contacts", "conflict", "commit"} \subseteq Open \cap Steps
      /\ UNCHANGED <<mode, domain, era, contact, answer, idem, usage, files, delivery>>
  BY DEF RecordMessageIdempotency, At, Open, Steps, world
<1>1. r \in Attached => r \in files
  BY <1>0, Parts DEF InStep
<1>2. CASE Go(r, "conflict") /\ KeyOf[r] # None
  BY <1>0, <1>1, <1>2, GoWithin
<1>3. CASE Go(r, "commit") /\ (KeyOf[r] # None => idem[KeyOf[r]] = None /\ ~KeyTaken(KeyOf[r]))
  BY <1>0, <1>1, <1>3, GoWithin
<1>. QED
  BY <1>2, <1>3 DEF RecordMessageIdempotency

LEMMA ConflictKeeps ==
  ASSUME AcceptInv, NEW r \in Requests,
         FindConflictingRecord(r) \/ TransactionFails(r) \/ DeadlockVictim(r)
  PROVE  AcceptInv'
<1>. DEFINE k == KeyOf[r]
<1>0. /\ request[r].step \in Open /\ files \subseteq Attached
      /\ UNCHANGED <<mode, domain, era, contact, answer, idem, usage, files, delivery>>
  BY Parts DEF FindConflictingRecord, TransactionFails, DeadlockVictim, Awaits, At, Open, world
<1>1. CASE Abort(r, None)
  BY <1>0, <1>1, AbortKeeps
<1>2. ASSUME k \in Keys, idem[k] # None, Abort(r, idem[k].message) PROVE AcceptInv'
  <2>1. /\ idem[k] \in Record /\ Known(idem[k].message, k)
    BY <1>2, Parts DEF AcceptInv, InRecord
  <2>2. idem[k].message \in Requests \cup {Earlier, None}
    BY <2>1 DEF Record
  <2>. QED BY <1>0, <1>2, <2>1, <2>2, AbortKeeps
<1>3. ASSUME k \notin Keys, At(r, "conflict") PROVE AcceptInv'
  BY <1>3, Parts DEF InStep, At
<1>. QED
  BY <1>1, <1>2, <1>3 DEF FindConflictingRecord, TransactionFails, DeadlockVictim

LEMMA ReleaseKeeps ==
  ASSUME AcceptInv, NEW r \in Requests, ReleaseUsage(r)
  PROVE  AcceptInv'
<1>0. /\ request[r].step = "release" /\ ~At(r, "done") /\ "unstage" \in Steps
      /\ UNCHANGED <<mode, domain, era, contact, answer, idem, files, delivery>>
      /\ Go(r, "unstage") /\ "unstage" \in After
  BY DEF ReleaseUsage, At, Steps, After, world
<1>1. /\ usage \in [Requests -> {"none", "reserved", "confirmed", "released"}]
      /\ files \subseteq Attached /\ InStep(r) /\ Compensated(r)
      /\ "outages" \notin mode => r \notin Committed
  BY <1>0, Parts
<1>2. /\ usage' \in [Requests -> {"none", "reserved", "confirmed", "released"}]
      /\ \A s \in Requests \ {r} : usage'[s] = usage[s]
      /\ "outages" \notin mode => usage'[r] # "reserved"
  BY <1>1 DEF ReleaseUsage
<1>3. request'[r].step = "unstage" /\ request'[r].found = request[r].found
  BY <1>0, GoUpdate
<1>4. /\ Committed' = Committed /\ \A m, k : Known(m, k)' = Known(m, k)
  BY <1>0, KnownStays
<1>5. InStep(r)'
  BY <1>0, <1>1, <1>3, <1>4, StepsApart DEF InStep
<1>6. Compensated(r)'
  BY <1>0, <1>1, <1>2, <1>3, <1>4 DEF Compensated, Reserved
<1>. QED
  BY <1>0, <1>1, <1>2, <1>5, <1>6, GoKeeps

LEMMA UnstageKeeps ==
  ASSUME AcceptInv, NEW r \in Requests, DeleteStagedAttachments(r)
  PROVE  AcceptInv'
<1>0. /\ request[r].step = "unstage" /\ ~At(r, "done") /\ "failed" \in Refusals
      /\ UNCHANGED <<mode, domain, era, contact, idem, usage, delivery>>
  BY DEF DeleteStagedAttachments, At, Refusals, world
<1>1. /\ usage \in [Requests -> {"none", "reserved", "confirmed", "released"}]
      /\ files \subseteq Attached /\ InStep(r) /\ Compensated(r)
  BY Parts
<1>2. /\ files' \subseteq Attached /\ \A s \in Requests \ {r} : s \in files' <=> s \in files
      /\ "outages" \notin mode => r \notin files' /\ usage'[r] # "reserved"
  BY <1>0, <1>1 DEF DeleteStagedAttachments, Compensated, Reserved
<1>3. CASE request[r].found \in Committed /\ End(r, request[r].found)
  <2>1. Known(request[r].found, KeyOf[r]) /\ request[r].found \in Requests
    BY <1>1, <1>3 DEF InStep, Committed
  <2>2. KeyOf[request[r].found] = KeyOf[r]
    BY <2>1 DEF Known
  <2>. QED BY <1>0, <1>1, <1>2, <1>3, <2>1, <2>2, EndKeeps
<1>4. CASE End(r, "failed")
  BY <1>0, <1>1, <1>2, <1>4, EndKeeps
<1>. QED
  BY <1>3, <1>4 DEF DeleteStagedAttachments

LEMMA InterruptKeeps ==
  ASSUME AcceptInv, NEW r \in Requests, Interrupt(r)
  PROVE  AcceptInv'
<1>0. /\ ~At(r, "done") /\ "gone" \in Refusals /\ "interrupts" \in mode /\ End(r, "gone")
      /\ UNCHANGED <<mode, domain, era, contact, idem, usage, files, delivery>>
      /\ usage \in [Requests -> {"none", "reserved", "confirmed", "released"}]
      /\ files \subseteq Attached
  BY Parts DEF Interrupt, Refusals, world
<1>. QED
  BY <1>0, EndKeeps

-----------------------------------------------------------------------------
(* The steps that write a record or a Delivery.                            *)

\* What a committed Delivery and a record are.
LEMMA Rows ==
  ASSUME AcceptInv
  PROVE  /\ delivery \in [Requests -> Row \cup {None}]
         /\ \A r \in Committed : /\ r \in Requests /\ delivery[r] \in Row
                                 /\ delivery[r].to \in SUBSET Contacts /\ delivery[r].era \in Nat
         /\ \A k \in Keys : era[k] \in Nat /\ (idem[k] # None => idem[k] \in Record)
         /\ None \notin Row /\ None \notin Record /\ Committed \subseteq Requests
<1>1. delivery \in [Requests -> Row \cup {None}] /\ era \in [Keys -> 0..MaxExpiries]
  BY DEF AcceptInv, AcceptTypeOK
<1>2. \A r \in Committed : r \in Requests /\ delivery[r] \in Row
  BY <1>1 DEF Committed
<1>3. \A r \in Committed : delivery[r].to \in SUBSET Contacts /\ delivery[r].era \in Nat
  BY <1>2 DEF Row
<1>4. \A k \in Keys : era[k] \in Nat
  BY <1>1
<1>. QED
  BY <1>1, <1>2, <1>3, <1>4 DEF AcceptInv, AcceptTypeOK, Committed

\* A request that does not move knows what it knew, while the record of its key
\* is neither written nor revived.
LEMMA InStepStays ==
  ASSUME NEW s, InStep(s), UNCHANGED <<delivery, answer, usage, files>>, request'[s] = request[s],
         KeyOf[s] # None =>
           /\ idem[KeyOf[s]] = None => idem'[KeyOf[s]] = None
           /\ (idem'[KeyOf[s]] # None /\ idem'[KeyOf[s]].live) => idem'[KeyOf[s]] = idem[KeyOf[s]]
  PROVE  InStep(s)'
<1>1. /\ Committed' = Committed /\ \A m, j : Known(m, j)' = Known(m, j)
  BY KnownStays
<1>. DEFINE k == KeyOf[s]
<1>2. (request[s].step = "expire" /\ idem'[k] # None /\ idem'[k].message = request[s].found)
        => ~idem'[k].live
  BY DEF InStep
<1>3. (request[s].step = "commit" /\ k # None) => idem'[k] = None
  BY DEF InStep
<1>. QED
  BY <1>1, <1>2, <1>3 DEF InStep, Reserved

\* An expired record is deleted; the Messages of its key are of earlier eras.
LEMMA ExpireKeeps ==
  ASSUME AcceptInv, NEW r \in Requests, ExpireRecord(r)
  PROVE  AcceptInv'
<1>. DEFINE k == KeyOf[r]
<1>0. /\ request[r].step = "expire" /\ request[r].step \in Before /\ ~At(r, "done")
      /\ UNCHANGED <<mode, domain, era, contact, answer, usage, files, delivery>>
      /\ "sender" \in Steps /\ "sender" \in Before
  BY DEF ExpireRecord, At, Before, Steps, world
<1>1. /\ InStep(r) /\ Compensated(r) /\ r \notin Committed /\ k \in Keys
      /\ idem \in [Keys -> Record \cup {None}]
  BY <1>0, Parts, NothingYet DEF InStep
<1>2. /\ request' \in [Requests -> Progress] /\ request'[r].step = "sender"
      /\ request'[r].found = None /\ \A s \in Requests \ {r} : request'[s] = request[s]
  <2>1. PICK step : step = "sender"
    OBVIOUS
  <2>2. PICK p : p = [request[r] EXCEPT !.step = step, !.found = None]
    OBVIOUS
  <2>3. request' = [request EXCEPT ![r] = p]
    BY <2>1, <2>2 DEF ExpireRecord
  <2>4. step \in Steps
    BY <1>0, <2>1
  <2>5. /\ request' \in [Requests -> Progress] /\ request'[r].step = step
        /\ request'[r].found = None /\ \A s \in Requests \ {r} : request'[s] = request[s]
    BY <2>2, <2>3, <2>4, ReadUpdate
  <2>. QED BY <2>1, <2>5
<1>3. \/ idem' = idem
      \/ idem[k] # None /\ idem[k].message = request[r].found /\ idem' = [idem EXCEPT ![k] = None]
  BY DEF ExpireRecord
<1>4. /\ idem' \in [Keys -> Record \cup {None}]
      /\ \A j \in Keys : idem'[j] = idem[j] \/ idem'[j] = None
      /\ \A j \in Keys : idem'[j] = idem[j] \/ (idem[j] # None => ~idem[j].live)
  BY <1>0, <1>1, <1>3 DEF InStep
<1>5. AcceptTypeOK'
  BY <1>0, <1>2, <1>4 DEF AcceptInv, AcceptTypeOK
<1>6. /\ Committed' = Committed /\ \A m, j : Known(m, j)' = Known(m, j)
  BY <1>0, KnownStays
<1>7. InStep(r)' /\ Compensated(r)'
  BY <1>0, <1>1, <1>2, <1>6, StepsApart DEF InStep, Compensated, Reserved
<1>8. ASSUME NEW s \in Requests, s # r PROVE InStep(s)' /\ Compensated(s)'
  <2>1. InStep(s) /\ Compensated(s) /\ (KeyOf[s] # None => KeyOf[s] \in Keys)
    BY Parts
  <2>2. request'[s] = request[s]
    BY <1>2, <1>8
  <2>3. Compensated(s)'
    BY <1>0, <1>6, <2>1, <2>2 DEF Compensated, Reserved
  <2>4. InStep(s)'
    BY <1>0, <1>4, <1>6, <2>1, <2>2 DEF InStep, Reserved
  <2>. QED BY <2>3, <2>4
<1>9. \A j \in Keys : InRecord(j)'
  <2>1. \A j \in Keys : InRecord(j)
    BY DEF AcceptInv
  <2>. QED BY <1>0, <1>4, <1>6, <2>1 DEF InRecord
<1>10. OneWriter'
  BY <1>2 DEF AcceptInv, OneWriter, At
<1>11. OneMessagePerKey' /\ AcceptedCanBeSent'
  BY <1>0, <1>6 DEF AcceptInv, OneMessagePerKey, AcceptedCanBeSent, Reserved
<1>. QED
  BY <1>5, <1>7, <1>8, <1>9, <1>10, <1>11 DEF AcceptInv

\* A record runs out: its era begins anew.
LEMMA RunOutKeeps ==
  ASSUME AcceptInv, NEW k \in Keys, RecordExpires(k)
  PROVE  AcceptInv'
<1>0. /\ UNCHANGED <<mode, domain, contact, request, answer, usage, files, delivery>>
      /\ idem[k] # None /\ era[k] < MaxExpiries /\ era[k] \in Nat /\ idem[k] \in Record
      /\ idem \in [Keys -> Record \cup {None}] /\ era \in [Keys -> 0..MaxExpiries]
  BY Rows DEF RecordExpires, AcceptInv, AcceptTypeOK
<1>1. PICK x : x = [idem[k] EXCEPT !.live = FALSE]
  OBVIOUS
<1>2. x \in Record /\ x.message = idem[k].message /\ x.live = FALSE
  BY <1>0, <1>1 DEF Record
<1>3. idem' = [idem EXCEPT ![k] = x] /\ era' = [era EXCEPT ![k] = era[k] + 1]
  BY <1>1 DEF RecordExpires
<1>4. /\ idem' \in [Keys -> Record \cup {None}] /\ idem'[k] = x
      /\ \A j \in Keys \ {k} : idem'[j] = idem[j] /\ era'[j] = era[j]
      /\ era'[k] = era[k] + 1
      /\ era' \in [Keys -> 0..MaxExpiries]
  <2>1. era[k] + 1 \in 0..MaxExpiries
    BY <1>0
  <2>. QED BY <1>0, <1>2, <1>3, <2>1
<1>5. AcceptTypeOK'
  BY <1>0, <1>4 DEF AcceptInv, AcceptTypeOK
<1>6. /\ Committed' = Committed /\ \A m, j : Known(m, j)' = Known(m, j)
  BY <1>0, KnownStays
<1>7. ASSUME NEW s \in Requests PROVE InStep(s)' /\ Compensated(s)'
  <2>1. InStep(s) /\ Compensated(s) /\ (KeyOf[s] # None => KeyOf[s] \in Keys)
    BY Parts
  <2>2. Compensated(s)'
    BY <1>0, <1>6, <2>1 DEF Compensated, Reserved
  <2>3. KeyOf[s] # None =>
          /\ idem[KeyOf[s]] = None => idem'[KeyOf[s]] = None
          /\ (idem'[KeyOf[s]] # None /\ idem'[KeyOf[s]].live) => idem'[KeyOf[s]] = idem[KeyOf[s]]
    BY <1>0, <1>2, <1>4, <2>1
  <2>4. request'[s] = request[s]
    BY <1>0
  <2>. QED BY <1>0, <2>1, <2>2, <2>3, <2>4, InStepStays
<1>8. ASSUME NEW j \in Keys PROVE InRecord(j)'
  <2>1. InRecord(j)
    BY DEF AcceptInv
  <2>2. CASE j # k
    BY <1>0, <1>4, <1>6, <2>1, <2>2 DEF InRecord
  <2>3. CASE j = k
    <3>1. \A r \in Committed : KeyOf[r] = k => delivery[r].era <= era[k] /\ delivery[r].era \in Nat
      BY <2>1, <2>3, Rows DEF InRecord
    <3>2. \A r \in Committed : KeyOf[r] = k => delivery[r].era < era'[k]
      BY <1>0, <1>4, <3>1
    <3>3. \A r \in Committed : KeyOf[r] = k => delivery[r].era <= era'[k] /\ delivery[r].era # era'[k]
      BY <1>0, <1>4, <3>1, <3>2
    <3>. QED BY <1>0, <1>2, <1>4, <1>6, <2>1, <2>3, <3>3 DEF InRecord
  <2>. QED BY <2>2, <2>3
<1>9. OneWriter' /\ OneMessagePerKey' /\ AcceptedCanBeSent'
  BY <1>0, <1>6 DEF AcceptInv, OneWriter, At, OneMessagePerKey, AcceptedCanBeSent, Reserved
<1>. QED
  BY <1>5, <1>7, <1>8, <1>9 DEF AcceptInv

\* Nothing of a request is kept by the Domain.
LEMMA DomainKeeps ==
  ASSUME AcceptInv, NEW s \in Senders,
         DeleteDomain(s) \/ \E state \in {"ready", "paused"} : PauseDomain(s, state)
  PROVE  AcceptInv'
<1>0. UNCHANGED <<mode, era, contact, request, answer, idem, usage, files, delivery>>
  BY DEF DeleteDomain, PauseDomain
<1>1. AcceptTypeOK'
  BY <1>0 DEF AcceptInv, AcceptTypeOK, DeleteDomain, PauseDomain
<1>2. /\ Committed' = Committed /\ \A m, j : Known(m, j)' = Known(m, j)
  BY <1>0, KnownStays
<1>3. ASSUME NEW r \in Requests PROVE InStep(r)' /\ Compensated(r)'
  BY <1>0, <1>2, Parts DEF InStep, Compensated, Reserved
<1>4. \A k \in Keys : InRecord(k)'
  BY <1>0, <1>2 DEF AcceptInv, InRecord
<1>5. OneWriter' /\ OneMessagePerKey' /\ AcceptedCanBeSent'
  BY <1>0, <1>2 DEF AcceptInv, OneWriter, At, OneMessagePerKey, AcceptedCanBeSent, Reserved
<1>. QED
  BY <1>1, <1>3, <1>4, <1>5 DEF AcceptInv

\* The commit: the Delivery, its Contacts and the record of its key are
\* visible at once, and the record names the only Message of its era.
LEMMA PublishKeeps ==
  ASSUME AcceptInv, NEW r \in Requests, At(r, "commit"), Publish(r), AcceptTypeOK',
         UNCHANGED <<mode, era, usage, files>>,
         request'[r].step \in {"done", "release"}, request'[r].step = "release" => "outages" \in mode,
         request'[r].found = None \/ request'[r].found = request[r].found,
         answer'[r] = r \/ answer'[r] = answer[r],
         \A s \in Requests \ {r} : request'[s] = request[s] /\ answer'[s] = answer[s]
  PROVE  AcceptInv'
<1>. DEFINE k == KeyOf[r]
<1>0. /\ request[r].step = "commit" /\ "commit" \in Open /\ "commit" \notin After
      /\ {"done", "release"} \subseteq After
  BY StepsApart DEF At, After
<1>1. /\ InStep(r) /\ Compensated(r) /\ r \notin Committed /\ Reserved(r)
      /\ r \in Attached => r \in files
      /\ k # None => k \in Keys /\ idem[k] = None
      /\ idem \in [Keys -> Record \cup {None}]
  BY <1>0, Parts DEF InStep
<1>2. /\ delivery \in [Requests -> Row \cup {None}] /\ None \notin Row /\ None \notin Record
      /\ \A s \in Committed : s \in Requests /\ delivery[s].era \in Nat
      /\ \A j \in Keys : era[j] \in Nat
  BY Rows
<1>3. PICK d : d = [to |-> request[r].to, era |-> IF k = None THEN 0 ELSE era[k], status |-> "queued"]
  OBVIOUS
<1>4. d \in Row /\ (k # None => d.era = era[k]) /\ d.status = "queued"
  <2>1. request[r].to \in SUBSET Contacts
    BY Parts
  <2>. QED BY <1>1, <1>2, <1>3, <2>1 DEF Row
<1>5. delivery'[r] = d /\ \A s \in Requests \ {r} : delivery'[s] = delivery[s]
  BY <1>2, <1>3 DEF Publish
<1>6. Committed' = Committed \cup {r}
  BY <1>2, <1>4, <1>5 DEF Committed
<1>7. \A m, j : Known(m, j) => Known(m, j)'
  BY <1>6 DEF Known
<1>8. /\ k = None => idem' = idem
      /\ k # None => /\ idem'[k] = [message |-> r, live |-> TRUE]
                     /\ idem'[k] # None /\ idem'[k].message = r /\ idem'[k].live
      /\ \A j \in Keys : j # k => idem'[j] = idem[j]
  <2>1. [message |-> r, live |-> TRUE] \in Record
    BY DEF Record
  <2>2. PICK x : x = [message |-> r, live |-> TRUE]
    OBVIOUS
  <2>3. x \in Record /\ x.message = r /\ x.live /\ x # None
    BY <1>2, <2>1, <2>2
  <2>4. idem' = IF k = None THEN idem ELSE [idem EXCEPT ![k] = x]
    BY <2>2 DEF Publish
  <2>. QED BY <1>1, <2>2, <2>3, <2>4
<1>9. InStep(r)'
  <2>1. request'[r].step \in After /\ request'[r].step \notin Before \cup Open
    BY <1>0, StepsApart
  <2>2. answer'[r] \in Requests => answer'[r] \in Committed' /\ KeyOf[answer'[r]] = k
    BY <1>1, <1>6 DEF InStep
  <2>3. request'[r].found = None \/ Known(request[r].found, k)'
    BY <1>1, <1>7 DEF InStep
  <2>. QED BY <2>1, <2>2, <2>3, StepsApart DEF InStep
<1>10. Compensated(r)'
  BY <1>6 DEF Compensated
<1>11. ASSUME NEW s \in Requests, s # r PROVE InStep(s)' /\ Compensated(s)'
  <2>1. InStep(s) /\ Compensated(s) /\ (KeyOf[s] # None => KeyOf[s] \in Keys)
    BY Parts
  <2>2. /\ request'[s] = request[s] /\ answer'[s] = answer[s] /\ Reserved(s)' = Reserved(s)
        /\ (s \in Committed' <=> s \in Committed)
    BY <1>6, <1>11 DEF Reserved
  <2>3. (request[s].step = "expire" /\ idem'[KeyOf[s]] # None
           /\ idem'[KeyOf[s]].message = request[s].found) => ~idem'[KeyOf[s]].live
    <3>1. CASE KeyOf[s] = k
      <4>1. request[s].step = "expire" => Known(request[s].found, k) /\ k # None
        BY <2>1, <3>1 DEF InStep
      <4>2. request[s].step = "expire" => request[s].found # r
        BY <1>1, <4>1 DEF Known
      <4>. QED BY <1>8, <3>1, <4>1, <4>2
    <3>2. CASE KeyOf[s] # k
      BY <1>8, <2>1, <3>2 DEF InStep
    <3>. QED BY <3>1, <3>2
  <2>4. (request[s].step = "commit" /\ KeyOf[s] # None) => idem'[KeyOf[s]] = None
    <3>1. CASE KeyOf[s] = k
      <4>1. ~(request[s].step = "commit" /\ KeyOf[s] # None)
        BY <1>0, <1>11, <3>1 DEF AcceptInv, OneWriter, At
      <4>. QED BY <4>1
    <3>2. CASE KeyOf[s] # k
      BY <1>8, <2>1, <3>2 DEF InStep
    <3>. QED BY <3>1, <3>2
  <2>5. answer'[s] \in Requests => answer'[s] \in Committed' /\ KeyOf[answer'[s]] = KeyOf[s]
    BY <1>6, <2>1, <2>2 DEF InStep
  <2>6. InStep(s)'
    BY <1>7, <2>1, <2>2, <2>3, <2>4, <2>5 DEF InStep
  <2>7. Compensated(s)'
    BY <2>1, <2>2 DEF Compensated
  <2>. QED BY <2>6, <2>7
<1>12. ASSUME NEW j \in Keys PROVE InRecord(j)'
  <2>1. InRecord(j)
    BY DEF AcceptInv
  <2>2. \A s \in Committed : s \in Requests \ {r} /\ delivery'[s] = delivery[s]
    BY <1>1, <1>2, <1>5
  <2>3. CASE j # k
    <3>1. idem'[j] = idem[j] /\ era'[j] = era[j]
      BY <1>8, <2>3
    <3>2. idem'[j] # None => Known(idem[j].message, j)' /\ (idem'[j].live => idem'[j].message # Earlier)
      BY <1>7, <2>1, <3>1 DEF InRecord
    <3>3. \A s \in Committed' : KeyOf[s] = j => s \in Committed
      BY <1>6, <2>3
    <3>. QED BY <2>1, <2>2, <3>1, <3>2, <3>3 DEF InRecord
  <2>4. CASE j = k
    <3>0. k # None
      BY <2>4
    <3>1. Known(r, k)' /\ r # Earlier
      BY <1>6, <3>0 DEF Known
    <3>2. \A s \in Committed : KeyOf[s] = k => delivery[s].era <= era[k] /\ delivery[s].era # era[k]
      BY <1>1, <2>1, <2>4, <3>0 DEF InRecord
    <3>3. d.era = era[k] /\ era[k] \in Nat
      BY <1>2, <1>4, <2>4, <3>0
    <3>4. \A s \in Committed' : KeyOf[s] = k =>
             /\ delivery'[s].era <= era[k]
             /\ delivery'[s].era = era[k] => s = r
      BY <1>2, <1>5, <1>6, <2>2, <3>2, <3>3
    <3>. QED BY <1>8, <2>4, <3>0, <3>1, <3>4 DEF InRecord
  <2>. QED BY <2>3, <2>4
<1>13. OneWriter'
  BY DEF AcceptInv, OneWriter, At
<1>14. OneMessagePerKey'
  <2>1. \A s \in Committed : s \in Requests \ {r} /\ delivery'[s] = delivery[s]
    BY <1>1, <1>2, <1>5
  <2>2. \A s \in Committed : (KeyOf[s] = k /\ k # None) => delivery[s].era # d.era
    <3>1. \A j \in Keys : InRecord(j)
      BY DEF AcceptInv
    <3>. QED BY <1>1, <1>4, <3>1 DEF InRecord
  <2>. QED BY <1>5, <1>6, <2>1, <2>2 DEF AcceptInv, OneMessagePerKey
<1>15. AcceptedCanBeSent'
  <2>1. ASSUME "outages" \notin mode, NEW s \in Committed', delivery'[s].status = "queued"
        PROVE  Reserved(s)' /\ (s \in Attached => s \in files')
    <3>1. CASE s = r
      BY <1>1, <3>1 DEF Reserved
    <3>2. CASE s # r
      <4>1. s \in Committed /\ delivery'[s] = delivery[s]
        BY <1>2, <1>5, <1>6, <3>2
      <4>. QED BY <2>1, <4>1 DEF AcceptInv, AcceptedCanBeSent, Reserved
    <3>. QED BY <3>1, <3>2
  <2>. QED BY <2>1 DEF AcceptedCanBeSent
<1>. QED
  BY <1>9, <1>10, <1>11, <1>12, <1>13, <1>14, <1>15 DEF AcceptInv

LEMMA CommitKeeps ==
  ASSUME AcceptInv, NEW r \in Requests, Commit(r)
  PROVE  AcceptInv'
<1>. DEFINE k == KeyOf[r]
<1>0. /\ At(r, "commit") /\ Publish(r) /\ UNCHANGED <<mode, domain, era, usage, files>>
      /\ "release" \in Steps
  BY DEF Commit, world, Steps
<1>1. /\ request[r].to \in SUBSET Contacts /\ idem \in [Keys -> Record \cup {None}]
      /\ k # None => k \in Keys
      /\ answer \in [Requests -> Requests \cup Refusals \cup {None}]
  BY Parts
<1>2. delivery' \in [Requests -> Row \cup {None}]
  <2>1. (IF k = None THEN 0 ELSE era[k]) \in Nat
    BY <1>1, Rows
  <2>2. [to |-> request[r].to, era |-> IF k = None THEN 0 ELSE era[k], status |-> "queued"] \in Row
    BY <1>1, <2>1 DEF Row
  <2>. QED BY <1>0, <2>2, Rows DEF Publish
<1>3. contact' \in [Contacts -> {"absent", "clear", "marketing", "all"}]
  BY <1>0 DEF Publish, AcceptInv, AcceptTypeOK
<1>4. idem' \in [Keys -> Record \cup {None}]
  <2>1. [message |-> r, live |-> TRUE] \in Record
    BY DEF Record
  <2>. QED BY <1>0, <1>1, <2>1 DEF Publish
<1>5. ASSUME request' \in [Requests -> Progress],
             answer' \in [Requests -> Requests \cup Refusals \cup {None}]
      PROVE  AcceptTypeOK'
  BY <1>0, <1>2, <1>3, <1>4, <1>5 DEF AcceptInv, AcceptTypeOK
<1>6. CASE End(r, r)
  <2>1. /\ request' \in [Requests -> Progress] /\ request'[r].step = "done"
        /\ request'[r].found = request[r].found
        /\ answer' \in [Requests -> Requests \cup Refusals \cup {None}] /\ answer'[r] = r
        /\ \A s \in Requests \ {r} : request'[s] = request[s] /\ answer'[s] = answer[s]
    BY <1>6, EndUpdate
  <2>. QED BY <1>0, <1>5, <2>1, PublishKeeps
<1>7. CASE "outages" \in mode /\ Abort(r, None) /\ UNCHANGED answer
  <2>1. PICK step : step = "release"
    OBVIOUS
  <2>2. PICK p : p = [request[r] EXCEPT !.step = step, !.found = None]
    OBVIOUS
  <2>3. request' = [request EXCEPT ![r] = p] /\ step \in Steps
    BY <1>0, <1>7, <2>1, <2>2 DEF Abort
  <2>4. /\ request' \in [Requests -> Progress] /\ request'[r].step = step
        /\ request'[r].found = None /\ \A s \in Requests \ {r} : request'[s] = request[s]
    BY <2>2, <2>3, ReadUpdate
  <2>. QED BY <1>0, <1>1, <1>5, <1>7, <2>1, <2>4, PublishKeeps
<1>. QED
  BY <1>6, <1>7 DEF Commit

-----------------------------------------------------------------------------
(* The job and the notifications.                                          *)

\* The job of a committed Delivery only moves its status on and settles its
\* Usage.
LEMMA JobKeeps ==
  ASSUME AcceptInv, NEW r \in Requests, ProviderTakes(r) \/ MarkSent(r) \/ GiveUp(r)
  PROVE  /\ AcceptInv' /\ Committed' = Committed
         /\ \A s \in Committed : delivery'[s].to = delivery[s].to
         /\ UNCHANGED <<contact, outcomes>>
<1>0. /\ UNCHANGED <<mode, domain, era, contact, request, answer, idem, files, outcomes>>
      /\ r \in Committed
  BY DEF ProviderTakes, MarkSent, GiveUp, world
<1>1. PICK t \in {"taken", "sent", "failed", "skipped"} : SetStatus(r, t)
  BY DEF ProviderTakes, MarkSent, GiveUp
<1>2. usage \in [Requests -> {"none", "reserved", "confirmed", "released"}]
  BY Parts
<1>3. /\ usage' \in [Requests -> {"none", "reserved", "confirmed", "released"}]
      /\ \A s \in Requests \ {r} : usage'[s] = usage[s]
      /\ usage'[r] = "reserved" => usage[r] = "reserved"
  BY <1>2 DEF ProviderTakes, MarkSent, GiveUp
<1>4. /\ delivery \in [Requests -> Row \cup {None}] /\ None \notin Row
      /\ \A s \in Committed : s \in Requests /\ delivery[s] \in Row
  BY Rows
<1>5. PICK d : d = [delivery[r] EXCEPT !.status = t]
  OBVIOUS
<1>6. d \in Row /\ d.status = t /\ d.era = delivery[r].era /\ d.to = delivery[r].to
  BY <1>0, <1>4, <1>5 DEF Row
<1>7. delivery' = [delivery EXCEPT ![r] = d]
  BY <1>1, <1>5 DEF SetStatus
<1>8. /\ delivery' \in [Requests -> Row \cup {None}] /\ delivery'[r] = d
      /\ \A s \in Requests \ {r} : delivery'[s] = delivery[s]
  BY <1>4, <1>6, <1>7
<1>9. Committed' = Committed
  BY <1>0, <1>4, <1>6, <1>8 DEF Committed
<1>10. /\ \A s \in Committed : delivery'[s].to = delivery[s].to /\ delivery'[s].era = delivery[s].era
       /\ \A m, k : Known(m, k)' = Known(m, k)
  BY <1>4, <1>6, <1>8, <1>9 DEF Known
<1>11. AcceptTypeOK'
  BY <1>0, <1>3, <1>8 DEF AcceptInv, AcceptTypeOK
<1>12. ASSUME NEW s \in Requests PROVE InStep(s)' /\ Compensated(s)'
  <2>1. InStep(s) /\ Compensated(s)
    BY Parts
  <2>2. Reserved(s)' => Reserved(s)
    BY <1>3 DEF Reserved
  <2>3. request[s].step \in Before \cup Open => usage'[s] = usage[s]
    BY <1>0, <1>3, <2>1, StepsApart DEF InStep
  <2>4. InStep(s)'
    BY <1>0, <1>9, <1>10, <2>1, <2>3 DEF InStep, Reserved
  <2>5. Compensated(s)'
    BY <1>0, <1>9, <2>1, <2>2 DEF Compensated
  <2>. QED BY <2>4, <2>5
<1>13. \A k \in Keys : InRecord(k)'
  BY <1>0, <1>9, <1>10 DEF AcceptInv, InRecord
<1>14. OneWriter' /\ OneMessagePerKey'
  BY <1>0, <1>9, <1>10 DEF AcceptInv, OneWriter, At, OneMessagePerKey
<1>15. AcceptedCanBeSent'
  <2>1. ASSUME "outages" \notin mode, NEW s \in Committed, delivery'[s].status = "queued"
        PROVE  Reserved(s)' /\ (s \in Attached => s \in files')
    <3>1. s \in Requests \ {r}
      BY <1>4, <1>6, <1>8, <2>1
    <3>2. delivery[s].status = "queued" /\ usage'[s] = usage[s]
      BY <1>3, <1>8, <2>1, <3>1
    <3>. QED BY <1>0, <2>1, <3>2 DEF AcceptInv, AcceptedCanBeSent, Reserved
  <2>. QED BY <1>0, <1>9, <2>1 DEF AcceptedCanBeSent
<1>. QED
  BY <1>0, <1>9, <1>10, <1>11, <1>12, <1>13, <1>14, <1>15 DEF AcceptInv

\* No step of a request takes a Delivery or its recipients back, nor weakens a
\* suppression, and it does not move a notification.
Stronger == \A c \in Contacts :
  /\ contact[c] = "all" => contact'[c] = "all"
  /\ contact[c] = "marketing" => contact'[c] \in {"marketing", "all"}
  /\ contact[c] # "absent" => contact'[c] # "absent"

LEMMA AcceptKeeps ==
  ASSUME AcceptInv, AcceptNext
  PROVE  /\ AcceptInv' /\ Stronger
         /\ Committed \subseteq Committed'
         /\ \A s \in Committed : delivery'[s] = delivery[s]
         /\ \A s \in Committed' \ Committed : \A c \in delivery'[s].to : contact'[c] # "absent"
<1>. DEFINE Q == /\ AcceptInv' /\ Stronger
                 /\ Committed \subseteq Committed'
                 /\ \A s \in Committed : delivery'[s] = delivery[s]
                 /\ \A s \in Committed' \ Committed : \A c \in delivery'[s].to : contact'[c] # "absent"
<1>1. ASSUME AcceptInv', UNCHANGED <<contact, delivery>> PROVE Q
  BY <1>1 DEF Stronger, Committed
<1>2. ASSUME NEW k \in Keys, RecordExpires(k) PROVE Q
  BY <1>1, <1>2, RunOutKeeps DEF RecordExpires
<1>3. ASSUME NEW s \in Senders,
             DeleteDomain(s) \/ \E state \in {"ready", "paused"} : PauseDomain(s, state)
      PROVE  Q
  BY <1>1, <1>3, DomainKeeps DEF DeleteDomain, PauseDomain
<1>4. ASSUME NEW r \in Requests, AcceptStep(r), ~Commit(r) PROVE Q
  <2>1. AcceptInv'
    BY <1>4, BeforeKeeps, FindKeeps, FilterKeeps, ReserveKeeps, InsertKeeps, StageKeeps, UpsertKeeps,
       RecordKeeps, ConflictKeeps, ReleaseKeeps, UnstageKeeps, InterruptKeeps, ExpireKeeps DEF AcceptStep
  <2>2. UNCHANGED <<contact, delivery>>
    BY <1>4 DEF AcceptStep, Receive, FindMessageReplay, ExpireRecord, PrepareEmailContent,
       ResolveEmailSender, FilterSuppressedContacts, ResolveEmailAttachments, ReserveUsage, LookupFails,
       InsertDelivery, StageEmailAttachments, UpsertMessageContact, RecordMessageIdempotency,
       FindConflictingRecord, TransactionFails, DeadlockVictim, ReleaseUsage, DeleteStagedAttachments,
       Interrupt
  <2>. QED BY <1>1, <2>1, <2>2
<1>5. ASSUME NEW r \in Requests, Commit(r) PROVE Q
  <2>1. AcceptInv' /\ Publish(r) /\ At(r, "commit")
    BY <1>5, CommitKeeps DEF Commit
  <2>2. r \notin Committed /\ request[r].to \in SUBSET Contacts
    BY <2>1, Parts, StepsApart DEF InStep, At
  <2>3. /\ contact' = [c \in Contacts |->
             IF c \in request[r].to /\ contact[c] = "absent" THEN "clear" ELSE contact[c]]
    BY <2>1 DEF Publish
  <2>4. \A c \in Contacts : /\ contact[c] # "absent" => contact'[c] = contact[c]
                            /\ c \in request[r].to => contact'[c] # "absent"
    BY <2>3
  <2>5. Stronger
    BY <2>4 DEF Stronger
  <2>6. /\ delivery'[r].to = request[r].to
        /\ \A s \in Requests \ {r} : delivery'[s] = delivery[s]
    BY <2>1, Rows DEF Publish
  <2>7. \A s \in Committed : delivery'[s] = delivery[s] /\ s \in Requests
    BY <2>2, <2>6, Rows
  <2>8. Committed \subseteq Committed'
    BY <2>7 DEF Committed
  <2>9. \A s \in Committed' \ Committed : s = r
    BY <2>6 DEF Committed
  <2>. QED BY <2>1, <2>2, <2>4, <2>5, <2>6, <2>7, <2>8, <2>9
<1>. QED
  BY <1>2, <1>3, <1>4, <1>5 DEF AcceptNext

\* What notifications have done lasts while they do not move.
LEMMA IngestStays ==
  ASSUME IInv, UNCHANGED outcomes, Stronger, Committed \subseteq Committed',
         \A s \in Committed : delivery'[s].to = delivery[s].to,
         \A s \in Committed' \ Committed : \A c \in delivery'[s].to : contact'[c] # "absent"
  PROVE  IngestInv'
<1>1. UNCHANGED <<notice, ingesting, started, events, early>>
  BY DEF outcomes
<1>2. \A s \in Committed : delivery[s].to \subseteq Contacts
  BY Rows DEF IInv
<1>3. \A n : \A c \in Contacts : Effect(n, c) => Effect(n, c)'
  BY DEF Effect, Stronger
<1>4. \A r \in Committed' : \A c \in delivery'[r].to : contact'[c] # "absent"
  <2>1. ASSUME NEW r \in Committed, NEW c \in delivery'[r].to PROVE contact'[c] # "absent"
    BY <1>2, <2>1 DEF IInv, IngestInv, Stronger
  <2>. QED BY <2>1
<1>5. ASSUME NEW x \in ingesting PROVE InIngest(x)'
  <2>1. InIngest(x)
    BY DEF IInv, IngestInv
  <2>2. x.notice[1] \in Committed
    BY <2>1 DEF InIngest
  <2>3. delivery'[x.notice[1]].to = delivery[x.notice[1]].to /\ delivery[x.notice[1]].to \subseteq Contacts
    BY <1>2, <2>2
  <2>. QED BY <1>1, <1>3, <2>1, <2>2, <2>3 DEF InIngest
<1>6. ASSUME NEW n \in Notices PROVE InNotice(n)' /\ Answered(n)'
  <2>1. InNotice(n) /\ Answered(n)
    BY DEF IInv, IngestInv
  <2>2. InNotice(n)'
    BY <1>1, <1>2, <2>1 DEF InNotice
  <2>3. Answered(n)'
    <3>1. CASE notice[n] = "answered" /\ n \notin early
      <4>1. n[1] \in Committed /\ n[3] \subseteq delivery[n[1]].to
        BY <2>1, <3>1 DEF InNotice
      <4>2. n[3] \subseteq Contacts
        BY <1>2, <4>1
      <4>. QED BY <1>1, <1>3, <2>1, <4>2 DEF Answered
    <3>2. CASE ~(notice[n] = "answered" /\ n \notin early)
      BY <1>1, <3>2 DEF Answered
    <3>. QED BY <3>1, <3>2
  <2>. QED BY <2>2, <2>3
<1>. QED
  BY <1>1, <1>4, <1>5, <1>6 DEF IInv, IngestInv

\* A request does not depend on the Contacts after it has read them.
LEMMA ContactKeeps ==
  ASSUME AcceptInv, contact' \in [Contacts -> {"absent", "clear", "marketing", "all"}],
         UNCHANGED <<world, request, answer, idem, usage, files, delivery>>
  PROVE  AcceptInv' /\ Committed' = Committed
<1>0. UNCHANGED <<mode, domain, era, request, answer, idem, usage, files, delivery>>
  BY DEF world
<1>1. AcceptTypeOK'
  BY <1>0 DEF AcceptInv, AcceptTypeOK
<1>2. /\ Committed' = Committed /\ \A m, j : Known(m, j)' = Known(m, j)
  BY <1>0, KnownStays
<1>3. ASSUME NEW r \in Requests PROVE InStep(r)' /\ Compensated(r)'
  BY <1>0, <1>2, Parts DEF InStep, Compensated, Reserved
<1>4. \A k \in Keys : InRecord(k)'
  BY <1>0, <1>2 DEF AcceptInv, InRecord
<1>5. OneWriter' /\ OneMessagePerKey' /\ AcceptedCanBeSent'
  BY <1>0, <1>2 DEF AcceptInv, OneWriter, At, OneMessagePerKey, AcceptedCanBeSent, Reserved
<1>. QED
  BY <1>1, <1>2, <1>3, <1>4, <1>5 DEF AcceptInv

\* What an execution of the handler is, part by part.
LEMMA IngestTyped ==
  ASSUME IngestInv, NEW x \in ingesting
  PROVE  /\ x \in Ingest /\ x.notice \in Notices /\ x.left \in SUBSET Contacts
         /\ x.step \in {"load", "event", "emit", "suppress"} /\ InIngest(x) /\ x.notice[1] \in Committed
<1>1. x \in Ingest /\ InIngest(x)
  BY DEF IngestInv
<1>. QED
  BY <1>1 DEF Ingest, InIngest

\* An execution goes on; the events may be more and the Contacts stronger.
LEMMA IngestGoesOn ==
  ASSUME IInv, NEW x \in ingesting, NEW y \in Ingest, Become(x, y), InIngest(y)',
         UNCHANGED <<delivery, notice, started, early>>, Stronger,
         events \subseteq events', events' \subseteq Notices
  PROVE  IngestInv'
<1>1. /\ Committed' = Committed /\ ingesting' = (ingesting \ {x}) \cup {y}
  BY DEF Committed, Become
<1>2. \A s \in Committed : delivery[s].to \subseteq Contacts
  BY Rows DEF IInv
<1>3. \A n : \A c \in Contacts : Effect(n, c) => Effect(n, c)'
  BY DEF Effect, Stronger
<1>4. IngestInv
  BY DEF IInv
<1>5. \A r \in Committed' : \A c \in delivery'[r].to : contact'[c] # "absent"
  BY <1>1, <1>2, <1>4 DEF Stronger, IngestInv
<1>6. ASSUME NEW z \in ingesting PROVE InIngest(z)'
  <2>1. InIngest(z)
    BY <1>4 DEF IngestInv
  <2>. QED BY <1>1, <1>2, <1>3, <2>1 DEF InIngest
<1>7. ASSUME NEW n \in Notices PROVE InNotice(n)' /\ Answered(n)'
  <2>1. InNotice(n) /\ Answered(n)
    BY <1>4 DEF IngestInv
  <2>. QED BY <1>1, <1>2, <1>3, <2>1 DEF InNotice, Answered
<1>8. /\ notice' \in [Notices -> {"none", "pending", "answered"}]
      /\ ingesting' \subseteq Ingest /\ started' \in 0..MaxIngests /\ early' \subseteq Notices
  BY <1>1, <1>4 DEF IngestInv
<1>9. \A z \in ingesting' : InIngest(z)'
  BY <1>1, <1>6
<1>. QED
  BY <1>5, <1>7, <1>8, <1>9 DEF IngestInv

\* An execution ends: it answers what has taken effect, or what came too early,
\* or nothing.
LEMMA IngestEnds ==
  ASSUME IInv, NEW x \in ingesting, ingesting' = ingesting \ {x},
         UNCHANGED <<vars, started, events>>,
         \/ UNCHANGED <<notice, early>>
         \/ /\ notice' = [notice EXCEPT ![x.notice] = "answered"]
            /\ \/ early' = early \cup {x.notice}
               \/ early' = early /\ x.step = "suppress" /\ x.left = {}
  PROVE  IngestInv'
<1>0. /\ UNCHANGED <<delivery, contact>> /\ IngestInv /\ x.notice \in Notices /\ InIngest(x)
      /\ x.notice[1] \in Committed
  BY IngestTyped DEF IInv, vars
<1>1. /\ notice \in [Notices -> {"none", "pending", "answered"}]
      /\ ingesting \subseteq Ingest /\ started \in 0..MaxIngests
      /\ events \subseteq Notices /\ early \subseteq Notices
      /\ \A r \in Committed : \A c \in delivery[r].to : contact[c] # "absent"
      /\ \A n \in Notices : InNotice(n) /\ Answered(n)
      /\ \A z \in ingesting : InIngest(z)
  BY <1>0 DEF IngestInv
<1>2. /\ notice' \in [Notices -> {"none", "pending", "answered"}] /\ early' \subseteq Notices
      /\ \A n \in Notices \ {x.notice} : notice'[n] = notice[n] /\ (n \in early' <=> n \in early)
  BY <1>0, <1>1
<1>3. Committed' = Committed /\ \A n, c : Effect(n, c)' = Effect(n, c)
  BY <1>0 DEF Committed, Effect
<1>4. ASSUME NEW n \in Notices PROVE InNotice(n)' /\ Answered(n)'
  <2>1. InNotice(n) /\ Answered(n)
    BY <1>1
  <2>2. CASE n # x.notice
    BY <1>0, <1>2, <1>3, <2>1, <2>2 DEF InNotice, Answered
  <2>3. CASE n = x.notice
    <3>1. InNotice(n)'
      BY <1>0, <1>3, <2>3 DEF InNotice, InIngest
    <3>2. Answered(n)'
      BY <1>0, <1>3, <2>1, <2>3 DEF Answered, InIngest
    <3>. QED BY <3>1, <3>2
  <2>. QED BY <2>2, <2>3
<1>5. \A z \in ingesting' : InIngest(z)'
  BY <1>0, <1>1, <1>3 DEF InIngest
<1>. QED
  BY <1>0, <1>1, <1>2, <1>3, <1>4, <1>5 DEF IngestInv

-----------------------------------------------------------------------------
(* Every step.                                                             *)

\* A notification becomes pending, or its request arrives.
LEMMA NotifyKeeps ==
  ASSUME IInv, NEW n \in Notices, Notify(n) \/ StartIngest(n)
  PROVE  IngestInv' /\ UNCHANGED vars
<1>0. UNCHANGED <<vars, contact, delivery, events, early>> /\ IngestInv
  BY DEF Notify, StartIngest, IInv, vars
<1>1. Committed' = Committed /\ \A m, c : Effect(m, c)' = Effect(m, c)
  BY <1>0 DEF Committed, Effect
<1>2. CASE Notify(n)
  <2>1. /\ n[1] \in Committed /\ notice[n] = "none"
        /\ n[3] \subseteq delivery[n[1]].to
        /\ UNCHANGED <<ingesting, started>> /\ notice' = [notice EXCEPT ![n] = "pending"]
    BY <1>2 DEF Notify
  <2>2. /\ notice' \in [Notices -> {"none", "pending", "answered"}] /\ notice'[n] = "pending"
        /\ \A m \in Notices \ {n} : notice'[m] = notice[m]
    BY <1>0, <2>1 DEF IngestInv
  <2>3. ASSUME NEW m \in Notices PROVE InNotice(m)' /\ Answered(m)'
    <3>1. InNotice(m) /\ Answered(m)
      BY <1>0 DEF IngestInv
    <3>. QED BY <1>0, <1>1, <2>1, <2>2, <3>1 DEF InNotice, Answered
  <2>4. \A x \in ingesting : InIngest(x)'
    BY <1>0, <1>1 DEF IngestInv, InIngest
  <2>. QED BY <1>0, <1>1, <2>1, <2>2, <2>3, <2>4 DEF IngestInv
<1>3. CASE StartIngest(n)
  <2>1. /\ notice[n] # "none" /\ started < MaxIngests /\ started' = started + 1 /\ UNCHANGED notice
        /\ ingesting' = ingesting \cup {[id |-> started, notice |-> n, step |-> "load", left |-> {}]}
    BY <1>3 DEF StartIngest
  <2>2. PICK z : z = [id |-> started, notice |-> n, step |-> "load", left |-> {}]
    OBVIOUS
  <2>3. started \in 0..MaxIngests /\ started \in Nat /\ started' \in 0..MaxIngests
    BY <1>0, <2>1, DeliverabilityAssumption DEF IngestInv
  <2>4. z \in Ingest /\ z.notice = n /\ z.step = "load"
    BY <2>2, <2>3 DEF Ingest
  <2>5. InNotice(n)
    BY <1>0 DEF IngestInv
  <2>6. InIngest(z)'
    BY <1>0, <1>1, <2>1, <2>4, <2>5 DEF InIngest, InNotice
  <2>7. \A x \in ingesting : InIngest(x)'
    BY <1>0, <1>1 DEF IngestInv, InIngest
  <2>8. \A m \in Notices : InNotice(m)' /\ Answered(m)'
    BY <1>0, <1>1, <2>1 DEF IngestInv, InNotice, Answered
  <2>9. ingesting' = ingesting \cup {z}
    BY <2>1, <2>2
  <2>. QED BY <1>0, <1>1, <2>1, <2>3, <2>4, <2>6, <2>7, <2>8, <2>9 DEF IngestInv
<1>. QED
  BY <1>0, <1>2, <1>3

\* A handler that only goes on from one query to the next.
LEMMA HandlerKeeps ==
  ASSUME IInv, NEW x \in ingesting,
         LoadDelivery(x) \/ InsertEvent(x) \/ EmitWebhookEvent(x) \/ FinishIngest(x) \/ IngestFails(x)
  PROVE  IngestInv' /\ UNCHANGED vars
<1>0. /\ UNCHANGED <<vars, contact, delivery, started>>
      /\ x \in Ingest /\ x.notice \in Notices /\ x.left \in SUBSET Contacts
      /\ InIngest(x) /\ x.notice[1] \in Committed /\ IngestInv
  BY IngestTyped DEF LoadDelivery, InsertEvent, EmitWebhookEvent, FinishIngest, IngestFails, IInv, vars
<1>1. Stronger /\ events \subseteq Notices
  BY <1>0 DEF Stronger, IngestInv
<1>2. Committed' = Committed /\ \A m, c : Effect(m, c)' = Effect(m, c)
  BY <1>0 DEF Committed, Effect
<1>3. ASSUME NEW p \in {"event", "emit"}, Become(x, [x EXCEPT !.step = p]),
             UNCHANGED <<notice, events, early>>
      PROVE  IngestInv'
  <2>1. PICK y : y = [x EXCEPT !.step = p]
    OBVIOUS
  <2>2. y \in Ingest /\ y.notice = x.notice /\ y.step # "suppress"
    BY <1>0, <2>1 DEF Ingest
  <2>3. InIngest(y)'
    BY <1>0, <1>2, <2>2 DEF InIngest
  <2>4. Become(x, y)
    BY <1>3, <2>1
  <2>. QED BY <1>0, <1>1, <1>3, <2>2, <2>3, <2>4, IngestGoesOn
<1>4. CASE LoadDelivery(x)
  <2>1. CASE Become(x, [x EXCEPT !.step = "event"]) /\ UNCHANGED <<notice, early>>
    BY <1>3, <1>4, <2>1 DEF LoadDelivery
  <2>2. CASE AnswerOk(x) /\ early' = early \cup {x.notice}
    BY <1>0, <1>4, <2>2, IngestEnds DEF LoadDelivery, AnswerOk
  <2>. QED BY <1>4, <2>1, <2>2 DEF LoadDelivery
<1>5. CASE InsertEvent(x)
  BY <1>3, <1>5 DEF InsertEvent
<1>6. CASE EmitWebhookEvent(x)
  <2>. DEFINE l == IF x.notice[2] = "delivered" THEN {} ELSE x.notice[3]
  <2>1. /\ events' = events \cup {x.notice} /\ UNCHANGED <<notice, early>>
        /\ Become(x, [x EXCEPT !.step = "suppress", !.left = l])
    BY <1>6 DEF EmitWebhookEvent
  <2>2. l \in SUBSET Contacts /\ l \subseteq x.notice[3]
    BY <1>0, Rows DEF IInv, InIngest
  <2>3. \A c \in x.notice[3] \ l : Effect(x.notice, c)
    BY DEF Effect
  <2>. HIDE DEF l
  <2>4. PICK y : y = [x EXCEPT !.step = "suppress", !.left = l]
    OBVIOUS
  <2>5. y \in Ingest /\ y.notice = x.notice /\ y.step = "suppress" /\ y.left = l
    <3>1. PICK u : u = [x EXCEPT !.step = "suppress"]
      OBVIOUS
    <3>2. u \in Ingest /\ u.notice = x.notice /\ u.step = "suppress"
      BY <1>0, <3>1 DEF Ingest
    <3>3. y = [u EXCEPT !.left = l]
      BY <1>0, <2>4, <3>1 DEF Ingest
    <3>. QED BY <2>2, <3>2, <3>3 DEF Ingest
  <2>6. InIngest(y)'
    BY <1>0, <1>2, <2>1, <2>2, <2>3, <2>5 DEF InIngest
  <2>7. Become(x, y) /\ events \subseteq events' /\ events' \subseteq Notices
    BY <1>0, <1>1, <2>1, <2>4
  <2>. QED BY <1>0, <1>1, <2>1, <2>5, <2>6, <2>7, IngestGoesOn
<1>7. CASE FinishIngest(x)
  BY <1>0, <1>7, IngestEnds DEF FinishIngest, AnswerOk
<1>8. CASE IngestFails(x)
  BY <1>0, <1>8, IngestEnds DEF IngestFails
<1>. QED
  BY <1>0, <1>4, <1>5, <1>6, <1>7, <1>8

\* One recipient is suppressed.
LEMMA SuppressKeeps ==
  ASSUME IInv, NEW x \in ingesting, NEW c \in Contacts, SuppressContact(x, c)
  PROVE  IInv' /\ Stronger
<1>. DEFINE v == IF x.notice[2] = "bounced" /\ contact[c] # "absent" THEN "all"
                 ELSE IF contact[c] = "clear" THEN "marketing" ELSE contact[c]
<1>0. /\ UNCHANGED <<world, request, answer, idem, usage, files, delivery, notice, started, events, early>>
      /\ x.step = "suppress" /\ c \in x.left /\ contact' = [contact EXCEPT ![c] = v]
      /\ Become(x, [x EXCEPT !.left = x.left \ {c}])
  BY DEF SuppressContact
<1>1. /\ x \in Ingest /\ x.notice \in Notices /\ x.left \in SUBSET Contacts
      /\ InIngest(x) /\ x.notice[1] \in Committed /\ IngestInv /\ AcceptInv
  BY IngestTyped DEF IInv
<1>2. contact \in [Contacts -> {"absent", "clear", "marketing", "all"}]
  BY <1>1 DEF AcceptInv, AcceptTypeOK
<1>3. contact[c] # "absent" /\ contact[c] \in {"absent", "clear", "marketing", "all"}
  BY <1>0, <1>1, <1>2 DEF IngestInv, InIngest
<1>4. /\ v \in {"marketing", "all"} /\ (x.notice[2] = "bounced" => v = "all")
      /\ contact[c] = "all" => v = "all"
  BY <1>3
<1>. HIDE DEF v
<1>5. /\ contact' \in [Contacts -> {"absent", "clear", "marketing", "all"}] /\ contact'[c] = v
      /\ \A e \in Contacts \ {c} : contact'[e] = contact[e]
  BY <1>0, <1>2, <1>4
<1>6. Stronger
  BY <1>4, <1>5 DEF Stronger
<1>7. AcceptInv' /\ Committed' = Committed
  BY <1>0, <1>1, <1>5, ContactKeeps
<1>8. PICK y : y = [x EXCEPT !.left = x.left \ {c}]
  OBVIOUS
<1>9. y \in Ingest /\ y.notice = x.notice /\ y.step = x.step /\ y.left = x.left \ {c}
  BY <1>1, <1>8 DEF Ingest
<1>10. Effect(x.notice, c)'
  BY <1>4, <1>5 DEF Effect
<1>11. \A e \in Contacts : Effect(x.notice, e) => Effect(x.notice, e)'
  BY <1>6 DEF Effect, Stronger
<1>12. delivery[x.notice[1]].to \subseteq Contacts
  BY <1>1, Rows
<1>13. InIngest(y)'
  BY <1>0, <1>1, <1>7, <1>9, <1>10, <1>11, <1>12 DEF InIngest
<1>14. Become(x, y) /\ events \subseteq events' /\ events' \subseteq Notices
  BY <1>0, <1>1, <1>8 DEF IngestInv
<1>15. IngestInv'
  BY <1>0, <1>6, <1>9, <1>13, <1>14, IngestGoesOn
<1>. QED
  BY <1>6, <1>7, <1>15 DEF IInv

LEMMA InitHolds ==
  ASSUME Init PROVE IInv
<1>0. /\ AcceptInit /\ notice = [n \in Notices |-> "none"] /\ ingesting = {} /\ started = 0
      /\ events = {} /\ early = {}
  BY DEF Init
<1>1. /\ answer = [r \in Requests |-> None] /\ era = [k \in Keys |-> 0]
      /\ request = [r \in Requests |-> [step |-> "idle", found |-> None, to |-> {}, left |-> {}]]
      /\ usage = [r \in Requests |-> "none"] /\ files = {}
      /\ delivery = [r \in Requests |-> None]
      /\ idem \in [Keys -> {None, [message |-> Earlier, live |-> FALSE]}]
  BY <1>0 DEF AcceptInit
<1>2. Committed = {}
  BY <1>1 DEF Committed
<1>3. [step |-> "idle", found |-> None, to |-> {}, left |-> {}] \in Progress
  BY DEF Progress, Steps
<1>4. [message |-> Earlier, live |-> FALSE] \in Record
  BY DEF Record
<1>5. contact \in [Contacts -> {"absent", "clear", "marketing", "all"}]
  BY <1>0 DEF AcceptInit
<1>6. AcceptTypeOK
  <2>1. mode \in Modes /\ domain \in [Senders -> {"ready", "paused", "removed"}]
    BY <1>0 DEF AcceptInit
  <2>2. request \in [Requests -> Progress]
    BY <1>1, <1>3
  <2>3. idem \in [Keys -> Record \cup {None}]
    BY <1>1, <1>4
  <2>4. /\ answer \in [Requests -> Requests \cup Refusals \cup {None}]
        /\ era \in [Keys -> 0..MaxExpiries]
        /\ usage \in [Requests -> {"none", "reserved", "confirmed", "released"}]
        /\ files \subseteq Attached /\ delivery \in [Requests -> Row \cup {None}]
    BY <1>1
  <2>. QED BY <1>5, <2>1, <2>2, <2>3, <2>4 DEF AcceptTypeOK
<1>7. ASSUME NEW r \in Requests PROVE InStep(r) /\ Compensated(r) /\ ~At(r, "commit")
  <2>1. /\ request[r].step = "idle" /\ request[r].found = None /\ usage[r] = "none"
        /\ answer[r] = None /\ r \notin files /\ "idle" \notin Open \cup After
    BY <1>1 DEF Open, After
  <2>. QED BY <1>2, <2>1 DEF InStep, Compensated, At
<1>8. ASSUME NEW k \in Keys PROVE InRecord(k)
  <2>1. idem[k] # None => idem[k].message = Earlier /\ ~idem[k].live
    BY <1>1
  <2>. QED BY <1>2, <2>1 DEF InRecord, Known
<1>9. OneWriter /\ OneMessagePerKey /\ AcceptedCanBeSent
  BY <1>2, <1>7 DEF OneWriter, OneMessagePerKey, AcceptedCanBeSent
<1>10. IngestInv
  BY <1>0, <1>2, DeliverabilityAssumption DEF IngestInv, InNotice, Answered
<1>. QED
  BY <1>6, <1>7, <1>8, <1>9, <1>10 DEF IInv, AcceptInv

\* Every step keeps the invariant and weakens no suppression.
LEMMA StepKeeps ==
  ASSUME IInv, [Next]_allVars
  PROVE  IInv' /\ Stronger
<1>0. AcceptInv /\ IngestInv
  BY DEF IInv
<1>1. CASE AcceptNext /\ UNCHANGED outcomes
  <2>1. /\ AcceptInv' /\ Stronger /\ Committed \subseteq Committed'
        /\ \A s \in Committed : delivery'[s] = delivery[s]
        /\ \A s \in Committed' \ Committed : \A c \in delivery'[s].to : contact'[c] # "absent"
    BY <1>0, <1>1, AcceptKeeps
  <2>2. IngestInv'
    BY <1>1, <2>1, IngestStays
  <2>. QED BY <2>1, <2>2 DEF IInv
<1>2. ASSUME NEW r \in Requests, ProviderTakes(r) \/ MarkSent(r) \/ GiveUp(r) PROVE IInv' /\ Stronger
  <2>1. /\ AcceptInv' /\ Committed' = Committed
        /\ \A s \in Committed : delivery'[s].to = delivery[s].to
        /\ UNCHANGED <<contact, outcomes>>
    BY <1>0, <1>2, JobKeeps
  <2>2. Stronger
    BY <2>1 DEF Stronger
  <2>3. IngestInv'
    BY <2>1, <2>2, IngestStays
  <2>. QED BY <2>1, <2>2, <2>3 DEF IInv
<1>3. ASSUME UNCHANGED vars, IngestInv' PROVE IInv' /\ Stronger
  <2>1. UNCHANGED <<world, contact, request, answer, idem, usage, files, delivery>>
    BY <1>3 DEF vars
  <2>2. AcceptInv'
    BY <1>0, <2>1, ContactKeeps DEF AcceptInv, AcceptTypeOK
  <2>. QED BY <1>3, <2>1, <2>2 DEF IInv, Stronger
<1>4. ASSUME NEW n \in Notices, Notify(n) \/ StartIngest(n) PROVE IInv' /\ Stronger
  BY <1>3, <1>4, NotifyKeeps
<1>5. ASSUME NEW x \in ingesting, IngestStep(x) PROVE IInv' /\ Stronger
  BY <1>3, <1>5, HandlerKeeps, SuppressKeeps DEF IngestStep
<1>6. CASE UNCHANGED allVars
  <2>1. UNCHANGED <<vars, outcomes, contact, delivery>>
    BY <1>6 DEF allVars, vars
  <2>2. Stronger /\ Committed' = Committed
    BY <2>1 DEF Stronger, Committed
  <2>3. IngestInv'
    BY <2>1, <2>2, IngestStays
  <2>. QED BY <1>3, <2>1, <2>3
<1>. QED
  BY <1>1, <1>2, <1>4, <1>5, <1>6 DEF Next

LEMMA Invariance == Spec => []IInv
  BY InitHolds, StepKeeps, PTL DEF Spec

-----------------------------------------------------------------------------
(* The theorems.                                                           *)

\* A key makes one Message per era of its record, and a request is answered
\* with a Message that exists and has its key, whatever fails (Inv).
THEOREM OneMessageAnsweredTruly == Spec => []Inv
<1>1. IInv => TypeOK /\ OneMessagePerKey
  BY DEF IInv, AcceptInv, IngestInv, TypeOK
<1>2. IInv => AnsweredTruly
  BY DEF IInv, AcceptInv, InStep, AnsweredTruly
<1>3. IInv => Inv
  BY <1>1, <1>2 DEF Inv
<1>. QED
  BY <1>3, Invariance, PTL

\* A committed Delivery that waits for its job has its Usage and its files,
\* whichever requests with its key were compensated (AcceptedCanBeSent).
THEOREM AcceptedIsSendable == Spec => []AcceptedCanBeSent
<1>1. IInv => AcceptedCanBeSent
  BY DEF IInv, AcceptInv
<1>. QED
  BY <1>1, Invariance, PTL

\* A request that made no Delivery leaves no reservation and no file behind,
\* unless it was cut off (NothingLeaks).
THEOREM CompensationIsComplete == Spec => []NothingLeaks
<1>1. IInv => NothingLeaks
  <2>. SUFFICES ASSUME IInv, mode \cap {"outages", "interrupts"} = {},
                       NEW r \in Requests, r \notin Committed, Reserved(r) \/ r \in files
                PROVE  AtWork(r)
    BY DEF NothingLeaks
  <2>1. InStep(r) /\ Compensated(r) /\ AcceptInv
    BY DEF IInv, AcceptInv
  <2>2. ~At(r, "idle")
    BY <2>1, NothingYet DEF At, Before, Reserved
  <2>3. ~At(r, "done")
    BY <2>1 DEF Compensated, At
  <2>. QED BY <2>2, <2>3 DEF AtWork
<1>. QED
  BY <1>1, Invariance, PTL

\* A permanent bounce or a complaint that was answered has suppressed every
\* recipient it names, unless it came before the id of its message was stored,
\* when the code answers it and forgets it (AnsweredNoticesTookEffect).
THEOREM AnsweredIsDone == Spec => []AnsweredNoticesTookEffect
<1>1. IInv => AnsweredNoticesTookEffect
  BY DEF IInv, IngestInv, Answered, Effect, AnsweredNoticesTookEffect
<1>. QED
  BY <1>1, Invariance, PTL

\* No report, request or commit makes a suppression weaker (SuppressionsStick).
THEOREM SuppressionsAreKept == Spec => SuppressionsStick
<1>. DEFINE Kept == \A c \in Contacts :
              /\ contact[c] = "all" => contact'[c] = "all"
              /\ contact[c] = "marketing" => contact'[c] \in {"marketing", "all"}
<1>1. IInv /\ [Next]_allVars => [Kept]_allVars
  BY StepKeeps DEF Stronger
<1>. QED
  BY <1>1, Invariance, PTL DEF Spec, SuppressionsStick
=============================================================================
