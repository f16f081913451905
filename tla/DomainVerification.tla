------------------------- MODULE DomainVerification -------------------------
(***************************************************************************)
(* The recurring checks of one Custom Domain: a job for the Domain, one    *)
(* for each of its Provider identities and one for the ownership claim of  *)
(* a Project.  A job reads the vendor and live DNS, records what it saw,   *)
(* and schedules itself and its siblings again at the cadence of the       *)
(* outcome.  Jobs are keyed by what they check, so that a schedule         *)
(* replaces the one before it.                                             *)
(*                                                                         *)
(* Each query, look-up and schedule is a step of its own, as in the code.  *)
(* Time is the delay a check asked for; any scheduled job may come due.    *)
(***************************************************************************)
EXTENDS Naturals, FiniteSets

CONSTANTS
  Identities,       \* rows the Domain may have, one per Provider
  Starts,           \* sets of them it may start with
  Records,          \* its direct DNS records
  Domain, Claim,    \* the keys of the other two jobs
  Page,             \* the refresh of the Domain's page, which is no job
  MaxAttempts,      \* retry.maxAttempts
  PendingBase, PendingMax, VerifiedInterval, MaxBackoffLevel,  \* the cadence
  MaxOverlaps,      \* bound: executions started while another is at work
  MaxMishaps,       \* bound: failures, crashes, stale answers and changes of the facts
  MayMeet,          \* what a behaviour may meet
  Absent

CheckKeys == Identities \cup {Domain, Claim}

ASSUME VerificationAssumption ==
  /\ IsFiniteSet(Identities) /\ IsFiniteSet(Records) /\ Records # {}
  /\ Starts \subseteq (SUBSET Identities) \ {{}}
  /\ {MaxAttempts, PendingBase, VerifiedInterval} \subseteq Nat \ {0}
  /\ {PendingMax, MaxBackoffLevel, MaxOverlaps, MaxMishaps} \subseteq Nat
  /\ PendingBase <= PendingMax /\ PendingMax < VerifiedInterval
  /\ MayMeet \subseteq SUBSET {"overlap", "failures", "refresh", "removal", "claim", "drift"}
  /\ {Domain, Claim, Page, Absent} \cap Identities = {}
  /\ Domain # Claim /\ Page \notin {Domain, Claim}

\* overlap:  executions interleave.
\* failures: calls fail, processes die, resolvers answer from a cache.
\* refresh:  a Project looks at the page of its Domain.
\* removal:  identities come and go, and the Domain is removed.
\* claim:    a Project claims the Domain.
\* drift:    what vendors and DNS say changes.
VARIABLES
  meets,        \* what this behaviour meets
  row,          \* email_domain_provider_identity: its verification
  gone,         \* identities removed; a row never gets an earlier row's id
  customDomain, \* custom_domain: its verification
  link,         \* organization_domain: its ownership verification
  status,       \* email_dns_record.status
  vendor,       \* identities the vendor reports as verified
  live,         \* records that live DNS matches
  proof,        \* whether the ownership challenge is in DNS
  scheduled,    \* sorted set: the delay each key waits for
  ready,        \* stream entries not acknowledged and not at work
  delayed,      \* sorted set of retries
  running,      \* executions at work
  lost,         \* history: keys whose chain a burial or a failed schedule cut
  overlaps, mishaps

verificationVars ==
  <<meets, row, gone, customDomain, link, status, vendor, live, proof, scheduled,
    ready, delayed, running, lost, overlaps, mishaps>>
rows  == <<row, gone, customDomain, link, status>>
facts == <<vendor, live, proof>>
queue == <<ready, delayed>>

Status == {"not_verified", "partially_verified", "verified"}
Levels == 0..MaxBackoffLevel
Delays == 0..VerifiedInterval
Checks == [status : Status, level : Levels, next : Delays \cup {Absent}]
Fresh  == [status |-> "not_verified", level |-> 0, next |-> Absent]

ASSUME ChecksAssumption == Absent \notin Checks \cup Delays

Entries == [key : CheckKeys, attempts : 0..MaxAttempts - 1]

\* levels: backoff levels as loaded.  left: identities still to verify.
\* seen:   records found active, todo: those to look up.
\* delay:  identityNextCheckAt.  soonest: the earliest Domain check so far.
CheckSteps == {"ask", "recordIdentity", "dns", "recordDomain", "scheduleDomain",
               "reload", "scheduleIdentity", "finish", "loadLink", "challenge",
               "recordLink", "settle"}
Executions ==
  [key : CheckKeys \cup {Page}, attempts : 0..MaxAttempts - 1, step : CheckSteps,
   levels : [Identities -> Levels], left : SUBSET Identities,
   id : Identities \cup {Absent}, answer : BOOLEAN, todo : SUBSET Records,
   seen : SUBSET Records, level : Levels, delay : Delays,
   soonest : Delays \cup {Absent}, turn : 0..MaxOverlaps]

VerificationTypeOK ==
  /\ meets \in MayMeet
  /\ row \in [Identities -> Checks \cup {Absent}]
  /\ gone \subseteq Identities
  /\ customDomain \in Checks \cup {Absent} /\ link \in Checks \cup {Absent}
  /\ status \in [Records -> {"pending", "active", "missing"}]
  /\ vendor \subseteq Identities /\ live \subseteq Records /\ proof \in BOOLEAN
  /\ scheduled \in [CheckKeys -> Delays \cup {Absent}]
  /\ ready \subseteq Entries /\ delayed \subseteq Entries
  /\ running \subseteq Executions /\ lost \subseteq CheckKeys
  /\ overlaps \in 0..MaxOverlaps /\ mishaps \in 0..MaxMishaps

\* A Domain as createCustomDomain, and perhaps a claim, leave it: an identity
\* or more and their jobs due.
VerificationInit ==
  /\ meets \in MayMeet
  /\ \E here \in Starts :
       /\ meets = {} \/ Cardinality(here) = 1
       /\ row = [i \in Identities |-> IF i \in here THEN Fresh ELSE Absent]
       /\ scheduled = [k \in CheckKeys |->
            IF k \in here \cup {Domain} \/ (k = Claim /\ "claim" \in meets)
            THEN 0 ELSE Absent]
  /\ gone = {} /\ link = IF "claim" \in meets THEN Fresh ELSE Absent
  /\ customDomain = Fresh /\ status = [r \in Records |-> "pending"]
  /\ vendor \in {{}, Identities} /\ live \in {{}, Records}
  /\ proof \in (IF "claim" \in meets THEN BOOLEAN ELSE {FALSE})
  /\ ready = {} /\ delayed = {} /\ running = {} /\ lost = {}
  /\ overlaps = 0 /\ mishaps = 0

-----------------------------------------------------------------------------
(* The cadence.                                                            *)

Least(a, b) == IF a <= b THEN a ELSE b

\* computeNextCheckAt.
NextDelay(s, level) ==
  IF s = "verified" THEN VerifiedInterval
  ELSE Least(PendingBase * 2 ^ Least(level, MaxBackoffLevel), PendingMax)

NextLevel(s, level) ==
  CASE s = "verified"           -> 0
    [] s = "partially_verified" -> Least(level, MaxBackoffLevel)
    [] s = "not_verified"       -> Least(level + 1, MaxBackoffLevel)

NextCheck(s, level) ==
  [status |-> s, level |-> NextLevel(s, level), next |-> NextDelay(s, level)]

\* Mutant: records that are missing do not matter while one is active.
AnyActive(active, missing) ==
  IF active = 0 THEN "not_verified" ELSE "verified"

\* Mutant: without the last branch nothing is verified.
NeverVerified(active, missing) ==
  IF active = 0 THEN "not_verified" ELSE "partially_verified"

\* mergeVerificationStatus.  What the provider says is computed first, and
\* the records then decide in every case.
MergeStatus(active, missing) ==
  CASE active = 0                -> "not_verified"
    [] active > 0 /\ missing > 0 -> "partially_verified"
    [] active > 0 /\ missing = 0 -> "verified"

\* Mutant: the Domain waits for its Provider.
IdentityDelay(identityDelay, domainDelay) == identityDelay

\* nextDomainVerifyAt.
DomainDelay(identityDelay, domainDelay) ==
  IF domainDelay # Absent /\ domainDelay < identityDelay
  THEN domainDelay ELSE identityDelay

-----------------------------------------------------------------------------
(* Jobs by key.                                                            *)

Present   == {i \in Identities : row[i] # Absent}
Entry(k, n) == [key |-> k, attempts |-> n]

Proceed(x, y) == running' = (running \ {x}) \cup {y}

\* jobs.schedule and jobs.cancel: one script each.
Schedule(k, delay) ==
  /\ scheduled' = [scheduled EXCEPT ![k] = delay]
  /\ lost' = lost \ {k}
Cancel(k) ==
  /\ scheduled' = [scheduled EXCEPT ![k] = Absent]
  /\ UNCHANGED lost

\* promoteScheduledJobs.  An entry that still waits stands for a second one
\* of its key.
Promote(k) ==
  /\ scheduled[k] # Absent
  /\ scheduled' = [scheduled EXCEPT ![k] = Absent]
  /\ ready' = ready \cup {Entry(k, 0)}
  /\ UNCHANGED <<meets, rows, facts, delayed, running, lost, overlaps, mishaps>>

\* promoteDelayedJobs.
Retry(e) ==
  /\ e \in delayed
  /\ delayed' = delayed \ {e} /\ ready' = ready \cup {e}
  /\ UNCHANGED <<meets, rows, facts, scheduled, running, lost, overlaps, mishaps>>

MayStart == running = {} \/ ("overlap" \in meets /\ overlaps < MaxOverlaps)

Start(k, attempts, step, left) ==
  /\ overlaps' = IF running = {} THEN overlaps ELSE overlaps + 1
  /\ running' = running \cup
       {[key |-> k, attempts |-> attempts, step |-> step,
         levels |-> [i \in Identities |-> IF i \in left THEN row[i].level ELSE 0],
         left |-> left, id |-> Absent, answer |-> FALSE, todo |-> {}, seen |-> {},
         level |-> 0, delay |-> 0,
         soonest |-> Absent, turn |-> overlaps']}

\* What a job finds of the rows of its key; without them it has nothing to do
\* and does not come again.
Load(e) ==
  CASE e.key \in Present                  -> Start(e.key, e.attempts, "ask", {e.key})
    [] e.key = Domain /\ customDomain # Absent    ->
         Start(Domain, e.attempts, IF Present = {} THEN "finish" ELSE "ask", Present)
    [] e.key = Claim /\ customDomain # Absent ->
         Start(Claim, e.attempts, "loadLink", {})
    [] OTHER                              -> UNCHANGED <<running, overlaps>>

StartJob(e) ==
  /\ MayStart /\ e \in ready
  /\ ready' = ready \ {e}
  /\ Load(e)
  /\ UNCHANGED <<meets, rows, facts, scheduled, delayed, lost, mishaps>>

\* refreshCustomDomainForProject.
StartRefresh ==
  /\ "refresh" \in meets /\ MayStart
  /\ Present # {}
  /\ Start(Page, 0, "ask", Present)
  /\ UNCHANGED <<meets, rows, facts, scheduled, queue, lost, mishaps>>

Mishap == mishaps < MaxMishaps /\ mishaps' = mishaps + 1

-----------------------------------------------------------------------------
(* verifyCustomDomainProviderIdentity.                                     *)

\* The vendor is asked for the next identity.
Ask(x, i) ==
  /\ x.step = "ask" /\ i \in x.left
  /\ Proceed(x, [x EXCEPT !.step = "recordIdentity", !.id = i, !.left = @ \ {i},
                          !.answer = i \in vendor])
  /\ UNCHANGED <<meets, rows, facts, scheduled, queue, lost>>

\* Written over whatever the row says by now; its level is the one loaded.
RecordIdentity(x) ==
  /\ x.step = "recordIdentity"
  /\ LET check == NextCheck(IF x.answer THEN "verified" ELSE "not_verified",
                            x.levels[x.id])
     IN /\ row' = [row EXCEPT ![x.id] = IF @ = Absent THEN Absent ELSE check]
        /\ Proceed(x, [x EXCEPT !.step = "dns", !.delay = check.next,
                                !.todo = IF customDomain = Absent THEN {} ELSE Records,
                                !.seen = {}])
  /\ UNCHANGED <<meets, gone, customDomain, link, status, facts, scheduled, queue, lost>>

\* lookupOnServers: the authoritative servers, or, while they fail, the public
\* resolvers and their caches, which may still answer what no longer holds.
Answers(truth, answer) ==
  \/ answer = truth /\ UNCHANGED mishaps
  \/ answer # truth /\ "failures" \in meets /\ "claim" \notin meets /\ Mishap

\* evaluateLiveDnsRecord: a host or one of its subdomains, a TXT that includes
\* the value, any DMARC policy.
Matches(r) == r \in live

\* A record that was never found stays pending.
CheckRecord(x, r) ==
  /\ x.step = "dns" /\ r \in x.todo
  /\ \E matches \in BOOLEAN :
       /\ Answers(Matches(r), matches)
       /\ status' = IF customDomain = Absent THEN status ELSE
            [status EXCEPT ![r] = IF matches THEN "active"
                                  ELSE IF @ = "pending" THEN @ ELSE "missing"]
       /\ Proceed(x, [x EXCEPT !.todo = @ \ {r},
                               !.seen = IF matches THEN @ \cup {r} ELSE @])
  /\ UNCHANGED <<meets, row, gone, customDomain, link, facts, scheduled, queue, lost>>

\* The Domain's own level, read again.
LoadDomain(x) ==
  /\ x.step = "dns" /\ x.todo = {}
  /\ Proceed(x, [x EXCEPT !.step = "recordDomain",
                          !.level = IF customDomain = Absent THEN 0 ELSE customDomain.level])
  /\ UNCHANGED <<meets, rows, facts, scheduled, queue, lost>>

AfterIdentity(x) ==
  CASE x.key = Domain                  -> "scheduleIdentity"
    [] x.key = Page /\ x.left # {}     -> "ask"
    [] x.key = Page /\ x.left = {}     -> "loadLink"
    [] OTHER                           -> "scheduleDomain"

RecordDomain(x) ==
  /\ x.step = "recordDomain"
  /\ LET found == Cardinality(x.seen)
         check == NextCheck(MergeStatus(found, Cardinality(Records) - found), x.level)
         delay == DomainDelay(x.delay, check.next)
     IN /\ customDomain' = IF customDomain = Absent THEN Absent ELSE check
        /\ Proceed(x, [x EXCEPT !.step = AfterIdentity(x),
                                !.soonest = IF @ = Absent THEN delay ELSE Least(@, delay)])
  /\ UNCHANGED <<meets, row, gone, link, status, facts, scheduled, queue, lost>>
-----------------------------------------------------------------------------
(* What a job schedules when it has verified.                              *)

\* A Domain job: the identity it has verified, then the next of them.
ScheduleIdentity(x) ==
  /\ x.step = "scheduleIdentity"
  /\ Schedule(x.id, x.delay)
  /\ Proceed(x, [x EXCEPT !.step = IF x.left = {} THEN "finish" ELSE "ask"])
  /\ UNCHANGED <<meets, rows, facts, queue>>

\* An identity job: the Domain, at the sooner of the two cadences.
ScheduleDomain(x) ==
  /\ x.step = "scheduleDomain"
  /\ Schedule(Domain, x.soonest)
  /\ Proceed(x, [x EXCEPT !.step = "reload"])
  /\ UNCHANGED <<meets, rows, facts, queue>>

\* Mutant: an identity without a backoff level is not scheduled again.
ReloadLevel(x) ==
  /\ x.step = "reload"
  /\ Proceed(x, [x EXCEPT !.step = "finish",
                 !.soonest = IF x.levels[x.id] = 0 THEN Absent ELSE x.delay])
  /\ UNCHANGED <<meets, rows, facts, scheduled, queue, lost>>

\* The next check its row holds by now.
Reload(x) ==
  /\ x.step = "reload"
  /\ Proceed(x, [x EXCEPT !.step = "finish",
                 !.soonest = IF row[x.id] = Absent THEN Absent ELSE row[x.id].next])
  /\ UNCHANGED <<meets, rows, facts, scheduled, queue, lost>>

\* The job's own key; the entry is acknowledged.
Finish(x) ==
  /\ x.step = "finish"
  /\ IF x.soonest = Absent THEN Cancel(x.key) ELSE Schedule(x.key, x.soonest)
  /\ running' = running \ {x}
  /\ UNCHANGED <<meets, rows, facts, queue>>

-----------------------------------------------------------------------------
(* verifyCustomDomainOwnership and its job.  The transfer that a proof      *)
(* brings about is CustomDomain's.                                         *)

\* A call fails or the link is missing: the job is retried until its attempts
\* are spent, and then buried.
Failed(x) ==
  /\ running' = running \ {x}
  /\ CASE x.key = Page                    -> UNCHANGED <<delayed, lost>>
       [] x.key # Page /\ x.attempts + 1 < MaxAttempts ->
            /\ delayed' = delayed \cup {Entry(x.key, x.attempts + 1)}
            /\ UNCHANGED lost
       [] OTHER -> /\ lost' = lost \cup {x.key} \cup
                               (IF x.key = Claim THEN {} ELSE {Domain})
                   /\ UNCHANGED delayed

Pending == link # Absent /\ link.status # "verified"

\* The page looks at the claim only while it is pending.
LoadLink(x) ==
  /\ x.step = "loadLink"
  /\ \/ /\ IF x.key = Page THEN Pending ELSE link # Absent
        /\ Proceed(x, [x EXCEPT !.step = "challenge", !.level = link.level])
        /\ UNCHANGED <<delayed, lost>>
     \/ /\ x.key = Page /\ ~Pending
        /\ running' = running \ {x} /\ UNCHANGED <<delayed, lost>>
     \/ /\ x.key = Claim /\ link = Absent
        /\ Failed(x)
  /\ UNCHANGED <<meets, rows, facts, scheduled, ready>>

Challenge(x) ==
  /\ x.step = "challenge"
  /\ \E found \in BOOLEAN :
       /\ Answers(proof, found)
       /\ Proceed(x, [x EXCEPT !.step = "recordLink", !.answer = found])
  /\ UNCHANGED <<meets, rows, facts, scheduled, queue, lost>>

RecordLink(x) ==
  /\ x.step = "recordLink"
  /\ LET check == NextCheck(IF x.answer THEN "verified" ELSE "not_verified", x.level)
     IN /\ link' = IF link = Absent THEN Absent ELSE check
        /\ IF x.key = Page THEN running' = running \ {x}
           ELSE Proceed(x, [x EXCEPT !.step = "settle", !.delay = check.next])
  /\ UNCHANGED <<meets, row, gone, customDomain, status, facts, scheduled, queue, lost>>

\* A proved ownership is not checked again.
Settle(x) ==
  /\ x.step = "settle"
  /\ IF x.answer THEN Cancel(Claim) ELSE Schedule(Claim, x.delay)
  /\ running' = running \ {x}
  /\ UNCHANGED <<meets, rows, facts, queue>>

-----------------------------------------------------------------------------
(* Failures, workers that start, and what else changes the rows.           *)

\* Bound: in behaviours with a claim it is the job of the claim that fails.
MayFail(x) == "failures" \in meets /\ ("claim" \in meets => x.key = Claim)

Fail(x) ==
  /\ MayFail(x) /\ Mishap
  /\ Failed(x)
  /\ UNCHANGED <<meets, rows, facts, scheduled, ready>>

\* The process dies; a job's entry is reclaimed with the attempts it had.
Crash(x) ==
  /\ MayFail(x) /\ Mishap
  /\ running' = running \ {x}
  /\ ready' = IF x.key = Page THEN ready ELSE ready \cup {Entry(x.key, x.attempts)}
  /\ UNCHANGED <<meets, rows, facts, scheduled, delayed, lost>>

\* A worker starts: every row that has a next check is scheduled at it.
NextOf(k) ==
  CASE k \in Identities -> IF row[k] = Absent THEN Absent ELSE row[k].next
    [] k = Domain       -> IF customDomain = Absent THEN Absent ELSE customDomain.next
    [] k = Claim        -> IF Pending THEN link.next ELSE Absent

Reconcile ==
  /\ "failures" \in meets
  /\ LET due == {k \in CheckKeys : NextOf(k) # Absent}
     IN /\ scheduled' = [k \in CheckKeys |-> IF k \in due THEN NextOf(k) ELSE scheduled[k]]
        /\ lost' = {k \in lost : NextOf(k) = Absent}
  /\ UNCHANGED <<meets, rows, facts, queue, running>>

\* A claim with another Provider: the identity, then its jobs, of which a
\* failure leaves only the first or none (scheduleCustomDomainVerification).
Register(i) ==
  /\ "removal" \in meets /\ customDomain # Absent /\ i \notin Present \cup gone
  /\ row' = [row EXCEPT ![i] = Fresh]
  /\ \E done \in {{}, {Domain}, {Domain, i}} :
       /\ IF i \in done THEN UNCHANGED mishaps ELSE Mishap
       /\ scheduled' = [k \in CheckKeys |-> IF k \in done THEN 0 ELSE scheduled[k]]
       /\ lost' = (lost \cup {i, Domain}) \ done
  /\ UNCHANGED <<meets, gone, customDomain, link, status, facts, queue, running>>

\* A transfer drops the identities it does not keep.
RemoveIdentity(i) ==
  /\ "removal" \in meets /\ i \in Present
  /\ row' = [row EXCEPT ![i] = Absent] /\ gone' = gone \cup {i}
  /\ UNCHANGED <<meets, customDomain, link, status, facts, scheduled, queue, running, lost>>

\* The last statement of a removal cascades; no job is cancelled.
RemoveDomain ==
  /\ "removal" \in meets /\ customDomain # Absent
  /\ customDomain' = Absent /\ link' = Absent
  /\ row' = [i \in Identities |-> Absent] /\ gone' = Identities
  /\ UNCHANGED <<meets, status, facts, scheduled, queue, running, lost>>

\* Vendors verify and lose identities; customers edit their zone.
Drift ==
  /\ "drift" \in meets /\ Mishap
  /\ \/ /\ "claim" \notin meets
        /\ \E i \in Present :
             vendor' = IF i \in vendor THEN vendor \ {i} ELSE vendor \cup {i}
        /\ UNCHANGED <<live, proof>>
     \/ /\ "claim" \notin meets
        /\ \E r \in Records : live' = IF r \in live THEN live \ {r} ELSE live \cup {r}
        /\ UNCHANGED <<vendor, proof>>
     \/ proof' = ~proof /\ "claim" \in meets /\ UNCHANGED <<vendor, live>>
  /\ UNCHANGED <<meets, rows, scheduled, queue, running, lost>>

-----------------------------------------------------------------------------
Step(x) ==
  \/ /\ \/ \E i \in Identities : Ask(x, i)
        \/ RecordIdentity(x) \/ LoadDomain(x) \/ RecordDomain(x)
        \/ ScheduleIdentity(x) \/ ScheduleDomain(x) \/ Reload(x) \/ Finish(x)
        \/ LoadLink(x) \/ RecordLink(x) \/ Settle(x)
     /\ UNCHANGED mishaps
  \/ \E r \in Records : CheckRecord(x, r)
  \/ Challenge(x)

Worker ==
  \/ \E x \in running : Step(x) /\ UNCHANGED overlaps
  \/ \E k \in CheckKeys : Promote(k)
  \/ \E e \in Entries : Retry(e) \/ StartJob(e)

VerificationNext ==
  \/ Worker
  \/ StartRefresh
  \/ /\ \/ \E x \in running : Fail(x) \/ Crash(x)
        \/ \E i \in Identities : Register(i)
        \/ Drift
     /\ UNCHANGED overlaps
  \/ /\ \/ \E i \in Identities : RemoveIdentity(i)
        \/ Reconcile \/ RemoveDomain
     /\ UNCHANGED <<overlaps, mishaps>>

\* Workers run for good: what is due is promoted and read, and every call of
\* an execution answers.
Fairness ==
  /\ \A k \in CheckKeys : WF_verificationVars(Promote(k))
  /\ \A k \in CheckKeys :
       SF_verificationVars(\E n \in 0..MaxAttempts - 1 : StartJob(Entry(k, n)))
  /\ WF_verificationVars(\E e \in Entries : Retry(e))
  /\ WF_verificationVars(\E x \in running : Step(x) /\ UNCHANGED overlaps)

VerificationSpec == VerificationInit /\ [][VerificationNext]_verificationVars /\ Fairness

-----------------------------------------------------------------------------
(* Correctness.                                                            *)

Waiting(k) ==
  \/ scheduled[k] # Absent
  \/ \E e \in ready \cup delayed : e.key = k
  \/ \E x \in running : x.key = k

\* Two checks of the claim may be at work.
ClaimsOverlap == "overlap" \in meets /\ meets \cap {"refresh", "failures"} # {}

\* No check is forgotten: whatever has a row is waiting for its next check,
\* the Domain at least through an identity, and an ownership until it is
\* proved.  Only a job that spent its attempts, or a registration that failed
\* half way, ends a chain, and a worker that starts restores the chain of every
\* row that was ever checked (handlers.ts 204-232, 576-612, 697-762).  A page,
\* or a second job that a starting worker scheduled, that looked up the TXT record
\* before it was there, and writes its answer after the job that found it, takes
\* the proof back when no check is left to give it again (custom-identity.ts
\* 354-450): those overlaps are left out.
ChecksContinue ==
  /\ \A i \in Present \ lost : Waiting(i)
  /\ (Present # {} /\ lost \cap (Present \cup {Domain}) = {}) =>
       \E k \in Present \cup {Domain} : Waiting(k)
  /\ (link # Absent /\ Claim \notin lost /\ ~ClaimsOverlap) =>
       link.status = "verified" \/ Waiting(Claim)

Quiet == running = {} /\ ready = {} /\ delayed = {}

\* The Domain's check is never later than its own next check.
OnTime ==
  (Quiet /\ customDomain # Absent /\ Domain \notin lost /\ scheduled[Domain] # Absent) =>
    customDomain.next = Absent \/ scheduled[Domain] <= customDomain.next

\* However failures and retries interleave with drift, between jobs the Domain
\* is checked again at the sooner of both cadences (cadence.ts 80-95).  Left out
\* is a job that fails between the Domain's record and its schedule, and whose
\* retry finds its identity gone (handlers.ts 62-80).
ChecksKeepPace ==
  (/\ meets \cap {"overlap", "refresh"} = {}
   /\ ~({"failures", "removal"} \subseteq meets)) => OnTime

\* Between jobs the Domain's status is what its records say: verified when all
\* of them were found, and never while one is missing.
StatusMatchesRecords ==
  (/\ Quiet /\ meets \cap {"overlap", "failures"} = {}
   /\ customDomain # Absent /\ customDomain.next # Absent) =>
    /\ customDomain.status = "verified"     <=> \A r \in Records : status[r] = "active"
    /\ customDomain.status = "not_verified" <=> \A r \in Records : status[r] # "active"

\* Once vendor and DNS stay as they should be, the Domain and its identities
\* become and stay verified, when calls answer and nothing is removed.
Healthy  == vendor = Identities /\ live = Records
Verified == /\ customDomain # Absent /\ customDomain.status = "verified"
            /\ \A i \in Present : row[i].status = "verified"
EventuallyVerified ==
  meets \cap {"failures", "removal"} = {} => (<>[]Healthy => <>[]Verified)

\* The rows a check leaves: types, and a status that follows the records.
VerificationInv == VerificationTypeOK /\ StatusMatchesRecords
=============================================================================
