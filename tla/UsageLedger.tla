---------------------------- MODULE UsageLedger ----------------------------
(***************************************************************************)
(* The metering ledger of packages/channels: one reservation per Delivery  *)
(* and one counter per provider kind and window, all in Redis and changed  *)
(* by one Lua script per operation.  The module is about one billing user, *)
(* channel and purpose, whose counters no other shares.                    *)
(*                                                                         *)
(* A window is a calendar day or a billing period.  The limits a script    *)
(* runs with were resolved from Postgres just before it, so each call may  *)
(* see any of Policies: the plan can change between any two calls.         *)
(***************************************************************************)
EXTENDS Naturals, FiniteSets

CONSTANTS
  Deliveries,
  Kinds,         \* provider kinds: managed, byo
  Days,
  Periods,
  Policies,      \* what UsagePolicy may resolve to
  Limit,         \* [policy, kind, "daily" or "monthly" -> a limit]
  PeriodOf,      \* the billing period under a policy
  Unlimited,     \* the null limit, passed to the scripts as -1
  NoReservation

Spans == {"daily", "monthly"}

ASSUME UsageLedgerAssumption ==
  /\ IsFiniteSet(Deliveries)
  /\ Days \cap Periods = {}
  /\ Unlimited \notin Nat
  /\ Limit \in [Policies \X Kinds \X Spans -> Nat \cup {Unlimited}]
  /\ PeriodOf \in [Policies -> Periods]

Windows == Days \cup Periods
Buckets == Kinds \X Windows   \* counterKeys: one per kind and window

Reservation == [status : {"reserved", "confirmed", "released"},
                kind : Kinds, day : Days, period : Periods]

ASSUME NoReservationAssumption == NoReservation \notin Reservation

VARIABLES
  reservation,  \* the hash of each Delivery
  count,        \* the counter of each bucket; an absent key counts 0
  over          \* the windows whose counters may have expired

ledgerVars == <<reservation, count, over>>

LedgerTypeOK ==
  /\ reservation \in [Deliveries -> Reservation \cup {NoReservation}]
  /\ count \in [Buckets -> Nat]
  /\ over \subseteq Windows

LedgerInit ==
  /\ reservation = [d \in Deliveries |-> NoReservation]
  /\ count = [b \in Buckets |-> 0]
  /\ over = {}

-----------------------------------------------------------------------------
\* The two buckets of a reservation: its dailyKey and its monthlyKey.
CounterKeys(kind, day, period) == {<<kind, day>>, <<kind, period>>}
KeysOf(r) == CounterKeys(r.kind, r.day, r.period)

LimitOf(p, b) == Limit[p, b[1], IF b[2] \in Days THEN "daily" ELSE "monthly"]
Metered(p, b) == LimitOf(p, b) # Unlimited

\* The buckets a policy charges; a null limit leaves the counter alone.
Charged(p, kind, day) == {b \in CounterKeys(kind, day, PeriodOf[p]) : Metered(p, b)}

\* Mutant: the counter may pass its limit by one.
HasRoomAfter(p, kind, day) ==
  \A b \in Charged(p, kind, day) : count[b] <= LimitOf(p, b)

\* Neither INCR overshoots its limit.
HasRoom(p, kind, day) == \A b \in Charged(p, kind, day) : count[b] < LimitOf(p, b)

\* INCR of the buckets in `up`, DECR of those in `down` that are above zero.
Recount(up, down) ==
  count' = [b \in Buckets |->
    IF b \in up THEN count[b] + 1
    ELSE IF b \in down /\ count[b] > 0 THEN count[b] - 1
    ELSE count[b]]

SetReservation(d, r) == reservation' = [reservation EXCEPT ![d] = r]

\* RESERVE_SCRIPT.  A Delivery that has a reservation keeps it, and a refused
\* one takes its INCRs back: neither changes anything.
Reserve(d, kind, day, p) ==
  /\ reservation[d] = NoReservation
  /\ HasRoom(p, kind, day)
  /\ Recount(Charged(p, kind, day), {})
  /\ SetReservation(d, [status |-> "reserved", kind |-> kind, day |-> day,
                        period |-> PeriodOf[p]])
  /\ UNCHANGED over

\* Mutant: the counters the reservation leaves are not decremented.
RemeterWithoutRefund(d, kind, p) ==
  LET r == reservation[d] IN
  /\ r # NoReservation
  /\ r.status = "reserved" /\ r.kind # kind
  /\ HasRoom(p, kind, r.day)
  /\ Recount(Charged(p, kind, r.day), {})
  /\ SetReservation(d, [r EXCEPT !.kind = kind, !.period = PeriodOf[p]])
  /\ UNCHANGED over

\* REMETER_SCRIPT: the reservation moves to the provider kind that sends.
Remeter(d, kind, p) ==
  LET r == reservation[d] IN
  /\ r # NoReservation
  /\ r.status = "reserved" /\ r.kind # kind
  /\ HasRoom(p, kind, r.day)
  /\ Recount(Charged(p, kind, r.day), KeysOf(r))
  /\ SetReservation(d, [r EXCEPT !.kind = kind, !.period = PeriodOf[p]])
  /\ UNCHANGED over

\* CONFIRM_SCRIPT; a confirmed reservation stays so, a released one is refused.
Confirm(d) ==
  /\ reservation[d] # NoReservation
  /\ reservation[d].status = "reserved"
  /\ SetReservation(d, [reservation[d] EXCEPT !.status = "confirmed"])
  /\ UNCHANGED <<count, over>>

\* Mutant: a second release gives the place back again.
ReleaseAgain(d) ==
  /\ reservation[d] # NoReservation
  /\ reservation[d].status # "confirmed"
  /\ Recount({}, KeysOf(reservation[d]))
  /\ SetReservation(d, [reservation[d] EXCEPT !.status = "released"])
  /\ UNCHANGED over

\* Mutant: a confirmed reservation can be released.
ReleaseConfirmed(d) ==
  /\ reservation[d] # NoReservation
  /\ reservation[d].status # "released"
  /\ Recount({}, KeysOf(reservation[d]))
  /\ SetReservation(d, [reservation[d] EXCEPT !.status = "released"])
  /\ UNCHANGED over

\* RELEASE_SCRIPT; a confirmed or released reservation is left alone.
Release(d) ==
  /\ reservation[d] # NoReservation
  /\ reservation[d].status = "reserved"
  /\ Recount({}, KeysOf(reservation[d]))
  /\ SetReservation(d, [reservation[d] EXCEPT !.status = "released"])
  /\ UNCHANGED over

WindowEnds(w) ==
  /\ over' = over \cup {w}
  /\ UNCHANGED <<reservation, count>>

\* EXPIRE, set by the first INCR of a key to no sooner than its window's end.
CounterExpires(b) ==
  /\ b[2] \in over
  /\ count' = [count EXCEPT ![b] = 0]
  /\ UNCHANGED <<reservation, over>>

LedgerNext ==
  \/ \E d \in Deliveries, kind \in Kinds, p \in Policies :
       \/ \E day \in Days : Reserve(d, kind, day, p)
       \/ Remeter(d, kind, p)
  \/ \E d \in Deliveries : Confirm(d) \/ Release(d)
  \/ \E w \in Windows : WindowEnds(w)
  \/ \E b \in Buckets : CounterExpires(b)

LedgerSpec == LedgerInit /\ [][LedgerNext]_ledgerVars

-----------------------------------------------------------------------------
(* Correctness.                                                            *)

\* The Deliveries whose Usage is counted against bucket b: the send is still
\* possible or has happened.
Holds(r, b) == r # NoReservation /\ r.status # "released" /\ b \in KeysOf(r)
Holders(b) == {d \in Deliveries : Holds(reservation[d], b)}

\* A user is never charged for more sends than Deliveries that hold a place,
\* whatever is retried, released twice, moved between providers or expires,
\* and whatever the plan becomes meanwhile (usage-ledger.ts 12-161).
NeverOvercharged == \A b \in Buckets : count[b] <= Cardinality(Holders(b))

AlwaysMetered(b) == \A p \in Policies : Metered(p, b)

\* The counter of a bucket every policy meters is exact until its window is
\* over: no confirm, double release or remeter makes it drift.
CountersExact ==
  \A b \in Buckets :
    (AlwaysMetered(b) /\ b[2] \notin over) => count[b] = Cardinality(Holders(b))

\* So the quota holds: where every policy meters a bucket, no more Deliveries
\* hold a place in it, while its window lasts, than the largest limit allows.
QuotaHeld ==
  \A b \in Buckets :
    (AlwaysMetered(b) /\ b[2] \notin over /\ Holders(b) # {}) =>
      \E p \in Policies : Cardinality(Holders(b)) <= LimitOf(p, b)

\* Usage is consumed once: what is confirmed is never given back or moved,
\* and what was released can neither be sent nor released again
\* (usage.test.ts: "confirmed Usage remains consumed when cleanup is
\* replayed", "releasing twice cannot release another Delivery's Usage").
FinalizedOnce ==
  [][\A d \in Deliveries :
       (reservation[d] # NoReservation /\ reservation[d].status # "reserved") =>
         reservation'[d] = reservation[d]]_ledgerVars

\* A place is freed only by the Delivery that held it: a live counter falls
\* by one, and only when a reserved Delivery leaves that bucket.
OnlyOwnPlaceFreed ==
  [][\A b \in Buckets :
       (b[2] \notin over' /\ count'[b] < count[b]) =>
         /\ count'[b] = count[b] - 1
         /\ \E d \in Holders(b) : reservation[d].status = "reserved"
                                  /\ d \notin Holders(b)']_ledgerVars

\* The counters against the reservations: nobody is overcharged, and where
\* every policy meters a bucket nothing is missed (usage-ledger.ts 12-161).
LedgerInv == LedgerTypeOK /\ NeverOvercharged /\ CountersExact
=============================================================================
