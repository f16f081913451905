------------------------ MODULE EmailDeliveryProofs ------------------------
(***************************************************************************)
(* Proofs about EmailDelivery for any number of Deliveries, Providers,     *)
(* loops, attempts and failures, with and without overlapping executions.  *)
(***************************************************************************)
EXTENDS EmailDelivery, FiniteSetTheorems, WellFoundedInduction, TLAPS

-----------------------------------------------------------------------------
(* The inductive invariant.                                                *)

Unsettled == {"accepted", "confirm"}
Trying    == {"remeter", "send", "sendFailed", "leave", "accepted", "confirm", "mark"}
Idling    == {"load", "retry", "cleanup", "ack"}

\* The executions of a Delivery that are in one of some phases.
Held(d, P) == {x \in running : x.env.delivery = d /\ x.phase \in P}

\* A loop executes a Delivery once at a time, and without overlap only one
\* loop does.
Apart == \A x, y \in running :
  (x.env.delivery = y.env.delivery /\ ("overlap" \in mode => x.lane = y.lane)) => x = y

\* What is known of an execution in each of its phases.
InStep(x) ==
  LET d == x.env.delivery IN
  /\ x.phase \in Trying => x.route # {}
  /\ x.phase \in Unsettled \cup {"mark"} => accepted[d] > 0
  /\ x.phase = "mark" => usage[d].status = "confirmed"
  /\ "overlap" \notin mode =>
       /\ x.phase \in Unsettled \cup {"send"} => usage[d].status = "reserved"
       /\ x.phase \in Unsettled \cup {"send", "mark"} => usage[d].kind = KindOf[Current(x)]
       /\ x.phase \notin Idling => ~Over(d)

\* The acceptances of a Delivery against its Usage: while it is reserved every
\* one of them is held or lost, and once it is finalized only the executions
\* that are past the gate can add another.
Books(d) ==
  LET held == Cardinality(Held(d, Unsettled))
      past == Cardinality(Held(d, {"send"})) IN
  /\ usage[d].status = "reserved" => accepted[d] = lost[d] + held
  /\ usage[d].status # "reserved" => accepted[d] + past <= lost[d] + Cardinality(Lanes)
  /\ "overlap" \notin mode =>
       accepted[d] = lost[d] + held + (IF usage[d].status = "confirmed" THEN 1 ELSE 0)

\* What a Delivery says of itself.
Told(d) ==
  /\ "message.sent" \in announced[d] => accepted[d] > 0 /\ usage[d].status = "confirmed"
  /\ ("overlap" \notin mode /\ row[d].status = "sent") =>
       /\ usage[d].status = "confirmed"
       /\ usage[d].kind = KindOf[row[d].provider]

IInv ==
  /\ TypeOK
  /\ Apart
  /\ \A x \in running : InStep(x)
  /\ \A d \in Deliveries : Books(d) /\ Told(d)

-----------------------------------------------------------------------------
(* Places, and the executions of a Delivery.                               *)

\* A set of numbers that is not empty has a least one.
LEMMA Lowest ==
  ASSUME NEW S \in SUBSET Nat, S # {}
  PROVE  Min(S) \in S
<1>. DEFINE less == {ss \in Nat \X Nat : ss[1] < ss[2]}
<1>1. OpToRel(<, Nat) = less
  BY DEF OpToRel
<1>2. IsWellFoundedOn(OpToRel(<, Nat), Nat)
  BY NatLessThanWellFounded
<1>3. IsWellFoundedOn(less, Nat)
  BY <1>1, <1>2, Zenon
<1>4. PICK i \in S : \A j \in S : <<j, i>> \notin less
  BY <1>3, WFMin
<1>5. \A j \in S : ~(j < i)
  BY <1>4
<1>6. \A j \in S : i <= j
  BY <1>5
<1>. QED
  BY <1>6 DEF Min

\* What an execution is, part by part.
LEMMA Parts ==
  ASSUME NEW x \in Execution
  PROVE  /\ x.lane \in Lanes /\ x.env \in Envelope /\ x.phase \in Phases
         /\ x.route \in SUBSET (1..Len(Order)) /\ x.standby \in BOOLEAN
         /\ x.env.delivery \in Deliveries /\ x.env.attempts \in Nat
  BY DEF Execution, Envelope

\* The Provider of an execution is one of the Domain's.
LEMMA CurrentTyped ==
  ASSUME NEW x \in Execution, x.route # {}
  PROVE  Min(x.route) \in 1..Len(Order) /\ Current(x) \in Providers
<1>1. x.route \in SUBSET (1..Len(Order))
  BY Parts
<1>2. Len(Order) \in Nat /\ Order \in [1..Len(Order) -> Providers]
  BY EmailDeliveryAssumption
<1>3. x.route \in SUBSET Nat
  BY <1>1, <1>2
<1>4. Min(x.route) \in x.route
  BY <1>3, Lowest
<1>. QED
  BY <1>1, <1>2, <1>4 DEF Current

\* The executions of a Delivery are no more than there are loops.
LEMMA HeldBound ==
  ASSUME TypeOK, Apart, NEW d
  PROVE  LET all == {x \in running : x.env.delivery = d} IN
         IsFiniteSet(all) /\ Cardinality(all) <= Cardinality(Lanes)
<1>. DEFINE all == {x \in running : x.env.delivery = d}
            f == [x \in all |-> x.lane]
<1>1. \A x \in all : x \in Execution
  BY DEF TypeOK
<1>2. \A x \in all : f[x] \in Lanes
  BY <1>1, Parts
<1>3. \A x, y \in all : f[x] = f[y] => x = y
  BY DEF Apart
<1>4. f \in Injection(all, Lanes)
  BY <1>2, <1>3 DEF Injection, IsInjective
<1>5. IsFiniteSet(Lanes)
  BY EmailDeliveryAssumption
<1>. QED
  BY <1>4, <1>5, FS_Injection

LEMMA HeldFinite ==
  ASSUME TypeOK, Apart, NEW d, NEW P
  PROVE  IsFiniteSet(Held(d, P)) /\ Cardinality(Held(d, P)) \in Nat
<1>1. Held(d, P) \in SUBSET {x \in running : x.env.delivery = d}
  BY DEF Held
<1>2. IsFiniteSet(Held(d, P))
  BY <1>1, HeldBound, FS_Subset
<1>. QED
  BY <1>2, FS_CardinalityType

\* Nor are those that hold an acceptance and those past the gate together.
LEMMA HeldTogether ==
  ASSUME TypeOK, Apart, NEW d
  PROVE  Cardinality(Held(d, Unsettled)) + Cardinality(Held(d, {"send"})) <= Cardinality(Lanes)
<1>. DEFINE all == {x \in running : x.env.delivery = d}
            S == Held(d, Unsettled)  T == Held(d, {"send"})
<1>1. IsFiniteSet(S) /\ IsFiniteSet(T) /\ Cardinality(S) \in Nat /\ Cardinality(T) \in Nat
  BY HeldFinite
<1>2. S \cap T = {} /\ S \cup T \in SUBSET all
  BY DEF Held, Unsettled
<1>3. IsFiniteSet(all) /\ Cardinality(all) <= Cardinality(Lanes)
  BY HeldBound
<1>4. Cardinality(S \cup T) <= Cardinality(all)
  BY <1>2, <1>3, FS_Subset
<1>5. Cardinality(S \cup T) = Cardinality(S) + Cardinality(T) - Cardinality(S \cap T)
  BY <1>1, FS_Union
<1>6. Cardinality(S \cap T) = 0
  BY <1>2, FS_EmptySet
<1>7. Cardinality(all) \in Nat /\ Cardinality(Lanes) \in Nat
  BY <1>3, FS_CardinalityType, EmailDeliveryAssumption
<1>. QED
  BY <1>1, <1>3, <1>4, <1>5, <1>6, <1>7

\* What an execution adds to a count.
Counts(x, d, P) == IF x.env.delivery = d /\ x.phase \in P THEN 1 ELSE 0

\* How a count changes when an execution goes on, ends, or begins.
LEMMA HeldMoves ==
  ASSUME TypeOK, Apart, NEW x \in running, NEW y, Become(x, y),
         y.env = x.env, y.lane = x.lane, NEW d, NEW P
  PROVE  Cardinality(Held(d, P)') = Cardinality(Held(d, P)) - Counts(x, d, P) + Counts(y, d, P)
<1>. DEFINE S == Held(d, P)
<1>1. IsFiniteSet(S) /\ Cardinality(S) \in Nat
  BY HeldFinite
<1>2. y \in running => y = x
  BY DEF Apart
<1>3. running' = (running \ {x}) \cup {y}
  BY DEF Become
<1>4. x \in S <=> Counts(x, d, P) = 1
  BY DEF Held, Counts
<1>5. IsFiniteSet(S \ {x}) /\ Cardinality(S \ {x}) = Cardinality(S) - Counts(x, d, P)
  BY <1>1, <1>4, FS_RemoveElement DEF Counts
<1>6. y \notin S \ {x}
  BY <1>2 DEF Held
<1>7. CASE Counts(y, d, P) = 1
  <2>1. Held(d, P)' = (S \ {x}) \cup {y}
    BY <1>3, <1>7 DEF Held, Counts
  <2>2. Cardinality((S \ {x}) \cup {y}) = Cardinality(S \ {x}) + 1
    BY <1>5, <1>6, FS_AddElement
  <2>. QED BY <1>1, <1>5, <1>7, <2>1, <2>2 DEF Counts
<1>8. CASE Counts(y, d, P) = 0
  <2>1. Held(d, P)' = S \ {x}
    BY <1>3, <1>8 DEF Held, Counts
  <2>. QED BY <1>1, <1>5, <1>8, <2>1 DEF Counts
<1>. QED
  BY <1>7, <1>8 DEF Counts

LEMMA HeldEnds ==
  ASSUME TypeOK, Apart, NEW x \in running, running' = running \ {x}, NEW d, NEW P
  PROVE  Cardinality(Held(d, P)') = Cardinality(Held(d, P)) - Counts(x, d, P)
<1>. DEFINE S == Held(d, P)
<1>1. IsFiniteSet(S) /\ Cardinality(S) \in Nat
  BY HeldFinite
<1>2. Held(d, P)' = S \ {x}
  BY DEF Held
<1>3. x \in S <=> Counts(x, d, P) = 1
  BY DEF Held, Counts
<1>4. /\ IsFiniteSet(S \ {x})
      /\ Cardinality(S \ {x}) = IF x \in S THEN Cardinality(S) - 1 ELSE Cardinality(S)
  BY <1>1, FS_RemoveElement
<1>. QED
  BY <1>1, <1>2, <1>3, <1>4 DEF Counts

LEMMA HeldUnchanged ==
  ASSUME NEW d, NEW P, running' = running
  PROVE  Held(d, P)' = Held(d, P)
  BY DEF Held

-----------------------------------------------------------------------------
(* What a step of one execution leaves alone.                              *)

\* The other rows are not touched, and neither an acceptance nor a
\* confirmation is taken back.
Elsewhere(e) ==
  /\ mode' = mode
  /\ \A d \in Deliveries \ {e} :
       /\ usage'[d] = usage[d] /\ row'[d] = row[d] /\ announced'[d] = announced[d]
       /\ accepted'[d] = accepted[d] /\ lost'[d] = lost[d]
  /\ accepted'[e] >= accepted[e]
  /\ usage[e].status = "confirmed" => usage'[e].status = "confirmed"

\* Another execution is where it was.
LEMMA OthersInStep ==
  ASSUME IInv, NEW x \in running, NEW z \in running, z # x, Elsewhere(x.env.delivery),
         TypeOK'
  PROVE  InStep(z)'
<1>. DEFINE d == z.env.delivery  e == x.env.delivery
<1>1. InStep(z) /\ z \in Execution /\ d \in Deliveries /\ Apart /\ x \in Execution /\ e \in Deliveries
  BY Parts DEF IInv, TypeOK
<1>2. /\ accepted[d] \in Nat /\ accepted'[d] \in Nat /\ accepted'[d] >= accepted[d]
      /\ usage[d].status = "confirmed" => usage'[d].status = "confirmed"
  <2>1. accepted \in [Deliveries -> Nat] /\ accepted' \in [Deliveries -> Nat]
    BY DEF IInv, TypeOK
  <2>2. CASE d = e
    BY <1>1, <2>1, <2>2 DEF Elsewhere
  <2>3. CASE d # e
    BY <1>1, <2>1, <2>3 DEF Elsewhere
  <2>. QED BY <2>2, <2>3
<1>3. CASE "overlap" \in mode
  BY <1>1, <1>2, <1>3 DEF InStep, Elsewhere
<1>4. CASE "overlap" \notin mode
  <2>1. d # e
    BY <1>1, <1>4 DEF Apart
  <2>. QED BY <1>1, <1>2, <1>4, <2>1 DEF InStep, Elsewhere, Over, Current
<1>. QED
  BY <1>3, <1>4

\* The books of another Delivery, while no execution of it moves.
LEMMA OthersBooks ==
  ASSUME NEW d \in Deliveries, Books(d), Told(d), mode' = mode,
         usage'[d] = usage[d], row'[d] = row[d], announced'[d] = announced[d],
         accepted'[d] = accepted[d], lost'[d] = lost[d],
         Cardinality(Held(d, Unsettled)') = Cardinality(Held(d, Unsettled)),
         Cardinality(Held(d, {"send"})') = Cardinality(Held(d, {"send"}))
  PROVE  Books(d)' /\ Told(d)'
  BY DEF Books, Told

\* When an execution goes on, the invariant is what it is for it and its
\* Delivery.
LEMMA GoesOn ==
  ASSUME IInv, TypeOK', NEW x \in running, NEW y, Become(x, y),
         y.env = x.env, y.lane = x.lane, Elsewhere(x.env.delivery),
         InStep(y)', Books(x.env.delivery)', Told(x.env.delivery)'
  PROVE  IInv'
<1>. DEFINE e == x.env.delivery
<1>0. TypeOK /\ Apart /\ mode' = mode
  BY DEF IInv, Elsewhere
<1>1. running' = (running \ {x}) \cup {y}
  BY DEF Become
<1>2. Apart'
  BY <1>0, <1>1 DEF Apart
<1>3. \A z \in running' : InStep(z)'
  BY <1>1, OthersInStep
<1>4. ASSUME NEW d \in Deliveries, d # e PROVE Books(d)' /\ Told(d)'
  <2>1. \A P : Counts(x, d, P) = 0 /\ Counts(y, d, P) = 0
    BY <1>4 DEF Counts
  <2>2. \A P : Cardinality(Held(d, P)') = Cardinality(Held(d, P))
    BY <1>0, <2>1, HeldMoves, HeldFinite
  <2>3. Books(d) /\ Told(d)
    BY DEF IInv
  <2>. QED BY <1>4, <2>2, <2>3, OthersBooks DEF Elsewhere
<1>. QED
  BY <1>2, <1>3, <1>4 DEF IInv

\* The counts of its own Delivery.
One(b) == IF b THEN 1 ELSE 0

LEMMA Own ==
  ASSUME IInv, NEW x \in running, NEW y, Become(x, y), y.env = x.env, y.lane = x.lane
  PROVE  LET d == x.env.delivery
             h == Cardinality(Held(d, Unsettled))  hh == Cardinality(Held(d, Unsettled)')
             g == Cardinality(Held(d, {"send"}))   gg == Cardinality(Held(d, {"send"})') IN
         /\ hh = h - One(x.phase \in Unsettled) + One(y.phase \in Unsettled)
         /\ gg = g - One(x.phase = "send") + One(y.phase = "send")
         /\ h \in Nat /\ g \in Nat /\ Cardinality(Lanes) \in Nat
         /\ h + g <= Cardinality(Lanes)
         /\ accepted[d] \in Nat /\ lost[d] \in Nat
         /\ d \in Deliveries /\ x \in Execution /\ InStep(x) /\ Books(d) /\ Told(d)
<1>. DEFINE d == x.env.delivery
<1>1. TypeOK /\ Apart /\ InStep(x) /\ x \in Execution /\ d \in Deliveries
  BY Parts DEF IInv, TypeOK
<1>2. Books(d) /\ Told(d) /\ accepted[d] \in Nat /\ lost[d] \in Nat
  BY <1>1 DEF IInv, TypeOK
<1>3. \A P : Cardinality(Held(d, P)') = Cardinality(Held(d, P)) - Counts(x, d, P) + Counts(y, d, P)
  BY <1>1, HeldMoves
<1>4. \A P : Counts(x, d, P) = One(x.phase \in P) /\ Counts(y, d, P) = One(y.phase \in P)
  BY DEF Counts, One
<1>5. Cardinality(Lanes) \in Nat
  BY EmailDeliveryAssumption, FS_CardinalityType
<1>6. One(x.phase \in {"send"}) = One(x.phase = "send") /\ One(y.phase \in {"send"}) = One(y.phase = "send")
  BY DEF One
<1>7. /\ Cardinality(Held(d, Unsettled)) \in Nat /\ Cardinality(Held(d, {"send"})) \in Nat
      /\ Cardinality(Held(d, Unsettled)) + Cardinality(Held(d, {"send"})) <= Cardinality(Lanes)
  BY <1>1, HeldFinite, HeldTogether
<1>8. /\ Cardinality(Held(d, Unsettled)') = Cardinality(Held(d, Unsettled)) - One(x.phase \in Unsettled) + One(y.phase \in Unsettled)
      /\ Cardinality(Held(d, {"send"})') = Cardinality(Held(d, {"send"})) - One(x.phase = "send") + One(y.phase = "send")
  BY <1>3, <1>4, <1>6
<1>. QED
  BY <1>1, <1>2, <1>5, <1>7, <1>8

\* The books of its own Delivery, when an execution neither takes up nor puts
\* down an acceptance and does not pass the gate.
LEMMA QuietBooks ==
  ASSUME IInv, NEW x \in running, NEW y, Become(x, y), y.env = x.env, y.lane = x.lane,
         UNCHANGED <<mode, usage, accepted, lost>>,
         x.phase \in Unsettled <=> y.phase \in Unsettled,
         y.phase = "send" => x.phase = "send"
  PROVE  Books(x.env.delivery)'
<1>. DEFINE d == x.env.delivery
<1>1. /\ Cardinality(Held(d, Unsettled)') = Cardinality(Held(d, Unsettled))
      /\ Cardinality(Held(d, {"send"})') <= Cardinality(Held(d, {"send"}))
      /\ Cardinality(Held(d, {"send"})') \in Int
      /\ Cardinality(Held(d, Unsettled)) \in Nat /\ Cardinality(Held(d, {"send"})) \in Nat
      /\ Cardinality(Lanes) \in Nat /\ accepted[d] \in Nat /\ lost[d] \in Nat /\ Books(d)
  BY Own DEF One
<1>. QED
  BY <1>1 DEF Books

\* What an execution is when only its phase changes.
LEMMA PhaseUpdate ==
  ASSUME NEW x \in Execution, NEW p \in Phases, NEW y, y = [x EXCEPT !.phase = p]
  PROVE  /\ y \in Execution /\ y.env = x.env /\ y.lane = x.lane /\ y.phase = p
         /\ y.route = x.route /\ y.standby = x.standby /\ Current(y) = Current(x)
  BY DEF Execution, Current

\* What it is when it leaves a Provider for the next.
LEMMA LeaveUpdate ==
  ASSUME NEW x \in Execution, NEW y,
         y = [x EXCEPT !.route = x.route \ {Min(x.route)}, !.standby = TRUE, !.phase = "choose"]
  PROVE  y \in Execution /\ y.env = x.env /\ y.lane = x.lane /\ y.phase = "choose"
<1>1. "choose" \in Phases /\ x.route \ {Min(x.route)} \in SUBSET (1..Len(Order))
  BY Parts DEF Phases
<1>. DEFINE u == [x EXCEPT !.route = x.route \ {Min(x.route)}]
            v == [u EXCEPT !.standby = TRUE]
<1>2. u \in Execution /\ u.env = x.env /\ u.lane = x.lane
  BY <1>1 DEF Execution
<1>3. v \in Execution /\ v.env = x.env /\ v.lane = x.lane
  BY <1>2 DEF Execution
<1>4. y = [v EXCEPT !.phase = "choose"]
  BY DEF Execution
<1>. QED
  BY <1>1, <1>3, <1>4 DEF Execution

\* A step that changes nothing but the circuits, the queue and its own phase
\* keeps the invariant when what is known of its new phase holds.
LEMMA MovesOn ==
  ASSUME IInv, NEW x \in running, NEW y \in Execution, Become(x, y),
         y.env = x.env, y.lane = x.lane, InStep(y)',
         UNCHANGED <<world, row, usage, announced, accepted, lost>>,
         circuit' \in [Providers -> 0..Threshold],
         queued' \subseteq Envelope, republished' \subseteq Deliveries,
         x.phase \in Unsettled <=> y.phase \in Unsettled,
         y.phase = "send" => x.phase = "send"
  PROVE  IInv'
<1>. DEFINE d == x.env.delivery
<1>1. TypeOK'
  BY DEF IInv, TypeOK, world, Become
<1>2. Books(d)'
  BY QuietBooks DEF world
<1>3. Told(d) /\ accepted[d] \in Nat
  BY Own
<1>4. Told(d)' /\ Elsewhere(d)
  BY <1>3 DEF Told, Elsewhere, world
<1>. QED
  BY <1>1, <1>2, <1>4, GoesOn

-----------------------------------------------------------------------------
(* The steps of the handler.                                               *)

\* What is known of an execution and its Delivery.
LEMMA Known ==
  ASSUME IInv, NEW x \in running
  PROVE  LET d == x.env.delivery IN
         /\ x \in Execution /\ d \in Deliveries /\ x.env \in Envelope
         /\ x.env.attempts \in Nat /\ InStep(x) /\ Books(d) /\ Told(d)
         /\ accepted[d] \in Nat /\ lost[d] \in Nat
         /\ row[d].status \in Statuses /\ row[d].provider \in Providers \cup {None}
         /\ usage[d].status \in {"reserved", "confirmed", "released"} /\ usage[d].kind \in Kinds
<1>1. x \in Execution
  BY DEF IInv, TypeOK
<1>2. x.env.delivery \in Deliveries
  BY <1>1, Parts
<1>3. /\ row[x.env.delivery] \in [status : Statuses, provider : Providers \cup {None}]
      /\ usage[x.env.delivery] \in [status : {"reserved", "confirmed", "released"}, kind : Kinds]
      /\ accepted[x.env.delivery] \in Nat /\ lost[x.env.delivery] \in Nat
  BY <1>2 DEF IInv, TypeOK
<1>. QED
  BY <1>1, <1>2, <1>3, Parts DEF IInv

\* Nothing is asked of an execution that has not begun or is over.
LEMMA IdleInStep ==
  ASSUME NEW y, y.phase \in Idling PROVE InStep(y)'
  BY DEF InStep, Trying, Unsettled, Idling

\* What it is after a failure that is retried, or dead-lettered.
LEMMA FailUpdate ==
  ASSUME NEW x \in Execution, FailRetryably(x)
  PROVE  \E y \in Execution : /\ Become(x, y) /\ y.env = x.env /\ y.lane = x.lane
                              /\ y.route = x.route /\ y.phase \in {"retry", "cleanup"}
<1>. DEFINE p == IF x.env.attempts + 1 < MaxAttempts THEN "retry" ELSE "cleanup"
            y == [x EXCEPT !.phase = p]
<1>1. p \in {"retry", "cleanup"} /\ p \in Phases
  BY DEF Phases
<1>2. y \in Execution /\ y.env = x.env /\ y.lane = x.lane /\ y.route = x.route /\ y.phase = p
  BY <1>1, PhaseUpdate
<1>3. Become(x, y)
  BY DEF FailRetryably, Advance
<1>. QED
  BY <1>1, <1>2, <1>3

\* A failure outside the unconfirmed phases only moves the execution on.
LEMMA FailMoves ==
  ASSUME IInv, NEW x \in running, FailRetryably(x), x.phase \notin Unsettled,
         UNCHANGED <<world, row, usage, announced, accepted, lost>>,
         circuit' \in [Providers -> 0..Threshold], UNCHANGED jobs
  PROVE  IInv'
<1>1. x \in Execution
  BY Known
<1>2. PICK y \in Execution : /\ Become(x, y) /\ y.env = x.env /\ y.lane = x.lane
                             /\ y.phase \in {"retry", "cleanup"}
  BY <1>1, FailUpdate
<1>3. InStep(y)' /\ y.phase \notin Unsettled /\ y.phase # "send"
  BY <1>2, IdleInStep DEF Idling, Unsettled
<1>4. queued' \subseteq Envelope /\ republished' \subseteq Deliveries
  BY DEF jobs, IInv, TypeOK
<1>. QED
  BY <1>2, <1>3, <1>4, MovesOn

\* So does leaving a Provider.
LEMMA LeaveMoves ==
  ASSUME IInv, NEW x \in running, NextProvider(x), x.phase \in {"choose", "remeter", "leave"},
         UNCHANGED <<world, row, usage, announced, accepted, lost, circuit, jobs>>
  PROVE  IInv'
<1>1. x \in Execution /\ InStep(x)
  BY Known
<1>. DEFINE y == [x EXCEPT !.route = x.route \ {Min(x.route)}, !.standby = TRUE, !.phase = "choose"]
<1>2. y \in Execution /\ y.env = x.env /\ y.lane = x.lane /\ y.phase = "choose"
  BY <1>1, LeaveUpdate
<1>3. Become(x, y)
  BY DEF NextProvider
<1>. HIDE DEF y
<1>4. InStep(y)'
  BY <1>1, <1>2 DEF InStep, Trying, Unsettled, Idling, Over, world
<1>5. queued' \subseteq Envelope /\ republished' \subseteq Deliveries /\ circuit' \in [Providers -> 0..Threshold]
  BY DEF jobs, IInv, TypeOK
<1>6. y.phase \notin Unsettled /\ x.phase \notin Unsettled /\ y.phase # "send"
  BY <1>2 DEF Unsettled
<1>. QED
  BY <1>2, <1>3, <1>4, <1>5, <1>6, MovesOn

\* An execution that only changes its phase.
LEMMA AdvanceMoves ==
  ASSUME IInv, NEW x \in running, NEW p \in Phases, Advance(x, p),
         UNCHANGED <<world, row, usage, announced, accepted, lost>>,
         circuit' \in [Providers -> 0..Threshold],
         queued' \subseteq Envelope, UNCHANGED republished,
         x.phase \in Unsettled <=> p \in Unsettled, p # "send",
         p \in Trying => x.route # {},
         p \in Unsettled => x.phase \in Unsettled, p # "mark",
         p \notin Idling => x.phase \notin Idling \/ ~Over(x.env.delivery)
  PROVE  IInv'
<1>1. x \in Execution /\ InStep(x) /\ x.env.delivery \in Deliveries
  BY Known
<1>. DEFINE y == [x EXCEPT !.phase = p]
<1>2. /\ y \in Execution /\ y.env = x.env /\ y.lane = x.lane /\ y.phase = p
      /\ y.route = x.route /\ Current(y) = Current(x)
  BY <1>1, PhaseUpdate
<1>3. Become(x, y)
  BY DEF Advance
<1>. HIDE DEF y
<1>4. InStep(y)'
  BY <1>1, <1>2 DEF InStep, Over, world, Current, Unsettled
<1>5. republished' \subseteq Deliveries
  BY DEF IInv, TypeOK
<1>. QED
  BY <1>2, <1>3, <1>4, <1>5, MovesOn

\* What an execution is once it has its identities.
LEMMA LoadedUpdate ==
  ASSUME NEW x \in Execution, NEW y, y = [x EXCEPT !.phase = "begin", !.route = Route]
  PROVE  y \in Execution /\ y.env = x.env /\ y.lane = x.lane /\ y.phase = "begin"
<1>1. "begin" \in Phases /\ Route \in SUBSET (1..Len(Order))
  BY DEF Phases, Route
<1>2. PICK u : u = [x EXCEPT !.phase = "begin"]
  OBVIOUS
<1>3. u \in Execution /\ u.env = x.env /\ u.lane = x.lane /\ u.phase = "begin"
  BY <1>1, <1>2, PhaseUpdate
<1>4. y = [u EXCEPT !.route = Route]
  BY <1>2 DEF Execution
<1>. QED
  BY <1>1, <1>3, <1>4 DEF Execution

\* Reading the row, and filtering the recipients, only move the execution on.
LEMMA ReadKeeps ==
  ASSUME IInv, NEW x \in running, LoadDelivery(x) \/ FilterSuppressed(x)
  PROVE  IInv'
<1>0. x \in Execution /\ x.phase \in {"load", "filter"} /\ TypeOK /\ InStep(x)
  BY Known DEF LoadDelivery, FilterSuppressed, IInv
<1>1. UNCHANGED <<world, circuit, row, usage, jobs, announced, accepted, lost>>
  BY DEF LoadDelivery, FilterSuppressed
<1>2. /\ circuit' \in [Providers -> 0..Threshold] /\ queued' \subseteq Envelope
      /\ UNCHANGED republished
  BY <1>0, <1>1 DEF TypeOK, jobs
<1>3. PICK p \in {"ack", "pause", "filter", "skip", "identities"} :
        /\ Advance(x, p)
        /\ x.phase = "load" /\ p # "ack" => ~Over(x.env.delivery)
  BY DEF LoadDelivery, FilterSuppressed
<1>4. /\ p \in Phases /\ ~(x.phase \in Unsettled) /\ ~(p \in Unsettled) /\ p # "send" /\ p # "mark"
      /\ ~(p \in Trying)
  BY <1>0 DEF Phases, Unsettled, Trying
<1>5. p \notin Idling => x.phase \notin Idling \/ ~Over(x.env.delivery)
  BY <1>0, <1>3 DEF Idling
<1>. QED
  BY <1>1, <1>2, <1>3, <1>4, <1>5, AdvanceMoves

\* The writes that end a job before it begins to send.
LEMMA EarlyEndKeeps ==
  ASSUME IInv, NEW x \in running, FailPaused(x) \/ SkipDelivery(x)
  PROVE  IInv'
<1>. DEFINE d == x.env.delivery
<1>0. /\ x \in Execution /\ d \in Deliveries /\ InStep(x) /\ Told(d) /\ accepted[d] \in Nat
      /\ x.phase \in {"pause", "skip"} /\ TypeOK
  BY Known DEF FailPaused, SkipDelivery, IInv
<1>1. /\ UNCHANGED <<mode, domain, verified, suppressed, circuit, usage, queued, republished, accepted, lost>>
      /\ "cleanup" \in Phases
  BY DEF FailPaused, SkipDelivery, world, jobs, Phases
<1>2. /\ Advance(x, "cleanup")
      /\ \/ SetStatus(d, "failed") /\ UNCHANGED announced
         \/ SetStatus(d, "skipped") /\ Announce(d, "delivery.skipped")
  BY DEF FailPaused, SkipDelivery, Terminate
<1>. DEFINE y == [x EXCEPT !.phase = "cleanup"]
<1>3. y \in Execution /\ y.env = x.env /\ y.lane = x.lane /\ y.phase = "cleanup"
  BY <1>0, <1>1, PhaseUpdate
<1>4. Become(x, y)
  BY <1>2 DEF Advance
<1>. HIDE DEF y
<1>5. \E s \in {"failed", "skipped"} : row' = [row EXCEPT ![d].status = s]
  BY <1>2 DEF SetStatus
<1>6. \E s \in {"failed", "skipped"} : row'[d].status = s
  BY <1>0, <1>5 DEF TypeOK
<1>7. row' \in [Deliveries -> [status : Statuses, provider : Providers \cup {None}]]
  BY <1>0, <1>5 DEF TypeOK, Statuses
<1>8. announced' \in [Deliveries -> SUBSET Events]
  BY <1>0, <1>2 DEF TypeOK, Announce, Events
<1>9. "message.sent" \in announced'[d] => "message.sent" \in announced[d]
  BY <1>0, <1>2 DEF TypeOK, Announce
<1>10. TypeOK'
  BY <1>0, <1>1, <1>3, <1>4, <1>7, <1>8 DEF TypeOK, Become
<1>11. Books(d)'
  BY <1>0, <1>1, <1>3, <1>4, QuietBooks DEF Unsettled
<1>12. Told(d)'
  BY <1>0, <1>1, <1>6, <1>9 DEF Told
<1>13. \A c \in Deliveries \ {d} : row'[c] = row[c] /\ announced'[c] = announced[c]
  BY <1>0, <1>2, <1>5 DEF TypeOK, Announce
<1>14. Elsewhere(d)
  BY <1>0, <1>1, <1>13 DEF Elsewhere
<1>15. InStep(y)'
  BY <1>3, IdleInStep DEF Idling
<1>. QED
  BY <1>3, <1>4, <1>10, <1>11, <1>12, <1>14, <1>15, GoesOn

LEMMA IdentitiesKeep ==
  ASSUME IInv, NEW x \in running, LoadIdentities(x)
  PROVE  IInv'
<1>0. x \in Execution /\ x.phase = "identities" /\ TypeOK /\ InStep(x)
  BY Known DEF LoadIdentities, IInv
<1>1. UNCHANGED <<world, circuit, row, usage, jobs, announced, accepted, lost>>
  BY DEF LoadIdentities
<1>2. /\ circuit' \in [Providers -> 0..Threshold] /\ queued' \subseteq Envelope
      /\ UNCHANGED republished
  BY <1>0, <1>1 DEF TypeOK, jobs
<1>3. CASE Advance(x, "cleanup")
  <2>1. /\ "cleanup" \in Phases \cap Idling /\ ~(x.phase \in Unsettled) /\ ~("cleanup" \in Unsettled)
        /\ ~("cleanup" \in Trying)
    BY <1>0 DEF Phases, Unsettled, Trying, Idling
  <2>. QED BY <1>1, <1>2, <1>3, <2>1, AdvanceMoves
<1>4. CASE Route # {} /\ Become(x, [x EXCEPT !.phase = "begin", !.route = Route])
  <2>1. PICK y : y = [x EXCEPT !.phase = "begin", !.route = Route]
    OBVIOUS
  <2>2. y \in Execution /\ y.env = x.env /\ y.lane = x.lane /\ y.phase = "begin"
    BY <1>0, <2>1, LoadedUpdate
  <2>3. Become(x, y)
    BY <1>4, <2>1
  <2>4. InStep(y)'
    BY <1>0, <1>1, <2>2 DEF InStep, Over, Trying, Unsettled, Idling, world
  <2>5. republished' \subseteq Deliveries
    BY <1>0, <1>2 DEF TypeOK
  <2>6. y.phase \notin Unsettled /\ x.phase \notin Unsettled /\ y.phase # "send"
    BY <1>0, <2>2 DEF Unsettled
  <2>. QED BY <1>1, <1>2, <2>2, <2>3, <2>4, <2>5, <2>6, MovesOn
<1>. QED
  BY <1>3, <1>4 DEF LoadIdentities, Terminate

LEMMA BeginKeeps ==
  ASSUME IInv, NEW x \in running, BeginSending(x)
  PROVE  IInv'
<1>. DEFINE d == x.env.delivery  y == [x EXCEPT !.phase = "choose"]
<1>0. /\ x \in Execution /\ d \in Deliveries /\ InStep(x) /\ Told(d) /\ accepted[d] \in Nat
      /\ x.phase = "begin" /\ TypeOK
  BY Known DEF BeginSending, IInv
<1>1. /\ UNCHANGED <<mode, domain, verified, suppressed, circuit, usage, queued, republished, announced, accepted, lost>>
      /\ row' = [row EXCEPT ![d].status = "sending"] /\ "choose" \in Phases
  BY DEF BeginSending, world, jobs, Phases, SetStatus
<1>2. Become(x, y) /\ y \in Execution /\ y.env = x.env /\ y.lane = x.lane /\ y.phase = "choose"
  BY <1>0, <1>1, PhaseUpdate DEF BeginSending, Advance
<1>. HIDE DEF y
<1>3. /\ row' \in [Deliveries -> [status : Statuses, provider : Providers \cup {None}]]
      /\ row'[d].status = "sending" /\ \A c \in Deliveries \ {d} : row'[c] = row[c]
  BY <1>0, <1>1, SMTT(20) DEF TypeOK, Statuses
<1>4. TypeOK'
  BY <1>0, <1>1, <1>2, <1>3 DEF TypeOK, Become
<1>5. Books(d)'
  BY <1>0, <1>1, <1>2, QuietBooks DEF Unsettled
<1>6. Told(d)' /\ Elsewhere(d)
  BY <1>0, <1>1, <1>3 DEF Told, Elsewhere
<1>7. InStep(y)'
  BY <1>2, <1>3 DEF InStep, Trying, Unsettled, Idling, Over
<1>. QED
  BY <1>2, <1>4, <1>5, <1>6, <1>7, GoesOn

LEMMA ChooseKeeps ==
  ASSUME IInv, NEW x \in running, ChooseProvider(x)
  PROVE  IInv'
<1>0. x \in Execution /\ x.phase = "choose" /\ TypeOK
  BY Known DEF ChooseProvider, IInv
<1>1. UNCHANGED <<world, circuit, row, usage, jobs, announced, accepted, lost>>
  BY DEF ChooseProvider
<1>2. /\ circuit' \in [Providers -> 0..Threshold] /\ queued' \subseteq Envelope
      /\ UNCHANGED republished
  BY <1>0, <1>1 DEF TypeOK, jobs
<1>3. CASE NextProvider(x)
  BY <1>0, <1>1, <1>3, LeaveMoves
<1>4. ASSUME NEW p \in {"exhausted", "remeter"}, Advance(x, p), p = "remeter" => x.route # {}
      PROVE  IInv'
  <2>1. p \in Phases /\ p \notin Unsettled /\ x.phase \notin Unsettled /\ x.phase \notin Idling
        /\ p # "send" /\ p # "mark" /\ (p \in Trying => p = "remeter")
    BY <1>0 DEF Phases, Unsettled, Idling, Trying
  <2>. QED BY <1>1, <1>2, <1>4, <2>1, AdvanceMoves
<1>. QED
  BY <1>3, <1>4 DEF ChooseProvider

LEMMA RemeterKeeps ==
  ASSUME IInv, NEW x \in running, Remeter(x)
  PROVE  IInv'
<1>. DEFINE d == x.env.delivery  kind == KindOf[Current(x)]  y == [x EXCEPT !.phase = "send"]
<1>0. /\ x \in Execution /\ d \in Deliveries /\ InStep(x) /\ Told(d) /\ accepted[d] \in Nat
      /\ lost[d] \in Nat /\ x.phase = "remeter" /\ TypeOK /\ x.phase \notin Unsettled
  BY Known DEF Remeter, IInv, Unsettled
<1>1. UNCHANGED <<world, circuit, row, jobs, announced, accepted, lost>>
  BY DEF Remeter
<1>2. circuit' \in [Providers -> 0..Threshold]
  BY <1>0, <1>1 DEF TypeOK
<1>3. CASE FailRetryably(x) /\ UNCHANGED usage
  BY <1>0, <1>1, <1>2, <1>3, FailMoves
<1>4. CASE NextProvider(x) /\ UNCHANGED usage
  BY <1>0, <1>1, <1>4, LeaveMoves
<1>5. ASSUME usage[d].status = "reserved", usage' = [usage EXCEPT ![d].kind = kind], Advance(x, "send")
      PROVE  IInv'
  <2>1. /\ Become(x, y) /\ y \in Execution /\ y.env = x.env /\ y.lane = x.lane /\ y.phase = "send"
        /\ y.route = x.route /\ Current(y) = Current(x)
    BY <1>0, <1>5, PhaseUpdate DEF Advance, Phases
  <2>. HIDE DEF y
  <2>2. x.route # {}
    BY <1>0 DEF InStep, Trying
  <2>3. kind \in Kinds
    BY <1>0, <2>2, CurrentTyped, EmailDeliveryAssumption
  <2>. HIDE DEF kind
  <2>4. /\ usage' \in [Deliveries -> [status : {"reserved", "confirmed", "released"}, kind : Kinds]]
        /\ usage'[d].status = "reserved" /\ usage'[d].kind = kind
        /\ \A c \in Deliveries \ {d} : usage'[c] = usage[c]
    BY <1>0, <1>5, <2>3 DEF TypeOK
  <2>5. TypeOK'
    BY <1>0, <1>1, <2>1, <2>4 DEF TypeOK, Become, world, jobs
  <2>6. Told(d)' /\ Elsewhere(d)
    BY <1>0, <1>1, <1>5, <2>4 DEF Told, Elsewhere, world
  <2>7. InStep(y)'
    BY <1>0, <1>1, <2>1, <2>2, <2>4 DEF InStep, Trying, Unsettled, Idling, Over, world, Current, kind
  <2>8. /\ Cardinality(Held(d, Unsettled)') = Cardinality(Held(d, Unsettled))
        /\ Books(d)
    <3>1. One(x.phase \in Unsettled) = 0 /\ One(y.phase \in Unsettled) = 0
      BY <1>0, <2>1 DEF One, Unsettled
    <3>. QED BY <2>1, <3>1, Own
  <2>9. Books(d)'
    BY <1>1, <1>5, <2>4, <2>8 DEF Books, world
  <2>. QED BY <2>1, <2>5, <2>6, <2>7, <2>9, GoesOn
<1>. QED
  BY <1>3, <1>4, <1>5 DEF Remeter

LEMMA SendKeeps ==
  ASSUME IInv, NEW x \in running, Send(x)
  PROVE  IInv'
<1>. DEFINE d == x.env.delivery
<1>0. /\ x \in Execution /\ d \in Deliveries /\ InStep(x) /\ Told(d) /\ accepted[d] \in Nat
      /\ lost[d] \in Nat /\ x.phase = "send" /\ TypeOK /\ x.route # {} /\ x.phase \notin Idling
  BY Known DEF Send, IInv, InStep, Trying, Idling
<1>1. UNCHANGED <<mode, domain, verified, suppressed, circuit, row, usage, queued, republished, announced>>
  BY DEF Send, world, jobs
<1>2. accepted \in [Deliveries -> Nat] /\ lost \in [Deliveries -> Nat]
  BY <1>0 DEF TypeOK
<1>3. ASSUME NEW a \in {0, 1}, NEW b \in {0, 1}, NEW p \in {"accepted", "sendFailed"},
             accepted' = [accepted EXCEPT ![d] = @ + a], lost' = [lost EXCEPT ![d] = @ + b],
             Advance(x, p), p = "accepted" => a = 1 /\ b = 0, p = "sendFailed" => a = b
      PROVE  IInv'
  <2>. DEFINE y == [x EXCEPT !.phase = p]
  <2>1. /\ Become(x, y) /\ y \in Execution /\ y.env = x.env /\ y.lane = x.lane /\ y.phase = p
        /\ y.route = x.route /\ Current(y) = Current(x)
    <3>1. p \in Phases
      BY DEF Phases
    <3>. QED BY <1>0, <1>3, <3>1, PhaseUpdate DEF Advance
  <2>. HIDE DEF y
  <2>2. /\ accepted' \in [Deliveries -> Nat] /\ lost' \in [Deliveries -> Nat]
        /\ accepted'[d] = accepted[d] + a /\ lost'[d] = lost[d] + b
        /\ \A c \in Deliveries \ {d} : accepted'[c] = accepted[c] /\ lost'[c] = lost[c]
    BY <1>0, <1>2, <1>3
  <2>3. TypeOK'
    BY <1>0, <1>1, <2>1, <2>2 DEF TypeOK, Become
  <2>4. Told(d)' /\ Elsewhere(d)
    BY <1>0, <1>1, <2>2 DEF Told, Elsewhere
  <2>5. InStep(y)'
    <3>1. p = "accepted" => accepted'[d] > 0
      BY <1>0, <1>3, <2>2
    <3>2. p = "sendFailed" => y.phase \notin Unsettled \cup {"send", "mark"}
      BY <2>1 DEF Unsettled
    <3>3. p = "accepted" => y.phase \in Unsettled /\ y.phase # "mark"
      BY <2>1 DEF Unsettled
    <3>. QED BY <1>0, <1>1, <2>1, <3>1, <3>2, <3>3 DEF InStep, Over
  <2>6. LET hh == Cardinality(Held(d, Unsettled)')      h == Cardinality(Held(d, Unsettled))
            gg == Cardinality(Held(d, {"send"})')       g == Cardinality(Held(d, {"send"})) IN
        /\ hh = h + (IF p = "accepted" THEN 1 ELSE 0) /\ gg = g - 1
        /\ h \in Nat /\ g \in Nat /\ Cardinality(Lanes) \in Nat /\ Books(d)
    <3>1. /\ One(x.phase \in Unsettled) = 0 /\ One(x.phase = "send") = 1 /\ One(y.phase = "send") = 0
          /\ One(y.phase \in Unsettled) = IF p = "accepted" THEN 1 ELSE 0
      BY <1>0, <2>1 DEF One, Unsettled
    <3>. QED BY <2>1, <3>1, Own
  <2>7. Books(d)'
    BY <1>0, <1>1, <1>3, <2>2, <2>6 DEF Books
  <2>. QED BY <2>1, <2>3, <2>4, <2>5, <2>7, GoesOn
<1>4. CASE Took(d) /\ Advance(x, "accepted") /\ UNCHANGED lost
  <2>1. lost' = [lost EXCEPT ![d] = @ + 0]
    BY <1>0, <1>2, <1>4
  <2>. QED BY <1>3, <1>4, <2>1 DEF Took
<1>5. CASE Advance(x, "sendFailed") /\ UNCHANGED <<accepted, lost>>
  <2>1. lost' = [lost EXCEPT ![d] = @ + 0] /\ accepted' = [accepted EXCEPT ![d] = @ + 0]
    BY <1>0, <1>2, <1>5
  <2>. QED BY <1>3, <1>5, <2>1
<1>6. CASE Took(d) /\ lost' = [lost EXCEPT ![d] = @ + 1] /\ Advance(x, "sendFailed")
  BY <1>3, <1>6 DEF Took
<1>. QED
  BY <1>4, <1>5, <1>6 DEF Send

LEMMA FailureKeeps ==
  ASSUME IInv, NEW x \in running, RecordFailure(x) \/ LeaveProvider(x)
  PROVE  IInv'
<1>0. /\ x \in Execution /\ TypeOK /\ InStep(x) /\ x.phase \in {"sendFailed", "leave"}
      /\ UNCHANGED <<world, row, usage, jobs, announced, accepted, lost>>
  BY Known DEF RecordFailure, LeaveProvider, IInv
<1>1. x.route # {}
  BY <1>0 DEF InStep, Trying
<1>2. queued' \subseteq Envelope /\ UNCHANGED republished
  BY <1>0 DEF TypeOK, jobs
<1>3. CASE RecordFailure(x)
  <2>1. circuit' \in [Providers -> 0..Threshold]
    <3>1. Threshold \in Nat
      BY EmailDeliveryAssumption
    <3>2. circuit \in [Providers -> 0..Threshold] /\ Current(x) \in Providers
      BY <1>0, <1>1, CurrentTyped DEF TypeOK
    <3>3. circuit[Current(x)] \in 0..Threshold
      BY <3>2
    <3>. DEFINE q == Current(x)
                c == IF circuit[q] < Threshold THEN circuit[q] + 1 ELSE circuit[q]
    <3>4. c \in 0..Threshold
      BY <3>1, <3>3
    <3>5. circuit' = [circuit EXCEPT ![q] = c]
      BY <1>3 DEF RecordFailure
    <3>. QED BY <3>2, <3>4, <3>5
  <2>2. /\ "leave" \in Phases /\ "leave" \notin Unsettled /\ x.phase \notin Unsettled
        /\ x.phase \notin Idling /\ Advance(x, "leave")
    BY <1>0, <1>3 DEF RecordFailure, Phases, Unsettled, Idling
  <2>. QED BY <1>0, <1>1, <1>2, <2>1, <2>2, AdvanceMoves
<1>4. CASE LeaveProvider(x)
  <2>1. /\ UNCHANGED circuit /\ x.phase = "leave" /\ (FailRetryably(x) \/ NextProvider(x))
        /\ x.phase \notin Unsettled /\ circuit' \in [Providers -> 0..Threshold]
    BY <1>0, <1>4 DEF LeaveProvider, Unsettled, TypeOK
  <2>2. CASE FailRetryably(x)
    BY <1>0, <2>1, <2>2, FailMoves
  <2>3. CASE NextProvider(x)
    BY <1>0, <2>1, <2>3, LeaveMoves
  <2>. QED BY <2>1, <2>2, <2>3
<1>. QED
  BY <1>3, <1>4

LEMMA SuccessKeeps ==
  ASSUME IInv, NEW x \in running, RecordSuccess(x)
  PROVE  IInv'
<1>0. /\ x \in Execution /\ TypeOK /\ InStep(x) /\ x.phase = "accepted"
      /\ UNCHANGED <<world, row, usage, jobs, announced, accepted, lost>>
  BY Known DEF RecordSuccess, IInv
<1>1. x.route # {}
  BY <1>0 DEF InStep, Trying
<1>2. queued' \subseteq Envelope /\ UNCHANGED republished
  BY <1>0 DEF TypeOK, jobs
<1>3. circuit' \in [Providers -> 0..Threshold]
  <2>1. Threshold \in Nat
    BY EmailDeliveryAssumption
  <2>2. 0 \in 0..Threshold /\ circuit \in [Providers -> 0..Threshold]
    BY <1>0, <2>1 DEF TypeOK
  <2>3. circuit' = [circuit EXCEPT ![Current(x)] = 0]
    BY DEF RecordSuccess
  <2>. QED BY <2>2, <2>3
<1>4. /\ "confirm" \in Phases /\ "confirm" \in Unsettled /\ x.phase \in Unsettled
      /\ x.phase \notin Idling /\ Advance(x, "confirm")
  BY <1>0 DEF RecordSuccess, Phases, Unsettled, Idling
<1>. QED BY <1>0, <1>1, <1>2, <1>3, <1>4, AdvanceMoves

\* The confirmation, by the handler or by a call whose answer is lost; an
\* acceptance that cannot be confirmed is lost.
LEMMA SettleKeeps ==
  ASSUME IInv, NEW x \in running, NEW y \in Execution, Become(x, y),
         y.env = x.env, y.lane = x.lane, y.route = x.route, x.phase \in Unsettled,
         UNCHANGED <<world, row, announced, accepted, jobs>>,
         circuit' \in [Providers -> 0..Threshold],
         \/ /\ usage[x.env.delivery].status # "released"
            /\ usage' = [usage EXCEPT ![x.env.delivery].status = "confirmed"]
            /\ UNCHANGED lost /\ y.phase \in {"mark"} \cup Idling
         \/ /\ UNCHANGED usage /\ y.phase \in Idling
            /\ lost' = [lost EXCEPT ![x.env.delivery] = @ + 1]
  PROVE  IInv'
<1>. DEFINE d == x.env.delivery
<1>0. /\ x \in Execution /\ d \in Deliveries /\ InStep(x) /\ Told(d) /\ Books(d)
      /\ accepted[d] \in Nat /\ lost[d] \in Nat /\ TypeOK
      /\ usage[d].status \in {"reserved", "confirmed", "released"}
      /\ Current(y) = Current(x)
  BY Known DEF IInv, Current
<1>1. UNCHANGED <<mode, domain, verified, suppressed, row, queued, republished, announced, accepted>>
  BY DEF world, jobs
<1>2. LET hh == Cardinality(Held(d, Unsettled)')      h == Cardinality(Held(d, Unsettled))
          gg == Cardinality(Held(d, {"send"})')       g == Cardinality(Held(d, {"send"})) IN
      /\ hh = h - 1 /\ gg = g /\ h + g <= Cardinality(Lanes)
      /\ h \in Nat /\ g \in Nat /\ Cardinality(Lanes) \in Nat
  <2>1. /\ One(x.phase \in Unsettled) = 1 /\ One(x.phase = "send") = 0
        /\ One(y.phase = "send") = 0 /\ One(y.phase \in Unsettled) = 0
    BY DEF One, Unsettled, Idling
  <2>. QED BY <2>1, Own
<1>3. CASE /\ usage[d].status # "released"
           /\ usage' = [usage EXCEPT ![d].status = "confirmed"]
           /\ UNCHANGED lost /\ y.phase \in {"mark"} \cup Idling
  <2>1. /\ usage' \in [Deliveries -> [status : {"reserved", "confirmed", "released"}, kind : Kinds]]
        /\ usage'[d].status = "confirmed" /\ usage'[d].kind = usage[d].kind
        /\ \A c \in Deliveries \ {d} : usage'[c] = usage[c]
    BY <1>0, <1>3 DEF TypeOK
  <2>2. TypeOK'
    BY <1>0, <1>1, <1>3, <2>1 DEF TypeOK, Become
  <2>3. Told(d)' /\ Elsewhere(d)
    BY <1>0, <1>1, <1>3, <2>1 DEF Told, Elsewhere
  <2>4. InStep(y)'
    <3>1. CASE y.phase = "mark"
      <4>1. "mark" \notin Idling /\ "mark" \notin Unsettled \cup {"send"} /\ x.phase \notin Idling
        BY DEF Idling, Unsettled
      <4>2. x.route # {} /\ accepted[d] > 0
        BY <1>0 DEF InStep, Trying, Unsettled
      <4>3. "overlap" \notin mode => usage[d].kind = KindOf[Current(x)] /\ ~Over(d)
        BY <1>0, <4>1 DEF InStep
      <4>. QED BY <1>0, <1>1, <2>1, <3>1, <4>1, <4>2, <4>3 DEF InStep, Over
    <3>2. CASE y.phase \in Idling
      BY <3>2, IdleInStep
    <3>. QED BY <1>3, <3>1, <3>2
  <2>5. "overlap" \notin mode => usage[d].status = "reserved"
    BY <1>0 DEF InStep
  <2>6. Books(d)'
    <3>1. usage[d].status = "reserved" => accepted[d] = lost[d] + Cardinality(Held(d, Unsettled))
      BY <1>0 DEF Books
    <3>2. usage[d].status # "reserved" =>
             accepted[d] + Cardinality(Held(d, {"send"})) <= lost[d] + Cardinality(Lanes)
      BY <1>0 DEF Books
    <3>3. accepted[d] + Cardinality(Held(d, {"send"})') <= lost[d] + Cardinality(Lanes)
      BY <1>0, <1>2, <3>1, <3>2
    <3>4. usage[d].status = "reserved" =>
             accepted[d] = lost[d] + Cardinality(Held(d, Unsettled)') + 1
      BY <1>0, <1>2, <3>1
    <3>. QED BY <1>1, <1>3, <2>1, <2>5, <3>3, <3>4 DEF Books
  <2>. QED BY <2>2, <2>3, <2>4, <2>6, GoesOn
<1>4. CASE /\ UNCHANGED usage /\ y.phase \in Idling
           /\ lost' = [lost EXCEPT ![d] = @ + 1]
  <2>1. /\ lost' \in [Deliveries -> Nat] /\ lost'[d] = lost[d] + 1
        /\ \A c \in Deliveries \ {d} : lost'[c] = lost[c]
    BY <1>0, <1>4 DEF TypeOK
  <2>2. TypeOK'
    BY <1>0, <1>1, <1>4, <2>1 DEF TypeOK, Become
  <2>3. Told(d)' /\ Elsewhere(d)
    BY <1>0, <1>1, <1>4, <2>1 DEF Told, Elsewhere
  <2>4. InStep(y)'
    BY <1>4, IdleInStep
  <2>6. Books(d)'
    BY <1>0, <1>1, <1>2, <1>4, <2>1 DEF Books
  <2>. QED BY <2>2, <2>3, <2>4, <2>6, GoesOn
<1>. QED
  BY <1>3, <1>4

LEMMA ConfirmKeeps ==
  ASSUME IInv, NEW x \in running, ConfirmUsage(x)
  PROVE  IInv'
<1>. DEFINE d == x.env.delivery
<1>0. /\ x \in Execution /\ x.phase = "confirm" /\ x.phase \in Unsettled /\ Unconfirmed(x) /\ TypeOK
      /\ UNCHANGED <<world, row, announced, accepted, jobs, circuit>>
  BY Known DEF ConfirmUsage, IInv, Unsettled, Unconfirmed
<1>1. circuit' \in [Providers -> 0..Threshold]
  BY <1>0 DEF TypeOK
<1>2. CASE usage[d].status = "released"
  <2>1. FailRetryably(x) /\ UNCHANGED usage /\ lost' = [lost EXCEPT ![d] = @ + 1]
    BY <1>0, <1>2 DEF ConfirmUsage, Lose
  <2>2. PICK y \in Execution : /\ Become(x, y) /\ y.env = x.env /\ y.lane = x.lane
                               /\ y.route = x.route /\ y.phase \in {"retry", "cleanup"}
    BY <1>0, <2>1, FailUpdate
  <2>3. y.phase \in Idling
    BY <2>2 DEF Idling
  <2>. QED BY <1>0, <1>1, <2>1, <2>2, <2>3, SettleKeeps
<1>3. CASE usage[d].status # "released"
  <2>1. /\ usage' = [usage EXCEPT ![d].status = "confirmed"] /\ UNCHANGED lost
        /\ Advance(x, "mark") /\ "mark" \in Phases
    BY <1>3 DEF ConfirmUsage, Phases
  <2>2. PICK y : y = [x EXCEPT !.phase = "mark"]
    OBVIOUS
  <2>3. y \in Execution /\ y.env = x.env /\ y.lane = x.lane /\ y.route = x.route /\ y.phase = "mark"
    BY <1>0, <2>1, <2>2, PhaseUpdate
  <2>4. Become(x, y)
    BY <2>1, <2>2 DEF Advance
  <2>. QED BY <1>0, <1>1, <1>3, <2>1, <2>3, <2>4, SettleKeeps
<1>. QED
  BY <1>2, <1>3

LEMMA FaultKeeps ==
  ASSUME IInv, NEW x \in running, InfrastructureFails(x)
  PROVE  IInv'
<1>. DEFINE d == x.env.delivery
<1>0. /\ x \in Execution /\ TypeOK /\ FailRetryably(x)
      /\ UNCHANGED <<world, row, announced, accepted, jobs, circuit>>
      /\ x.phase \in Unsettled <=> Unconfirmed(x)
  BY Known DEF InfrastructureFails, IInv, Unsettled, Unconfirmed
<1>1. circuit' \in [Providers -> 0..Threshold]
  BY <1>0 DEF TypeOK
<1>2. PICK y \in Execution : /\ Become(x, y) /\ y.env = x.env /\ y.lane = x.lane
                             /\ y.route = x.route /\ y.phase \in {"retry", "cleanup"}
  BY <1>0, FailUpdate
<1>3. y.phase \in Idling
  BY <1>2 DEF Idling
<1>4. CASE Lose(x) /\ UNCHANGED usage /\ x.phase \in Unsettled
  <2>1. lost' = [lost EXCEPT ![d] = @ + 1]
    BY <1>0, <1>4 DEF Lose
  <2>. QED BY <1>0, <1>1, <1>2, <1>3, <1>4, <2>1, SettleKeeps
<1>5. CASE Lose(x) /\ UNCHANGED usage /\ x.phase \notin Unsettled
  <2>1. UNCHANGED lost
    BY <1>0, <1>5 DEF Lose
  <2>. QED BY <1>0, <1>1, <1>5, <2>1, FailMoves
<1>6. CASE /\ x.phase = "confirm" /\ usage[d].status # "released"
           /\ usage' = [usage EXCEPT ![d].status = "confirmed"]
           /\ UNCHANGED lost
  <2>1. x.phase \in Unsettled
    BY <1>6 DEF Unsettled
  <2>. QED BY <1>0, <1>1, <1>2, <1>3, <1>6, <2>1, SettleKeeps
<1>. QED
  BY <1>4, <1>5, <1>6 DEF InfrastructureFails

LEMMA SentKeeps ==
  ASSUME IInv, NEW x \in running, MarkSent(x)
  PROVE  IInv'
<1>. DEFINE d == x.env.delivery
<1>0. /\ x \in Execution /\ d \in Deliveries /\ InStep(x) /\ Told(d) /\ Books(d)
      /\ accepted[d] \in Nat /\ x.phase = "mark" /\ TypeOK
      /\ UNCHANGED <<mode, domain, verified, suppressed, circuit, usage, queued, republished, accepted, lost>>
  BY Known DEF IInv, MarkSent, world, jobs
<1>1. PICK y : y = [x EXCEPT !.phase = "ack"]
  OBVIOUS
<1>2. y \in Execution /\ y.env = x.env /\ y.lane = x.lane /\ y.phase = "ack" /\ "ack" \in Phases
  <2>1. "ack" \in Phases
    BY DEF Phases
  <2>. QED BY <1>0, <1>1, <2>1, PhaseUpdate
<1>3. Become(x, y)
  BY <1>1 DEF MarkSent, Advance
<1>4. x.route # {} /\ accepted[d] > 0 /\ usage[d].status = "confirmed"
  BY <1>0 DEF InStep, Trying, Unsettled
<1>5. "overlap" \notin mode => usage[d].kind = KindOf[Current(x)]
  BY <1>0 DEF InStep
<1>6. Current(x) \in Providers
  BY <1>0, <1>4, CurrentTyped
<1>7. /\ row' \in [Deliveries -> [status : Statuses, provider : Providers \cup {None}]]
      /\ row'[d].status = "sent" /\ row'[d].provider = Current(x)
      /\ \A c \in Deliveries \ {d} : row'[c] = row[c]
  <2>1. row' = [row EXCEPT ![d] = [status |-> "sent", provider |-> Current(x)]]
    BY DEF MarkSent
  <2>2. [status |-> "sent", provider |-> Current(x)] \in [status : Statuses, provider : Providers \cup {None}]
    BY <1>6 DEF Statuses
  <2>. QED BY <1>0, <2>1, <2>2 DEF TypeOK
<1>8. /\ announced' \in [Deliveries -> SUBSET Events]
      /\ \A c \in Deliveries \ {d} : announced'[c] = announced[c]
  BY <1>0 DEF MarkSent, Announce, TypeOK, Events
<1>9. TypeOK'
  BY <1>0, <1>2, <1>3, <1>7, <1>8 DEF TypeOK, Become
<1>10. Told(d)' /\ Elsewhere(d)
  BY <1>0, <1>4, <1>5, <1>7, <1>8 DEF Told, Elsewhere
<1>11. Books(d)'
  <2>1. /\ x.phase \notin Unsettled /\ y.phase \notin Unsettled /\ y.phase # "send"
    BY <1>0, <1>2 DEF Unsettled
  <2>. QED BY <1>0, <1>2, <1>3, <2>1, QuietBooks
<1>12. InStep(y)'
  BY <1>2, IdleInStep DEF Idling
<1>. QED
  BY <1>2, <1>3, <1>9, <1>10, <1>11, <1>12, GoesOn

LEMMA FailedKeeps ==
  ASSUME IInv, NEW x \in running, MarkFailed(x)
  PROVE  IInv'
<1>. DEFINE d == x.env.delivery
<1>0. /\ x \in Execution /\ d \in Deliveries /\ InStep(x) /\ Told(d) /\ Books(d)
      /\ accepted[d] \in Nat /\ x.phase = "exhausted" /\ TypeOK
      /\ UNCHANGED <<mode, domain, verified, suppressed, circuit, usage, queued, republished, accepted, lost>>
  BY Known DEF IInv, MarkFailed, world, jobs
<1>1. PICK y \in Execution : /\ Become(x, y) /\ y.env = x.env /\ y.lane = x.lane
                             /\ y.phase \in {"retry", "cleanup"}
  BY <1>0, FailUpdate DEF MarkFailed
<1>2. /\ row' \in [Deliveries -> [status : Statuses, provider : Providers \cup {None}]]
      /\ row'[d].status = "failed"
      /\ \A c \in Deliveries \ {d} : row'[c] = row[c]
  BY <1>0 DEF MarkFailed, SetStatus, TypeOK, Statuses
<1>3. /\ announced' \in [Deliveries -> SUBSET Events]
      /\ "message.sent" \in announced'[d] => "message.sent" \in announced[d]
      /\ \A c \in Deliveries \ {d} : announced'[c] = announced[c]
  BY <1>0 DEF MarkFailed, Announce, TypeOK, Events
<1>4. TypeOK'
  BY <1>0, <1>1, <1>2, <1>3 DEF TypeOK, Become
<1>5. Told(d)' /\ Elsewhere(d)
  BY <1>0, <1>2, <1>3 DEF Told, Elsewhere
<1>6. Books(d)'
  <2>1. /\ x.phase \notin Unsettled /\ y.phase \notin Unsettled /\ y.phase # "send"
    BY <1>0, <1>1 DEF Unsettled
  <2>. QED BY <1>0, <1>1, <2>1, QuietBooks
<1>7. InStep(y)'
  BY <1>1, IdleInStep DEF Idling
<1>. QED
  BY <1>1, <1>4, <1>5, <1>6, <1>7, GoesOn

LEMMA RetryKeeps ==
  ASSUME IInv, NEW x \in running, ScheduleRetry(x)
  PROVE  IInv'
<1>0. /\ x \in Execution /\ x.phase = "retry" /\ TypeOK /\ x.env \in Envelope
      /\ UNCHANGED <<world, circuit, row, usage, republished, announced, accepted, lost>>
      /\ Advance(x, "ack") /\ queued' = queued \cup {[x.env EXCEPT !.attempts = @ + 1]}
  BY Known DEF ScheduleRetry, IInv
<1>1. [x.env EXCEPT !.attempts = @ + 1] \in Envelope
  BY <1>0 DEF Envelope
<1>2. queued' \subseteq Envelope /\ circuit' \in [Providers -> 0..Threshold]
  BY <1>0, <1>1 DEF TypeOK
<1>3. /\ "ack" \in Phases /\ "ack" \in Idling /\ "ack" \notin Trying
      /\ "ack" \notin Unsettled /\ x.phase \notin Unsettled
  BY <1>0 DEF Phases, Idling, Trying, Unsettled
<1>. QED
  BY <1>0, <1>2, <1>3, AdvanceMoves

LEMMA DeadLetterKeeps ==
  ASSUME IInv, NEW x \in running, OnDeadLetter(x)
  PROVE  IInv'
<1>. DEFINE d == x.env.delivery
<1>0. /\ x \in Execution /\ d \in Deliveries /\ InStep(x) /\ Told(d) /\ Books(d) /\ Apart
      /\ accepted[d] \in Nat /\ lost[d] \in Nat /\ x.phase = "cleanup" /\ TypeOK
      /\ UNCHANGED <<mode, domain, verified, suppressed, circuit, row, queued, republished, announced, accepted, lost>>
      /\ Advance(x, "ack")
  BY Known DEF IInv, OnDeadLetter, world, jobs
<1>1. /\ "ack" \in Phases /\ "ack" \in Idling /\ "ack" \notin Trying
      /\ "ack" \notin Unsettled /\ x.phase \notin Unsettled
  BY <1>0 DEF Phases, Idling, Trying, Unsettled
<1>2. CASE UNCHANGED usage
  <2>1. UNCHANGED <<world, row, usage, announced, accepted, lost>> /\ UNCHANGED republished
    BY <1>0, <1>2 DEF world
  <2>2. queued' \subseteq Envelope /\ circuit' \in [Providers -> 0..Threshold]
    BY <1>0 DEF TypeOK
  <2>. QED BY <1>0, <1>1, <2>1, <2>2, AdvanceMoves
<1>3. CASE usage[d].status = "reserved" /\ usage' = [usage EXCEPT ![d].status = "released"]
  <2>1. PICK y : y = [x EXCEPT !.phase = "ack"]
    OBVIOUS
  <2>2. y \in Execution /\ y.env = x.env /\ y.lane = x.lane /\ y.phase = "ack"
    BY <1>0, <1>1, <2>1, PhaseUpdate
  <2>3. Become(x, y)
    BY <1>0, <2>1 DEF Advance
  <2>4. /\ usage' \in [Deliveries -> [status : {"reserved", "confirmed", "released"}, kind : Kinds]]
        /\ usage'[d].status = "released"
        /\ \A c \in Deliveries \ {d} : usage'[c] = usage[c]
    BY <1>0, <1>3 DEF TypeOK
  <2>5. TypeOK'
    BY <1>0, <2>2, <2>3, <2>4 DEF TypeOK, Become
  <2>6. Told(d)' /\ Elsewhere(d)
    BY <1>0, <1>3, <2>4 DEF Told, Elsewhere
  <2>7. LET hh == Cardinality(Held(d, Unsettled)')      h == Cardinality(Held(d, Unsettled))
            gg == Cardinality(Held(d, {"send"})')       g == Cardinality(Held(d, {"send"})) IN
        /\ hh = h /\ gg = g /\ h + g <= Cardinality(Lanes)
        /\ h \in Nat /\ g \in Nat /\ Cardinality(Lanes) \in Nat
    <3>1. /\ One(x.phase \in Unsettled) = 0 /\ One(x.phase = "send") = 0
          /\ One(y.phase = "send") = 0 /\ One(y.phase \in Unsettled) = 0
      BY <1>0, <1>1, <2>2 DEF One
    <3>. QED BY <2>2, <2>3, <3>1, Own
  <2>8. Books(d)'
    BY <1>0, <1>3, <2>4, <2>7 DEF Books
  <2>9. InStep(y)'
    BY <1>1, <2>2, IdleInStep
  <2>. QED BY <2>2, <2>3, <2>5, <2>6, <2>8, <2>9, GoesOn
<1>. QED
  BY <1>2, <1>3 DEF OnDeadLetter

\* An execution ends, acknowledged or dead.
LEMMA EndKeeps ==
  ASSUME IInv, NEW x \in running, Acknowledge(x) \/ Crash(x)
  PROVE  IInv'
<1>. DEFINE d == x.env.delivery
<1>0. /\ x \in Execution /\ d \in Deliveries /\ accepted[d] \in Nat /\ lost[d] \in Nat
      /\ TypeOK /\ Apart
      /\ UNCHANGED <<mode, domain, verified, suppressed, circuit, row, usage, republished, announced, accepted>>
      /\ queued' \subseteq queued /\ running' = running \ {x}
  BY Known DEF IInv, Acknowledge, Crash, world, jobs
<1>1. /\ x.phase \in Unsettled => lost' = [lost EXCEPT ![d] = @ + 1]
      /\ x.phase \notin Unsettled => UNCHANGED lost
  BY DEF Acknowledge, Crash, Lose, Unconfirmed, Unsettled
<1>2. /\ lost' \in [Deliveries -> Nat]
      /\ lost'[d] = lost[d] + One(x.phase \in Unsettled)
      /\ \A c \in Deliveries \ {d} : lost'[c] = lost[c]
  BY <1>0, <1>1 DEF TypeOK, One
<1>3. TypeOK'
  BY <1>0, <1>2 DEF TypeOK
<1>4. Apart'
  BY <1>0 DEF Apart
<1>5. \A z \in running' : InStep(z)'
  <2>1. Elsewhere(d)
    BY <1>0, <1>2 DEF Elsewhere
  <2>. QED BY <1>0, <1>3, <2>1, OthersInStep
<1>6. \A c \in Deliveries : \A P : Cardinality(Held(c, P)') = Cardinality(Held(c, P)) - Counts(x, c, P)
  BY <1>0, HeldEnds
<1>7. ASSUME NEW c \in Deliveries PROVE Books(c)' /\ Told(c)'
  <2>0. Books(c) /\ Told(c)
    BY DEF IInv
  <2>1. CASE c # d
    <3>1. \A P : Counts(x, c, P) = 0
      BY <2>1 DEF Counts
    <3>2. \A P : Cardinality(Held(c, P)') = Cardinality(Held(c, P))
      BY <1>0, <1>6, <3>1, HeldFinite
    <3>. QED BY <1>0, <1>2, <2>0, <2>1, <3>2, OthersBooks
  <2>2. CASE c = d
    <3>1. /\ Cardinality(Held(d, Unsettled)') = Cardinality(Held(d, Unsettled)) - One(x.phase \in Unsettled)
          /\ Cardinality(Held(d, {"send"})') = Cardinality(Held(d, {"send"})) - One(x.phase = "send")
      BY <1>0, <1>6 DEF Counts, One
    <3>2. /\ Cardinality(Held(d, Unsettled)) \in Nat /\ Cardinality(Held(d, {"send"})) \in Nat
          /\ Cardinality(Lanes) \in Nat
      BY <1>0, HeldFinite, EmailDeliveryAssumption, FS_CardinalityType
    <3>3. Told(d)'
      BY <1>0, <2>0, <2>2 DEF Told
    <3>4. CASE x.phase \in Unsettled
      <4>1. One(x.phase \in Unsettled) = 1 /\ One(x.phase = "send") = 0
        BY <3>4 DEF One, Unsettled
      <4>. QED BY <1>0, <1>2, <2>0, <2>2, <3>1, <3>2, <3>3, <4>1 DEF Books
    <3>5. CASE x.phase \notin Unsettled
      <4>1. One(x.phase \in Unsettled) = 0 /\ One(x.phase = "send") \in {0, 1}
        BY <3>5 DEF One
      <4>. QED BY <1>0, <1>2, <2>0, <2>2, <3>1, <3>2, <3>3, <4>1 DEF Books
    <3>. QED BY <3>4, <3>5
  <2>. QED BY <2>1, <2>2
<1>. QED
  BY <1>3, <1>4, <1>5, <1>7 DEF IInv

\* A loop takes an envelope.
LEMMA StartKeeps ==
  ASSUME IInv, NEW lane \in Lanes, NEW env \in queued, StartExecution(lane, env)
  PROVE  IInv'
<1>0. /\ TypeOK /\ Apart /\ env \in Envelope
      /\ UNCHANGED <<mode, domain, verified, suppressed, circuit, row, usage, queued, republished,
                     announced, accepted, lost>>
  BY DEF IInv, StartExecution, world, jobs, TypeOK
<1>1. PICK z : z = [lane |-> lane, env |-> env, phase |-> "load", route |-> {}, standby |-> FALSE]
  OBVIOUS
<1>2. /\ z \in Execution /\ z.phase = "load" /\ z.env = env /\ z.lane = lane
      /\ running' = running \cup {z}
  BY <1>0, <1>1 DEF StartExecution, Execution, Phases
<1>3. \A x \in running : x.env.delivery = env.delivery => "overlap" \in mode /\ x.lane # lane
  BY DEF StartExecution
<1>4. TypeOK'
  BY <1>0, <1>2 DEF TypeOK
<1>5. Apart'
  BY <1>0, <1>2, <1>3 DEF Apart
<1>6. \A x \in running' : InStep(x)'
  <2>1. InStep(z)'
    BY <1>2, IdleInStep DEF Idling
  <2>2. ASSUME NEW x \in running PROVE InStep(x)'
    <3>1. InStep(x)
      BY DEF IInv
    <3>. QED BY <1>0, <3>1 DEF InStep, Over, Current
  <2>. QED BY <1>2, <2>1, <2>2
<1>7. ASSUME NEW c \in Deliveries PROVE Books(c)' /\ Told(c)'
  <2>1. Books(c) /\ Told(c)
    BY DEF IInv
  <2>2. Held(c, Unsettled)' = Held(c, Unsettled) /\ Held(c, {"send"})' = Held(c, {"send"})
    BY <1>2 DEF Held, Unsettled
  <2>. QED BY <1>0, <2>1, <2>2, OthersBooks
<1>. QED
  BY <1>4, <1>5, <1>6, <1>7 DEF IInv

\* Nothing around the handler touches a row, an execution or the books.
LEMMA AroundKeeps ==
  ASSUME IInv, TypeOK', UNCHANGED <<mode, row, usage, running, announced, accepted, lost>>
  PROVE  IInv'
<1>1. Apart'
  BY DEF IInv, Apart
<1>2. ASSUME NEW x \in running PROVE InStep(x)'
  <2>1. InStep(x)
    BY DEF IInv
  <2>. QED BY <2>1 DEF InStep, Over, Current
<1>3. ASSUME NEW c \in Deliveries PROVE Books(c)' /\ Told(c)'
  <2>1. Books(c) /\ Told(c)
    BY DEF IInv
  <2>2. Held(c, Unsettled)' = Held(c, Unsettled) /\ Held(c, {"send"})' = Held(c, {"send"})
    BY HeldUnchanged
  <2>. QED BY <2>1, <2>2, OthersBooks
<1>. QED
  BY <1>1, <1>2, <1>3 DEF IInv

-----------------------------------------------------------------------------
(* The invariant.                                                          *)

LEMMA InitHolds ==
  ASSUME Init PROVE IInv
<1>1. /\ running = {} /\ accepted = [d \in Deliveries |-> 0] /\ lost = [d \in Deliveries |-> 0]
      /\ usage \in [Deliveries -> [status : {"reserved"}, kind : Kinds]]
      /\ row = [d \in Deliveries |-> [status |-> "queued", provider |-> None]]
      /\ announced = [d \in Deliveries |-> {}]
  BY DEF Init
<1>2. TypeOK
  <2>1. Threshold \in Nat
    BY EmailDeliveryAssumption
  <2>2. usage \in [Deliveries -> [status : {"reserved", "confirmed", "released"}, kind : Kinds]]
    BY <1>1
  <2>3. circuit \in [Providers -> 0..Threshold] /\ queued \subseteq Envelope
    BY <2>1 DEF Init, Envelope
  <2>. QED BY <1>1, <2>2, <2>3 DEF Init, TypeOK, Statuses
<1>3. ASSUME NEW c \in Deliveries PROVE Books(c) /\ Told(c)
  <2>1. Held(c, Unsettled) = {} /\ Held(c, {"send"}) = {}
    BY <1>1 DEF Held
  <2>2. Cardinality({}) = 0
    BY FS_EmptySet
  <2>3. usage[c].status = "reserved" /\ accepted[c] = 0 /\ lost[c] = 0 /\ announced[c] = {}
    BY <1>1
  <2>4. row[c].status = "queued"
    BY <1>1
  <2>. QED BY <2>1, <2>2, <2>3, <2>4 DEF Books, Told
<1>. QED
  BY <1>1, <1>2, <1>3 DEF IInv, Apart

LEMMA StepKeeps ==
  ASSUME IInv, [Next]_vars
  PROVE  IInv'
<1>0. TypeOK
  BY DEF IInv
<1>1. CASE RemoveDomain
  <2>1. TypeOK' /\ UNCHANGED <<mode, row, usage, running, announced, accepted, lost>>
    BY <1>0, <1>1 DEF RemoveDomain, TypeOK, jobs
  <2>. QED BY <2>1, AroundKeeps
<1>2. ASSUME NEW paused \in BOOLEAN, SetDomainPaused(paused) PROVE IInv'
  <2>1. TypeOK' /\ UNCHANGED <<mode, row, usage, running, announced, accepted, lost>>
    BY <1>0, <1>2 DEF SetDomainPaused, TypeOK, jobs
  <2>. QED BY <2>1, AroundKeeps
<1>3. ASSUME NEW p \in Providers, CircuitExpires(p) PROVE IInv'
  <2>0. 0 \in 0..Threshold
    BY EmailDeliveryAssumption
  <2>1. circuit' \in [Providers -> 0..Threshold]
    BY <1>0, <1>3, <2>0 DEF CircuitExpires, TypeOK
  <2>2. TypeOK' /\ UNCHANGED <<mode, row, usage, running, announced, accepted, lost>>
    BY <1>0, <1>3, <2>1 DEF CircuitExpires, TypeOK, jobs, world
  <2>. QED BY <2>2, AroundKeeps
<1>4. ASSUME NEW p \in Providers, NEW ok \in BOOLEAN, SetVerified(p, ok) PROVE IInv'
  <2>1. TypeOK' /\ UNCHANGED <<mode, row, usage, running, announced, accepted, lost>>
    BY <1>0, <1>4 DEF SetVerified, TypeOK, jobs
  <2>. QED BY <2>1, AroundKeeps
<1>5. ASSUME NEW d \in Deliveries, PublishAgain(d) PROVE IInv'
  <2>1. [delivery |-> d, attempts |-> 0] \in Envelope
    BY DEF Envelope
  <2>2. TypeOK' /\ UNCHANGED <<mode, row, usage, running, announced, accepted, lost>>
    BY <1>0, <1>5, <2>1 DEF PublishAgain, TypeOK, world
  <2>. QED BY <2>2, AroundKeeps
<1>6. ASSUME NEW d \in Deliveries, NEW all \in BOOLEAN, SetSuppressed(d, all) PROVE IInv'
  <2>1. TypeOK' /\ UNCHANGED <<mode, row, usage, running, announced, accepted, lost>>
    BY <1>0, <1>6 DEF SetSuppressed, TypeOK, jobs
  <2>. QED BY <2>1, AroundKeeps
<1>7. ASSUME NEW x \in running, HandlerStep(x) \/ InfrastructureFails(x) \/ Crash(x) PROVE IInv'
  BY <1>7, ReadKeeps, EarlyEndKeeps, IdentitiesKeep, BeginKeeps, ChooseKeeps, RemeterKeeps, SendKeeps, FailureKeeps,
     SuccessKeeps, ConfirmKeeps, SentKeeps, FailedKeeps, RetryKeeps, DeadLetterKeeps,
     EndKeeps, FaultKeeps DEF HandlerStep
<1>8. CASE UNCHANGED vars
  <2>1. TypeOK' /\ UNCHANGED <<mode, row, usage, running, announced, accepted, lost>>
    BY <1>0, <1>8 DEF TypeOK, vars, world, jobs
  <2>. QED BY <2>1, AroundKeeps
<1>. QED
  BY <1>1, <1>2, <1>3, <1>4, <1>5, <1>6, <1>7, <1>8, StartKeeps DEF Next

LEMMA Invariance == Spec => []IInv
  BY InitHolds, StepKeeps, PTL DEF Spec

-----------------------------------------------------------------------------
(* The theorems.                                                           *)

\* message.sent is announced only for a message that a Provider took and whose
\* Usage is consumed, whatever overlaps or crashes (AnnouncedWasSent).
THEOREM SentIsTrue == Spec => []AnnouncedWasSent
<1>1. IInv => AnnouncedWasSent
  BY DEF IInv, Told, AnnouncedWasSent
<1>. QED
  BY <1>1, Invariance, PTL

\* However many loops execute a Delivery at once, and however they crash, no
\* more messages of it are taken than confirmations were lost and loops can be
\* past the gate (SendsAreBounded).
THEOREM GateHolds == Spec => []SendsAreBounded
<1>1. IInv => SendsAreBounded
  <2>. SUFFICES ASSUME IInv, NEW d \in Deliveries
                PROVE  accepted[d] <= lost[d] + Cardinality(Lanes)
    BY DEF SendsAreBounded
  <2>1. TypeOK /\ Apart /\ Books(d) /\ accepted[d] \in Nat /\ lost[d] \in Nat
    BY DEF IInv, TypeOK
  <2>2. /\ Cardinality(Held(d, Unsettled)) \in Nat /\ Cardinality(Held(d, {"send"})) \in Nat
        /\ Cardinality(Held(d, Unsettled)) + Cardinality(Held(d, {"send"})) <= Cardinality(Lanes)
        /\ Cardinality(Lanes) \in Nat
    BY <2>1, HeldFinite, HeldTogether, EmailDeliveryAssumption, FS_CardinalityType
  <2>. QED BY <2>1, <2>2 DEF Books
<1>. QED
  BY <1>1, Invariance, PTL

\* A Delivery that was sent is charged at the kind of the Provider that sent
\* it, after any failovers and retries, unless its executions overlapped
\* (ChargedAtTheSendingKind).
THEOREM ChargedTruly == Spec => []ChargedAtTheSendingKind
<1>1. IInv => ChargedAtTheSendingKind
  BY DEF IInv, Told, ChargedAtTheSendingKind
<1>. QED
  BY <1>1, Invariance, PTL

\* The state is well formed, and the three facts above hold, for any Domain,
\* loops and failures (Inv).
THEOREM Sound == Spec => []Inv
<1>1. IInv => TypeOK
  BY DEF IInv
<1>2. TypeOK /\ AnnouncedWasSent /\ SendsAreBounded /\ ChargedAtTheSendingKind => Inv
  BY DEF Inv
<1>. QED
  BY <1>1, <1>2, Invariance, SentIsTrue, GateHolds, ChargedTruly, PTL

\* Without overlap, every acceptance of a message is consumed Usage, about to
\* be confirmed, or was cut off by a failure (EveryAcceptanceAccountedFor).
THEOREM Accounted == Spec => []EveryAcceptanceAccountedFor
<1>1. IInv => EveryAcceptanceAccountedFor
  <2>1. \A d : Held(d, Unsettled) = {x \in running : x.env.delivery = d /\ Unconfirmed(x)}
    BY DEF Held, Unsettled, Unconfirmed
  <2>. QED BY <2>1 DEF IInv, Books, EveryAcceptanceAccountedFor
<1>. QED
  BY <1>1, Invariance, PTL

\* Without overlap, no step takes back or adds to what a Delivery says of
\* itself once it was sent or skipped (OutcomeIsFinal).
THEOREM Final == Spec => OutcomeIsFinal
<1>. DEFINE Kept == \A d \in Deliveries :
                      ("overlap" \notin mode /\ row[d].status \in {"sent", "skipped"}) =>
                        row'[d] = row[d] /\ announced'[d] = announced[d]
<1>1. ASSUME IInv, NEW x \in running, HandlerStep(x) PROVE Kept
  <2>. DEFINE e == x.env.delivery
  <2>0. /\ row \in [Deliveries -> [status : Statuses, provider : Providers \cup {None}]]
        /\ announced \in [Deliveries -> SUBSET Events]
    BY <1>1 DEF IInv, TypeOK
  <2>1. x.phase \notin Idling /\ "overlap" \notin mode => ~Over(e)
    BY <1>1, Known DEF InStep
  <2>2. ASSUME NEW s \in Statuses, row' = [row EXCEPT ![e].status = s] \/ row' = row \/
                                   row' = [row EXCEPT ![e] = [status |-> s, provider |-> Current(x)]],
               announced' = announced \/ \E m \in Events : Announce(e, m),
               ~Over(e) \/ "overlap" \in mode
        PROVE  Kept
    <3>1. \A d \in Deliveries \ {e} : row'[d] = row[d] /\ announced'[d] = announced[d]
      BY <2>0, <2>2 DEF Announce
    <3>. QED BY <2>2, <3>1 DEF Over
  <2>3. CASE UNCHANGED <<row, announced>>
    BY <2>3
  <2>4. CASE FailPaused(x) \/ SkipDelivery(x)
    <3>1. /\ x.phase \notin Idling
          /\ \/ SetStatus(e, "failed") /\ UNCHANGED announced
             \/ SetStatus(e, "skipped") /\ Announce(e, "delivery.skipped")
      BY <2>4 DEF FailPaused, SkipDelivery, Idling
    <3>2. {"failed", "skipped"} \subseteq Statuses /\ "delivery.skipped" \in Events
      BY DEF Statuses, Events
    <3>. QED BY <2>1, <2>2, <3>1, <3>2 DEF SetStatus
  <2>5. CASE BeginSending(x)
    <3>1. x.phase \notin Idling /\ "sending" \in Statuses
      BY <2>5 DEF BeginSending, Idling, Statuses
    <3>. QED BY <2>1, <2>2, <2>5, <3>1 DEF BeginSending, SetStatus
  <2>6. CASE MarkSent(x)
    <3>1. x.phase \notin Idling /\ "sent" \in Statuses /\ "message.sent" \in Events
      BY <2>6 DEF MarkSent, Idling, Statuses, Events
    <3>. QED BY <2>1, <2>2, <2>6, <3>1 DEF MarkSent
  <2>7. CASE MarkFailed(x)
    <3>1. x.phase \notin Idling /\ "failed" \in Statuses /\ "message.failed" \in Events
      BY <2>7 DEF MarkFailed, Idling, Statuses, Events
    <3>. QED BY <2>1, <2>2, <2>7, <3>1 DEF MarkFailed, SetStatus
  <2>8. CASE \/ LoadDelivery(x) \/ FilterSuppressed(x) \/ LoadIdentities(x)
             \/ ChooseProvider(x) \/ Remeter(x) \/ Send(x) \/ RecordFailure(x) \/ LeaveProvider(x)
             \/ RecordSuccess(x) \/ ConfirmUsage(x) \/ ScheduleRetry(x) \/ OnDeadLetter(x)
             \/ Acknowledge(x)
    BY <2>3, <2>8 DEF LoadDelivery, FilterSuppressed, LoadIdentities, ChooseProvider, Remeter, Send, RecordFailure, LeaveProvider, RecordSuccess,
       ConfirmUsage, ScheduleRetry, OnDeadLetter, Acknowledge
  <2>. QED BY <1>1, <2>4, <2>5, <2>6, <2>7, <2>8 DEF HandlerStep
<1>2. ASSUME IInv, Next PROVE Kept
  <2>1. ASSUME UNCHANGED <<row, announced>> PROVE Kept
    BY <2>1
  <2>2. \/ UNCHANGED <<row, announced>>
        \/ \E x \in running : HandlerStep(x)
    BY <1>2 DEF Next, RemoveDomain, SetDomainPaused, CircuitExpires, SetVerified, PublishAgain,
       SetSuppressed, StartExecution, InfrastructureFails, Crash
  <2>. QED BY <1>1, <1>2, <2>1, <2>2
<1>3. IInv /\ [Next]_vars => [Kept]_vars
  BY <1>2
<1>. QED
  BY <1>3, Invariance, PTL DEF Spec, OutcomeIsFinal

=============================================================================
