------------------------ MODULE WebhookDeliveryProofs ------------------------
(***************************************************************************)
(* Proofs about WebhookDelivery for any Events, Endpoints, replays,        *)
(* rotations, loops and attempt limit.                                     *)
(***************************************************************************)
EXTENDS WebhookDelivery, TLAPS

-----------------------------------------------------------------------------
(* Type correctness.                                                       *)

\* What an execution and a row consist of.
LEMMA ExecutionParts ==
  ASSUME TypeOK, NEW x \in running
  PROVE  /\ x \in Execution
         /\ x.env \in Envelope /\ x.env.delivery \in Deliveries
         /\ x.env.attempts \in Nat /\ x.token \in Nat
         /\ x.env.delivery[1] \in Events /\ x.env.delivery[2] \in Endpoints
<1>1. x \in Execution
  BY DEF TypeOK
<1>2. x.env \in Envelope /\ x.token \in Nat
  BY <1>1 DEF Execution
<1>3. x.env.delivery \in Deliveries /\ x.env.attempts \in Nat
  BY <1>2 DEF Envelope
<1>. QED
  BY <1>1, <1>2, <1>3 DEF Deliveries

\* The parts of a row.
LEMMA RowParts ==
  ASSUME TypeOK, NEW d \in Deliveries, delivery[d] # None
  PROVE  /\ delivery[d] \in Row
         /\ delivery[d].attempts \in Nat
         /\ delivery[d].status \in {"pending", "delivered", "dead_letter"}
<1>1. delivery[d] \in Row
  BY DEF TypeOK
<1>. QED
  BY <1>1 DEF Row

\* An execution that moves on, or claims its row, stays an execution.
LEMMA AdvanceTyped ==
  ASSUME NEW x \in Execution, NEW p \in Phases
  PROVE  [x EXCEPT !.phase = p, !.secret = None, !.since = 0] \in Execution
<1>1. [x EXCEPT !.phase = p, !.secret = None] \in Execution
  BY DEF Execution
<1>2. PICK y \in Execution : y = [x EXCEPT !.phase = p, !.secret = None]
  BY <1>1
<1>3. [y EXCEPT !.since = 0] \in Execution
  BY DEF Execution
<1>. QED
  BY <1>2, <1>3

\* An execution that takes the claim stays an execution.
LEMMA HolderTyped ==
  ASSUME NEW x \in Execution, NEW t \in Nat, NEW s \in Rotations \cup {None}
  PROVE  [x EXCEPT !.phase = "post", !.token = t, !.secret = s, !.since = 0] \in Execution
<1>1. [x EXCEPT !.phase = "post", !.token = t, !.secret = s] \in Execution
  BY DEF Execution, Phases
<1>2. PICK y \in Execution : y = [x EXCEPT !.phase = "post", !.token = t, !.secret = s]
  BY <1>1
<1>3. [y EXCEPT !.since = 0] \in Execution
  BY DEF Execution
<1>. QED
  BY <1>2, <1>3

\* A row that is claimed, released or left to expire stays a row.
LEMMA ClaimedTyped ==
  ASSUME NEW r \in Row, NEW t \in Nat
  PROVE  [r EXCEPT !.attempts = @ + 1, !.token = t, !.live = TRUE] \in Row
<1>1. [r EXCEPT !.attempts = @ + 1, !.token = t] \in Row
  <2>1. PICK n \in Nat : n = r.attempts + 1
    BY DEF Row
  <2>2. [r EXCEPT !.attempts = n, !.token = t] \in Row
    BY DEF Row
  <2>. QED BY <2>1, <2>2
<1>2. PICK y \in Row : y = [r EXCEPT !.attempts = @ + 1, !.token = t]
  BY <1>1
<1>3. [y EXCEPT !.live = TRUE] \in Row
  BY DEF Row
<1>. QED
  BY <1>2, <1>3

\* A row whose claim is released stays a row.
LEMMA ReleasedTyped ==
  ASSUME NEW r \in Row, NEW s \in {"pending", "delivered", "dead_letter"}
  PROVE  /\ [r EXCEPT !.status = s, !.token = 0, !.live = FALSE] \in Row
         /\ [r EXCEPT !.live = FALSE] \in Row
<1>1. [r EXCEPT !.status = s, !.token = 0] \in Row
  BY DEF Row
<1>2. PICK y \in Row : y = [r EXCEPT !.status = s, !.token = 0]
  BY <1>1
<1>3. [y EXCEPT !.live = FALSE] \in Row
  BY DEF Row
<1>4. [r EXCEPT !.live = FALSE] \in Row
  BY DEF Row
<1>. QED
  BY <1>2, <1>3, <1>4

\* Releasing a claim keeps the rows typed.
LEMMA ReleaseTyped ==
  ASSUME TypeOK, NEW d \in Deliveries, delivery[d] # None,
         NEW s \in {"pending", "delivered", "dead_letter"}, Release(d, s)
  PROVE  delivery' \in [Deliveries -> Row \cup {None}]
<1>1. [delivery[d] EXCEPT !.status = s, !.token = 0, !.live = FALSE] \in Row
  BY RowParts, ReleasedTyped
<1>. QED
  BY <1>1 DEF Release, TypeOK

\* A change of secrets keeps the executions typed.
LEMMA OutliveTyped ==
  ASSUME TypeOK, NEW p \in Endpoints, Outlive(p)
  PROVE  running' \subseteq Execution
<1>1. ASSUME NEW x \in running PROVE
        (x.since < 2) => [x EXCEPT !.since = @ + 1] \in Execution
  BY DEF TypeOK, Execution
<1>. QED
  BY <1>1 DEF Outlive, TypeOK

\* The handler keeps the type in each of its steps.
LEMMA HandlerTyped ==
  ASSUME TypeOK, NEW x \in running, HandlerStep(x)
  PROVE  TypeOK'
<1>0. x \in Execution /\ x.env \in Envelope /\ x.env.delivery \in Deliveries
  BY ExecutionParts
<1>a. ASSUME NEW p \in Phases, Advance(x, p) PROVE running' \subseteq Execution
  BY <1>0, <1>a, AdvanceTyped DEF Advance, Become, TypeOK
<1>b. ASSUME FailExecution(x) PROVE running' \subseteq Execution /\ failed' \subseteq Envelope
  <2>1. \E p \in Phases : Advance(x, p)
    BY <1>b DEF FailExecution, Phases
  <2>. QED BY <1>a, <1>b, <1>0, <2>1 DEF FailExecution, TypeOK
<1>1. CASE ClaimDelivery(x)
  <2>c. ASSUME delivery[x.env.delivery] # None,
               Claim(x, delivery[x.env.delivery].attempts + 1)
        PROVE  /\ running' \subseteq Execution
               /\ delivery' \in [Deliveries -> Row \cup {None}]
    <3>1. /\ delivery[x.env.delivery].attempts + 1 \in Nat
          /\ delivery[x.env.delivery] \in Row
      BY <2>c, <1>0, RowParts
    <3>2. secret[x.env.delivery[2]].current \in Rotations \cup {None}
      BY ExecutionParts DEF TypeOK, Secrets
    <3>3. running' \subseteq Execution
      <4>1. [x EXCEPT !.phase = "post", !.token = delivery[x.env.delivery].attempts + 1,
               !.secret = secret[x.env.delivery[2]].current, !.since = 0] \in Execution
        BY <3>1, <3>2, <1>0, HolderTyped
      <4>. QED BY <4>1, <2>c DEF Claim, Become, TypeOK
    <3>4. [delivery[x.env.delivery] EXCEPT !.attempts = @ + 1,
             !.token = delivery[x.env.delivery].attempts + 1, !.live = TRUE] \in Row
      BY <3>1, ClaimedTyped
    <3>5. delivery' \in [Deliveries -> Row \cup {None}]
      BY <3>4, <2>c, <1>0 DEF Claim, TypeOK
    <3>. QED BY <3>3, <3>5
  <2>1. running' \subseteq Execution
    BY <1>1, <2>c, <1>a, <1>b DEF ClaimDelivery, Phases
  <2>2. delivery' \in [Deliveries -> Row \cup {None}]
    BY <1>1, <2>c DEF ClaimDelivery, TypeOK
  <2>3. abandoned' \subseteq Deliveries /\ failed' \subseteq Envelope
    BY <1>0, <1>1, <1>b DEF ClaimDelivery, Abandon, TypeOK
  <2>. QED BY <1>1, <2>1, <2>2, <2>3 DEF ClaimDelivery, TypeOK, managed
<1>2. CASE PostEvent(x)
  BY <1>2, <1>0, <1>a DEF PostEvent, TypeOK, rows, managed, Phases
<1>3. CASE MarkDelivered(x)
  <2>1. running' \subseteq Execution /\ failed' \subseteq Envelope
    BY <1>3, <1>a, <1>b DEF MarkDelivered, TypeOK, Phases
  <2>2. delivery' \in [Deliveries -> Row \cup {None}]
    BY <1>0, <1>3, ReleaseTyped DEF MarkDelivered, TypeOK, HoldsClaim
  <2>. QED BY <1>0, <1>3, <2>1, <2>2 DEF MarkDelivered, TypeOK, managed, Abandon
<1>4. CASE MarkFailed(x)
  <2>2. delivery' \in [Deliveries -> Row \cup {None}]
    <3>1. HoldsClaim(x) => delivery[x.env.delivery].status \in {"pending", "delivered", "dead_letter"}
      BY <1>0, RowParts DEF HoldsClaim
    <3>. QED BY <1>0, <1>4, <3>1, ReleaseTyped DEF MarkFailed, TypeOK, HoldsClaim
  <2>. QED BY <1>4, <1>b, <2>2 DEF MarkFailed, TypeOK, managed
<1>5. CASE ScheduleRetry(x)
  <2>1. [x.env EXCEPT !.attempts = @ + 1] \in Envelope
    BY <1>0 DEF Envelope
  <2>. QED BY <1>5, <2>1, <1>a DEF ScheduleRetry, TypeOK, rows, managed, Phases
<1>6. CASE OnDeadLetter(x)
  BY <1>0, <1>6, <1>a, ReleaseTyped DEF OnDeadLetter, TypeOK, managed, Phases
<1>7. CASE Acknowledge(x)
  BY <1>7 DEF Acknowledge, TypeOK, rows, managed
<1>. QED
  BY <1>1, <1>2, <1>3, <1>4, <1>5, <1>6, <1>7 DEF HandlerStep

\* The state keeps its type in every step.
LEMMA StepTyped == TypeOK /\ [Next]_vars => TypeOK'
<1> SUFFICES ASSUME TypeOK, [Next]_vars PROVE TypeOK'
  OBVIOUS
<1>1. ASSUME NEW p \in Endpoints, NEW enabled \in BOOLEAN, SetEndpointEnabled(p, enabled)
      PROVE TypeOK'
  BY <1>1 DEF SetEndpointEnabled, TypeOK, managed
<1>2. ASSUME NEW p \in Endpoints, DeleteEndpoint(p) PROVE TypeOK'
  BY <1>2 DEF DeleteEndpoint, TypeOK, managed
<1>3. ASSUME NEW p \in Endpoints, NEW filter \in SUBSET Matches, NEW enabled \in BOOLEAN,
             UpdateEndpoint(p, filter, enabled)
      PROVE TypeOK'
  BY <1>3 DEF UpdateEndpoint, TypeOK
<1>4. ASSUME NEW p \in Endpoints, ClearPreviousSecret(p) PROVE TypeOK'
  <2>1. secret' \in [Endpoints -> Secrets]
    BY <1>4 DEF ClearPreviousSecret, TypeOK, Secrets
  <2>. QED BY <1>4, <2>1, OutliveTyped DEF ClearPreviousSecret, TypeOK
<1>5. ASSUME NEW r \in Rotations, RotateSecret(r) PROVE TypeOK'
  <2>0. rotating[r] \in [endpoint : Endpoints, secret : Rotations \cup {None}]
    BY <1>5 DEF RotateSecret, TypeOK
  <2>1. secret' \in [Endpoints -> Secrets]
    BY <1>5, <2>0 DEF RotateSecret, TypeOK, Secrets
  <2>. QED BY <1>5, <2>0, <2>1, OutliveTyped DEF RotateSecret, TypeOK
<1>6. ASSUME NEW r \in Rotations, NEW p \in Endpoints, LoadSecret(r, p) PROVE TypeOK'
  BY <1>6 DEF LoadSecret, TypeOK, Secrets
<1>7. ASSUME NEW v \in Events, SelectEndpoints(v) PROVE TypeOK'
  BY <1>7 DEF SelectEndpoints, TypeOK, managed
<1>8. ASSUME NEW v \in Events, CommitEvent(v) PROVE TypeOK'
  <2>1. emitting[v] \subseteq Endpoints
    BY <1>8 DEF CommitEvent, TypeOK
  <2>2. delivery' \in [Deliveries -> Row \cup {None}]
    BY <1>8 DEF CommitEvent, TypeOK, Row
  <2>3. queued' \subseteq Envelope
    BY <1>8, <2>1 DEF CommitEvent, TypeOK, Envelope, Deliveries
  <2>. QED BY <1>8, <2>2, <2>3 DEF CommitEvent, TypeOK, managed
<1>9. ASSUME NEW lane \in Lanes, NEW env \in queued, StartExecution(lane, env) PROVE TypeOK'
  BY <1>9 DEF StartExecution, TypeOK, rows, managed, Execution, Phases
<1>10. ASSUME NEW x \in running, HandlerStep(x) PROVE TypeOK'
  BY <1>10, HandlerTyped
<1>11. ASSUME NEW x \in running, Crash(x) PROVE TypeOK'
  BY <1>11 DEF Crash, TypeOK, rows, managed
<1>12. ASSUME NEW d \in Deliveries, ClaimExpires(d) PROVE TypeOK'
  <2>1. [delivery[d] EXCEPT !.live = FALSE] \in Row
    BY <1>12, RowParts, ReleasedTyped DEF ClaimExpires
  <2>. QED BY <1>12, <2>1 DEF ClaimExpires, TypeOK, managed
<1>13. ASSUME NEW r \in Requests, CommitReplay(r) PROVE TypeOK'
  <2>1. delivery' \in [Deliveries -> Row \cup {None}]
    BY <1>13, ReleaseTyped DEF CommitReplay, TypeOK
  <2>. QED BY <1>13, <2>1 DEF CommitReplay, TypeOK, managed, Envelope
<1>14. ASSUME NEW r \in Requests, NEW d \in Deliveries, LoadForReplay(r, d) PROVE TypeOK'
  BY <1>14 DEF LoadForReplay, TypeOK, managed
<1>15. CASE UNCHANGED vars
  BY <1>15 DEF TypeOK, vars, rows, managed
<1>. QED
  BY <1>1, <1>2, <1>3, <1>4, <1>5, <1>6, <1>7, <1>8, <1>9, <1>10, <1>11, <1>12,
     <1>13, <1>14, <1>15 DEF Next

\* The initial state is well typed.
LEMMA InitTyped == Init => TypeOK
  BY DEF Init, TypeOK, Secrets

\* Every reachable state is well typed, for all values of the constants.
THEOREM TypeCorrect == Spec => []TypeOK
  BY InitTyped, StepTyped, PTL DEF Spec

-----------------------------------------------------------------------------
(* What a step does to the executions and the rows, the handler's apart    *)
(* from the others.                                                        *)

\* What the handler leaves alone, and what it only adds to.
LEMMA HandlerFrame ==
  ASSUME TypeOK, NEW x \in running, HandlerStep(x)
  PROVE  /\ UNCHANGED <<managed, endpoint, emitting, replaying>>
         /\ accepted \subseteq accepted' /\ failed \subseteq failed'
         /\ \A env \in queued' : \/ env \in queued
                                 \/ /\ x.phase = "retry"
                                    /\ env = [x.env EXCEPT !.attempts = @ + 1]
  BY DEF HandlerStep, ClaimDelivery, PostEvent, MarkDelivered, MarkFailed, ScheduleRetry,
         OnDeadLetter, Acknowledge, FailExecution, rows, managed

\* Where an execution that moves on may get to.
LEMMA HandlerMoves ==
  ASSUME TypeOK, NEW x \in running, HandlerStep(x), NEW z \in running', z \notin running
  PROVE  /\ z.env = x.env
         /\ z.phase # "post" => z.token = x.token
         /\ z.phase = "post" =>
              LET d == x.env.delivery IN
              /\ delivery[d] # None /\ z.token = delivery[d].attempts + 1
              /\ delivery'[d].attempts = z.token
              /\ z.secret = secret[d[2]].current /\ z.since = 0
         /\ z.phase = "succeeded" => x.env.delivery \in accepted'
         /\ z.phase = "retry" => x.env \in failed'
         /\ z.phase = "cleanup" => \/ delivery'[x.env.delivery] = None
                                   \/ /\ x.env \in failed'
                                      /\ x.env.attempts + 1 >= MaxAttempts
<1>. DEFINE Goal ==
         /\ z.env = x.env
         /\ z.phase # "post" => z.token = x.token
         /\ z.phase = "post" =>
              LET d == x.env.delivery IN
              /\ delivery[d] # None /\ z.token = delivery[d].attempts + 1
              /\ delivery'[d].attempts = z.token
              /\ z.secret = secret[d[2]].current /\ z.since = 0
         /\ z.phase = "succeeded" => x.env.delivery \in accepted'
         /\ z.phase = "retry" => x.env \in failed'
         /\ z.phase = "cleanup" => \/ delivery'[x.env.delivery] = None
                                   \/ /\ x.env \in failed'
                                      /\ x.env.attempts + 1 >= MaxAttempts
<1>0. x \in Execution /\ x.env.delivery \in Deliveries /\ x.env.attempts \in Nat
  BY ExecutionParts
<1>a. ASSUME NEW p \in Phases, Advance(x, p)
      PROVE  z.env = x.env /\ z.phase = p /\ z.token = x.token
  BY <1>0, <1>a DEF Advance, Become, Execution
<1>b. ASSUME FailExecution(x)
      PROVE  /\ z.env = x.env /\ z.token = x.token /\ x.env \in failed'
             /\ z.phase \in {"retry", "cleanup"}
             /\ z.phase = "cleanup" => x.env.attempts + 1 >= MaxAttempts
  <2>1. CASE x.env.attempts + 1 < MaxAttempts
    BY <1>a, <1>b, <2>1 DEF FailExecution, Phases
  <2>2. CASE ~(x.env.attempts + 1 < MaxAttempts)
    <3>1. x.env.attempts + 1 >= MaxAttempts
      BY <1>0, <2>2, WebhookAssumption
    <3>. QED BY <1>a, <1>b, <2>2, <3>1 DEF FailExecution, Phases
  <2>. QED BY <2>1, <2>2
<1>1. CASE ClaimDelivery(x)
  <2>1. CASE delivery[x.env.delivery] = None /\ Advance(x, "cleanup") /\ UNCHANGED delivery
    BY <2>1, <1>a DEF Phases
  <2>2. CASE Advance(x, "ack")
    BY <2>2, <1>a DEF Phases
  <2>3. CASE /\ delivery[x.env.delivery] # None
             /\ Claim(x, delivery[x.env.delivery].attempts + 1)
    <3>1. delivery[x.env.delivery] \in Row
      BY <2>3, <1>0, RowParts
    <3>2. /\ z.env = x.env /\ z.phase = "post"
          /\ z.token = delivery[x.env.delivery].attempts + 1
          /\ z.secret = secret[x.env.delivery[2]].current /\ z.since = 0
      BY <2>3, <1>0 DEF Claim, Become, Execution
    <3>3. delivery'[x.env.delivery].attempts = delivery[x.env.delivery].attempts + 1
      BY <2>3, <1>0, <3>1 DEF Claim, TypeOK, Row
    <3>. QED BY <2>3, <3>2, <3>3
  <2>4. CASE FailExecution(x)
    BY <2>4, <1>b
  <2>. QED BY <1>1, <2>1, <2>2, <2>3, <2>4 DEF ClaimDelivery
<1>2. CASE PostEvent(x)
  BY <1>2, <1>a DEF PostEvent, Phases
<1>3. CASE MarkDelivered(x)
  <2>1. CASE Advance(x, "ack")
    BY <2>1, <1>a DEF Phases
  <2>. QED BY <1>3, <1>b, <2>1 DEF MarkDelivered
<1>4. CASE MarkFailed(x)
  BY <1>4, <1>b DEF MarkFailed
<1>5. CASE ScheduleRetry(x)
  BY <1>5, <1>a DEF ScheduleRetry, Phases
<1>6. CASE OnDeadLetter(x)
  BY <1>6, <1>a DEF OnDeadLetter, Phases
<1>7. CASE Acknowledge(x)
  BY <1>7 DEF Acknowledge
<1>. QED
  BY <1>1, <1>2, <1>3, <1>4, <1>5, <1>6, <1>7 DEF HandlerStep

\* Release, field by field.
LEMMA Released ==
  ASSUME TypeOK, NEW d \in Deliveries, delivery[d] # None, NEW s, Release(d, s)
  PROVE  /\ delivery'[d].status = s /\ delivery'[d].attempts = delivery[d].attempts
         /\ \A c \in Deliveries \ {d} : delivery'[c] = delivery[c]
  BY RowParts DEF Release, TypeOK, Row

\* What the handler may do to a row.
LEMMA HandlerRows ==
  ASSUME TypeOK, NEW x \in running, HandlerStep(x), NEW d \in Deliveries, delivery'[d] # None
  PROVE  /\ delivery[d] # None
         /\ delivery[d].attempts \in Nat /\ delivery'[d].attempts >= delivery[d].attempts
         /\ \/ delivery'[d].status \in {delivery[d].status, "pending"}
            \/ /\ d = x.env.delivery /\ x.phase = "succeeded"
               /\ delivery'[d].status = "delivered"
            \/ /\ d = x.env.delivery /\ x.phase = "cleanup"
               /\ delivery'[d].status = "dead_letter"
<1>0. x.env.delivery \in Deliveries
  BY ExecutionParts
<1>n. delivery[d] # None => delivery[d] \in Row /\ delivery[d].attempts \in Nat
  BY RowParts
<1>r. ASSUME NEW s, Release(x.env.delivery, s), delivery[x.env.delivery] # None
      PROVE  /\ delivery[d] # None /\ delivery'[d].attempts = delivery[d].attempts
             /\ \/ delivery'[d].status = delivery[d].status
                \/ d = x.env.delivery /\ delivery'[d].status = s
  <2>1. CASE d = x.env.delivery
    BY <2>1, <1>r, Released
  <2>2. CASE d # x.env.delivery
    BY <2>2, <1>0, <1>r, Released
  <2>. QED BY <2>1, <2>2
<1>u. ASSUME UNCHANGED delivery PROVE delivery[d] # None /\ delivery'[d] = delivery[d]
  BY <1>u
<1>1. CASE ClaimDelivery(x)
  <2>1. CASE UNCHANGED delivery
    BY <2>1, <1>u, <1>n
  <2>2. CASE /\ delivery[x.env.delivery] # None
             /\ Claim(x, delivery[x.env.delivery].attempts + 1)
    <3>1. CASE d = x.env.delivery
      <4>1. /\ delivery'[d].attempts = delivery[d].attempts + 1
            /\ delivery'[d].status = delivery[d].status
        BY <3>1, <2>2, <1>0, <1>n DEF Claim, TypeOK, Row
      <4>. QED BY <4>1, <3>1, <2>2, <1>n
    <3>2. CASE d # x.env.delivery
      <4>1. delivery'[d] = delivery[d]
        BY <3>2, <2>2 DEF Claim, TypeOK
      <4>. QED BY <4>1, <1>n
    <3>. QED BY <3>1, <3>2
  <2>. QED BY <1>1, <2>1, <2>2 DEF ClaimDelivery
<1>2. CASE PostEvent(x) \/ ScheduleRetry(x) \/ Acknowledge(x)
  BY <1>2, <1>u, <1>n DEF PostEvent, ScheduleRetry, Acknowledge, rows
<1>3. CASE MarkDelivered(x)
  BY <1>3, <1>n, <1>r, <1>u DEF MarkDelivered, HoldsClaim
<1>4. CASE MarkFailed(x)
  <2>1. CASE UNCHANGED delivery
    BY <2>1, <1>u, <1>n
  <2>2. CASE HoldsClaim(x) /\ Release(x.env.delivery, delivery[x.env.delivery].status)
    BY <2>2, <1>r, <1>n DEF HoldsClaim
  <2>. QED BY <1>4, <2>1, <2>2 DEF MarkFailed
<1>6. CASE OnDeadLetter(x)
  BY <1>6, <1>n, <1>r, <1>u DEF OnDeadLetter
<1>. QED
  BY <1>1, <1>2, <1>3, <1>4, <1>6 DEF HandlerStep

\* Every other step leaves the answers and failures alone; an execution it
\* adds is about to claim, and it changes nothing of the others but the count
\* of the secrets they outlived.
LEMMA OthersRun ==
  ASSUME TypeOK, [Next]_vars, \A x \in running : ~HandlerStep(x)
  PROVE  /\ UNCHANGED <<accepted, failed>>
         /\ \A z \in running' :
              \/ z \in running
              \/ z.env \in queued /\ z.phase = "claim" /\ z.token = 0
              \/ \E w \in running : /\ w.env = z.env /\ w.token = z.token
                                    /\ w.phase = "post" /\ z.phase = "post"
<1>. DEFINE Goal == /\ UNCHANGED <<accepted, failed>>
                    /\ \A z \in running' :
                         \/ z \in running
                         \/ z.env \in queued /\ z.phase = "claim" /\ z.token = 0
                         \/ \E w \in running : /\ w.env = z.env /\ w.token = z.token
                                               /\ w.phase = "post" /\ z.phase = "post"
<1>o. ASSUME NEW p \in Endpoints, Outlive(p), NEW z \in running'
      PROVE  \E w \in running : z = w \/ (/\ w.env = z.env /\ w.token = z.token
                                          /\ w.phase = "post" /\ z.phase = "post")
  <2>1. PICK w \in running :
          z = IF w.phase = "post" /\ w.env.delivery[2] = p /\ w.since < 2
              THEN [w EXCEPT !.since = @ + 1] ELSE w
    BY <1>o DEF Outlive
  <2>. QED BY <2>1, ExecutionParts DEF Execution
<1>1. ASSUME NEW p \in Endpoints, NEW enabled \in BOOLEAN, SetEndpointEnabled(p, enabled)
      PROVE Goal
  BY <1>1 DEF SetEndpointEnabled
<1>2. ASSUME NEW p \in Endpoints, DeleteEndpoint(p) PROVE Goal
  BY <1>2 DEF DeleteEndpoint
<1>3. ASSUME NEW p \in Endpoints, NEW filter \in SUBSET Matches, NEW enabled \in BOOLEAN,
             UpdateEndpoint(p, filter, enabled)
      PROVE Goal
  BY <1>3 DEF UpdateEndpoint
<1>4. ASSUME NEW p \in Endpoints, ClearPreviousSecret(p) PROVE Goal
  BY <1>4, <1>o DEF ClearPreviousSecret
<1>5. ASSUME NEW r \in Rotations, RotateSecret(r) PROVE Goal
  <2>0. rotating[r].endpoint \in Endpoints
    BY <1>5 DEF RotateSecret, TypeOK
  <2>. QED BY <1>5, <1>o, <2>0 DEF RotateSecret
<1>6. ASSUME NEW r \in Rotations, NEW p \in Endpoints, LoadSecret(r, p) PROVE Goal
  BY <1>6 DEF LoadSecret
<1>7. ASSUME NEW v \in Events, SelectEndpoints(v) PROVE Goal
  BY <1>7 DEF SelectEndpoints
<1>8. ASSUME NEW v \in Events, CommitEvent(v) PROVE Goal
  BY <1>8 DEF CommitEvent
<1>9. ASSUME NEW lane \in Lanes, NEW env \in queued, StartExecution(lane, env) PROVE Goal
  BY <1>9 DEF StartExecution
<1>11. ASSUME NEW x \in running, Crash(x) PROVE Goal
  BY <1>11 DEF Crash
<1>12. ASSUME NEW d \in Deliveries, ClaimExpires(d) PROVE Goal
  BY <1>12 DEF ClaimExpires
<1>13. ASSUME NEW r \in Requests, CommitReplay(r) PROVE Goal
  BY <1>13 DEF CommitReplay
<1>14. ASSUME NEW r \in Requests, NEW d \in Deliveries, LoadForReplay(r, d) PROVE Goal
  BY <1>14 DEF LoadForReplay
<1>15. CASE UNCHANGED vars
  BY <1>15 DEF vars
<1>. QED
  BY <1>1, <1>2, <1>3, <1>4, <1>5, <1>6, <1>7, <1>8, <1>9, <1>11, <1>12,
     <1>13, <1>14, <1>15 DEF Next

\* A row is new, of an event that was being emitted, or keeps its count of
\* claims and, unless it is made pending again, its status.
LEMMA OthersRows ==
  ASSUME TypeOK, [Next]_vars, \A x \in running : ~HandlerStep(x),
         NEW d \in Deliveries, delivery'[d] # None
  PROVE  \/ /\ emitting[d[1]] \notin {None, {}}
            /\ delivery'[d].status = "pending"
         \/ /\ delivery[d] # None
            /\ delivery'[d].attempts = delivery[d].attempts
            /\ delivery'[d].status \in {delivery[d].status, "pending"}
<1>. DEFINE Goal ==
         \/ /\ emitting[d[1]] \notin {None, {}}
            /\ delivery'[d].status = "pending"
         \/ /\ delivery[d] # None
            /\ delivery'[d].attempts = delivery[d].attempts
            /\ delivery'[d].status \in {delivery[d].status, "pending"}
<1>u. ASSUME delivery'[d] = delivery[d] PROVE Goal
  BY <1>u
<1>1. ASSUME NEW p \in Endpoints, NEW enabled \in BOOLEAN, SetEndpointEnabled(p, enabled)
      PROVE Goal
  BY <1>1, <1>u DEF SetEndpointEnabled
<1>2. ASSUME NEW p \in Endpoints, DeleteEndpoint(p) PROVE Goal
  <2>1. delivery'[d] = delivery[d]
    BY <1>2 DEF DeleteEndpoint
  <2>. QED BY <2>1, <1>u
<1>3. ASSUME NEW p \in Endpoints, NEW filter \in SUBSET Matches, NEW enabled \in BOOLEAN,
             UpdateEndpoint(p, filter, enabled)
      PROVE Goal
  BY <1>3, <1>u DEF UpdateEndpoint
<1>4. ASSUME NEW p \in Endpoints, ClearPreviousSecret(p) PROVE Goal
  BY <1>4, <1>u DEF ClearPreviousSecret
<1>5. ASSUME NEW r \in Rotations, RotateSecret(r) PROVE Goal
  BY <1>5, <1>u DEF RotateSecret
<1>6. ASSUME NEW r \in Rotations, NEW p \in Endpoints, LoadSecret(r, p) PROVE Goal
  BY <1>6, <1>u DEF LoadSecret
<1>7. ASSUME NEW v \in Events, SelectEndpoints(v) PROVE Goal
  BY <1>7, <1>u DEF SelectEndpoints
<1>8. ASSUME NEW v \in Events, CommitEvent(v) PROVE Goal
  <2>1. CASE d[1] = v /\ d[2] \in emitting[v]
    <3>1. delivery'[d].status = "pending"
      BY <1>8, <2>1 DEF CommitEvent
    <3>. QED BY <1>8, <2>1, <3>1 DEF CommitEvent
  <2>2. CASE ~(d[1] = v /\ d[2] \in emitting[v])
    BY <1>8, <2>2, <1>u DEF CommitEvent
  <2>. QED BY <2>1, <2>2
<1>9. ASSUME NEW lane \in Lanes, NEW env \in queued, StartExecution(lane, env) PROVE Goal
  BY <1>9, <1>u DEF StartExecution, rows
<1>11. ASSUME NEW x \in running, Crash(x) PROVE Goal
  BY <1>11, <1>u DEF Crash, rows
<1>12. ASSUME NEW c \in Deliveries, ClaimExpires(c) PROVE Goal
  <2>1. CASE d = c
    <3>1. /\ delivery[d] # None /\ delivery'[d].attempts = delivery[d].attempts
          /\ delivery'[d].status = delivery[d].status
      BY <1>12, <2>1, RowParts DEF ClaimExpires, TypeOK, Row
    <3>. QED BY <3>1
  <2>2. CASE d # c
    BY <1>12, <2>2, <1>u DEF ClaimExpires, TypeOK
  <2>. QED BY <2>1, <2>2
<1>13. ASSUME NEW r \in Requests, CommitReplay(r) PROVE Goal
  <2>1. CASE UNCHANGED delivery
    BY <2>1, <1>u
  <2>2. CASE delivery[replaying[r]] # None /\ Release(replaying[r], "pending")
    <3>1. CASE d = replaying[r]
      BY <1>13, <2>2, <3>1, Released DEF CommitReplay
    <3>2. CASE d # replaying[r]
      <4>1. delivery'[d] = delivery[d]
        BY <1>13, <2>2, <3>2, Released DEF CommitReplay
      <4>. QED BY <4>1, <1>u
    <3>. QED BY <3>1, <3>2
  <2>. QED BY <1>13, <2>1, <2>2 DEF CommitReplay
<1>14. ASSUME NEW r \in Requests, NEW c \in Deliveries, LoadForReplay(r, c) PROVE Goal
  BY <1>14, <1>u DEF LoadForReplay
<1>15. CASE UNCHANGED vars
  BY <1>15, <1>u DEF vars, rows
<1>. QED
  BY <1>1, <1>2, <1>3, <1>4, <1>5, <1>6, <1>7, <1>8, <1>9, <1>11, <1>12,
     <1>13, <1>14, <1>15 DEF Next

-----------------------------------------------------------------------------
(* The inductive invariant, part by part.                                  *)

\* Whatever works for a Delivery, its event has been emitted: the row is not
\* going to be created again.
Emitted ==
  /\ \A env \in queued : emitting[env.delivery[1]] = {}
  /\ \A x \in running : emitting[x.env.delivery[1]] = {}
  /\ \A r \in Requests : replaying[r] \in Deliveries => emitting[replaying[r][1]] = {}
  /\ \A d \in Deliveries : delivery[d] # None => emitting[d[1]] = {}

\* No execution carries a token its row has not handed out yet.
TokensBelow ==
  \A x \in running : LET d == x.env.delivery IN
    delivery[d] # None => x.token <= delivery[d].attempts

\* An answer that is about to be recorded was given.
AnswersAccepted == \A x \in running : x.phase = "succeeded" => x.env.delivery \in accepted

\* The attempts before this one have all failed.
EarlierFailed(env) ==
  \A j \in 0..(env.attempts - 1) :
    [delivery |-> env.delivery, run |-> env.run, attempts |-> j] \in failed

AttemptsFailed ==
  /\ \A env \in queued : EarlierFailed(env)
  /\ \A x \in running : /\ EarlierFailed(x.env)
                        /\ x.phase = "retry" => x.env \in failed

\* A row is buried after its last attempt, or is gone.
BurialsSpent ==
  \A x \in running : x.phase = "cleanup" =>
    \/ delivery[x.env.delivery] = None
    \/ x.env \in failed /\ x.env.attempts + 1 >= MaxAttempts

\* What a rotation has read is the current secret, unless another crossed it.
RotationsRead ==
  \A r \in Rotations : LET o == rotating[r] IN
    (o \notin {None, Done} /\ o.endpoint \notin crossed) =>
      /\ o.secret = secret[o.endpoint].current
      /\ \A q \in Rotations \ {r} :
           rotating[q] \notin {None, Done} => rotating[q].endpoint # o.endpoint

\* An execution that has outlived no change of secrets signs with the current
\* one, after one change also with the previous one.
SignedInTime ==
  \A x \in running : LET p == x.env.delivery[2] IN
    (x.phase = "post" /\ p \notin crossed) =>
      /\ x.since = 0 => x.secret = secret[p].current
      /\ x.since = 1 => x.secret \in {secret[p].current, secret[p].previous}

\* One step of the events' emission.
LEMMA EmittedStep ==
  ASSUME TypeOK, Emitted, [Next]_vars
  PROVE  Emitted'
<1>. USE NullAssumption
<1>q. ASSUME NEW v \in Events, emitting[v] = {} PROVE emitting'[v] = {}
  <2>1. CASE \E x \in running : HandlerStep(x)
    BY <1>q, <2>1, HandlerFrame
  <2>2. CASE \E w \in Events : SelectEndpoints(w)
    BY <1>q, <2>2 DEF SelectEndpoints, TypeOK
  <2>3. CASE \E w \in Events : CommitEvent(w)
    BY <1>q, <2>3 DEF CommitEvent, TypeOK
  <2>4. CASE UNCHANGED emitting
    BY <1>q, <2>4
  <2>. QED
    BY <2>1, <2>2, <2>3, <2>4 DEF Next, SetEndpointEnabled, DeleteEndpoint, UpdateEndpoint,
       ClearPreviousSecret, RotateSecret, LoadSecret, StartExecution, Crash, ClaimExpires,
       CommitReplay, LoadForReplay, vars, rows
<1>1. \A env \in queued' : emitting'[env.delivery[1]] = {}
  <2>1. ASSUME NEW env \in queued PROVE emitting'[env.delivery[1]] = {}
    BY <1>q DEF Emitted, TypeOK, Envelope, Deliveries
  <2>2. CASE \E x \in running : HandlerStep(x)
    <3>1. PICK x \in running : HandlerStep(x)
      BY <2>2
    <3>2. ASSUME NEW env \in queued', env \notin queued PROVE env.delivery = x.env.delivery
      <4>1. env = [x.env EXCEPT !.attempts = @ + 1]
        BY <3>1, <3>2, HandlerFrame
      <4>. QED BY <4>1, ExecutionParts DEF Envelope
    <3>3. emitting'[x.env.delivery[1]] = {}
      BY <1>q, ExecutionParts DEF Emitted
    <3>. QED BY <2>1, <3>2, <3>3
  <2>3. ASSUME NEW v \in Events, CommitEvent(v), NEW env \in queued', env \notin queued
        PROVE  emitting'[env.delivery[1]] = {}
    <3>1. env.delivery[1] = v
      BY <2>3 DEF CommitEvent
    <3>. QED BY <2>3, <3>1 DEF CommitEvent, TypeOK
  <2>4. ASSUME NEW r \in Requests, CommitReplay(r), NEW env \in queued', env \notin queued
        PROVE  emitting'[env.delivery[1]] = {}
    <3>1. env.delivery = replaying[r] /\ replaying[r] \in Deliveries
      BY <2>4 DEF CommitReplay
    <3>. QED BY <3>1, <1>q DEF Emitted, Deliveries
  <2>5. CASE UNCHANGED queued
    BY <2>1, <2>5
  <2>. QED
    BY <2>1, <2>2, <2>3, <2>4, <2>5 DEF Next, SetEndpointEnabled, DeleteEndpoint, UpdateEndpoint,
       ClearPreviousSecret, RotateSecret, LoadSecret, StartExecution, Crash, ClaimExpires,
       SelectEndpoints, LoadForReplay, vars
<1>2. \A x \in running' : emitting'[x.env.delivery[1]] = {}
  <2>1. ASSUME NEW x \in running PROVE emitting'[x.env.delivery[1]] = {}
    BY <1>q, ExecutionParts DEF Emitted
  <2>2. CASE \E x \in running : HandlerStep(x)
    BY <2>1, <2>2, HandlerMoves
  <2>3. CASE ~\E x \in running : HandlerStep(x)
    <3>1. ASSUME NEW env \in queued PROVE emitting'[env.delivery[1]] = {}
      BY <1>q DEF Emitted, TypeOK, Envelope, Deliveries
    <3>. QED BY <2>1, <2>3, <3>1, OthersRun
  <2>. QED BY <2>2, <2>3
<1>3. \A d \in Deliveries : delivery'[d] # None => emitting'[d[1]] = {}
  <2>. SUFFICES ASSUME NEW d \in Deliveries, delivery'[d] # None PROVE emitting'[d[1]] = {}
    OBVIOUS
  <2>1. CASE delivery[d] # None
    BY <2>1, <1>q DEF Emitted, Deliveries
  <2>2. CASE delivery[d] = None
    <3>1. ~\E x \in running : HandlerStep(x)
      BY <2>2, HandlerRows
    <3>2. CASE \E v \in Events : CommitEvent(v)
      <4>1. PICK v \in Events : CommitEvent(v)
        BY <3>2
      <4>2. d[1] = v
        BY <4>1, <2>2 DEF CommitEvent
      <4>. QED BY <4>1, <4>2 DEF CommitEvent, TypeOK
    <3>3. CASE delivery'[d] = delivery[d]
      BY <3>3, <2>2
    <3>4. ASSUME NEW p \in Endpoints, DeleteEndpoint(p) PROVE delivery'[d] = delivery[d]
      BY <3>4, <2>2 DEF DeleteEndpoint
    <3>5. ASSUME NEW c \in Deliveries, ClaimExpires(c) PROVE delivery'[d] = delivery[d]
      BY <3>5, <2>2 DEF ClaimExpires, TypeOK
    <3>6. ASSUME NEW r \in Requests, CommitReplay(r) PROVE delivery'[d] = delivery[d]
      BY <3>6, <2>2, Released DEF CommitReplay
    <3>. QED
      BY <3>1, <3>2, <3>3, <3>4, <3>5, <3>6 DEF Next, SetEndpointEnabled, UpdateEndpoint,
         ClearPreviousSecret, RotateSecret, LoadSecret, StartExecution, Crash,
         SelectEndpoints, LoadForReplay, vars, rows
  <2>. QED BY <2>1, <2>2
<1>4. \A r \in Requests : replaying'[r] \in Deliveries => emitting'[replaying'[r][1]] = {}
  <2>. SUFFICES ASSUME NEW r \in Requests, replaying'[r] \in Deliveries
                PROVE emitting'[replaying'[r][1]] = {}
    OBVIOUS
  <2>1. CASE replaying'[r] = replaying[r]
    BY <2>1, <1>q DEF Emitted, Deliveries
  <2>2. ASSUME NEW o \in Requests, NEW d \in Deliveries, LoadForReplay(o, d), o = r
        PROVE  emitting'[replaying'[r][1]] = {}
    <3>1. replaying'[r] = d /\ delivery[d] # None
      BY <2>2 DEF LoadForReplay, TypeOK
    <3>. QED BY <3>1, <1>q DEF Emitted, Deliveries
  <2>3. ASSUME NEW o \in Requests, NEW d \in Deliveries, LoadForReplay(o, d), o # r
        PROVE  replaying'[r] = replaying[r]
    BY <2>3 DEF LoadForReplay, TypeOK
  <2>4. ASSUME NEW o \in Requests, CommitReplay(o) PROVE replaying'[r] = replaying[r]
    BY <2>4 DEF CommitReplay, TypeOK
  <2>5. ASSUME NEW x \in running, HandlerStep(x) PROVE replaying'[r] = replaying[r]
    BY <2>5, HandlerFrame
  <2>. QED
    BY <2>1, <2>2, <2>3, <2>4, <2>5 DEF Next, SetEndpointEnabled, DeleteEndpoint, UpdateEndpoint,
       ClearPreviousSecret, RotateSecret, LoadSecret, StartExecution, Crash, ClaimExpires,
       SelectEndpoints, CommitEvent, vars, rows
<1>. QED
  BY <1>1, <1>2, <1>3, <1>4 DEF Emitted

\* A row that exists was there before, unless its event is only now emitted.
LEMMA RowsKept ==
  ASSUME TypeOK, Emitted, [Next]_vars, NEW d \in Deliveries, delivery'[d] # None,
         emitting[d[1]] = {}
  PROVE  /\ delivery[d] # None
         /\ delivery[d].attempts \in Nat /\ delivery'[d].attempts >= delivery[d].attempts
<1>1. CASE \E x \in running : HandlerStep(x)
  BY <1>1, HandlerRows
<1>2. CASE ~\E x \in running : HandlerStep(x)
  <2>1. delivery[d] # None /\ delivery'[d].attempts = delivery[d].attempts
    BY <1>2, OthersRows
  <2>2. delivery[d].attempts \in Nat
    BY <2>1, RowParts
  <2>. QED BY <2>1, <2>2
<1>. QED BY <1>1, <1>2

\* The Deliveries executions work for are Deliveries of emitted events.
LEMMA WorkEmitted ==
  ASSUME TypeOK, Emitted, [Next]_vars, NEW z \in running'
  PROVE  z.env.delivery \in Deliveries /\ emitting[z.env.delivery[1]] = {}
<1>1. ASSUME NEW x \in running
      PROVE  x.env.delivery \in Deliveries /\ emitting[x.env.delivery[1]] = {}
  BY ExecutionParts DEF Emitted
<1>2. ASSUME NEW env \in queued
      PROVE  env.delivery \in Deliveries /\ emitting[env.delivery[1]] = {}
  BY DEF Emitted, TypeOK, Envelope
<1>3. CASE \E x \in running : HandlerStep(x)
  BY <1>1, <1>3, HandlerMoves
<1>4. CASE ~\E x \in running : HandlerStep(x)
  BY <1>1, <1>2, <1>4, OthersRun
<1>. QED BY <1>3, <1>4

\* Tokens stay below the claims counted: a claim takes the next one, and the
\* count never falls.
LEMMA TokensStep ==
  ASSUME TypeOK, Emitted, TokensBelow, [Next]_vars
  PROVE  TokensBelow'
<1>. SUFFICES ASSUME NEW z \in running', delivery'[z.env.delivery] # None
              PROVE  z.token <= delivery'[z.env.delivery].attempts
  BY DEF TokensBelow
<1>. DEFINE d == z.env.delivery
<1>1. d \in Deliveries /\ emitting[d[1]] = {}
  BY WorkEmitted
<1>2. /\ delivery[d] # None /\ delivery[d].attempts \in Nat
      /\ delivery'[d].attempts >= delivery[d].attempts
  BY <1>1, RowsKept
<1>t. delivery'[d].attempts \in Nat
  <2>1. TypeOK'
    BY StepTyped
  <2>. QED BY <1>1, <2>1 DEF TypeOK, Row
<1>3. ASSUME NEW x \in running, x.env.delivery = d, z.token = x.token
      PROVE  z.token <= delivery'[d].attempts
  <2>1. x.token \in Nat /\ x.token <= delivery[d].attempts
    BY <1>2, <1>3, ExecutionParts DEF TokensBelow
  <2>. QED BY <1>2, <1>3, <1>t, <2>1
<1>4. CASE \E x \in running : HandlerStep(x)
  <2>1. PICK x \in running : HandlerStep(x)
    BY <1>4
  <2>2. CASE z \in running
    BY <2>2, <1>3
  <2>3. CASE z \notin running /\ z.phase # "post"
    BY <2>1, <2>3, <1>3, HandlerMoves
  <2>4. CASE z \notin running /\ z.phase = "post"
    <3>1. delivery'[d].attempts = z.token
      BY <2>1, <2>4, HandlerMoves
    <3>. QED BY <3>1, <1>t
  <2>. QED BY <2>2, <2>3, <2>4
<1>5. CASE ~\E x \in running : HandlerStep(x)
  <2>1. CASE z.token = 0
    BY <2>1, <1>t
  <2>2. CASE z.token # 0
    BY <1>5, <2>2, <1>3, OthersRun
  <2>. QED BY <2>1, <2>2
<1>. QED BY <1>4, <1>5

\* At most one execution is new, and the one that moved is gone.
LEMMA HandlerMovesOne ==
  ASSUME TypeOK, NEW x \in running, HandlerStep(x)
  PROVE  \E y : running' \subseteq (running \ {x}) \cup {y}
  BY DEF HandlerStep, ClaimDelivery, PostEvent, MarkDelivered, MarkFailed, ScheduleRetry,
         OnDeadLetter, Acknowledge, FailExecution, Advance, Become, Claim

\* Claims stay distinct: the token of a new claim is above every token in use.
LEMMA DistinctStep ==
  ASSUME TypeOK, TokensBelow, ClaimsAreDistinct, [Next]_vars
  PROVE  ClaimsAreDistinct'
<1>. SUFFICES ASSUME NEW u \in running', NEW w \in running', u # w,
                     u.env.delivery = w.env.delivery, u.token # 0
              PROVE  u.token # w.token
  BY DEF ClaimsAreDistinct
<1>1. CASE \E x \in running : HandlerStep(x)
  <2>1. PICK x \in running : HandlerStep(x)
    BY <1>1
  <2>2. PICK y : running' \subseteq (running \ {x}) \cup {y}
    BY <2>1, HandlerMovesOne
  <2>3. ASSUME NEW z \in running', z \notin running, NEW o \in running, o # x,
               o.env.delivery = z.env.delivery, z.token # 0 \/ o.token # 0
        PROVE  z.token # o.token
    <3>1. z.env = x.env /\ (z.phase # "post" => z.token = x.token)
      BY <2>1, <2>3, HandlerMoves
    <3>2. CASE z.phase # "post"
      BY <2>3, <3>1, <3>2 DEF ClaimsAreDistinct
    <3>3. CASE z.phase = "post"
      <4>1. delivery[x.env.delivery] # None /\ z.token = delivery[x.env.delivery].attempts + 1
        BY <2>1, <2>3, <3>3, HandlerMoves
      <4>2. delivery[x.env.delivery].attempts \in Nat
        BY <4>1, ExecutionParts, RowParts
      <4>3. o.token \in Nat /\ o.token <= delivery[x.env.delivery].attempts
        BY <2>3, <3>1, <4>1, ExecutionParts DEF TokensBelow
      <4>. QED BY <4>1, <4>2, <4>3
    <3>. QED BY <3>2, <3>3
  <2>4. CASE u \in running /\ w \in running
    BY <2>4 DEF ClaimsAreDistinct
  <2>5. CASE u \notin running
    <3>1. w \in running /\ w # x
      BY <2>2, <2>5
    <3>. QED BY <2>3, <2>5, <3>1
  <2>6. CASE w \notin running
    <3>1. u \in running /\ u # x
      BY <2>2, <2>6
    <3>. QED BY <2>3, <2>6, <3>1
  <2>. QED BY <2>4, <2>5, <2>6
<1>2. CASE running' \subseteq running
  BY <1>2 DEF ClaimsAreDistinct
<1>3. ASSUME NEW lane \in Lanes, NEW env \in queued, StartExecution(lane, env)
      PROVE  u.token # w.token
  <2>1. u \in running
    BY <1>3 DEF StartExecution
  <2>2. CASE w \in running
    BY <2>1, <2>2 DEF ClaimsAreDistinct
  <2>3. CASE w \notin running
    BY <1>3, <2>3 DEF StartExecution
  <2>. QED BY <2>2, <2>3
<1>4. ASSUME NEW p \in Endpoints, Outlive(p) PROVE u.token # w.token
  <2>. DEFINE After(x) == IF x.phase = "post" /\ x.env.delivery[2] = p /\ x.since < 2
                          THEN [x EXCEPT !.since = @ + 1] ELSE x
  <2>1. PICK a \in running : u = After(a)
    BY <1>4 DEF Outlive
  <2>2. PICK b \in running : w = After(b)
    BY <1>4 DEF Outlive
  <2>3. \A x \in running : After(x).env = x.env /\ After(x).token = x.token
    BY ExecutionParts DEF Execution
  <2>4. a # b
    BY <2>1, <2>2
  <2>5. /\ u.token = a.token /\ w.token = b.token
        /\ a.env.delivery = b.env.delivery
    BY <2>1, <2>2, <2>3
  <2>. QED BY <2>4, <2>5 DEF ClaimsAreDistinct
<1>5. ASSUME NEW r \in Rotations, RotateSecret(r) PROVE u.token # w.token
  <2>1. rotating[r].endpoint \in Endpoints
    BY <1>5 DEF RotateSecret, TypeOK
  <2>. QED BY <1>4, <1>5, <2>1 DEF RotateSecret
<1>6. ASSUME NEW p \in Endpoints, ClearPreviousSecret(p) PROVE u.token # w.token
  BY <1>4, <1>6 DEF ClearPreviousSecret
<1>. QED
  BY <1>1, <1>2, <1>3, <1>5, <1>6 DEF Next, SetEndpointEnabled, DeleteEndpoint, UpdateEndpoint,
     LoadSecret, Crash, ClaimExpires, SelectEndpoints, CommitEvent, CommitReplay,
     LoadForReplay, vars

\* An answer is recorded as given before the mark that relies on it.
LEMMA AnswersStep ==
  ASSUME TypeOK, AnswersAccepted, DeliveredWasAccepted, [Next]_vars
  PROVE  AnswersAccepted' /\ DeliveredWasAccepted'
<1>1. CASE \E x \in running : HandlerStep(x)
  <2>1. PICK x \in running : HandlerStep(x)
    BY <1>1
  <2>2. accepted \subseteq accepted'
    BY <2>1, HandlerFrame
  <2>3. AnswersAccepted'
    BY <2>1, <2>2, HandlerMoves DEF AnswersAccepted
  <2>4. ASSUME NEW d \in Deliveries, delivery'[d] # None, delivery'[d].status = "delivered"
        PROVE  d \in accepted'
    <3>1. CASE delivery'[d].status \in {delivery[d].status, "pending"}
      <4>1. delivery[d] # None /\ delivery[d].status = "delivered"
        BY <2>1, <2>4, <3>1, HandlerRows
      <4>. QED BY <2>2, <4>1 DEF DeliveredWasAccepted
    <3>2. CASE d = x.env.delivery /\ x.phase = "succeeded"
      BY <2>2, <3>2 DEF AnswersAccepted
    <3>. QED BY <2>1, <2>4, <3>1, <3>2, HandlerRows
  <2>. QED BY <2>3, <2>4 DEF DeliveredWasAccepted
<1>2. CASE ~\E x \in running : HandlerStep(x)
  <2>1. AnswersAccepted'
    BY <1>2, OthersRun DEF AnswersAccepted
  <2>2. ASSUME NEW d \in Deliveries, delivery'[d] # None, delivery'[d].status = "delivered"
        PROVE  d \in accepted'
    <3>1. delivery[d] # None /\ delivery[d].status = "delivered"
      BY <1>2, <2>2, OthersRows
    <3>. QED BY <1>2, <3>1, OthersRun DEF DeliveredWasAccepted
  <2>. QED BY <2>1, <2>2 DEF DeliveredWasAccepted
<1>. QED BY <1>1, <1>2

\* A retry is scheduled only after its attempt has failed, so the attempts of
\* an envelope before its own have all failed.
LEMMA AttemptsStep ==
  ASSUME TypeOK, AttemptsFailed, [Next]_vars
  PROVE  AttemptsFailed'
<1>0. ASSUME failed \subseteq failed', NEW env, EarlierFailed(env) PROVE EarlierFailed(env)'
  BY <1>0 DEF EarlierFailed
<1>1. CASE \E x \in running : HandlerStep(x)
  <2>1. PICK x \in running : HandlerStep(x)
    BY <1>1
  <2>2. failed \subseteq failed'
    BY <2>1, HandlerFrame
  <2>3. ASSUME NEW env \in queued' PROVE EarlierFailed(env)'
    <3>1. CASE env \in queued
      BY <1>0, <2>2, <3>1 DEF AttemptsFailed
    <3>2. CASE x.phase = "retry" /\ env = [x.env EXCEPT !.attempts = @ + 1]
      <4>1. /\ x.env \in Envelope /\ x.env.attempts \in Nat
            /\ x.env \in failed /\ EarlierFailed(x.env)
        BY <3>2, ExecutionParts DEF AttemptsFailed
      <4>2. /\ env.delivery = x.env.delivery /\ env.run = x.env.run
            /\ env.attempts = x.env.attempts + 1
        BY <3>2, <4>1 DEF Envelope
      <4>3. x.env = [delivery |-> x.env.delivery, run |-> x.env.run, attempts |-> x.env.attempts]
        BY <4>1 DEF Envelope
      <4>4. ASSUME NEW j \in 0..(env.attempts - 1)
            PROVE  [delivery |-> env.delivery, run |-> env.run, attempts |-> j] \in failed'
        <5>1. CASE j = x.env.attempts
          BY <2>2, <4>1, <4>2, <4>3, <5>1
        <5>2. CASE j # x.env.attempts
          <6>1. j \in 0..(x.env.attempts - 1)
            BY <4>1, <4>2, <5>2
          <6>. QED BY <2>2, <4>1, <4>2, <6>1 DEF EarlierFailed
        <5>. QED BY <5>1, <5>2
      <4>. QED BY <4>4 DEF EarlierFailed
    <3>. QED BY <2>1, <3>1, <3>2, HandlerFrame
  <2>4. ASSUME NEW z \in running'
        PROVE  EarlierFailed(z.env)' /\ (z.phase = "retry" => z.env \in failed')
    <3>1. CASE z \in running
      BY <1>0, <2>2, <3>1 DEF AttemptsFailed
    <3>2. CASE z \notin running
      <4>1. z.env = x.env /\ (z.phase = "retry" => x.env \in failed')
        BY <2>1, <3>2, HandlerMoves
      <4>2. EarlierFailed(x.env)'
        BY <1>0, <2>2 DEF AttemptsFailed
      <4>. QED BY <4>1, <4>2
    <3>. QED BY <3>1, <3>2
  <2>. QED BY <2>3, <2>4 DEF AttemptsFailed
<1>2. CASE ~\E x \in running : HandlerStep(x)
  <2>1. failed' = failed
    BY <1>2, OthersRun
  <2>2. ASSUME NEW env \in queued' PROVE EarlierFailed(env)'
    <3>1. CASE env \in queued
      BY <1>0, <2>1, <3>1 DEF AttemptsFailed
    <3>2. CASE env.attempts = 0
      BY <3>2 DEF EarlierFailed
    <3>3. ASSUME NEW v \in Events, CommitEvent(v), env \notin queued PROVE env.attempts = 0
      BY <3>3 DEF CommitEvent
    <3>4. ASSUME NEW r \in Requests, CommitReplay(r), env \notin queued PROVE env.attempts = 0
      BY <3>4 DEF CommitReplay
    <3>5. CASE UNCHANGED queued
      BY <3>1, <3>5
    <3>. QED
      BY <1>2, <3>1, <3>2, <3>3, <3>4, <3>5 DEF Next, SetEndpointEnabled, DeleteEndpoint,
         UpdateEndpoint, ClearPreviousSecret, RotateSecret, LoadSecret, StartExecution, Crash,
         ClaimExpires, SelectEndpoints, LoadForReplay, vars
  <2>3. ASSUME NEW z \in running'
        PROVE  EarlierFailed(z.env)' /\ (z.phase = "retry" => z.env \in failed')
    <3>1. CASE z \in running
      BY <1>0, <2>1, <3>1 DEF AttemptsFailed
    <3>2. CASE z.env \in queued /\ z.phase = "claim"
      BY <1>0, <2>1, <3>2 DEF AttemptsFailed
    <3>3. CASE \E w \in running : w.env = z.env /\ z.phase = "post"
      BY <1>0, <2>1, <3>3 DEF AttemptsFailed
    <3>. QED BY <1>2, <3>1, <3>2, <3>3, OthersRun
  <2>. QED BY <2>2, <2>3 DEF AttemptsFailed
<1>. QED BY <1>1, <1>2

\* A burial is decided on the last attempt, or finds no row; and no row comes
\* back for it.
LEMMA BurialsStep ==
  ASSUME TypeOK, Emitted, BurialsSpent, [Next]_vars
  PROVE  BurialsSpent'
<1>. SUFFICES ASSUME NEW z \in running', z.phase = "cleanup",
                     delivery'[z.env.delivery] # None
              PROVE  z.env \in failed' /\ z.env.attempts + 1 >= MaxAttempts
  BY DEF BurialsSpent
<1>1. delivery[z.env.delivery] # None
  BY WorkEmitted, RowsKept
<1>2. CASE \E x \in running : HandlerStep(x)
  <2>1. PICK x \in running : HandlerStep(x)
    BY <1>2
  <2>2. CASE z \in running
    BY <1>1, <2>1, <2>2, HandlerFrame DEF BurialsSpent
  <2>3. CASE z \notin running
    BY <2>1, <2>3, HandlerMoves
  <2>. QED BY <2>2, <2>3
<1>3. CASE ~\E x \in running : HandlerStep(x)
  <2>1. z \in running /\ failed' = failed
    BY <1>3, OthersRun
  <2>. QED BY <1>1, <2>1 DEF BurialsSpent
<1>. QED BY <1>2, <1>3

\* A row becomes a dead letter in a burial, after every attempt of the run.
LEMMA DeadLettersStep ==
  ASSUME TypeOK, AttemptsFailed, BurialsSpent, DeadLetteredWhenSpent, [Next]_vars
  PROVE  DeadLetteredWhenSpent'
<1>. DEFINE Spent(d, F) ==
       \E run \in Requests \cup {None} : \A k \in 0..(MaxAttempts - 1) :
         [delivery |-> d, run |-> run, attempts |-> k] \in F
<1>. SUFFICES ASSUME NEW d \in Deliveries, delivery'[d] # None,
                     delivery'[d].status = "dead_letter"
              PROVE  Spent(d, failed')
  BY DEF DeadLetteredWhenSpent
<1>1. ASSUME failed \subseteq failed', delivery[d] # None, delivery[d].status = "dead_letter"
      PROVE  Spent(d, failed')
  <2>1. Spent(d, failed)
    BY <1>1 DEF DeadLetteredWhenSpent
  <2>. QED BY <1>1, <2>1
<1>2. CASE \E x \in running : HandlerStep(x)
  <2>1. PICK x \in running : HandlerStep(x)
    BY <1>2
  <2>2. delivery[d] # None /\ failed \subseteq failed'
    BY <2>1, HandlerRows, HandlerFrame
  <2>3. CASE delivery'[d].status \in {delivery[d].status, "pending"}
    BY <1>1, <2>2, <2>3
  <2>4. CASE d = x.env.delivery /\ x.phase = "cleanup"
    <3>1. /\ x.env \in failed /\ x.env.attempts + 1 >= MaxAttempts
          /\ EarlierFailed(x.env)
      BY <2>2, <2>4 DEF BurialsSpent, AttemptsFailed
    <3>2. x.env \in Envelope /\ x.env.attempts \in Nat /\ x.env.run \in Requests \cup {None}
      BY ExecutionParts DEF Envelope
    <3>3. x.env = [delivery |-> d, run |-> x.env.run, attempts |-> x.env.attempts]
      BY <2>4, <3>2 DEF Envelope
    <3>4. ASSUME NEW k \in 0..(MaxAttempts - 1)
          PROVE  [delivery |-> d, run |-> x.env.run, attempts |-> k] \in failed'
      <4>1. CASE k = x.env.attempts
        BY <2>2, <3>1, <3>3, <4>1
      <4>2. CASE k # x.env.attempts
        <5>1. k \in 0..(x.env.attempts - 1)
          BY <3>1, <3>2, <4>2, WebhookAssumption
        <5>. QED BY <2>2, <2>4, <3>1, <5>1 DEF EarlierFailed
      <4>. QED BY <4>1, <4>2
    <3>. QED BY <3>2, <3>4
  <2>. QED BY <2>1, <2>3, <2>4, HandlerRows
<1>3. CASE ~\E x \in running : HandlerStep(x)
  <2>1. delivery[d] # None /\ delivery[d].status = "dead_letter"
    BY <1>3, OthersRows
  <2>. QED BY <1>1, <1>3, <2>1, OthersRun
<1>. QED BY <1>2, <1>3

\* Steps that leave the secrets and the rotations alone.
LEMMA OthersSecrets ==
  ASSUME [Next]_vars, TypeOK
  PROVE  \/ UNCHANGED <<secret, rotating, crossed>>
         \/ \E r \in Rotations : RotateSecret(r) \/ \E p \in Endpoints : LoadSecret(r, p)
         \/ \E p \in Endpoints : ClearPreviousSecret(p)
<1>1. CASE \E x \in running : HandlerStep(x)
  BY <1>1, HandlerFrame DEF managed
<1>. QED
  BY <1>1 DEF Next, SetEndpointEnabled, DeleteEndpoint, UpdateEndpoint, StartExecution, Crash,
     ClaimExpires, SelectEndpoints, CommitEvent, CommitReplay, LoadForReplay, vars, rows, managed

\* A rotation at work has read the current secret until another one crosses it.
LEMMA RotationsStep ==
  ASSUME TypeOK, RotationsRead, [Next]_vars
  PROVE  RotationsRead'
<1>. DEFINE AtWork(r) == rotating[r] \notin {None, Done}
<1>0. ASSUME NEW r \in Rotations, AtWork(r)
      PROVE  rotating[r].endpoint \in Endpoints
  BY <1>0 DEF TypeOK
<1>1. CASE UNCHANGED <<secret, rotating, crossed>>
  BY <1>1 DEF RotationsRead
<1>2. ASSUME NEW p \in Endpoints, ClearPreviousSecret(p) PROVE RotationsRead'
  <2>1. \A q \in Endpoints : secret'[q].current = secret[q].current
    BY <1>2 DEF ClearPreviousSecret, TypeOK, Secrets
  <2>. QED BY <1>0, <1>2, <2>1 DEF ClearPreviousSecret, RotationsRead
<1>3. ASSUME NEW r \in Rotations, RotateSecret(r) PROVE RotationsRead'
  <2>0. /\ rotating'[r] = Done /\ crossed' = crossed
        /\ \A o \in Rotations \ {r} : rotating'[o] = rotating[o]
        /\ \A q \in Endpoints \ {rotating[r].endpoint} : secret'[q] = secret[q]
    BY <1>3 DEF RotateSecret, TypeOK
  <2>. SUFFICES ASSUME NEW o \in Rotations, AtWork(o)', rotating'[o].endpoint \notin crossed'
                PROVE  /\ rotating'[o].secret = secret'[rotating'[o].endpoint].current
                       /\ \A q \in Rotations \ {o} :
                            AtWork(q)' => rotating'[q].endpoint # rotating'[o].endpoint
    BY DEF RotationsRead
  <2>1. o # r /\ rotating'[o] = rotating[o]
    BY <2>0
  <2>2. /\ rotating[o].secret = secret[rotating[o].endpoint].current
        /\ \A q \in Rotations \ {o} :
             AtWork(q) => rotating[q].endpoint # rotating[o].endpoint
    BY <2>0, <2>1 DEF RotationsRead
  <2>3. rotating[r].endpoint # rotating[o].endpoint /\ AtWork(r)
    BY <1>3, <2>1, <2>2 DEF RotateSecret
  <2>4. secret'[rotating[o].endpoint] = secret[rotating[o].endpoint]
    BY <1>0, <2>0, <2>1, <2>3
  <2>. QED BY <2>0, <2>1, <2>2, <2>4
<1>4. ASSUME NEW r \in Rotations, NEW p \in Endpoints, LoadSecret(r, p) PROVE RotationsRead'
  <2>0. /\ rotating'[r].endpoint = p /\ rotating'[r].secret = secret[p].current
        /\ \A o \in Rotations \ {r} : rotating'[o] = rotating[o]
        /\ secret' = secret /\ crossed \subseteq crossed'
        /\ (\E o \in Rotations : AtWork(o) /\ rotating[o].endpoint = p) => p \in crossed'
        /\ ~AtWork(r)
    BY <1>4 DEF LoadSecret, TypeOK
  <2>. SUFFICES ASSUME NEW o \in Rotations, AtWork(o)', rotating'[o].endpoint \notin crossed'
                PROVE  /\ rotating'[o].secret = secret'[rotating'[o].endpoint].current
                       /\ \A q \in Rotations \ {o} :
                            AtWork(q)' => rotating'[q].endpoint # rotating'[o].endpoint
    BY DEF RotationsRead
  <2>1. CASE o = r
    BY <2>0, <2>1
  <2>2. CASE o # r
    <3>1. /\ rotating[o].secret = secret[rotating[o].endpoint].current
          /\ \A q \in Rotations \ {o} :
               AtWork(q) => rotating[q].endpoint # rotating[o].endpoint
          /\ rotating[o].endpoint # p /\ rotating'[o] = rotating[o]
      BY <2>0, <2>2 DEF RotationsRead
    <3>2. ASSUME NEW q \in Rotations \ {o}, AtWork(q)'
          PROVE  rotating'[q].endpoint # rotating'[o].endpoint
      BY <2>0, <3>1, <3>2
    <3>. QED BY <2>0, <3>1, <3>2
  <2>. QED BY <2>1, <2>2
<1>. QED
  BY <1>1, <1>2, <1>3, <1>4, OthersSecrets

\* A change of secrets keeps, as the previous one, what requests under way are
\* signed with.
LEMMA SignedStep ==
  ASSUME TypeOK, RotationsRead, SignedInTime, [Next]_vars
  PROVE  SignedInTime'
<1>. SUFFICES ASSUME NEW z \in running', z.phase = "post",
                     z.env.delivery[2] \notin crossed'
              PROVE  LET p == z.env.delivery[2] IN
                     /\ z.since = 0 => z.secret = secret'[p].current
                     /\ z.since = 1 => z.secret \in {secret'[p].current, secret'[p].previous}
  BY DEF SignedInTime
<1>. DEFINE p == z.env.delivery[2]
            Goal == /\ z.since = 0 => z.secret = secret'[p].current
                    /\ z.since = 1 => z.secret \in {secret'[p].current, secret'[p].previous}
<1>1. CASE \E x \in running : HandlerStep(x)
  <2>1. PICK x \in running : HandlerStep(x)
    BY <1>1
  <2>2. UNCHANGED <<secret, crossed>>
    BY <2>1, HandlerFrame DEF managed
  <2>3. CASE z \in running
    BY <2>2, <2>3 DEF SignedInTime
  <2>4. CASE z \notin running
    BY <2>1, <2>2, <2>4, HandlerMoves
  <2>. QED BY <2>3, <2>4
<1>2. ASSUME UNCHANGED secret, crossed \subseteq crossed', z \in running PROVE Goal
  BY <1>2 DEF SignedInTime
<1>3. ASSUME NEW lane \in Lanes, NEW env \in queued, StartExecution(lane, env) PROVE Goal
  <2>1. z \in running
    BY <1>3 DEF StartExecution
  <2>. QED BY <1>2, <1>3, <2>1 DEF StartExecution, rows, managed
<1>o. ASSUME NEW q \in Endpoints, Outlive(q), UNCHANGED crossed,
             \A e \in Endpoints \ {q} : secret'[e] = secret[e],
             q \notin crossed => secret[q].current \in {secret'[q].current, secret'[q].previous}
      PROVE  Goal
  <2>1. PICK w \in running :
          z = IF w.phase = "post" /\ w.env.delivery[2] = q /\ w.since < 2
              THEN [w EXCEPT !.since = @ + 1] ELSE w
    BY <1>o DEF Outlive
  <2>2. w \in Execution /\ w.env.delivery[2] \in Endpoints /\ w.since \in 0..2
    BY ExecutionParts DEF Execution
  <2>3. /\ z.env = w.env /\ z.phase = w.phase /\ z.secret = w.secret
    BY <2>1, <2>2 DEF Execution
  <2>4. /\ w.since = 0 => w.secret = secret[p].current
        /\ w.since = 1 => w.secret \in {secret[p].current, secret[p].previous}
    BY <1>o, <2>3 DEF SignedInTime
  <2>5. CASE p # q
    BY <1>o, <2>1, <2>2, <2>3, <2>4, <2>5
  <2>6. CASE p = q /\ w.since < 2
    <3>1. z.since = w.since + 1
      BY <2>1, <2>2, <2>3, <2>6 DEF Execution
    <3>2. z.since = 1 => w.since = 0
      BY <2>2, <3>1
    <3>3. z.since # 0
      BY <2>2, <3>1
    <3>. QED BY <1>o, <2>3, <2>4, <2>6, <3>2, <3>3
  <2>7. CASE p = q /\ ~(w.since < 2)
    <3>1. z.since = 2
      BY <2>1, <2>2, <2>7
    <3>. QED BY <3>1
  <2>. QED BY <2>5, <2>6, <2>7
<1>4. ASSUME NEW q \in Endpoints, ClearPreviousSecret(q) PROVE Goal
  <2>1. /\ \A e \in Endpoints \ {q} : secret'[e] = secret[e]
        /\ secret'[q].current = secret[q].current
    BY <1>4 DEF ClearPreviousSecret, TypeOK, Secrets
  <2>. QED BY <1>4, <1>o, <2>1 DEF ClearPreviousSecret
<1>5. ASSUME NEW r \in Rotations, RotateSecret(r) PROVE Goal
  <2>. DEFINE q == rotating[r].endpoint
  <2>1. q \in Endpoints /\ rotating[r] \notin {None, Done}
    BY <1>5 DEF RotateSecret, TypeOK
  <2>2. /\ \A e \in Endpoints \ {q} : secret'[e] = secret[e]
        /\ secret'[q].previous = rotating[r].secret
    BY <1>5, <2>1 DEF RotateSecret, TypeOK, Secrets
  <2>3. q \notin crossed => rotating[r].secret = secret[q].current
    BY <2>1 DEF RotationsRead
  <2>4. Outlive(q) /\ UNCHANGED crossed
    BY <1>5 DEF RotateSecret
  <2>. QED BY <1>o, <2>1, <2>2, <2>3, <2>4
<1>6. ASSUME NEW r \in Rotations, NEW q \in Endpoints, LoadSecret(r, q) PROVE Goal
  BY <1>2, <1>6 DEF LoadSecret
<1>. QED
  BY <1>1, <1>2, <1>3, <1>4, <1>5, <1>6 DEF Next, SetEndpointEnabled, DeleteEndpoint,
     UpdateEndpoint, Crash, ClaimExpires, SelectEndpoints, CommitEvent, CommitReplay,
     LoadForReplay, vars, rows, managed

-----------------------------------------------------------------------------
(* What carries a Delivery on: of each run that is not spent, the envelope *)
(* of its last attempt.                                                    *)

\* The envelopes that are queued or executed.
Working == queued \cup {x.env : x \in running}

SameRun(o, env) == o.delivery = env.delivery /\ o.run = env.run

\* No attempt of its run comes after env, and no execution of env is about to
\* acknowledge it.
Leads(env) ==
  /\ \A x \in running : x.env = env => x.phase # "ack"
  /\ \A o \in Working : SameRun(o, env) => o.attempts <= env.attempts

\* A pending row that nobody abandoned has a leading envelope.
Led ==
  \A d \in Deliveries \ abandoned :
    (delivery[d] # None /\ delivery[d].status = "pending") =>
      \E env \in queued : env.delivery = d /\ Leads(env)

\* A replay has no envelope before it commits.
RunsBegun == \A env \in Working : env.run # None => replaying[env.run] = Done

\* Envelopes come from a retry, an emission or a replay.
LEMMA WorkGrows ==
  ASSUME TypeOK, [Next]_vars, NEW env \in Working', env \notin Working
  PROVE  \/ \E x \in running : /\ x.phase = "retry" /\ ScheduleRetry(x)
                               /\ env = [x.env EXCEPT !.attempts = @ + 1]
         \/ \E v \in Events : /\ CommitEvent(v) /\ env.delivery[1] = v
                              /\ env.run = None /\ env.attempts = 0
         \/ \E r \in Requests : /\ CommitReplay(r)
                                /\ env = [delivery |-> replaying[r], run |-> r, attempts |-> 0]
<1>1. ASSUME NEW z \in running' PROVE z.env \in Working
  <2>1. ASSUME NEW x \in running, HandlerStep(x) PROVE z.env \in Working
    BY <2>1, HandlerMoves DEF Working
  <2>2. CASE ~\E x \in running : HandlerStep(x)
    BY <2>2, OthersRun DEF Working
  <2>. QED BY <2>1, <2>2
<1>2. env \in queued' /\ env \notin queued
  BY <1>1 DEF Working
<1>3. ASSUME NEW x \in running, HandlerStep(x)
      PROVE  ScheduleRetry(x) /\ x.phase = "retry" /\ env = [x.env EXCEPT !.attempts = @ + 1]
  BY <1>2, <1>3 DEF HandlerStep, ClaimDelivery, PostEvent, MarkDelivered, MarkFailed,
     ScheduleRetry, OnDeadLetter, Acknowledge
<1>4. ASSUME NEW v \in Events, CommitEvent(v)
      PROVE  env.delivery[1] = v /\ env.run = None /\ env.attempts = 0
  BY <1>2, <1>4 DEF CommitEvent
<1>5. ASSUME NEW r \in Requests, CommitReplay(r)
      PROVE  env = [delivery |-> replaying[r], run |-> r, attempts |-> 0]
  BY <1>2, <1>5 DEF CommitReplay
<1>. QED
  BY <1>2, <1>3, <1>4, <1>5 DEF Next, SetEndpointEnabled, DeleteEndpoint, UpdateEndpoint,
     ClearPreviousSecret, RotateSecret, LoadSecret, StartExecution, Crash, ClaimExpires,
     SelectEndpoints, LoadForReplay, vars

\* What works is an envelope of an emitted event.
LEMMA WorkTyped ==
  ASSUME TypeOK, NEW env \in Working
  PROVE  /\ env \in Envelope /\ env.delivery \in Deliveries /\ env.attempts \in Nat
         /\ env.run \in Requests \cup {None}
         /\ Emitted => emitting[env.delivery[1]] = {}
<1>1. env \in Envelope
  BY ExecutionParts DEF TypeOK, Working
<1>2. Emitted => emitting[env.delivery[1]] = {}
  BY DEF Emitted, Working
<1>. QED
  BY <1>1, <1>2 DEF Envelope

\* A replay that has committed stays so, and its envelopes follow its commit.
LEMMA BegunStep ==
  ASSUME TypeOK, RunsBegun, [Next]_vars
  PROVE  RunsBegun'
<1>. USE NullAssumption
<1>1. ASSUME NEW r \in Requests, replaying[r] = Done PROVE replaying'[r] = Done
  <2>1. ASSUME NEW x \in running, HandlerStep(x) PROVE UNCHANGED replaying
    BY <2>1, HandlerFrame
  <2>2. ASSUME NEW o \in Requests, CommitReplay(o) PROVE replaying'[r] = Done
    BY <1>1, <2>2 DEF CommitReplay, TypeOK
  <2>3. ASSUME NEW o \in Requests, NEW d \in Deliveries, LoadForReplay(o, d)
        PROVE  replaying'[r] = Done
    BY <1>1, <2>3 DEF LoadForReplay, TypeOK
  <2>. QED
    BY <1>1, <2>1, <2>2, <2>3 DEF Next, SetEndpointEnabled, DeleteEndpoint, UpdateEndpoint,
       ClearPreviousSecret, RotateSecret, LoadSecret, StartExecution, Crash, ClaimExpires,
       SelectEndpoints, CommitEvent, vars, rows
<1>. SUFFICES ASSUME NEW env \in Working', env.run # None PROVE replaying'[env.run] = Done
  BY DEF RunsBegun
<1>2. CASE env \in Working
  BY <1>1, <1>2, WorkTyped DEF RunsBegun
<1>3. ASSUME NEW x \in running, ScheduleRetry(x), env = [x.env EXCEPT !.attempts = @ + 1]
      PROVE  replaying'[env.run] = Done
  <2>1. x.env \in Working /\ env.run = x.env.run
    BY <1>3, ExecutionParts DEF Working, Envelope
  <2>. QED BY <1>1, <2>1, WorkTyped DEF RunsBegun
<1>4. ASSUME NEW r \in Requests, CommitReplay(r), env.run = r PROVE replaying'[env.run] = Done
  BY <1>4 DEF CommitReplay, TypeOK
<1>. QED
  BY <1>2, <1>3, <1>4, WorkGrows

\* A row becomes pending by its emission or by a replay.
LEMMA PendingKept ==
  ASSUME TypeOK, [Next]_vars, NEW d \in Deliveries,
         delivery'[d] # None, delivery'[d].status = "pending"
  PROVE  \/ delivery[d] # None /\ delivery[d].status = "pending"
         \/ \E v \in Events : CommitEvent(v) /\ d[1] = v /\ d[2] \in emitting[v]
         \/ \E r \in Requests : CommitReplay(r) /\ replaying[r] = d
<1>. DEFINE Kept == delivery[d] # None /\ delivery[d].status = "pending"
<1>u. ASSUME delivery'[d] = delivery[d] PROVE Kept
  BY <1>u
<1>r. ASSUME NEW c \in Deliveries, NEW s, delivery[c] # None, Release(c, s),
             s # "pending" \/ s = delivery[c].status \/ c # d
      PROVE  Kept
  <2>1. CASE c = d
    BY <1>r, <2>1, Released
  <2>2. CASE c # d
    BY <1>r, <2>2, <1>u, Released
  <2>. QED BY <2>1, <2>2
<1>1. ASSUME NEW x \in running, HandlerStep(x) PROVE Kept
  <2>0. x.env.delivery \in Deliveries
    BY ExecutionParts
  <2>1. ASSUME delivery[x.env.delivery] # None,
               Claim(x, delivery[x.env.delivery].attempts + 1)
        PROVE  Kept
    <3>1. CASE d = x.env.delivery
      BY <2>1, <3>1, RowParts DEF Claim, TypeOK, Row
    <3>2. CASE d # x.env.delivery
      BY <2>1, <3>2, <1>u DEF Claim, TypeOK
    <3>. QED BY <3>1, <3>2
  <2>2. CASE ClaimDelivery(x)
    BY <1>u, <2>1, <2>2 DEF ClaimDelivery
  <2>3. CASE MarkDelivered(x)
    BY <1>u, <1>r, <2>0, <2>3 DEF MarkDelivered, HoldsClaim
  <2>4. CASE MarkFailed(x)
    BY <1>u, <1>r, <2>0, <2>4 DEF MarkFailed, HoldsClaim
  <2>5. CASE OnDeadLetter(x)
    BY <1>u, <1>r, <2>0, <2>5 DEF OnDeadLetter
  <2>6. CASE PostEvent(x) \/ ScheduleRetry(x) \/ Acknowledge(x)
    BY <1>u, <2>6 DEF PostEvent, ScheduleRetry, Acknowledge, rows
  <2>. QED BY <1>1, <2>2, <2>3, <2>4, <2>5, <2>6 DEF HandlerStep
<1>2. ASSUME NEW p \in Endpoints, DeleteEndpoint(p) PROVE Kept
  BY <1>2, <1>u DEF DeleteEndpoint
<1>3. ASSUME NEW v \in Events, CommitEvent(v), ~(d[1] = v /\ d[2] \in emitting[v]) PROVE Kept
  BY <1>3, <1>u DEF CommitEvent
<1>4. ASSUME NEW c \in Deliveries, ClaimExpires(c) PROVE Kept
  <2>1. CASE d = c
    BY <1>4, <2>1, RowParts DEF ClaimExpires, TypeOK, Row
  <2>2. CASE d # c
    BY <1>4, <2>2, <1>u DEF ClaimExpires, TypeOK
  <2>. QED BY <2>1, <2>2
<1>5. ASSUME NEW r \in Requests, CommitReplay(r), replaying[r] # d PROVE Kept
  BY <1>5, <1>u, <1>r DEF CommitReplay
<1>. QED
  BY <1>u, <1>1, <1>2, <1>3, <1>4, <1>5 DEF Next, SetEndpointEnabled, UpdateEndpoint,
     ClearPreviousSecret, RotateSecret, LoadSecret, StartExecution, Crash,
     SelectEndpoints, LoadForReplay, vars, rows

\* An execution comes to its acknowledgement when the next attempt is queued,
\* the row is settled or gone, or the work was left to another.
LEMMA AcksAreEarned ==
  ASSUME TypeOK, NEW x \in running, HandlerStep(x),
         NEW z \in running', z \notin running, z.phase = "ack"
  PROVE  \/ ScheduleRetry(x)
         \/ x.env.delivery \in abandoned'
         \/ delivery'[x.env.delivery] = None
         \/ delivery'[x.env.delivery].status # "pending"
<1>. DEFINE d == x.env.delivery
<1>0. x \in Execution /\ d \in Deliveries
  BY ExecutionParts
<1>a. ASSUME NEW p \in Phases, Advance(x, p) PROVE p = "ack"
  BY <1>0, <1>a DEF Advance, Become, Execution
<1>f. ~FailExecution(x)
  BY <1>a DEF FailExecution, Phases
<1>1. CASE ClaimDelivery(x)
  <2>1. ~Advance(x, "cleanup")
    BY <1>a DEF Phases
  <2>2. ASSUME Claim(x, delivery[d].attempts + 1) PROVE FALSE
    <3>1. z.phase = "post"
      BY <1>0, <2>2 DEF Claim, Become, Execution
    <3>. QED BY <3>1
  <2>. QED BY <1>1, <1>f, <2>1, <2>2 DEF ClaimDelivery, Abandon
<1>2. CASE PostEvent(x)
  BY <1>2, <1>a DEF PostEvent, Phases
<1>3. CASE MarkDelivered(x)
  BY <1>3, <1>f, <1>0, Released DEF MarkDelivered, HoldsClaim, Abandon
<1>4. CASE MarkFailed(x)
  BY <1>4, <1>f DEF MarkFailed
<1>5. CASE OnDeadLetter(x)
  BY <1>5, <1>0, Released DEF OnDeadLetter
<1>6. CASE Acknowledge(x)
  BY <1>6 DEF Acknowledge
<1>. QED
  BY <1>1, <1>2, <1>3, <1>4, <1>5, <1>6 DEF HandlerStep

\* Work that leads goes on leading, unless its execution gets to its
\* acknowledgement or a retry of its own run comes after it.
LEMMA LeadKept ==
  ASSUME TypeOK, Emitted, RunsBegun, [Next]_vars, NEW env \in queued, Leads(env),
         \A z \in running' : (z \notin running /\ z.env = env) => z.phase # "ack",
         \A x \in running : (ScheduleRetry(x) /\ x.phase = "retry") => x.env # env
  PROVE  env \in queued' /\ Leads(env)'
<1>0. env \in Working /\ env \in Envelope /\ env.delivery \in Deliveries /\ env.attempts \in Nat
  BY WorkTyped DEF Working
<1>1. env \in queued'
  <2>1. ASSUME NEW x \in running, Acknowledge(x) PROVE x.env # env
    BY <2>1 DEF Acknowledge, Leads
  <2>. QED
    BY <2>1 DEF Next, HandlerStep, ClaimDelivery, PostEvent, MarkDelivered, MarkFailed,
       ScheduleRetry, OnDeadLetter, Acknowledge, SetEndpointEnabled, DeleteEndpoint,
       UpdateEndpoint, ClearPreviousSecret, RotateSecret, LoadSecret, StartExecution, Crash,
       ClaimExpires, SelectEndpoints, CommitEvent, CommitReplay, LoadForReplay, vars
<1>2. ASSUME NEW z \in running', z.env = env PROVE z.phase # "ack"
  BY <1>2 DEF Leads
<1>3. ASSUME NEW o \in Working', SameRun(o, env) PROVE o.attempts <= env.attempts
  <2>1. CASE o \in Working
    BY <1>3, <2>1 DEF Leads
  <2>2. ASSUME NEW x \in running, ScheduleRetry(x), x.phase = "retry",
               o = [x.env EXCEPT !.attempts = @ + 1]
        PROVE  o.attempts <= env.attempts
    <3>1. x.env \in Envelope /\ x.env \in Working
      BY ExecutionParts DEF Working
    <3>2. /\ x.env.attempts \in Nat /\ o.attempts = x.env.attempts + 1
          /\ SameRun(x.env, env)
      BY <1>3, <2>2, <3>1 DEF Envelope, SameRun
    <3>3. x.env.attempts <= env.attempts
      BY <3>1, <3>2 DEF Leads
    <3>4. x.env.attempts # env.attempts
      BY <1>0, <2>2, <3>1, <3>2 DEF Envelope, SameRun
    <3>. QED BY <1>0, <3>2, <3>3, <3>4
  <2>3. ASSUME NEW v \in Events, CommitEvent(v), o.attempts = 0 PROVE o.attempts <= env.attempts
    BY <1>0, <2>3
  <2>4. ASSUME NEW r \in Requests, CommitReplay(r), o.attempts = 0
        PROVE  o.attempts <= env.attempts
    BY <1>0, <2>4
  <2>. QED BY <2>1, <2>2, <2>3, <2>4, WorkGrows
<1>. QED
  BY <1>1, <1>2, <1>3 DEF Leads

\* The attempt that follows the leading one leads.
LEMMA LeadPasses ==
  ASSUME TypeOK, NEW x \in running, ScheduleRetry(x), x.phase = "retry", Leads(x.env)
  PROVE  LET next == [x.env EXCEPT !.attempts = @ + 1] IN
         next \in queued' /\ next.delivery = x.env.delivery /\ Leads(next)'
<1>. DEFINE next == [x.env EXCEPT !.attempts = @ + 1]
<1>0. x \in Execution /\ x.env \in Envelope /\ x.env.attempts \in Nat
  BY ExecutionParts
<1>1. /\ next.delivery = x.env.delivery /\ next.run = x.env.run
      /\ next.attempts = x.env.attempts + 1
  BY <1>0 DEF Envelope
<1>2. ASSUME NEW o \in Working, SameRun(o, next) PROVE o.attempts <= x.env.attempts
  BY <1>1, <1>2 DEF Leads, SameRun
<1>3. ASSUME NEW z \in running' PROVE z \in running \/ z.env = x.env
  BY <1>0 DEF ScheduleRetry, Advance, Become, Execution
<1>4. ASSUME NEW z \in running', z.env = next PROVE FALSE
  <2>1. z.env \in Working /\ SameRun(z.env, next)
    BY <1>1, <1>3, <1>4 DEF Working, SameRun
  <2>2. z.env.attempts <= x.env.attempts
    BY <1>2, <2>1
  <2>3. z.env.attempts = x.env.attempts + 1
    BY <1>1, <1>4
  <2>. QED BY <1>0, <2>2, <2>3
<1>5. ASSUME NEW o \in Working', SameRun(o, next) PROVE o.attempts <= next.attempts
  <2>1. CASE o \in Working
    <3>1. o.attempts \in Nat
      BY <2>1, WorkTyped
    <3>. QED BY <1>0, <1>1, <1>2, <1>5, <2>1, <3>1
  <2>2. CASE o = next
    BY <1>0, <1>1, <2>2
  <2>3. o \in Working \/ o = next
    BY <1>3 DEF Working, ScheduleRetry
  <2>. QED BY <2>1, <2>2, <2>3
<1>6. next \in queued'
  BY DEF ScheduleRetry
<1>. QED
  BY <1>1, <1>4, <1>5, <1>6 DEF Leads

\* A pending row is led at every step: its envelope is acknowledged only after
\* the next attempt is queued, the row is settled or the work was abandoned.
LEMMA LedStep ==
  ASSUME TypeOK, Emitted, RunsBegun, Led, [Next]_vars
  PROVE  Led'
<1>. USE NullAssumption
<1>. SUFFICES ASSUME NEW d \in Deliveries, d \notin abandoned',
                     delivery'[d] # None, delivery'[d].status = "pending"
              PROVE  \E env \in queued' : env.delivery = d /\ Leads(env)'
  BY DEF Led
<1>1. ASSUME NEW v \in Events, CommitEvent(v), d[1] = v, d[2] \in emitting[v]
      PROVE  \E env \in queued' : env.delivery = d /\ Leads(env)'
  <2>. DEFINE env == [delivery |-> d, run |-> None, attempts |-> 0]
  <2>1. env \in queued' /\ UNCHANGED running
    BY <1>1 DEF CommitEvent, Deliveries
  <2>2. ASSUME NEW o \in Working PROVE o.delivery # d
    BY <1>1, <2>2, WorkTyped
  <2>3. ASSUME NEW o \in Working', o.delivery = d PROVE o.attempts = 0
    BY <1>1, <2>1, <2>2, <2>3 DEF Working, CommitEvent
  <2>4. ASSUME NEW z \in running' PROVE z.env # env
    BY <2>1, <2>2 DEF Working
  <2>5. Leads(env)'
    BY <2>3, <2>4 DEF Leads, SameRun
  <2>. QED BY <2>1, <2>5
<1>2. ASSUME NEW r \in Requests, CommitReplay(r), replaying[r] = d
      PROVE  \E env \in queued' : env.delivery = d /\ Leads(env)'
  <2>. DEFINE env == [delivery |-> d, run |-> r, attempts |-> 0]
  <2>1. queued' = queued \cup {env} /\ UNCHANGED running
    BY <1>2 DEF CommitReplay
  <2>2. ASSUME NEW o \in Working PROVE o.run # r
    BY <1>2, <2>2 DEF RunsBegun
  <2>3. ASSUME NEW o \in Working', o.run = r PROVE o.attempts = 0
    BY <2>1, <2>2, <2>3 DEF Working
  <2>4. ASSUME NEW z \in running' PROVE z.env # env
    BY <2>1, <2>2 DEF Working
  <2>5. Leads(env)'
    BY <2>3, <2>4 DEF Leads, SameRun
  <2>. QED BY <2>1, <2>5
<1>3. CASE delivery[d] # None /\ delivery[d].status = "pending"
  <2>1. d \notin abandoned
    BY DEF Next, HandlerStep, ClaimDelivery, PostEvent, MarkDelivered, MarkFailed, Abandon,
       ScheduleRetry, OnDeadLetter, Acknowledge, SetEndpointEnabled, DeleteEndpoint,
       UpdateEndpoint, ClearPreviousSecret, RotateSecret, LoadSecret, StartExecution, Crash,
       ClaimExpires, SelectEndpoints, CommitEvent, CommitReplay, LoadForReplay, vars
  <2>2. PICK env \in queued : env.delivery = d /\ Leads(env)
    BY <1>3, <2>1 DEF Led
  <2>3. ASSUME NEW x \in running, ScheduleRetry(x), x.phase = "retry", x.env = env
        PROVE  \E e \in queued' : e.delivery = d /\ Leads(e)'
    BY <2>2, <2>3, LeadPasses
  <2>4. CASE \A x \in running : (ScheduleRetry(x) /\ x.phase = "retry") => x.env # env
    <3>1. ASSUME NEW z \in running', z \notin running, z.env = env PROVE z.phase # "ack"
      <4>1. ASSUME NEW x \in running, HandlerStep(x) PROVE z.phase # "ack"
        <5>1. z.env = x.env
          BY <3>1, <4>1, HandlerMoves
        <5>2. ~ScheduleRetry(x)
          BY <2>4, <3>1, <5>1 DEF ScheduleRetry
        <5>. QED BY <2>2, <3>1, <4>1, <5>1, <5>2, AcksAreEarned
      <4>2. CASE ~\E x \in running : HandlerStep(x)
        BY <3>1, <4>2, OthersRun
      <4>. QED BY <4>1, <4>2
    <3>. QED BY <2>2, <2>4, <3>1, LeadKept
  <2>. QED BY <2>3, <2>4
<1>. QED
  BY <1>1, <1>2, <1>3, PendingKept

-----------------------------------------------------------------------------
(* The theorems.                                                           *)

IInv == /\ TypeOK /\ Emitted /\ TokensBelow /\ ClaimsAreDistinct
        /\ AnswersAccepted /\ DeliveredWasAccepted
        /\ AttemptsFailed /\ BurialsSpent /\ DeadLetteredWhenSpent
        /\ RotationsRead /\ SignedInTime
        /\ RunsBegun /\ Led

\* The inductive invariant holds initially.
LEMMA InitInductive == Init => IInv
<1>. SUFFICES ASSUME Init PROVE IInv
  OBVIOUS
<1>1. Emitted
  BY NullAssumption DEF Init, Emitted
<1>2. /\ TokensBelow /\ ClaimsAreDistinct /\ AnswersAccepted /\ DeliveredWasAccepted
      /\ AttemptsFailed /\ BurialsSpent /\ DeadLetteredWhenSpent /\ SignedInTime
  BY DEF Init, TokensBelow, ClaimsAreDistinct, AnswersAccepted, DeliveredWasAccepted,
         AttemptsFailed, BurialsSpent, DeadLetteredWhenSpent, SignedInTime
<1>3. RotationsRead
  BY DEF Init, RotationsRead
<1>4. RunsBegun /\ Led
  BY DEF Init, RunsBegun, Led, Working
<1>. QED
  BY <1>1, <1>2, <1>3, <1>4, InitTyped DEF IInv

\* Every step keeps the inductive invariant.
LEMMA StepInductive == IInv /\ [Next]_vars => IInv'
<1>. SUFFICES ASSUME IInv, [Next]_vars PROVE IInv'
  OBVIOUS
<1>1. TypeOK' /\ Emitted' /\ TokensBelow' /\ ClaimsAreDistinct'
  BY StepTyped, EmittedStep, TokensStep, DistinctStep DEF IInv
<1>2. AnswersAccepted' /\ DeliveredWasAccepted' /\ AttemptsFailed'
  BY AnswersStep, AttemptsStep DEF IInv
<1>3. BurialsSpent' /\ DeadLetteredWhenSpent'
  BY BurialsStep, DeadLettersStep DEF IInv
<1>4. RotationsRead' /\ SignedInTime'
  BY RotationsStep, SignedStep DEF IInv
<1>5. RunsBegun' /\ Led'
  BY BegunStep, LedStep DEF IInv
<1>. QED
  BY <1>1, <1>2, <1>3, <1>4, <1>5 DEF IInv

\* It implies the invariant that the run checks.
LEMMA InductiveSuffices == IInv => Inv
<1>. SUFFICES ASSUME IInv PROVE RequestsVerify
  BY DEF IInv, Inv
<1>. SUFFICES ASSUME NEW x \in running, x.phase = "post", x.since < 2,
                     x.env.delivery[2] \notin crossed
              PROVE  x.secret \in {secret[x.env.delivery[2]].current,
                                   secret[x.env.delivery[2]].previous}
  BY DEF RequestsVerify
<1>1. x.since \in 0..2
  BY ExecutionParts DEF IInv, Execution
<1>. QED
  BY <1>1 DEF IInv, SignedInTime

\* Whatever the numbers of Endpoints, attempts, replays and rotations: marked
\* delivered is answered, claims are distinct, dead letters spent their
\* attempts, and requests under way carry a secret that still verifies.
THEOREM RowsAndExecutionsAgree == Spec => []Inv
  BY InitInductive, StepInductive, InductiveSuffices, PTL DEF Spec

\* A pending row without an envelope is one that some execution was acknowledged
\* for although it met a live claim or had lost its own; no crash, failed update,
\* lapsed lease, deletion or replay strands a row otherwise
\* (OnlyAbandonedWorkIsStranded).
THEOREM StrandedWasAbandoned == Spec => []OnlyAbandonedWorkIsStranded
<1>1. IInv => OnlyAbandonedWorkIsStranded
  BY DEF IInv, Led, OnlyAbandonedWorkIsStranded
<1>. QED
  BY <1>1, InitInductive, StepInductive, PTL DEF Spec

\* Nobody claims a Delivery whose claim is live: the token of a live claim gives
\* way to none, when its holder, a dead letter or a replay releases it, and never
\* to the token of another execution (LiveClaimIsKept).
THEOREM ClaimsAreKept == Spec => LiveClaimIsKept
<1>. DEFINE Kept == \A d \in Deliveries :
       (/\ delivery[d] # None /\ delivery'[d] # None
        /\ delivery[d].live /\ delivery'[d].token # delivery[d].token)
         => delivery'[d].token = 0
<1>1. ASSUME TypeOK, [Next]_vars, NEW d \in Deliveries, delivery[d] # None, delivery'[d] # None,
             delivery[d].live, delivery'[d].token # delivery[d].token
      PROVE  delivery'[d].token = 0
  <2>0. delivery[d] \in Row
    BY <1>1, RowParts
  <2>r. ASSUME NEW c \in Deliveries, NEW s, Release(c, s), delivery[c] # None
        PROVE  delivery'[d].token = 0
    BY <1>1, <2>0, <2>r DEF Release, TypeOK, Row
  <2>u. ~UNCHANGED delivery
    BY <1>1
  <2>1. ASSUME NEW x \in running, HandlerStep(x) PROVE delivery'[d].token = 0
    <3>0. x.env.delivery \in Deliveries
      BY <1>1, ExecutionParts
    <3>1. ASSUME ~delivery[x.env.delivery].live,
                 Claim(x, delivery[x.env.delivery].attempts + 1)
          PROVE  FALSE
      BY <1>1, <3>1 DEF Claim, TypeOK
    <3>. QED
      BY <2>1, <2>r, <2>u, <3>0, <3>1 DEF HandlerStep, ClaimDelivery, PostEvent, MarkDelivered,
         MarkFailed, ScheduleRetry, OnDeadLetter, Acknowledge, HoldsClaim, rows
  <2>2. ASSUME NEW p \in Endpoints, DeleteEndpoint(p) PROVE delivery'[d].token = 0
    BY <1>1, <2>2 DEF DeleteEndpoint
  <2>3. ASSUME NEW v \in Events, CommitEvent(v) PROVE delivery'[d].token = 0
    BY <1>1, <2>3 DEF CommitEvent
  <2>4. ASSUME NEW c \in Deliveries, ClaimExpires(c) PROVE delivery'[d].token = 0
    BY <1>1, <2>0, <2>4 DEF ClaimExpires, TypeOK, Row
  <2>5. ASSUME NEW r \in Requests, CommitReplay(r) PROVE delivery'[d].token = 0
    BY <2>5, <2>r, <2>u DEF CommitReplay
  <2>. QED
    BY <1>1, <2>u, <2>1, <2>2, <2>3, <2>4, <2>5 DEF Next, SetEndpointEnabled, UpdateEndpoint,
       ClearPreviousSecret, RotateSecret, LoadSecret, StartExecution, Crash, SelectEndpoints,
       LoadForReplay, vars, rows
<1>2. TypeOK /\ [Next]_vars => [Kept]_vars
  BY <1>1
<1>. QED
  BY <1>2, TypeCorrect, PTL DEF Spec, LiveClaimIsKept
=============================================================================
