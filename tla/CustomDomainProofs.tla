------------------------- MODULE CustomDomainProofs -------------------------
(***************************************************************************)
(* Proofs about the lifecycle of one FQDN, for any Projects and Providers, *)
(* any number of rows and of overlapping operations, and any Modes.        *)
(***************************************************************************)
EXTENDS CustomDomain, FiniteSetTheorems, TLAPS

ActiveOnes == {p \in Providers : active[p] = TRUE}

-----------------------------------------------------------------------------
(* The inductive invariant.                                                *)

\* What is true of an operation however others overlap and fail: one that is
\* about to take the Domain away from the others belongs to a Project that was
\* seen to have published the challenge of this very row.
Founded(x) ==
  /\ x.id # None => x.id <= inserted
  /\ x.step \in {"insertDomain", "linkClaim", "createIdentity"} => x.provider \in Providers
  /\ x.step \in {"insertDomain", "linkOwner"} => x.kind = "create"
  /\ x.step \in {"createIdentity", "listIdentities", "insertIdentity"} =>
       x.kind \in {"create", "claim"}
  /\ x.step = "linkClaim" => x.kind = "claim"
  /\ x.step \in {"challenge", "record", "unlinkOthers", "listTransfer"} =>
       x.kind \in {"job", "refresh"}
  /\ x.step = "unlink" => x.kind = "delete"
  /\ (Current(x) /\ x.step = "record" /\ x.flag) => x.project \in shown
  /\ (Current(x) /\ x.step = "unlinkOthers") => x.project \in shown

\* Ids are never used twice, and links and identities go with their row.
Rows ==
  /\ domain # None => domain <= inserted
  /\ domain = None => Linked = {} /\ Identities = {}
  /\ published \subseteq shown
  /\ \A x \in running : Founded(x)

\* One at a time, operations find the row they loaded.
OneAtATime ==
  Sequential => \A x \in running :
    /\ running = {x}
    /\ x.step # "insertDomain" => Current(x)

\* Who owns the Domain while one operation is at work.
Ownership ==
  /\ \A o \in Linked : link[o].verified \/ link[o].pending # None
  /\ \/ \E x \in running : x.step = "unlinkOthers"
     \/ \A o1, o2 \in Owners : o1 = o2
  /\ \A x \in running :
       /\ x.kind = "create" => Owners = {}
       /\ x.step \in {"challenge", "record"} =>
            x.project \in Linked /\ x.provider = link[x.project].pending
       /\ x.step = "unlinkOthers" => x.project \in Owners

OwnershipInv == (Sequential /\ ~demoted) => Ownership

\* The Providers and the rows agree, and one identity is active.
Agree == domain # None /\ vendor = Identities /\ \E p \in Providers : ActiveOnes = {p}
\* A claim that is pending has the identity it asks for.
Backed == \A o \in Linked : link[o].pending # None => link[o].pending \in Identities
AtRest == IF domain = None THEN vendor = {} ELSE Agree /\ Backed /\ Linked # {}

\* What an operation relies on, by the step that it is about to take.
Midway(x) ==
  /\ x.step = "insertDomain" => domain = None /\ vendor = {}
  /\ x.step = "linkClaim" =>
       /\ Agree /\ Backed /\ Linked # {}
       /\ x.provider \in Providers /\ (x.flag <=> x.provider \in Identities)
  /\ x.step \in {"createIdentity", "listIdentities", "insertIdentity"} =>
       /\ x.provider \in Providers \ Identities
       /\ vendor = IF x.step = "createIdentity" THEN Identities ELSE Identities \cup {x.provider}
       /\ x.kind = "create" => Identities = {} /\ Linked = {}
       /\ x.kind = "claim" =>
            /\ \E p \in Providers : ActiveOnes = {p}
            /\ Linked # {}
            /\ \A o \in Linked : link[o].pending \in Identities \cup {None, x.provider}
       /\ x.step = "insertIdentity" => (x.flag <=> x.kind = "claim")
  /\ x.step = "linkOwner" => Agree /\ Backed
  /\ x.step = "schedule" => Agree /\ Backed /\ Linked # {}
  /\ x.step \in {"challenge", "record", "unlinkOthers"} =>
       /\ Agree /\ Backed /\ x.project \in Linked
       /\ x.provider # None => x.provider \in Identities
  /\ x.step \in {"unlinkOthers", "listTransfer"} =>
       link[x.project].pending = None /\ x.provider # None
  /\ x.step = "listTransfer" =>
       /\ Agree /\ Linked = {x.project}
       /\ x.provider \in Identities
  /\ x.step = "unlink" =>
       /\ Agree /\ Backed /\ x.project \in Linked
       /\ x.todo = Identities /\ (x.flag <=> Linked # {x.project})
  /\ x.step = "remove" =>
       /\ vendor = Identities
       /\ IF x.kind = "delete" THEN Linked = {} /\ Identities = x.todo
          ELSE /\ Linked = {x.project} /\ link[x.project].pending = None
               /\ x.provider \in Identities /\ Identities = x.todo \cup {x.provider}
               /\ x.provider \notin x.todo => active[x.provider] = TRUE
  /\ x.step = "removeRow" =>
       /\ vendor = Identities \ {x.current}
       /\ x.current \in Identities /\ x.current \notin x.todo
       /\ IF x.kind = "delete" THEN Linked = {} /\ Identities = x.todo \cup {x.current}
          ELSE /\ Linked = {x.project} /\ link[x.project].pending = None
               /\ x.provider \in Identities \ {x.current}
               /\ Identities = x.todo \cup {x.provider, x.current}
               /\ x.provider \notin x.todo => active[x.provider] = TRUE
  /\ x.step = "dropDomain" => vendor = {} /\ Linked = {} /\ Identities = {}

Quiet ==
  /\ used = {}
  /\ running = {} => AtRest
  /\ \A x \in running : Midway(x)

IdentitiesInv == (Sequential /\ "deliveries" \notin mode) => Quiet

IInv == TypeOK /\ Rows /\ OneAtATime /\ OwnershipInv /\ IdentitiesInv

-----------------------------------------------------------------------------
(* Type correctness.                                                       *)

\* Every step is one of these.
LEMMA Actions ==
  ASSUME Next
  PROVE  \/ \E o \in Projects, p \in Providers : StartCreate(o, p)
         \/ \E o \in Projects : StartJob(o) \/ StartRefresh(o) \/ StartDelete(o)
         \/ /\ UNCHANGED overlaps
            /\ \/ \E x \in running : Step(x) \/ Fail(x)
               \/ \E o \in Projects : Publish(o) \/ Retract(o)
               \/ AcceptDelivery
  BY DEF Next, Starts

\* An operation that starts has its type.
LEMMA StartTyped ==
  ASSUME TypeOK, MayStart, NEW o \in Projects, NEW kind \in Kinds, NEW step \in Steps,
         NEW provider \in Providers \cup {None}, NEW flag \in BOOLEAN,
         NEW todo \in SUBSET Providers, Start(o, kind, step, provider, flag, todo)
  PROVE  running' \subseteq Operation /\ overlaps' \in 0..MaxOverlaps
<1>1. overlaps' \in 0..MaxOverlaps
  BY CustomDomainAssumption DEF Start, MayStart, TypeOK
<1>2. [project |-> o, kind |-> kind, step |-> step, id |-> domain, provider |-> provider,
       flag |-> flag, todo |-> todo, current |-> None, turn |-> overlaps'] \in Operation
  BY <1>1 DEF Operation, TypeOK
<1>. QED BY <1>1, <1>2 DEF Start, TypeOK

\* A start keeps the types.
LEMMA StartsTyped == TypeOK /\ (\E o \in Projects : Starts(o)) => TypeOK'
<1>. SUFFICES ASSUME TypeOK, NEW o \in Projects, Starts(o) PROVE TypeOK'
  OBVIOUS
<1>k. /\ "create" \in Kinds /\ "claim" \in Kinds /\ "delete" \in Kinds
      /\ "job" \in Kinds /\ "refresh" \in Kinds
      /\ "insertDomain" \in Steps /\ "linkOwner" \in Steps /\ "linkClaim" \in Steps
      /\ "challenge" \in Steps /\ "unlink" \in Steps
      /\ {} \in SUBSET Providers /\ Identities \in SUBSET Providers
      /\ TRUE \in BOOLEAN /\ FALSE \in BOOLEAN
  BY DEF Kinds, Steps, Identities
<1>1. ASSUME NEW p \in Providers, StartCreate(o, p) PROVE TypeOK'
  <2>0. MayStart /\ (p \in Identities) \in BOOLEAN /\ p \in Providers \cup {None}
    BY <1>1 DEF StartCreate
  <2>1. running' \subseteq Operation /\ overlaps' \in 0..MaxOverlaps
    <3>1. CASE Start(o, "create", "insertDomain", p, FALSE, {})
      BY <2>0, <1>k, <3>1, StartTyped
    <3>2. CASE Start(o, "create", "linkOwner", p, FALSE, {})
      BY <2>0, <1>k, <3>2, StartTyped
    <3>3. CASE Start(o, "claim", "linkClaim", p, p \in Identities, {})
      <4>1. PICK flag \in BOOLEAN : flag = (p \in Identities)
        BY <2>0
      <4>2. Start(o, "claim", "linkClaim", p, flag, {})
        BY <3>3, <4>1
      <4>. QED BY <2>0, <1>k, <4>2, StartTyped
    <3>. QED BY <1>1, <3>1, <3>2, <3>3 DEF StartCreate
  <2>. QED BY <1>1, <2>1 DEF StartCreate, TypeOK, ledger
<1>2. ASSUME MayStart, o \in Linked, NEW kind \in Kinds,
             Start(o, kind, "challenge", link[o].pending, FALSE, {})
      PROVE  running' \subseteq Operation /\ overlaps' \in 0..MaxOverlaps
  <2>1. link[o].pending \in Providers \cup {None}
    BY <1>2 DEF TypeOK, Linked, Link
  <2>. QED BY <1>2, <2>1, <1>k, StartTyped
<1>3. ASSUME StartJob(o) PROVE TypeOK'
  <2>1. running' \subseteq Operation /\ overlaps' \in 0..MaxOverlaps
    BY <1>2, <1>3, <1>k DEF StartJob, TypeOK
  <2>. QED BY <1>3, <2>1 DEF StartJob, TypeOK, ledger
<1>4. ASSUME StartRefresh(o) PROVE TypeOK'
  <2>1. running' \subseteq Operation /\ overlaps' \in 0..MaxOverlaps
    BY <1>2, <1>4, <1>k DEF StartRefresh
  <2>. QED BY <1>4, <2>1 DEF StartRefresh, TypeOK, ledger
<1>5. ASSUME StartDelete(o) PROVE TypeOK'
  <2>0. MayStart /\ (Linked # {o}) \in BOOLEAN /\ None \in Providers \cup {None}
        /\ Start(o, "delete", "unlink", None, Linked # {o}, Identities)
    BY <1>5 DEF StartDelete
  <2>1. running' \subseteq Operation /\ overlaps' \in 0..MaxOverlaps
    BY <2>0, <1>k, StartTyped
  <2>. QED BY <1>5, <2>1 DEF StartDelete, TypeOK, ledger
<1>. QED BY <1>1, <1>3, <1>4, <1>5 DEF Starts

\* An operation keeps its type as it advances, or ends.
LEMMA BecomeTyped ==
  ASSUME TypeOK, NEW x \in running, NEW y, y \in Operation, End(x) \/ Become(x, y)
  PROVE  running' \subseteq Operation
  BY DEF TypeOK, End, Become

\* What is left of the links when one is written or removed.
LEMMA LinkTyped ==
  ASSUME TypeOK, NEW o \in Projects, NEW l \in Link \cup {None}, SetLink(o, l)
  PROVE  link' \in [Projects -> Link \cup {None}]
  BY DEF TypeOK, SetLink

\* A step of an operation keeps the types.
LEMMA StepTyped ==
  ASSUME TypeOK, Rows, UNCHANGED overlaps, NEW x \in running, Step(x) PROVE TypeOK'
<1>x. /\ x \in Operation
      /\ x.project \in Projects /\ x.provider \in Providers \cup {None}
      /\ x.todo \subseteq Providers /\ x.current \in Providers \cup {None}
      /\ x.id \in Ids \cup {None} /\ x.flag \in BOOLEAN
  BY DEF TypeOK, Operation
<1>e. ASSUME End(x) PROVE running' \subseteq Operation
  BY <1>e DEF TypeOK, End
<1>s. ASSUME NEW step \in Steps PROVE [x EXCEPT !.step = step] \in Operation
  BY <1>x DEF Operation
<1>a. ASSUME NEW step \in Steps, Advance(x, step) PROVE running' \subseteq Operation
  BY <1>a, <1>s, BecomeTyped DEF Advance
<1>k. \A step \in {"insertDomain", "linkOwner", "linkClaim", "createIdentity",
                   "listIdentities", "insertIdentity", "schedule", "challenge", "record",
                   "unlinkOthers", "listTransfer", "unlink", "remove", "removeRow",
                   "dropDomain"} : step \in Steps
  BY DEF Steps
<1>1. ASSUME InsertDomain(x) PROVE TypeOK'
  <2>1. CASE End(x) /\ UNCHANGED <<domain, inserted>>
    BY <1>1, <1>e, <2>1 DEF InsertDomain, TypeOK
  <2>2. CASE /\ domain = None /\ inserted < MaxDomains
             /\ inserted' = inserted + 1 /\ domain' = inserted + 1
             /\ Become(x, [x EXCEPT !.step = "createIdentity", !.id = inserted + 1])
    <3>1. inserted' \in 0..MaxDomains /\ domain' \in Ids
      BY <2>2, CustomDomainAssumption DEF TypeOK, Ids
    <3>2. [x EXCEPT !.step = "createIdentity", !.id = inserted + 1] \in Operation
      BY <1>x, <1>k, <2>2, <3>1 DEF Operation
    <3>3. running' \subseteq Operation
      BY <2>2, <3>2, BecomeTyped
    <3>. QED BY <1>1, <3>1, <3>3 DEF InsertDomain, TypeOK
  <2>. QED BY <1>1, <2>1, <2>2 DEF InsertDomain
<1>2. ASSUME CreateIdentity(x) PROVE TypeOK'
  <2>1. x.provider \in Providers
    BY <1>2 DEF CreateIdentity, Rows, Founded
  <2>. QED BY <1>2, <2>1, <1>a, <1>k DEF CreateIdentity, TypeOK, ledger
<1>3. ASSUME ListIdentities(x) PROVE TypeOK'
  <2>0. PICK flag \in BOOLEAN : flag = (\E p \in Providers : active[p] = TRUE)
    OBVIOUS
  <2>1. [x EXCEPT !.step = "insertIdentity", !.flag = flag] \in Operation
    BY <1>x, <1>k DEF Operation
  <2>2. running' \subseteq Operation
    <3>1. CASE End(x)
      BY <3>1, <1>e
    <3>2. CASE Become(x, [x EXCEPT !.step = "insertIdentity", !.flag = flag])
      BY <3>2, <2>1, BecomeTyped
    <3>. QED BY <1>3, <2>0, <3>1, <3>2 DEF ListIdentities
  <2>. QED BY <1>3, <2>2 DEF ListIdentities, TypeOK, ledger
<1>4. ASSUME InsertIdentity(x) PROVE TypeOK'
  <2>1. running' \subseteq Operation
    BY <1>4, <1>e, <1>a, <1>k DEF InsertIdentity
  <2>. QED BY <1>4, <2>1 DEF InsertIdentity, TypeOK, ledger
<1>5. ASSUME LinkOwner(x) PROVE TypeOK'
  <2>1. link' \in [Projects -> Link \cup {None}]
    BY <1>5, <1>x, LinkTyped DEF LinkOwner, TypeOK, Link
  <2>2. running' \subseteq Operation
    BY <1>5, <1>e DEF LinkOwner
  <2>. QED BY <1>5, <2>1, <2>2 DEF LinkOwner, TypeOK, ledger
<1>6. ASSUME LinkClaim(x) PROVE TypeOK'
  <2>1. link' \in [Projects -> Link \cup {None}]
    BY <1>6, <1>x, LinkTyped DEF LinkClaim, TypeOK, Link
  <2>2. running' \subseteq Operation
    BY <1>6, <1>e, <1>a, <1>k DEF LinkClaim
  <2>. QED BY <1>6, <2>1, <2>2 DEF LinkClaim, TypeOK, ledger
<1>7. ASSUME Schedule(x) PROVE TypeOK'
  BY <1>7, <1>x, <1>e DEF Schedule, TypeOK, ledger
<1>8. ASSUME Challenge(x) PROVE TypeOK'
  <2>0. PICK flag \in BOOLEAN : flag = (x.project \in published)
    BY (x.project \in published) \in BOOLEAN
  <2>1. [x EXCEPT !.step = "record", !.flag = flag] \in Operation
    BY <1>x, <1>k DEF Operation
  <2>2. Become(x, [x EXCEPT !.step = "record", !.flag = flag])
    BY <1>8, <2>0 DEF Challenge
  <2>3. running' \subseteq Operation
    BY <2>1, <2>2, BecomeTyped
  <2>. QED BY <1>8, <2>3 DEF Challenge, TypeOK, ledger
<1>9. ASSUME RecordOwnership(x) PROVE TypeOK'
  <2>1. link' \in [Projects -> Link \cup {None}]
    <3>1. [verified |-> x.flag, pending |-> IF x.flag THEN None ELSE x.provider] \in Link
      BY <1>x DEF Link
    <3>. QED BY <1>9, <1>x, <3>1, LinkTyped DEF RecordOwnership, TypeOK
  <2>2. running' \subseteq Operation /\ scheduled' \subseteq Projects
    BY <1>9, <1>e, <1>a, <1>k DEF RecordOwnership, Settle, TypeOK
  <2>3. demoted' \in BOOLEAN
    BY <1>9 DEF RecordOwnership
  <2>. QED BY <1>9, <2>1, <2>2, <2>3 DEF RecordOwnership, TypeOK
<1>10. ASSUME UnlinkOthers(x) PROVE TypeOK'
  <2>1. running' \subseteq Operation
    BY <1>10, <1>a, <1>k DEF UnlinkOthers
  <2>. QED BY <1>10, <2>1 DEF UnlinkOthers, TypeOK, ledger
<1>11. ASSUME ListTransfer(x) PROVE TypeOK'
  <2>1. \A todo \in SUBSET Providers :
          [x EXCEPT !.step = "remove", !.todo = todo] \in Operation
    BY <1>x, <1>k DEF Operation
  <2>2. (IF Current(x) THEN Identities ELSE {}) \in SUBSET Providers
    BY DEF Identities
  <2>3. running' \subseteq Operation
    BY <1>11, <2>1, <2>2, BecomeTyped DEF ListTransfer
  <2>. QED BY <1>11, <2>3 DEF ListTransfer, TypeOK, ledger
<1>12. ASSUME Unlink(x) PROVE TypeOK'
  <2>1. link' \in [Projects -> Link \cup {None}]
    BY <1>12, <1>x, LinkTyped DEF Unlink, TypeOK
  <2>2. running' \subseteq Operation
    BY <1>12, <1>e, <1>a, <1>k DEF Unlink
  <2>. QED BY <1>12, <2>1, <2>2 DEF Unlink, TypeOK, ledger
<1>13. ASSUME ActivateKept(x) PROVE TypeOK'
  <2>1. [x EXCEPT !.todo = @ \ {x.provider}] \in Operation
    BY <1>x DEF Operation
  <2>2. running' \subseteq Operation
    BY <1>13, <2>1, BecomeTyped DEF ActivateKept
  <2>. QED BY <1>13, <2>2 DEF ActivateKept, TypeOK, ledger
<1>14. ASSUME NEW p \in Providers, RemoveAtVendor(x, p) PROVE TypeOK'
  <2>1. [x EXCEPT !.step = "removeRow", !.current = p, !.todo = @ \ {p}] \in Operation
    BY <1>x, <1>k DEF Operation
  <2>2. running' \subseteq Operation
    BY <1>14, <2>1, BecomeTyped DEF RemoveAtVendor
  <2>. QED BY <1>14, <2>2 DEF RemoveAtVendor, TypeOK, ledger
<1>15. ASSUME RemoveRow(x) PROVE TypeOK'
  <2>1. [x EXCEPT !.step = "remove", !.current = None] \in Operation
    BY <1>x, <1>k DEF Operation
  <2>2. running' \subseteq Operation
    BY <1>15, <2>1, BecomeTyped DEF RemoveRow
  <2>. QED BY <1>15, <2>2 DEF RemoveRow, TypeOK, ledger
<1>16. ASSUME Removed(x) PROVE TypeOK'
  <2>1. running' \subseteq Operation /\ scheduled' \subseteq Projects
    BY <1>16, <1>e, <1>a, <1>k DEF Removed, Settle, TypeOK
  <2>. QED BY <1>16, <2>1 DEF Removed, TypeOK, ledger
<1>17. ASSUME DropDomain(x) PROVE TypeOK'
  <2>1. running' \subseteq Operation
    BY <1>17, <1>e DEF DropDomain
  <2>. QED BY <1>17, <2>1 DEF DropDomain, TypeOK
<1>. QED
  BY <1>1, <1>2, <1>3, <1>4, <1>5, <1>6, <1>7, <1>8, <1>9, <1>10, <1>11, <1>12, <1>13,
     <1>14, <1>15, <1>16, <1>17 DEF Step

\* Every step keeps the types.
LEMMA TypeStep == TypeOK /\ Rows /\ [Next]_vars => TypeOK'
<1>. SUFFICES ASSUME TypeOK, Rows, [Next]_vars PROVE TypeOK'
  OBVIOUS
<1>1. ASSUME \E o \in Projects : Starts(o) PROVE TypeOK'
  BY <1>1, StartsTyped
<1>2. ASSUME UNCHANGED overlaps, NEW x \in running, Step(x) PROVE TypeOK'
  BY <1>2, StepTyped
<1>3. ASSUME UNCHANGED overlaps, NEW x \in running, Fail(x) PROVE TypeOK'
  BY <1>3 DEF Fail, End, TypeOK, ledger
<1>4. ASSUME UNCHANGED overlaps, NEW o \in Projects, Publish(o) PROVE TypeOK'
  BY <1>4 DEF Publish, TypeOK
<1>5. ASSUME UNCHANGED overlaps, NEW o \in Projects, Retract(o) PROVE TypeOK'
  BY <1>5 DEF Retract, TypeOK, ledger
<1>6. ASSUME UNCHANGED overlaps, AcceptDelivery PROVE TypeOK'
  <2>1. domain \in Ids
    BY <1>6 DEF AcceptDelivery, Rows, TypeOK
  <2>. QED BY <1>6, <2>1 DEF AcceptDelivery, TypeOK
<1>7. CASE UNCHANGED vars
  BY <1>7 DEF vars, TypeOK
<1>. QED BY <1>1, <1>2, <1>3, <1>4, <1>5, <1>6, <1>7 DEF Next

-----------------------------------------------------------------------------
(* Rows and proofs of ownership, in every step.                            *)

\* What an operation rests on stays true whatever the others do.
LEMMA FoundedKept ==
  ASSUME TypeOK, NEW x \in running, Founded(x), inserted' \in Nat, inserted <= inserted',
         \/ domain' = domain /\ shown \subseteq shown'
         \/ domain' = None
         \/ domain' = inserted + 1
  PROVE  Founded(x)'
<1>. x \in Operation /\ x.id \in Ids \cup {None} /\ inserted \in Nat
      /\ (x.id # None => x.id \in Nat)
  BY CustomDomainAssumption DEF TypeOK, Operation, Ids
<1>1. x.id # None => x.id <= inserted'
  BY DEF Founded
<1>2. CASE domain' = domain /\ shown \subseteq shown'
  BY <1>1, <1>2 DEF Founded, Current
<1>3. CASE domain' = None
  BY <1>1, <1>3 DEF Founded, Current
<1>4. CASE domain' = inserted + 1
  <2>1. ~Current(x)'
    BY <1>4 DEF Current, Founded
  <2>. QED BY <1>1, <2>1 DEF Founded
<1>. QED BY <1>2, <1>3, <1>4

\* So the rest is about the operation that is started, or moves.
LEMMA OthersFounded ==
  ASSUME TypeOK, Rows, UNCHANGED <<domain, inserted>>, shown \subseteq shown',
         NEW y, Founded(y)', running' \subseteq running \cup {y}
  PROVE  \A z \in running' : Founded(z)'
<1>1. inserted' \in Nat /\ inserted <= inserted'
  BY CustomDomainAssumption DEF TypeOK
<1>2. ASSUME NEW z \in running PROVE Founded(z)'
  BY <1>1, FoundedKept DEF Rows
<1>. QED BY <1>2

\* An operation that ends leaves the others.
LEMMA OthersLeft ==
  ASSUME TypeOK, Rows, UNCHANGED <<domain, inserted>>, shown \subseteq shown',
         running' \subseteq running
  PROVE  \A z \in running' : Founded(z)'
<1>1. inserted' \in Nat /\ inserted <= inserted'
  BY CustomDomainAssumption DEF TypeOK
<1>2. ASSUME NEW z \in running PROVE Founded(z)'
  BY <1>1, FoundedKept DEF Rows
<1>. QED BY <1>2

\* A start finds the row it loads.
LEMMA StartsKeepRows ==
  ASSUME TypeOK, Rows, NEW o \in Projects, Starts(o) PROVE Rows'
<1>1. /\ UNCHANGED <<domain, inserted, shown, published, link, active>>
      /\ \/ running' \subseteq running
         \/ \E kind \in {"create", "claim", "job", "refresh", "delete"},
               step \in {"insertDomain", "linkOwner", "linkClaim", "challenge", "unlink"},
               provider \in Providers \cup {None}, flag \in BOOLEAN,
               todo \in {{}, Identities} :
              /\ Start(o, kind, step, provider, flag, todo)
              /\ step \in {"insertDomain", "linkClaim"} => provider \in Providers
              /\ step \in {"insertDomain", "linkOwner"} => kind = "create"
              /\ step = "linkClaim" => kind = "claim"
              /\ step = "challenge" => kind \in {"job", "refresh"}
              /\ step = "unlink" => kind = "delete"
  <2>1. ASSUME NEW p \in Providers, StartCreate(o, p) PROVE <1>1!2
    <3>1. PICK flag \in BOOLEAN : flag = (p \in Identities)
      BY (p \in Identities) \in BOOLEAN
    <3>. QED BY <2>1, <3>1 DEF StartCreate
  <2>2. ASSUME o \in Linked PROVE link[o].pending \in Providers \cup {None}
    BY <2>2 DEF TypeOK, Linked, Link
  <2>3. ASSUME StartDelete(o) PROVE <1>1!2
    <3>1. PICK flag \in BOOLEAN : flag = (Linked # {o})
      BY (Linked # {o}) \in BOOLEAN
    <3>. QED BY <2>3, <3>1 DEF StartDelete
  <2>4. ASSUME StartJob(o) PROVE <1>1!2
    BY <2>4, <2>2 DEF StartJob
  <2>5. ASSUME StartRefresh(o) PROVE <1>1!2
    BY <2>5, <2>2 DEF StartRefresh
  <2>6. UNCHANGED <<domain, inserted, shown, published, link, active>>
    BY DEF Starts, StartCreate, StartJob, StartRefresh, StartDelete, ledger
  <2>. QED BY <2>1, <2>3, <2>4, <2>5, <2>6 DEF Starts
<1>2. \A z \in running' : Founded(z)'
  <2>1. CASE running' \subseteq running
    BY <1>1, <2>1, OthersLeft
  <2>2. ASSUME NEW kind,
               NEW step \in {"insertDomain", "linkOwner", "linkClaim", "challenge", "unlink"},
               NEW provider, NEW flag, NEW todo, Start(o, kind, step, provider, flag, todo),
               step \in {"insertDomain", "linkClaim"} => provider \in Providers,
               step \in {"insertDomain", "linkOwner"} => kind = "create",
               step = "linkClaim" => kind = "claim",
               step = "challenge" => kind \in {"job", "refresh"},
               step = "unlink" => kind = "delete"
        PROVE  \A z \in running' : Founded(z)'
    <3>0. PICK y : y = [project |-> o, kind |-> kind, step |-> step, id |-> domain,
                        provider |-> provider, flag |-> flag, todo |-> todo,
                        current |-> None, turn |-> overlaps']
      OBVIOUS
    <3>1. /\ running' = running \cup {y}
          /\ y.id = domain /\ y.step = step /\ y.kind = kind /\ y.provider = provider
      BY <2>2, <3>0 DEF Start
    <3>2. Founded(y)'
      BY <1>1, <2>2, <3>1 DEF Founded, Rows
    <3>. QED BY <1>1, <3>1, <3>2, OthersFounded
  <2>. QED BY <1>1, <2>1, <2>2
<1>. QED BY <1>1, <1>2 DEF Rows, Linked, Identities

\* A step of an operation keeps the rows: what it has just read or found is
\* true of the row it works on.
LEMMA StepKeepsRows ==
  ASSUME TypeOK, Rows, NEW x \in running, Step(x) PROVE Rows'
<1>x. /\ x \in Operation /\ Founded(x)
      /\ x.project \in Projects /\ x.provider \in Providers \cup {None}
      /\ x.id \in Ids \cup {None} /\ x.flag \in BOOLEAN /\ inserted \in Nat
  BY CustomDomainAssumption DEF TypeOK, Operation, Rows
<1>e. ASSUME End(x), UNCHANGED <<domain, inserted, shown>>
      PROVE  \A z \in running' : Founded(z)'
  BY <1>e, OthersLeft DEF End
<1>b. ASSUME NEW y, Become(x, y), UNCHANGED <<domain, inserted, shown>>, Founded(y)'
      PROVE  \A z \in running' : Founded(z)'
  BY <1>b, OthersFounded DEF Become
<1>a. ASSUME NEW step, Advance(x, step), UNCHANGED <<domain, inserted, shown>>,
             step \notin {"insertDomain", "linkClaim", "unlink", "record"},
             step = "createIdentity" => x.provider \in Providers,
             step \in {"createIdentity", "listIdentities", "insertIdentity"} =>
               x.kind \in {"create", "claim"},
             step = "linkOwner" => x.kind = "create",
             step \in {"challenge", "unlinkOthers", "listTransfer"} =>
               x.kind \in {"job", "refresh"},
             (Current(x) /\ step = "unlinkOthers") => x.project \in shown
      PROVE  \A z \in running' : Founded(z)'
  <2>1. PICK y : y = [x EXCEPT !.step = step]
    OBVIOUS
  <2>2. Founded(y)'
    BY <1>x, <1>a, <2>1 DEF Founded, Current, Operation
  <2>. QED BY <1>a, <1>b, <2>1, <2>2 DEF Advance
<1>1. ASSUME InsertDomain(x) PROVE Rows'
  <2>1. CASE End(x) /\ UNCHANGED <<domain, inserted>>
    BY <1>1, <1>e, <2>1 DEF InsertDomain, Rows, Linked, Identities
  <2>2. CASE /\ domain = None /\ inserted < MaxDomains
             /\ inserted' = inserted + 1 /\ domain' = inserted + 1
             /\ Become(x, [x EXCEPT !.step = "createIdentity", !.id = inserted + 1])
    <3>1. PICK y : y = [x EXCEPT !.step = "createIdentity", !.id = inserted + 1]
      OBVIOUS
    <3>2. Founded(y)'
      BY <1>1, <1>x, <2>2, <3>1 DEF Founded, InsertDomain, Operation
    <3>3. ASSUME NEW z \in running PROVE Founded(z)'
      <4>. Founded(z) /\ inserted' \in Nat /\ inserted <= inserted'
        BY <1>x, <2>2 DEF Rows
      <4>. QED BY <2>2, FoundedKept
    <3>4. \A z \in running' : Founded(z)'
      BY <2>2, <3>1, <3>2, <3>3 DEF Become
    <3>5. domain' # None /\ domain' <= inserted'
      BY <1>x, <2>2, CustomDomainAssumption
    <3>. QED BY <1>1, <3>4, <3>5 DEF InsertDomain, Rows
  <2>. QED BY <1>1, <2>1, <2>2 DEF InsertDomain
<1>2. ASSUME CreateIdentity(x) PROVE Rows'
  BY <1>2, <1>a, <1>x DEF CreateIdentity, Rows, Linked, Identities, ledger, Founded
<1>3. ASSUME ListIdentities(x) PROVE Rows'
  <2>1. PICK y : y = [x EXCEPT !.step = "insertIdentity",
                               !.flag = \E p \in Providers : active[p] = TRUE]
    OBVIOUS
  <2>2. Founded(y)'
    BY <1>3, <1>x, <2>1 DEF Founded, ListIdentities, ledger, Operation
  <2>3. \A z \in running' : Founded(z)'
    BY <1>3, <1>b, <1>e, <2>1, <2>2 DEF ListIdentities, ledger
  <2>. QED BY <1>3, <2>3 DEF ListIdentities, Rows, Linked, Identities, ledger
<1>4. ASSUME InsertIdentity(x) PROVE Rows'
  <2>1. \A z \in running' : Founded(z)'
    BY <1>4, <1>a, <1>e, <1>x DEF InsertIdentity, ledger, Founded
  <2>2. domain = None => UNCHANGED active
    BY <1>4 DEF InsertIdentity, Current
  <2>. QED BY <1>4, <2>1, <2>2 DEF InsertIdentity, Rows, Linked, Identities, ledger
<1>5. ASSUME LinkOwner(x) PROVE Rows'
  <2>1. \A z \in running' : Founded(z)'
    BY <1>5, <1>e DEF LinkOwner, ledger
  <2>2. domain = None => UNCHANGED link
    BY <1>5 DEF LinkOwner, Current
  <2>. QED BY <1>5, <2>1, <2>2 DEF LinkOwner, Rows, Linked, Identities, ledger
<1>6. ASSUME LinkClaim(x) PROVE Rows'
  <2>1. \A z \in running' : Founded(z)'
    BY <1>6, <1>a, <1>e, <1>x DEF LinkClaim, ledger, Founded
  <2>2. domain = None => UNCHANGED link
    BY <1>6 DEF LinkClaim, Current
  <2>. QED BY <1>6, <2>1, <2>2 DEF LinkClaim, Rows, Linked, Identities, ledger
<1>7. ASSUME Schedule(x) PROVE Rows'
  BY <1>7, <1>e DEF Schedule, Rows, Linked, Identities, ledger
<1>8. ASSUME Challenge(x) PROVE Rows'
  <2>1. PICK y : y = [x EXCEPT !.step = "record", !.flag = x.project \in published]
    OBVIOUS
  <2>2. Founded(y)'
    BY <1>8, <1>x, <2>1 DEF Founded, Challenge, ledger, Operation, Rows
  <2>3. \A z \in running' : Founded(z)'
    BY <1>8, <1>b, <2>1, <2>2 DEF Challenge, ledger
  <2>. QED BY <1>8, <2>3 DEF Challenge, Rows, Linked, Identities, ledger
<1>9. ASSUME RecordOwnership(x) PROVE Rows'
  <2>1. \A z \in running' : Founded(z)'
    <3>1. CASE x.flag /\ x.provider # None
      BY <1>9, <1>a, <1>x, <3>1 DEF RecordOwnership, Founded
    <3>2. CASE ~(x.flag /\ x.provider # None)
      BY <1>9, <1>e, <3>2 DEF RecordOwnership, Settle
    <3>. QED BY <3>1, <3>2
  <2>2. domain = None => UNCHANGED link
    BY <1>9 DEF RecordOwnership, Current
  <2>. QED BY <1>9, <2>1, <2>2 DEF RecordOwnership, Rows, Linked, Identities
<1>10. ASSUME UnlinkOthers(x) PROVE Rows'
  <2>1. \A z \in running' : Founded(z)'
    BY <1>10, <1>a, <1>x DEF UnlinkOthers, ledger, Founded
  <2>2. (domain = None => UNCHANGED link) /\ published' \subseteq published
    BY <1>10 DEF UnlinkOthers, Current
  <2>. QED BY <1>10, <2>1, <2>2 DEF UnlinkOthers, Rows, Linked, Identities, ledger
<1>11. ASSUME ListTransfer(x) PROVE Rows'
  <2>1. PICK y : y = [x EXCEPT !.step = "remove", !.todo = IF Current(x) THEN Identities ELSE {}]
    OBVIOUS
  <2>2. Founded(y)'
    BY <1>11, <1>x, <2>1 DEF Founded, ListTransfer, ledger, Operation
  <2>3. \A z \in running' : Founded(z)'
    BY <1>11, <1>b, <2>1, <2>2 DEF ListTransfer, ledger
  <2>. QED BY <1>11, <2>3 DEF ListTransfer, Rows, Linked, Identities, ledger
<1>12. ASSUME Unlink(x) PROVE Rows'
  <2>1. \A z \in running' : Founded(z)'
    BY <1>12, <1>a, <1>e DEF Unlink, ledger
  <2>2. (domain = None => UNCHANGED link) /\ published' \subseteq published
    BY <1>12 DEF Unlink, Current
  <2>. QED BY <1>12, <2>1, <2>2 DEF Unlink, Rows, Linked, Identities, ledger
<1>13. ASSUME ActivateKept(x) PROVE Rows'
  <2>1. PICK y : y = [x EXCEPT !.todo = @ \ {x.provider}]
    OBVIOUS
  <2>2. Founded(y)'
    BY <1>13, <1>x, <2>1 DEF Founded, ActivateKept, ledger, Operation
  <2>3. \A z \in running' : Founded(z)'
    BY <1>13, <1>b, <2>1, <2>2 DEF ActivateKept, ledger
  <2>4. domain = None => UNCHANGED active
    BY <1>13 DEF ActivateKept, Current
  <2>. QED BY <1>13, <2>3, <2>4 DEF ActivateKept, Rows, Linked, Identities, ledger
<1>14. ASSUME NEW p \in Providers, RemoveAtVendor(x, p) PROVE Rows'
  <2>1. PICK y : y = [x EXCEPT !.step = "removeRow", !.current = p, !.todo = @ \ {p}]
    OBVIOUS
  <2>2. Founded(y)'
    BY <1>14, <1>x, <2>1 DEF Founded, RemoveAtVendor, ledger, Operation
  <2>3. \A z \in running' : Founded(z)'
    BY <1>14, <1>b, <2>1, <2>2 DEF RemoveAtVendor, ledger
  <2>. QED BY <1>14, <2>3 DEF RemoveAtVendor, Rows, Linked, Identities, ledger
<1>15. ASSUME RemoveRow(x) PROVE Rows'
  <2>1. PICK y : y = [x EXCEPT !.step = "remove", !.current = None]
    OBVIOUS
  <2>2. Founded(y)'
    BY <1>15, <1>x, <2>1 DEF Founded, RemoveRow, ledger, Operation
  <2>3. \A z \in running' : Founded(z)'
    BY <1>15, <1>b, <2>1, <2>2 DEF RemoveRow, ledger
  <2>4. domain = None => UNCHANGED active
    BY <1>15 DEF RemoveRow, Current
  <2>. QED BY <1>15, <2>3, <2>4 DEF RemoveRow, Rows, Linked, Identities, ledger
<1>16. ASSUME Removed(x) PROVE Rows'
  <2>1. \A z \in running' : Founded(z)'
    BY <1>16, <1>a, <1>e DEF Removed, Settle, ledger
  <2>. QED BY <1>16, <2>1 DEF Removed, Rows, Linked, Identities, ledger
<1>17. ASSUME DropDomain(x) PROVE Rows'
  <2>1. CASE Current(x) /\ domain \notin used
    <3>1. domain' = None /\ inserted' = inserted /\ running' \subseteq running
      BY <1>17, <2>1 DEF DropDomain, End
    <3>2. ASSUME NEW z \in running PROVE Founded(z)'
      BY <1>x, <3>1, FoundedKept DEF Rows
    <3>3. Linked' = {} /\ Identities' = {}
      BY <1>17, <2>1 DEF DropDomain, Linked, Identities
    <3>. QED BY <1>17, <2>1, <3>1, <3>2, <3>3 DEF DropDomain, Rows
  <2>2. CASE ~(Current(x) /\ domain \notin used)
    BY <1>17, <1>e, <2>2 DEF DropDomain, Rows, Linked, Identities
  <2>. QED BY <2>1, <2>2
<1>. QED
  BY <1>1, <1>2, <1>3, <1>4, <1>5, <1>6, <1>7, <1>8, <1>9, <1>10, <1>11, <1>12, <1>13,
     <1>14, <1>15, <1>16, <1>17 DEF Step

\* Rows and proofs hold in every step.
LEMMA RowsStep == TypeOK /\ Rows /\ [Next]_vars => Rows'
<1>. SUFFICES ASSUME TypeOK, Rows, [Next]_vars PROVE Rows'
  OBVIOUS
<1>1. ASSUME NEW x \in running, Fail(x) PROVE Rows'
  <2>1. \A z \in running' : Founded(z)'
    BY <1>1, OthersLeft DEF Fail, End, ledger
  <2>. QED BY <1>1, <2>1 DEF Fail, Rows, Linked, Identities, ledger
<1>2. ASSUME NEW o \in Projects, Publish(o) PROVE Rows'
  <2>1. \A z \in running' : Founded(z)'
    BY <1>2, OthersLeft DEF Publish
  <2>. QED BY <1>2, <2>1 DEF Publish, Rows, Linked, Identities
<1>3. ASSUME NEW o \in Projects, Retract(o) PROVE Rows'
  <2>1. \A z \in running' : Founded(z)'
    BY <1>3, OthersLeft DEF Retract, ledger
  <2>. QED BY <1>3, <2>1 DEF Retract, Rows, Linked, Identities, ledger
<1>4. ASSUME AcceptDelivery PROVE Rows'
  <2>1. \A z \in running' : Founded(z)'
    BY <1>4, OthersLeft DEF AcceptDelivery
  <2>. QED BY <1>4, <2>1 DEF AcceptDelivery, Rows, Linked, Identities
<1>5. CASE UNCHANGED vars
  <2>1. \A z \in running' : Founded(z)'
    BY <1>5, OthersLeft DEF vars
  <2>. QED BY <1>5, <2>1 DEF vars, Rows, Linked, Identities
<1>. QED
  BY <1>1, <1>2, <1>3, <1>4, <1>5, StartsKeepRows, StepKeepsRows DEF Next

-----------------------------------------------------------------------------
(* Who may lose the Domain.                                                *)

\* The rows and what operations rest on hold initially.
LEMMA RowsInitially == Init => TypeOK /\ Rows
<1>. SUFFICES ASSUME Init PROVE TypeOK /\ Rows
  OBVIOUS
<1>1. TypeOK
  <2>1. inserted \in 0..MaxDomains /\ overlaps \in 0..MaxOverlaps
    BY CustomDomainAssumption DEF Init
  <2>2. active \in [Providers -> BOOLEAN \cup {None}]
    BY DEF Init
  <2>3. link \in [Projects -> Link \cup {None}]
    BY DEF Init
  <2>. QED BY <2>1, <2>2, <2>3 DEF Init, TypeOK
<1>2. Rows
  BY LinkAssumption DEF Init, Rows, Linked, Identities
<1>. QED BY <1>1, <1>2

\* They hold in every reachable state.
LEMMA RowsInvariant == Spec => [](TypeOK /\ Rows)
<1>1. TypeOK /\ Rows /\ [Next]_vars => (TypeOK /\ Rows)'
  BY TypeStep, RowsStep
<1>. QED BY <1>1, RowsInitially, PTL DEF Spec

\* The types hold for any Projects, Providers and Modes.
THEOREM TypeCorrect == Spec => []TypeOK
<1>. QED BY RowsInvariant, PTL

\* The owner of a Domain loses it only by removing it, with the Domain, or to
\* a Project whose challenge for this row has been in DNS, however operations
\* overlap and fail (custom-identity.ts 391-460).
THEOREM OwnersLoseToProof == Spec => LostOnlyToProof
<1>. DEFINE Lost(o) == link'[o] = None /\ domain' # None
            Excused(o) == \/ \E x \in running : x.project = o /\ x.kind = "delete"
                          \/ shown \ {o} # {}
<1>1. ASSUME TypeOK, Rows, [Next]_vars, NEW o \in Owners, Lost(o) PROVE Excused(o)
  <2>0. o \in Projects /\ link[o] # None
    BY DEF Owners, Linked
  <2>1. link' # link
    BY <1>1, <2>0
  <2>2. ASSUME NEW q \in Projects, NEW l, l # None, SetLink(q, l) PROVE FALSE
    BY <1>1, <2>0, <2>2 DEF SetLink, TypeOK
  <2>3. PICK x \in running : Step(x)
    BY <1>1, <2>1 DEF Next, Starts, StartCreate, StartJob, StartRefresh, StartDelete, Fail,
                      Publish, Retract, AcceptDelivery, vars
  <2>4. x.project \in Projects /\ Founded(x)
    BY <1>1 DEF TypeOK, Operation, Rows
  <2>5. CASE UnlinkOthers(x)
    <3>1. Current(x) /\ x.project # o
      BY <1>1, <2>0, <2>5 DEF UnlinkOthers
    <3>. QED BY <2>4, <2>5, <3>1 DEF UnlinkOthers, Founded
  <2>6. CASE Unlink(x)
    <3>1. x.project = o
      BY <1>1, <2>0, <2>4, <2>6 DEF Unlink, SetLink, TypeOK
    <3>. QED BY <2>4, <2>6, <3>1 DEF Unlink, Founded
  <2>7. CASE DropDomain(x)
    BY <1>1, <2>1, <2>7 DEF DropDomain
  <2>8. CASE LinkOwner(x) \/ LinkClaim(x) \/ RecordOwnership(x)
    <3>1. x.flag \in BOOLEAN /\ x.provider \in Providers \cup {None}
      BY <1>1 DEF TypeOK, Operation
    <3>2. \A v \in BOOLEAN, p \in Providers \cup {None} : [verified |-> v, pending |-> p] # None
      BY LinkAssumption DEF Link
    <3>. QED BY <2>1, <2>2, <2>4, <2>8, <3>1, <3>2 DEF LinkOwner, LinkClaim, RecordOwnership
  <2>. QED
    BY <2>1, <2>3, <2>5, <2>6, <2>7, <2>8
    DEF Step, InsertDomain, CreateIdentity, ListIdentities, InsertIdentity, Schedule,
        Challenge, ListTransfer, ActivateKept, RemoveAtVendor, RemoveRow, Removed
<1>2. TypeOK /\ Rows /\ [Next]_vars => [\A o \in Owners : Lost(o) => Excused(o)]_vars
  BY <1>1
<1>. QED BY <1>2, RowsInvariant, PTL DEF Spec, LostOnlyToProof

-----------------------------------------------------------------------------
(* One operation at a time, where nothing overlaps and nothing fails.      *)

\* What a behaviour may meet does not change.
LEMMA ModeKept == [Next]_vars => mode' = mode /\ (Sequential' <=> Sequential)
<1>. SUFFICES ASSUME [Next]_vars PROVE mode' = mode
  BY DEF Sequential
<1>1. ASSUME NEW o \in Projects, Starts(o) PROVE mode' = mode
  BY <1>1 DEF Starts, StartCreate, StartJob, StartRefresh, StartDelete, ledger
<1>2. ASSUME NEW x, Step(x) PROVE mode' = mode
  BY <1>2 DEF Step, InsertDomain, CreateIdentity, ListIdentities, InsertIdentity, LinkOwner,
              LinkClaim, Schedule, Challenge, RecordOwnership, UnlinkOthers, ListTransfer,
              Unlink, ActivateKept, RemoveAtVendor, RemoveRow, Removed, DropDomain, ledger
<1>. QED
  BY <1>1, <1>2 DEF Next, Fail, Publish, Retract, AcceptDelivery, ledger, vars

\* An operation that starts alone, with what it was started with.
LEMMA StartAlone ==
  ASSUME Sequential, MayStart, NEW o, NEW kind, NEW step, NEW provider, NEW flag, NEW todo,
         Start(o, kind, step, provider, flag, todo)
  PROVE  /\ running = {}
         /\ \E y : /\ running' = {y} /\ y.project = o /\ y.kind = kind /\ y.step = step
                   /\ y.id = domain /\ y.provider = provider /\ y.flag = flag
                   /\ y.todo = todo /\ y.current = None
<1>1. running = {}
  BY DEF Sequential, MayStart
<1>2. PICK y : y = [project |-> o, kind |-> kind, step |-> step, id |-> domain,
                    provider |-> provider, flag |-> flag, todo |-> todo,
                    current |-> None, turn |-> overlaps']
  OBVIOUS
<1>3. running' = {y}
  BY <1>1, <1>2 DEF Start
<1>. QED BY <1>1, <1>2, <1>3

\* A step of an operation ends it, or it goes on with the row it has.
LEMMA Moves ==
  ASSUME TypeOK, NEW x \in running, Step(x), ~InsertDomain(x)
  PROVE  \/ End(x)
         \/ /\ domain' = domain
            /\ \E y : Become(x, y) /\ y.id = x.id /\ y.step # "insertDomain"
<1>x. x \in Operation
  BY DEF TypeOK
<1>a. ASSUME NEW step, Advance(x, step), step # "insertDomain"
      PROVE  \E y : Become(x, y) /\ y.id = x.id /\ y.step # "insertDomain"
  <2>. [x EXCEPT !.step = step].id = x.id /\ [x EXCEPT !.step = step].step = step
    BY <1>x DEF Operation
  <2>. QED BY <1>a DEF Advance
<1>1. CASE CreateIdentity(x) \/ InsertIdentity(x) \/ LinkOwner(x) \/ LinkClaim(x)
  BY <1>1, <1>a DEF CreateIdentity, InsertIdentity, LinkOwner, LinkClaim
<1>2. CASE Schedule(x) \/ RecordOwnership(x) \/ UnlinkOthers(x) \/ Unlink(x)
  BY <1>2, <1>a DEF Schedule, RecordOwnership, UnlinkOthers, Unlink, Settle
<1>3. CASE Removed(x) \/ DropDomain(x)
  BY <1>3, <1>a DEF Removed, DropDomain, Settle
<1>b. ASSUME NEW y, Become(x, y), y.id = x.id, y.step # "insertDomain"
      PROVE  \E z : Become(x, z) /\ z.id = x.id /\ z.step # "insertDomain"
  BY <1>b
<1>4. CASE ListIdentities(x)
  <2>1. PICK y : y = [x EXCEPT !.step = "insertIdentity",
                               !.flag = \E p \in Providers : active[p] = TRUE]
    OBVIOUS
  <2>2. y.id = x.id /\ y.step # "insertDomain"
    BY <1>x, <2>1 DEF Operation
  <2>. QED BY <1>4, <1>b, <2>1, <2>2 DEF ListIdentities
<1>5. CASE Challenge(x)
  <2>1. PICK y : y = [x EXCEPT !.step = "record", !.flag = x.project \in published]
    OBVIOUS
  <2>2. y.id = x.id /\ y.step # "insertDomain"
    BY <1>x, <2>1 DEF Operation
  <2>. QED BY <1>5, <1>b, <2>1, <2>2 DEF Challenge
<1>6. CASE ListTransfer(x)
  <2>1. PICK y : y = [x EXCEPT !.step = "remove", !.todo = IF Current(x) THEN Identities ELSE {}]
    OBVIOUS
  <2>2. y.id = x.id /\ y.step # "insertDomain"
    BY <1>x, <2>1 DEF Operation
  <2>. QED BY <1>6, <1>b, <2>1, <2>2 DEF ListTransfer
<1>7. CASE ActivateKept(x)
  <2>1. PICK y : y = [x EXCEPT !.todo = @ \ {x.provider}]
    OBVIOUS
  <2>2. y.id = x.id /\ y.step # "insertDomain"
    BY <1>7, <1>x, <2>1 DEF Operation, ActivateKept
  <2>. QED BY <1>7, <1>b, <2>1, <2>2 DEF ActivateKept
<1>8. ASSUME NEW p \in Providers, RemoveAtVendor(x, p)
      PROVE  domain' = domain /\ \E y : Become(x, y) /\ y.id = x.id /\ y.step # "insertDomain"
  <2>1. PICK y : y = [x EXCEPT !.step = "removeRow", !.current = p, !.todo = @ \ {p}]
    OBVIOUS
  <2>2. y.id = x.id /\ y.step # "insertDomain"
    BY <1>x, <2>1 DEF Operation
  <2>. QED BY <1>8, <1>b, <2>1, <2>2 DEF RemoveAtVendor
<1>9. CASE RemoveRow(x)
  <2>1. PICK y : y = [x EXCEPT !.step = "remove", !.current = None]
    OBVIOUS
  <2>2. y.id = x.id /\ y.step # "insertDomain"
    BY <1>x, <2>1 DEF Operation
  <2>. QED BY <1>9, <1>b, <2>1, <2>2 DEF RemoveRow
<1>. QED BY <1>1, <1>2, <1>3, <1>4, <1>5, <1>6, <1>7, <1>8, <1>9 DEF Step

\* Nothing overlaps, and the row that was loaded is still the Domain's.
LEMMA OneAtATimeStep == TypeOK /\ Rows /\ OneAtATime /\ [Next]_vars => OneAtATime'
<1>. SUFFICES ASSUME TypeOK, Rows, OneAtATime, [Next]_vars, Sequential
              PROVE  \A z \in running' : /\ running' = {z}
                                         /\ z.step # "insertDomain" => Current(z)'
  BY ModeKept DEF OneAtATime
<1>. DEFINE Alone == \A z \in running' : /\ running' = {z}
                                         /\ z.step # "insertDomain" => Current(z)'
<1>1. ASSUME NEW o \in Projects, NEW kind, NEW step, NEW provider, NEW flag, NEW todo,
             MayStart, Start(o, kind, step, provider, flag, todo), domain' = domain,
             step # "insertDomain" => domain # None
      PROVE  Alone
  BY <1>1, StartAlone DEF Current
<1>2. ASSUME NEW o \in Projects, Starts(o)
      PROVE  Alone
  <2>1. ASSUME NEW p \in Providers, StartCreate(o, p) PROVE Alone
    BY <1>1, <2>1 DEF StartCreate
  <2>2. ASSUME StartJob(o) PROVE Alone
    <3>1. CASE domain # None /\ o \in Linked
      BY <1>1, <2>2, <3>1 DEF StartJob
    <3>2. CASE ~(domain # None /\ o \in Linked)
      BY <2>2, <3>2 DEF StartJob, OneAtATime, Current
    <3>. QED BY <3>1, <3>2
  <2>3. ASSUME StartRefresh(o) PROVE Alone
    BY <1>1, <2>3 DEF StartRefresh, Rows
  <2>4. ASSUME StartDelete(o) PROVE Alone
    BY <1>1, <2>4 DEF StartDelete, Rows
  <2>. QED BY <1>2, <2>1, <2>2, <2>3, <2>4 DEF Starts
<1>3. ASSUME NEW x \in running, Step(x)
      PROVE  Alone
  <2>0. running = {x} /\ x \in Operation
    BY <1>3 DEF OneAtATime, TypeOK
  <2>1. CASE InsertDomain(x)
    <3>1. CASE End(x)
      BY <2>0, <3>1 DEF End
    <3>2. CASE /\ domain = None /\ inserted < MaxDomains
               /\ inserted' = inserted + 1 /\ domain' = inserted + 1
               /\ Become(x, [x EXCEPT !.step = "createIdentity", !.id = inserted + 1])
      <4>1. PICK y : y = [x EXCEPT !.step = "createIdentity", !.id = inserted + 1]
        OBVIOUS
      <4>2. y.id = inserted + 1 /\ running' = {y}
        BY <2>0, <3>2, <4>1 DEF Operation, Become
      <4>3. domain' # None
        BY <3>2, CustomDomainAssumption DEF TypeOK
      <4>. QED BY <3>2, <4>2, <4>3 DEF Current
    <3>. QED BY <2>1, <3>1, <3>2 DEF InsertDomain
  <2>2. CASE ~InsertDomain(x)
    <3>1. CASE End(x)
      BY <2>0, <3>1 DEF End
    <3>2. ASSUME domain' = domain, NEW y, Become(x, y), y.id = x.id, y.step # "insertDomain"
          PROVE  Alone
      <4>1. running' = {y}
        BY <2>0, <3>2 DEF Become
      <4>2. x.step # "insertDomain"
        BY <1>3, <2>2
        DEF Step, InsertDomain, CreateIdentity, ListIdentities, InsertIdentity, LinkOwner,
            LinkClaim, Schedule, Challenge, RecordOwnership, UnlinkOthers, ListTransfer,
            Unlink, ActivateKept, RemoveAtVendor, RemoveRow, Removed, DropDomain
      <4>3. Current(x)
        BY <4>2 DEF OneAtATime
      <4>. QED BY <3>2, <4>1, <4>3 DEF Current
    <3>. QED BY <1>3, <2>2, <3>1, <3>2, Moves
  <2>. QED BY <2>1, <2>2
<1>4. ASSUME UNCHANGED <<running, domain>> PROVE Alone
  BY <1>4 DEF OneAtATime, Current
<1>5. ASSUME NEW x \in running, Fail(x) PROVE FALSE
  BY <1>5 DEF Fail, Sequential
<1>6. ASSUME \/ \E o \in Projects : Publish(o) \/ Retract(o)
             \/ AcceptDelivery \/ UNCHANGED vars
      PROVE  Alone
  BY <1>4, <1>6 DEF Publish, Retract, AcceptDelivery, ledger, vars
<1>. HIDE DEF Alone
<1>7. ASSUME \E x \in running : Step(x) \/ Fail(x) PROVE Alone
  BY <1>3, <1>5, <1>7
<1>8. ASSUME \E o \in Projects : Starts(o) PROVE Alone
  BY <1>2, <1>8
<1>9. Alone
  BY <1>6, <1>7, <1>8 DEF Next
<1>. QED BY <1>9 DEF Alone

-----------------------------------------------------------------------------
(* Who owns the Domain, where nothing overlaps, nothing fails, and no      *)
(* owner was ever demoted.                                                 *)

\* A link is a row.
LEMMA LinkIsARow ==
  ASSUME NEW v \in BOOLEAN, NEW p \in Providers \cup {None}
  PROVE  [verified |-> v, pending |-> p] # None
  BY LinkAssumption DEF Link

\* What is left to do when links and owners are as they were.
LEMMA SameOwners ==
  ASSUME Ownership, UNCHANGED link,
         ~ \E x \in running : x.step = "unlinkOthers",
         \A y \in running' :
            /\ y.kind = "create" => Owners = {}
            /\ y.step \in {"challenge", "record"} =>
                 y.project \in Linked /\ y.provider = link[y.project].pending
            /\ y.step = "unlinkOthers" => y.project \in Owners
  PROVE  Ownership'
<1>1. Linked' = Linked /\ Owners' = Owners
  BY DEF Linked, Owners
<1>. QED BY <1>1 DEF Ownership

\* A start finds the owners as they are.
LEMMA StartsKeepOwners ==
  ASSUME TypeOK, Rows, Sequential, Ownership, NEW o \in Projects, Starts(o)
  PROVE  Ownership'
<1>1. ASSUME NEW kind, NEW step, NEW provider, NEW flag, NEW todo, UNCHANGED link,
             MayStart, Start(o, kind, step, provider, flag, todo),
             kind = "create" => Owners = {},
             step \in {"challenge", "record"} => o \in Linked /\ provider = link[o].pending,
             step # "unlinkOthers"
      PROVE  Ownership'
  BY <1>1, StartAlone, SameOwners
<1>2. ASSUME NEW p \in Providers, StartCreate(o, p) PROVE Ownership'
  <2>1. domain = None => Owners = {}
    BY DEF Owners, Rows
  <2>. QED BY <1>1, <1>2, <2>1 DEF StartCreate
<1>3. ASSUME StartJob(o) PROVE Ownership'
  <2>1. CASE domain # None /\ o \in Linked
    BY <1>1, <1>3, <2>1 DEF StartJob
  <2>2. CASE ~(domain # None /\ o \in Linked)
    BY <1>3, <2>2 DEF StartJob, Ownership, Linked, Owners
  <2>. QED BY <2>1, <2>2
<1>4. ASSUME StartRefresh(o) PROVE Ownership'
  BY <1>1, <1>4 DEF StartRefresh
<1>5. ASSUME StartDelete(o) PROVE Ownership'
  BY <1>1, <1>5 DEF StartDelete
<1>. QED BY <1>2, <1>3, <1>4, <1>5 DEF Starts

\* A step of the one operation at work: it is the whole of what follows.
LEMMA StepKeepsOwners ==
  ASSUME TypeOK, Rows, Sequential, OneAtATime, Ownership, ~demoted', NEW x \in running, Step(x)
  PROVE  Ownership'
<1>x. /\ x \in Operation /\ running = {x}
      /\ x.project \in Projects /\ x.provider \in Providers \cup {None}
      /\ x.flag \in BOOLEAN
      /\ x.step # "insertDomain" => Current(x)
      /\ x.kind = "create" => Owners = {}
      /\ x.step = "linkOwner" => x.kind = "create"
      /\ x.step = "linkClaim" => x.kind = "claim" /\ x.provider \in Providers
      /\ x.step \in {"challenge", "record"} =>
           x.project \in Linked /\ x.provider = link[x.project].pending
      /\ x.step \in {"challenge", "record", "unlinkOthers", "listTransfer"} =>
           x.kind \in {"job", "refresh"}
      /\ x.step = "unlinkOthers" => x.project \in Owners
  BY DEF TypeOK, Operation, OneAtATime, Ownership, Rows, Founded
<1>e. ASSUME End(x), UNCHANGED link, x.step # "unlinkOthers" PROVE Ownership'
  BY <1>x, <1>e, SameOwners DEF End
<1>b. ASSUME NEW y, Become(x, y), UNCHANGED link, x.step # "unlinkOthers",
             y.kind = x.kind,
             y.step \in {"challenge", "record"} =>
               y.project \in Linked /\ y.provider = link[y.project].pending,
             y.step # "unlinkOthers"
      PROVE  Ownership'
  BY <1>x, <1>b, SameOwners DEF Become
<1>a. ASSUME NEW step, Advance(x, step), UNCHANGED link, x.step # "unlinkOthers",
             step \notin {"challenge", "record", "unlinkOthers"}
      PROVE  Ownership'
  <2>1. PICK y : y = [x EXCEPT !.step = step]
    OBVIOUS
  <2>2. y.step = step /\ y.kind = x.kind
    BY <1>x, <2>1 DEF Operation
  <2>. QED BY <1>a, <1>b, <2>1, <2>2 DEF Advance
<1>n. ASSUME Linked' = {} \/ (Linked' = {x.project} /\ x.project \in Owners'), running' = {}
      PROVE  Ownership'
  BY <1>n DEF Ownership, Owners
<1>1. ASSUME InsertDomain(x) PROVE Ownership'
  <2>1. PICK y : y = [x EXCEPT !.step = "createIdentity", !.id = inserted + 1]
    OBVIOUS
  <2>2. y.step = "createIdentity" /\ y.kind = x.kind
    BY <1>x, <2>1 DEF Operation
  <2>. QED BY <1>1, <1>e, <1>b, <2>1, <2>2 DEF InsertDomain
<1>2. ASSUME CreateIdentity(x) PROVE Ownership'
  BY <1>2, <1>a DEF CreateIdentity
<1>3. ASSUME ListIdentities(x) PROVE Ownership'
  <2>1. PICK y : y = [x EXCEPT !.step = "insertIdentity",
                               !.flag = \E p \in Providers : active[p] = TRUE]
    OBVIOUS
  <2>2. y.step = "insertIdentity" /\ y.kind = x.kind
    BY <1>x, <2>1 DEF Operation
  <2>. QED BY <1>3, <1>e, <1>b, <2>1, <2>2 DEF ListIdentities
<1>4. ASSUME InsertIdentity(x) PROVE Ownership'
  BY <1>4, <1>a, <1>e DEF InsertIdentity
<1>5. ASSUME LinkOwner(x) PROVE Ownership'
  <2>1. CASE x.project \notin Linked
    <3>1. running' = {} /\ SetLink(x.project, [verified |-> TRUE, pending |-> None])
      BY <1>5, <1>x, <2>1 DEF LinkOwner, End
    <3>2. /\ Linked' = Linked \cup {x.project} /\ Owners' = {x.project}
          /\ \A o \in Linked : link'[o] = link[o]
      <4>1. /\ link'[x.project] = [verified |-> TRUE, pending |-> None]
            /\ \A o \in Projects \ {x.project} : link'[o] = link[o]
        BY <3>1, <1>x DEF SetLink, TypeOK
      <4>2. [verified |-> TRUE, pending |-> None] # None
        BY LinkIsARow
      <4>3. Owners = {}
        BY <1>5, <1>x DEF LinkOwner
      <4>. QED BY <2>1, <4>1, <4>2, <4>3, <1>x DEF Linked, Owners
    <3>3. link'[x.project].verified
      BY <3>1, <1>x DEF SetLink, TypeOK
    <3>. QED BY <3>1, <3>2, <3>3 DEF Ownership
  <2>2. CASE x.project \in Linked
    BY <1>5, <1>x, <1>e, <2>2 DEF LinkOwner
  <2>. QED BY <2>1, <2>2
<1>6. ASSUME LinkClaim(x) PROVE Ownership'
  <2>1. CASE Current(x) /\ x.project \notin Linked
    <3>1. PICK y : y = [x EXCEPT !.step = IF x.flag THEN "schedule" ELSE "createIdentity"]
      OBVIOUS
    <3>2. /\ running' = {y} /\ y.step \in {"schedule", "createIdentity"} /\ y.kind = "claim"
      BY <1>6, <1>x, <2>1, <3>1 DEF LinkClaim, Advance, Become, Operation
    <3>3. /\ link'[x.project] = [verified |-> FALSE, pending |-> x.provider]
          /\ \A o \in Projects \ {x.project} : link'[o] = link[o]
      BY <1>6, <1>x, <2>1 DEF LinkClaim, SetLink, TypeOK
    <3>4. [verified |-> FALSE, pending |-> x.provider] # None
      BY <1>x, LinkIsARow
    <3>5. Linked' = Linked \cup {x.project} /\ Owners' = Owners
      BY <1>x, <2>1, <3>3, <3>4 DEF Linked, Owners
    <3>6. x.provider # None
      BY <1>6, <1>x, CustomDomainAssumption DEF LinkClaim
    <3>7. \A o \in Linked' : link'[o].verified \/ link'[o].pending # None
      BY <2>1, <3>3, <3>5, <3>6 DEF Ownership, Linked
    <3>8. \A o1, o2 \in Owners : o1 = o2
      BY <1>6, <1>x DEF Ownership, LinkClaim
    <3>. QED BY <3>2, <3>5, <3>7, <3>8 DEF Ownership
  <2>2. CASE ~(Current(x) /\ x.project \notin Linked)
    BY <1>6, <1>e, <2>2 DEF LinkClaim
  <2>. QED BY <2>1, <2>2
<1>7. ASSUME Schedule(x) PROVE Ownership'
  BY <1>7, <1>e DEF Schedule
<1>8. ASSUME Challenge(x) PROVE Ownership'
  <2>1. PICK y : y = [x EXCEPT !.step = "record", !.flag = x.project \in published]
    OBVIOUS
  <2>2. /\ y.step = "record" /\ y.kind = x.kind
        /\ y.project = x.project /\ y.provider = x.provider
    BY <1>x, <2>1 DEF Operation
  <2>. QED BY <1>8, <1>x, <1>b, <2>1, <2>2 DEF Challenge
<1>9. ASSUME RecordOwnership(x) PROVE Ownership'
  <2>0. /\ Current(x) /\ x.project \in Linked /\ x.provider = link[x.project].pending
        /\ \A o1, o2 \in Owners : o1 = o2
    BY <1>9, <1>x DEF RecordOwnership, Ownership
  <2>1. /\ link'[x.project] = [verified |-> x.flag,
                               pending |-> IF x.flag THEN None ELSE x.provider]
        /\ \A o \in Projects \ {x.project} : link'[o] = link[o]
    BY <1>9, <1>x, <2>0 DEF RecordOwnership, SetLink, TypeOK
  <2>2. link'[x.project] # None
    BY <1>x, <2>1, LinkAssumption DEF Link
  <2>3. Linked' = Linked
    BY <1>x, <2>0, <2>1, <2>2 DEF Linked
  <2>4. /\ link'[x.project].verified = x.flag
        /\ link'[x.project].pending = IF x.flag THEN None ELSE x.provider
    BY <2>1
  <2>5. ~x.flag => x.project \notin Owners
    BY <1>9, <2>0 DEF RecordOwnership
  <2>6. \A o \in Linked' : link'[o].verified \/ link'[o].pending # None
    <3>1. ASSUME ~x.flag PROVE x.provider # None
      BY <2>0, <2>5, <3>1 DEF Ownership, Owners
    <3>2. ASSUME NEW o \in Linked', o # x.project
          PROVE  link'[o].verified \/ link'[o].pending # None
      BY <2>1, <2>3, <3>2 DEF Ownership, Linked
    <3>. QED BY <2>4, <3>1, <3>2
  <2>7. CASE x.flag /\ x.provider # None
    <3>1. PICK y : y = [x EXCEPT !.step = "unlinkOthers"]
      OBVIOUS
    <3>2. running' = {y} /\ y.step = "unlinkOthers" /\ y.project = x.project /\ y.kind = x.kind
      BY <1>9, <1>x, <2>7, <3>1 DEF RecordOwnership, Advance, Become, Operation
    <3>3. x.project \in Owners'
      BY <2>0, <2>3, <2>4, <2>7 DEF Owners
    <3>4. x.kind # "create"
      BY <1>9, <1>x DEF RecordOwnership
    <3>. QED BY <2>6, <3>2, <3>3, <3>4 DEF Ownership
  <2>8. CASE ~(x.flag /\ x.provider # None)
    <3>1. running' = {}
      BY <1>9, <1>x, <2>8 DEF RecordOwnership, Settle, End
    <3>2. Owners' = Owners
      <4>1. ASSUME x.flag PROVE x.project \in Owners
        BY <2>0, <2>8, <4>1 DEF Ownership, Owners
      <4>. QED BY <1>x, <2>0, <2>1, <2>3, <2>4, <2>5, <4>1 DEF Owners, Linked
    <3>. QED BY <2>0, <2>6, <3>1, <3>2 DEF Ownership
  <2>. QED BY <2>7, <2>8
<1>10. ASSUME UnlinkOthers(x) PROVE Ownership'
  <2>1. Current(x) /\ x.project \in Owners
    BY <1>10, <1>x DEF UnlinkOthers
  <2>2. link' = [o \in Projects |-> IF o = x.project THEN link[o] ELSE None]
    BY <1>10, <2>1 DEF UnlinkOthers
  <2>3. link'[x.project] = link[x.project] /\ Linked' = {x.project} /\ Owners' = {x.project}
    BY <1>x, <2>1, <2>2 DEF Linked, Owners
  <2>4. PICK y : y = [x EXCEPT !.step = "listTransfer"]
    OBVIOUS
  <2>5. running' = {y} /\ y.step = "listTransfer" /\ y.kind = x.kind
    BY <1>10, <1>x, <2>4 DEF UnlinkOthers, Advance, Become, Operation
  <2>6. y.kind # "create"
    BY <1>10, <1>x, <2>5 DEF UnlinkOthers
  <2>7. link'[x.project].verified
    BY <2>1, <2>3 DEF Owners
  <2>. QED BY <2>3, <2>5, <2>6, <2>7 DEF Ownership
<1>11. ASSUME ListTransfer(x) PROVE Ownership'
  <2>1. PICK y : y = [x EXCEPT !.step = "remove", !.todo = IF Current(x) THEN Identities ELSE {}]
    OBVIOUS
  <2>2. y.step = "remove" /\ y.kind = x.kind
    BY <1>x, <2>1 DEF Operation
  <2>. QED BY <1>11, <1>b, <2>1, <2>2 DEF ListTransfer
<1>12. ASSUME Unlink(x) PROVE Ownership'
  <2>1. Current(x) /\ x.step = "unlink" /\ \A o1, o2 \in Owners : o1 = o2
    BY <1>12, <1>x DEF Unlink, Ownership
  <2>2. /\ link'[x.project] = None
        /\ \A o \in Projects \ {x.project} : link'[o] = link[o]
    BY <1>12, <1>x, <2>1 DEF Unlink, SetLink, TypeOK
  <2>3. /\ Linked' \subseteq Linked /\ Owners' \subseteq Owners
        /\ \A o \in Linked' : link'[o] = link[o]
    BY <1>x, <2>2 DEF Linked, Owners
  <2>4. PICK y : y = [x EXCEPT !.step = "remove"]
    OBVIOUS
  <2>5. running' \subseteq {y} /\ y.step = "remove" /\ y.kind = x.kind
    BY <1>12, <1>x, <2>4 DEF Unlink, Advance, Become, End, Operation
  <2>6. y.kind = "create" => Owners' = {}
    BY <1>x, <2>3, <2>5
  <2>. QED BY <2>1, <2>3, <2>5, <2>6 DEF Ownership
<1>13. ASSUME ActivateKept(x) PROVE Ownership'
  <2>1. PICK y : y = [x EXCEPT !.todo = @ \ {x.provider}]
    OBVIOUS
  <2>2. y.step = x.step /\ y.kind = x.kind
    BY <1>x, <2>1 DEF Operation
  <2>. QED BY <1>13, <1>b, <2>1, <2>2 DEF ActivateKept
<1>14. ASSUME NEW p \in Providers, RemoveAtVendor(x, p) PROVE Ownership'
  <2>1. PICK y : y = [x EXCEPT !.step = "removeRow", !.current = p, !.todo = @ \ {p}]
    OBVIOUS
  <2>2. y.step = "removeRow" /\ y.kind = x.kind
    BY <1>x, <2>1 DEF Operation
  <2>. QED BY <1>14, <1>b, <2>1, <2>2 DEF RemoveAtVendor
<1>15. ASSUME RemoveRow(x) PROVE Ownership'
  <2>1. PICK y : y = [x EXCEPT !.step = "remove", !.current = None]
    OBVIOUS
  <2>2. y.step = "remove" /\ y.kind = x.kind
    BY <1>x, <2>1 DEF Operation
  <2>. QED BY <1>15, <1>b, <2>1, <2>2 DEF RemoveRow
<1>16. ASSUME Removed(x) PROVE Ownership'
  BY <1>16, <1>a, <1>e DEF Removed, Settle
<1>17. ASSUME DropDomain(x) PROVE Ownership'
  <2>1. running' = {}
    BY <1>17, <1>x DEF DropDomain, End
  <2>2. CASE Current(x) /\ domain \notin used
    BY <1>17, <1>n, <2>1, <2>2 DEF DropDomain, Linked
  <2>3. CASE ~(Current(x) /\ domain \notin used)
    BY <1>17, <1>e, <2>3 DEF DropDomain
  <2>. QED BY <2>2, <2>3
<1>. QED
  BY <1>1, <1>2, <1>3, <1>4, <1>5, <1>6, <1>7, <1>8, <1>9, <1>10, <1>11, <1>12, <1>13,
     <1>14, <1>15, <1>16, <1>17 DEF Step

\* Who owns the Domain, in every step.
LEMMA OwnershipStep ==
  TypeOK /\ Rows /\ OneAtATime /\ OwnershipInv /\ [Next]_vars => OwnershipInv'
<1>. SUFFICES ASSUME TypeOK, Rows, OneAtATime, OwnershipInv, [Next]_vars,
                     Sequential, ~demoted'
              PROVE  Ownership'
  BY ModeKept DEF OwnershipInv
<1>0. ~demoted
  <2>1. ASSUME NEW x, Step(x), demoted PROVE demoted'
    BY <2>1 DEF Step, InsertDomain, CreateIdentity, ListIdentities, InsertIdentity, LinkOwner,
                LinkClaim, Schedule, Challenge, RecordOwnership, UnlinkOthers, ListTransfer,
                Unlink, ActivateKept, RemoveAtVendor, RemoveRow, Removed, DropDomain, ledger
  <2>2. ASSUME NEW o \in Projects, Starts(o), demoted PROVE demoted'
    BY <2>2 DEF Starts, StartCreate, StartJob, StartRefresh, StartDelete, ledger
  <2>. QED BY <2>1, <2>2 DEF Next, Fail, Publish, Retract, AcceptDelivery, ledger, vars
<1>1. Ownership
  BY <1>0 DEF OwnershipInv
<1>2. ASSUME NEW o \in Projects, Starts(o) PROVE Ownership'
  BY <1>1, <1>2, StartsKeepOwners
<1>3. ASSUME NEW x \in running, Step(x) PROVE Ownership'
  BY <1>1, <1>3, StepKeepsOwners
<1>4. ASSUME NEW x \in running, Fail(x) PROVE FALSE
  BY <1>4 DEF Fail, Sequential
<1>5. ASSUME UNCHANGED <<link, running>> PROVE Ownership'
  BY <1>1, <1>5 DEF Ownership, Linked, Owners
<1>6. CASE \/ \E o \in Projects : Publish(o) \/ Retract(o)
           \/ AcceptDelivery \/ UNCHANGED vars
  BY <1>5, <1>6 DEF Publish, Retract, AcceptDelivery, ledger, vars
<1>. QED BY <1>2, <1>3, <1>4, <1>6 DEF Next

-----------------------------------------------------------------------------
(* The identities and the Providers, where nothing overlaps, nothing fails *)
(* and nothing is delivered.                                               *)

\* A step that touches neither rows nor Providers.
LEMMA RestKept ==
  ASSUME UNCHANGED <<domain, link, active, vendor>>
  PROVE  /\ Linked' = Linked /\ Identities' = Identities /\ ActiveOnes' = ActiveOnes
         /\ (Agree' <=> Agree) /\ (Backed' <=> Backed) /\ (AtRest' <=> AtRest)
<1>1. Linked' = Linked /\ Identities' = Identities /\ ActiveOnes' = ActiveOnes
  BY DEF Linked, Identities, ActiveOnes
<1>2. Agree' <=> Agree
  BY <1>1 DEF Agree
<1>3. Backed' <=> Backed
  BY <1>1 DEF Backed
<1>. QED BY <1>1, <1>2, <1>3 DEF AtRest

\* A Domain that is held and whose rows agree is at rest.
LEMMA HeldIsAtRest == ASSUME Agree', Backed', Linked' # {} PROVE AtRest'
  BY DEF Agree, AtRest

\* An operation that starts relies on the Domain at rest.
LEMMA StartsKeepIdentities ==
  ASSUME TypeOK, Rows, Sequential, Quiet, NEW o \in Projects, Starts(o)
  PROVE  Quiet'
<1>1. ASSUME NEW kind, NEW step, NEW provider, NEW flag, NEW todo,
             MayStart, Start(o, kind, step, provider, flag, todo),
             UNCHANGED <<used, domain, link, active, vendor>>
      PROVE  /\ running = {} /\ AtRest
             /\ \E y : /\ y.project = o /\ y.kind = kind /\ y.step = step
                       /\ y.provider = provider /\ y.flag = flag /\ y.todo = todo
                       /\ Midway(y) => Quiet'
  <2>1. running = {} /\ AtRest
    BY <1>1, StartAlone DEF Quiet
  <2>2. PICK y : /\ running' = {y} /\ y.project = o /\ y.kind = kind /\ y.step = step
                 /\ y.id = domain /\ y.provider = provider /\ y.flag = flag
                 /\ y.todo = todo /\ y.current = None
    BY <1>1, StartAlone
  <2>3. Midway(y)' <=> Midway(y)
    BY <1>1, RestKept DEF Midway
  <2>. QED BY <1>1, <2>1, <2>2, <2>3 DEF Quiet
<1>2. ASSUME NEW p \in Providers, StartCreate(o, p) PROVE Quiet'
  <2>0. UNCHANGED <<used, domain, link, active, vendor>> /\ MayStart
    BY <1>2 DEF StartCreate, ledger
  <2>1. CASE domain = None /\ Start(o, "create", "insertDomain", p, FALSE, {})
    <3>0. PICK flag : flag = FALSE
      OBVIOUS
    <3>s. Start(o, "create", "insertDomain", p, flag, {})
      BY <2>1, <3>0
    <3>1. PICK y : y.step = "insertDomain" /\ (Midway(y) => Quiet')
      BY <1>1, <2>0, <3>s
    <3>2. Midway(y)
      BY <1>1, <2>0, <2>1, <3>s, <3>1 DEF Midway, AtRest
    <3>. QED BY <3>1, <3>2
  <2>2. CASE domain # None /\ Start(o, "create", "linkOwner", p, FALSE, {})
    <3>0. PICK flag : flag = FALSE
      OBVIOUS
    <3>s. Start(o, "create", "linkOwner", p, flag, {})
      BY <2>2, <3>0
    <3>1. PICK y : y.step = "linkOwner" /\ (Midway(y) => Quiet')
      BY <1>1, <2>0, <3>s
    <3>2. Midway(y)
      BY <1>1, <2>0, <2>2, <3>s, <3>1 DEF Midway, AtRest
    <3>. QED BY <3>1, <3>2
  <2>3. CASE domain # None /\ Start(o, "claim", "linkClaim", p, p \in Identities, {})
    <3>1. PICK flag \in BOOLEAN : flag = (p \in Identities)
      BY (p \in Identities) \in BOOLEAN
    <3>2. Start(o, "claim", "linkClaim", p, flag, {})
      BY <2>3, <3>1
    <3>3. PICK y : /\ y.step = "linkClaim" /\ y.provider = p /\ y.flag = flag
                   /\ Midway(y) => Quiet'
      BY <1>1, <2>0, <3>2
    <3>4. Midway(y)
      BY <1>1, <2>0, <2>3, <3>1, <3>2, <3>3 DEF Midway, AtRest
    <3>. QED BY <3>3, <3>4
  <2>. QED BY <1>2, <2>1, <2>2, <2>3 DEF StartCreate
<1>3. ASSUME NEW kind, MayStart, Start(o, kind, "challenge", link[o].pending, FALSE, {}),
             UNCHANGED <<used, domain, link, active, vendor>>, domain # None, o \in Linked
      PROVE  Quiet'
  <2>1. PICK y : /\ y.project = o /\ y.step = "challenge" /\ y.provider = link[o].pending
                 /\ Midway(y) => Quiet'
    <3>1. PICK flag : flag = FALSE
      OBVIOUS
    <3>2. Start(o, kind, "challenge", link[o].pending, flag, {})
      BY <1>3, <3>1
    <3>. QED BY <1>1, <1>3, <3>2
  <2>2. AtRest
    BY <1>3 DEF Quiet, Sequential, MayStart
  <2>3. Midway(y)
    BY <1>3, <2>1, <2>2 DEF Midway, AtRest, Backed
  <2>. QED BY <2>1, <2>3
<1>4. ASSUME StartJob(o) PROVE Quiet'
  <2>1. CASE domain # None /\ o \in Linked
    BY <1>3, <1>4, <2>1 DEF StartJob, ledger
  <2>2. CASE ~(domain # None /\ o \in Linked)
    <3>1. running = {} /\ UNCHANGED <<used, running, domain, link, active, vendor>>
      BY <1>4, <2>2 DEF StartJob, ledger, MayStart, Sequential
    <3>. QED BY <3>1, RestKept DEF Quiet
  <2>. QED BY <2>1, <2>2
<1>5. ASSUME StartRefresh(o) PROVE Quiet'
  BY <1>3, <1>5 DEF StartRefresh, ledger, Rows
<1>6. ASSUME StartDelete(o) PROVE Quiet'
  <2>1. PICK flag \in BOOLEAN : flag = (Linked # {o})
    BY (Linked # {o}) \in BOOLEAN
  <2>2. Start(o, "delete", "unlink", None, flag, Identities)
    BY <1>6, <2>1 DEF StartDelete
  <2>3. domain # None /\ UNCHANGED <<used, domain, link, active, vendor>> /\ MayStart /\ o \in Linked
    BY <1>6 DEF StartDelete, ledger, Rows
  <2>4. PICK y : /\ y.project = o /\ y.step = "unlink" /\ y.flag = flag
                 /\ y.todo = Identities /\ (Midway(y) => Quiet')
    BY <1>1, <2>2, <2>3
  <2>5. AtRest
    BY <1>1, <2>2, <2>3
  <2>6. Midway(y)
    BY <2>1, <2>3, <2>4, <2>5 DEF Midway, AtRest
  <2>. QED BY <2>4, <2>6
<1>. QED BY <1>2, <1>4, <1>5, <1>6 DEF Starts

\* A step leaves what the next one relies on, and the last one leaves the
\* Domain at rest.
LEMMA StepKeepsIdentities ==
  ASSUME TypeOK, Rows, Sequential, OneAtATime, Quiet, NEW x \in running, Step(x)
  PROVE  Quiet'
<1>x. /\ x \in Operation /\ running = {x} /\ Midway(x) /\ used = {}
      /\ x.project \in Projects /\ x.provider \in Providers \cup {None}
      /\ x.flag \in BOOLEAN /\ x.current \in Providers \cup {None}
      /\ x.todo \subseteq Providers
      /\ x.step # "insertDomain" => Current(x)
      /\ domain = None => Linked = {} /\ Identities = {}
      /\ None \notin Providers
  BY CustomDomainAssumption DEF TypeOK, Operation, OneAtATime, Quiet, Rows
<1>f. Founded(x)
  BY DEF Rows
<1>e. ASSUME End(x), UNCHANGED used, AtRest' PROVE Quiet'
  BY <1>e, <1>x DEF End, Quiet
<1>b. ASSUME NEW y, Become(x, y), UNCHANGED used, Midway(y)' PROVE Quiet'
  BY <1>b, <1>x DEF Become, Quiet
<1>a. ASSUME NEW step, Advance(x, step), UNCHANGED used,
             \A y : (/\ y.step = step /\ y.kind = x.kind /\ y.project = x.project
                     /\ y.provider = x.provider /\ y.flag = x.flag /\ y.todo = x.todo
                     /\ y.current = x.current) => Midway(y)'
      PROVE  Quiet'
  <2>1. PICK y : y = [x EXCEPT !.step = step]
    OBVIOUS
  <2>2. /\ y.step = step /\ y.kind = x.kind /\ y.project = x.project
        /\ y.provider = x.provider /\ y.flag = x.flag /\ y.todo = x.todo
        /\ y.current = x.current
    BY <1>x, <2>1 DEF Operation
  <2>3. Midway(y)'
    BY <1>a, <2>2
  <2>. QED BY <1>a, <1>b, <2>1, <2>3 DEF Advance
<1>1. ASSUME InsertDomain(x) PROVE Quiet'
  <2>1. domain = None /\ vendor = {}
    BY <1>1, <1>x DEF InsertDomain, Midway
  <2>2. CASE End(x) /\ UNCHANGED <<domain, inserted>>
    BY <1>1, <1>e, <2>1, <2>2 DEF InsertDomain, AtRest
  <2>3. CASE /\ domain = None /\ inserted < MaxDomains
             /\ inserted' = inserted + 1 /\ domain' = inserted + 1
             /\ Become(x, [x EXCEPT !.step = "createIdentity", !.id = inserted + 1])
    <3>1. PICK y : y = [x EXCEPT !.step = "createIdentity", !.id = inserted + 1]
      OBVIOUS
    <3>2. y.step = "createIdentity" /\ y.kind = "create" /\ y.provider \in Providers
      BY <1>1, <1>x, <1>f, <3>1 DEF InsertDomain, Founded, Operation
    <3>3. Linked' = {} /\ Identities' = {} /\ vendor' = {}
      BY <1>1, <1>x, <2>1 DEF InsertDomain, Linked, Identities
    <3>4. Midway(y)'
      BY <3>2, <3>3 DEF Midway
    <3>. QED BY <1>1, <1>b, <2>3, <3>1, <3>4 DEF InsertDomain
  <2>. QED BY <1>1, <2>2, <2>3 DEF InsertDomain
<1>2. ASSUME CreateIdentity(x) PROVE Quiet'
  <2>1. UNCHANGED <<used, link, active>> /\ vendor' = vendor \cup {x.provider}
        /\ x.step = "createIdentity" /\ Advance(x, "listIdentities")
    BY <1>2 DEF CreateIdentity, ledger
  <2>2. Linked' = Linked /\ Identities' = Identities /\ ActiveOnes' = ActiveOnes
    BY <2>1 DEF Linked, Identities, ActiveOnes
  <2>. QED BY <1>x, <1>a, <2>1, <2>2 DEF Midway
<1>3. ASSUME ListIdentities(x) PROVE Quiet'
  <2>0. Current(x) /\ x.step = "listIdentities" /\ UNCHANGED <<used, domain, link, active, vendor>>
    BY <1>3, <1>x DEF ListIdentities, ledger
  <2>1. PICK flag \in BOOLEAN : flag = (\E p \in Providers : active[p] = TRUE)
    OBVIOUS
  <2>2. PICK y : y = [x EXCEPT !.step = "insertIdentity", !.flag = flag]
    OBVIOUS
  <2>3. /\ y.step = "insertIdentity" /\ y.kind = x.kind /\ y.flag = flag
        /\ y.provider = x.provider
    BY <1>x, <2>2 DEF Operation
  <2>4. flag <=> x.kind = "claim"
    <3>1. x.kind \in {"create", "claim"}
      BY <1>f, <2>0 DEF Founded
    <3>2. x.kind = "create" => ~ \E p \in Providers : active[p] = TRUE
      <4>. TRUE # None
        BY CustomDomainAssumption
      <4>. QED BY <1>x, <2>0 DEF Midway, Identities
    <3>3. x.kind = "claim" => \E p \in Providers : active[p] = TRUE
      BY <1>x, <2>0 DEF Midway, ActiveOnes
    <3>. QED BY <2>1, <3>1, <3>2, <3>3
  <2>5. Midway(y)'
    BY <1>x, <2>0, <2>3, <2>4, RestKept DEF Midway
  <2>. QED BY <1>3, <1>b, <2>0, <2>1, <2>2, <2>5 DEF ListIdentities
<1>4. ASSUME InsertIdentity(x) PROVE Quiet'
  <2>0. Current(x) /\ x.step = "insertIdentity" /\ UNCHANGED <<used, domain, link, vendor>>
    BY <1>4, <1>x DEF InsertIdentity, ledger
  <2>1. x.provider \in Providers \ Identities /\ vendor = Identities \cup {x.provider}
    BY <1>x, <2>0 DEF Midway
  <2>2. /\ active' = [active EXCEPT ![x.provider] = ~x.flag]
        /\ Advance(x, IF x.kind = "claim" THEN "schedule" ELSE "linkOwner")
    BY <1>4, <2>0, <2>1 DEF InsertIdentity
  <2>3. Identities' = Identities \cup {x.provider} /\ Linked' = Linked
    <3>. (~x.flag) # None
      BY CustomDomainAssumption
    <3>. QED BY <2>0, <2>1, <2>2 DEF Identities, Linked, TypeOK
  <2>4. CASE x.kind = "claim"
    <3>1. x.flag /\ (\E p \in Providers : ActiveOnes = {p}) /\ Linked # {}
          /\ \A o \in Linked : link[o].pending \in Identities \cup {None, x.provider}
      BY <1>x, <2>0, <2>4 DEF Midway
    <3>2. ActiveOnes' = ActiveOnes
      <4>1. active[x.provider] = None
        BY <2>1 DEF Identities
      <4>2. TRUE # None /\ TRUE # FALSE
        BY CustomDomainAssumption
      <4>. QED BY <1>x, <2>2, <3>1, <4>1, <4>2 DEF ActiveOnes, TypeOK
    <3>3. Agree' /\ Backed' /\ Linked' # {}
      BY <2>0, <2>1, <2>3, <3>1, <3>2 DEF Agree, Backed, Current
    <3>. QED BY <1>a, <2>0, <2>2, <2>4, <3>3 DEF Midway
  <2>5. CASE x.kind # "claim"
    <3>1. ~x.flag /\ Identities = {} /\ Linked = {}
      BY <1>x, <1>f, <2>0, <2>5 DEF Midway, Founded
    <3>2. ActiveOnes' = {x.provider}
      <4>1. \A p \in Providers : active[p] = None
        BY <3>1 DEF Identities
      <4>2. TRUE # None
        BY CustomDomainAssumption
      <4>. QED BY <1>x, <2>1, <2>2, <3>1, <4>1, <4>2 DEF ActiveOnes, TypeOK
    <3>3. Agree' /\ Backed'
      BY <2>0, <2>1, <2>3, <3>1, <3>2 DEF Agree, Backed, Current
    <3>. QED BY <1>a, <2>0, <2>2, <2>5, <3>3 DEF Midway
  <2>. QED BY <2>4, <2>5
<1>5. ASSUME LinkOwner(x) PROVE Quiet'
  <2>0. /\ Current(x) /\ UNCHANGED <<used, domain, active, vendor>> /\ End(x)
        /\ Agree /\ Backed
    BY <1>5, <1>x DEF LinkOwner, ledger, Midway
  <2>1. Identities' = Identities /\ ActiveOnes' = ActiveOnes /\ Agree'
    BY <2>0 DEF Identities, ActiveOnes, Agree
  <2>2. CASE x.project \in Linked
    <3>1. UNCHANGED link
      BY <1>5, <2>2 DEF LinkOwner
    <3>. QED BY <1>e, <2>0, <2>2, <3>1, RestKept, HeldIsAtRest
  <2>3. CASE x.project \notin Linked
    <3>1. /\ link'[x.project] = [verified |-> TRUE, pending |-> None]
          /\ \A o \in Projects \ {x.project} : link'[o] = link[o]
      BY <1>5, <1>x, <2>0, <2>3 DEF LinkOwner, SetLink, TypeOK
    <3>2. link'[x.project] # None /\ link'[x.project].pending = None
      <4>1. [verified |-> TRUE, pending |-> None] # None
        BY LinkIsARow
      <4>. QED BY <3>1, <4>1
    <3>3. Linked' # {} /\ Backed'
      BY <1>x, <2>0, <2>1, <3>1, <3>2 DEF Linked, Backed
    <3>. QED BY <1>e, <2>0, <2>1, <3>3, HeldIsAtRest
  <2>. QED BY <2>2, <2>3
<1>6. ASSUME LinkClaim(x) PROVE Quiet'
  <2>0. /\ Current(x) /\ x.step = "linkClaim" /\ UNCHANGED <<used, domain, active, vendor>>
        /\ Agree /\ Backed /\ Linked # {}
        /\ x.provider \in Providers /\ (x.flag <=> x.provider \in Identities)
    BY <1>6, <1>x DEF LinkClaim, ledger, Midway
  <2>1. Identities' = Identities /\ ActiveOnes' = ActiveOnes /\ Agree'
    BY <2>0 DEF Identities, ActiveOnes, Agree
  <2>2. CASE x.project \in Linked
    <3>1. UNCHANGED link /\ End(x)
      BY <1>6, <2>2 DEF LinkClaim
    <3>. QED BY <1>e, <2>0, <2>2, <3>1, RestKept, HeldIsAtRest
  <2>3. CASE x.project \notin Linked
    <3>1. /\ link'[x.project] = [verified |-> FALSE, pending |-> x.provider]
          /\ \A o \in Projects \ {x.project} : link'[o] = link[o]
      BY <1>6, <1>x, <2>0, <2>3 DEF LinkClaim, SetLink, TypeOK
    <3>2. link'[x.project] # None /\ link'[x.project].pending = x.provider
      <4>1. [verified |-> FALSE, pending |-> x.provider] # None
        BY <1>x, LinkIsARow
      <4>. QED BY <3>1, <4>1
    <3>3. Linked' = Linked \cup {x.project}
      BY <1>x, <3>1, <3>2 DEF Linked
    <3>4. CASE x.flag
      <4>1. Backed'
        BY <2>0, <2>1, <3>1, <3>2, <3>3, <3>4 DEF Backed, Linked
      <4>2. Advance(x, "schedule")
        BY <1>6, <2>0, <2>3, <3>4 DEF LinkClaim
      <4>. QED BY <1>a, <2>0, <2>1, <3>3, <4>1, <4>2 DEF Midway
    <3>5. CASE ~x.flag
      <4>1. Advance(x, "createIdentity")
        BY <1>6, <2>0, <2>3, <3>5 DEF LinkClaim
      <4>2. \A o \in Linked' : link'[o].pending \in Identities' \cup {None, x.provider}
        BY <2>0, <2>1, <3>1, <3>2, <3>3 DEF Backed, Linked
      <4>3. x.kind = "claim"
        BY <1>f, <2>0 DEF Founded
      <4>4. vendor' = Identities' /\ \E p \in Providers : ActiveOnes' = {p}
        BY <2>1 DEF Agree
      <4>. QED BY <1>a, <2>0, <2>1, <3>3, <3>5, <4>1, <4>2, <4>3, <4>4 DEF Midway
    <3>. QED BY <3>4, <3>5
  <2>. QED BY <2>2, <2>3
<1>7. ASSUME Schedule(x) PROVE Quiet'
  <2>1. /\ UNCHANGED <<used, domain, link, active, vendor>> /\ End(x)
        /\ Agree /\ Backed /\ Linked # {}
    BY <1>7, <1>x DEF Schedule, ledger, Midway
  <2>. QED BY <1>e, <2>1, RestKept, HeldIsAtRest
<1>8. ASSUME Challenge(x) PROVE Quiet'
  <2>0. /\ UNCHANGED <<used, domain, link, active, vendor>>
        /\ Agree /\ Backed /\ x.project \in Linked
        /\ x.provider # None => x.provider \in Identities
    BY <1>8, <1>x DEF Challenge, ledger, Midway
  <2>1. PICK y : y = [x EXCEPT !.step = "record", !.flag = x.project \in published]
    OBVIOUS
  <2>2. y.step = "record" /\ y.project = x.project /\ y.provider = x.provider
    BY <1>x, <2>1 DEF Operation
  <2>3. Midway(y)'
    BY <2>0, <2>2, RestKept DEF Midway
  <2>. QED BY <1>8, <1>b, <2>0, <2>1, <2>3 DEF Challenge
<1>9. ASSUME RecordOwnership(x) PROVE Quiet'
  <2>0. /\ Current(x) /\ UNCHANGED <<used, domain, active, vendor>>
        /\ Agree /\ Backed /\ x.project \in Linked
        /\ x.provider # None => x.provider \in Identities
    BY <1>9, <1>x DEF RecordOwnership, Midway
  <2>1. Identities' = Identities /\ ActiveOnes' = ActiveOnes /\ Agree'
    BY <2>0 DEF Identities, ActiveOnes, Agree
  <2>2. /\ link'[x.project] = [verified |-> x.flag,
                               pending |-> IF x.flag THEN None ELSE x.provider]
        /\ \A o \in Projects \ {x.project} : link'[o] = link[o]
    BY <1>9, <1>x, <2>0 DEF RecordOwnership, SetLink, TypeOK
  <2>3. /\ link'[x.project] # None
        /\ link'[x.project].pending = IF x.flag THEN None ELSE x.provider
    BY <1>x, <2>2, LinkIsARow
  <2>4. Linked' = Linked
    BY <1>x, <2>0, <2>2, <2>3 DEF Linked
  <2>5. Backed'
    BY <2>0, <2>1, <2>2, <2>3, <2>4 DEF Backed, Linked
  <2>6. CASE x.flag /\ x.provider # None
    <3>1. Advance(x, "unlinkOthers")
      BY <1>9, <2>6 DEF RecordOwnership
    <3>. QED BY <1>a, <2>0, <2>1, <2>3, <2>4, <2>5, <2>6, <3>1 DEF Midway
  <2>7. CASE ~(x.flag /\ x.provider # None)
    <3>1. End(x)
      BY <1>9, <2>7 DEF RecordOwnership, Settle
    <3>2. AtRest'
      BY <2>0, <2>1, <2>4, <2>5, HeldIsAtRest
    <3>. QED BY <1>e, <2>0, <3>1, <3>2
  <2>. QED BY <2>6, <2>7
<1>10. ASSUME UnlinkOthers(x) PROVE Quiet'
  <2>0. /\ Current(x) /\ UNCHANGED <<used, domain, active, vendor>>
        /\ Agree /\ x.project \in Linked /\ link[x.project].pending = None
        /\ x.provider # None /\ x.provider \in Identities
        /\ Advance(x, "listTransfer")
    BY <1>10, <1>x DEF UnlinkOthers, ledger, Midway
  <2>1. Identities' = Identities /\ ActiveOnes' = ActiveOnes /\ Agree'
    BY <2>0 DEF Identities, ActiveOnes, Agree
  <2>2. link' = [o \in Projects |-> IF o = x.project THEN link[o] ELSE None]
    BY <1>10, <2>0 DEF UnlinkOthers
  <2>3. link'[x.project] = link[x.project] /\ Linked' = {x.project}
    BY <1>x, <2>0, <2>2 DEF Linked
  <2>. QED BY <1>a, <2>0, <2>1, <2>3 DEF Midway
<1>11. ASSUME ListTransfer(x) PROVE Quiet'
  <2>0. /\ Current(x) /\ UNCHANGED <<used, domain, link, active, vendor>>
        /\ Agree /\ Linked = {x.project} /\ link[x.project].pending = None
        /\ x.provider \in Identities
        /\ x.kind # "delete"
    BY <1>11, <1>x, <1>f DEF ListTransfer, ledger, Midway, Founded
  <2>1. PICK y : y = [x EXCEPT !.step = "remove", !.todo = Identities]
    OBVIOUS
  <2>2. /\ y.step = "remove" /\ y.project = x.project /\ y.provider = x.provider
        /\ y.kind = x.kind /\ y.todo = Identities
    BY <1>x, <2>1 DEF Operation
  <2>3. Midway(y)'
    BY <2>0, <2>2, RestKept DEF Midway, Agree
  <2>. QED BY <1>11, <1>b, <2>0, <2>1, <2>3 DEF ListTransfer
<1>12. ASSUME Unlink(x) PROVE Quiet'
  <2>0. /\ Current(x) /\ UNCHANGED <<used, domain, active, vendor>>
        /\ Agree /\ Backed /\ x.project \in Linked /\ x.todo = Identities
        /\ (x.flag <=> Linked # {x.project}) /\ x.kind = "delete"
    BY <1>12, <1>x, <1>f DEF Unlink, ledger, Midway, Founded
  <2>1. Identities' = Identities /\ ActiveOnes' = ActiveOnes /\ Agree'
    BY <2>0 DEF Identities, ActiveOnes, Agree
  <2>2. /\ link'[x.project] = None
        /\ \A o \in Projects \ {x.project} : link'[o] = link[o]
    BY <1>12, <1>x, <2>0 DEF Unlink, SetLink, TypeOK
  <2>3. Linked' = Linked \ {x.project}
    BY <1>x, <2>2 DEF Linked
  <2>4. Backed'
    BY <2>0, <2>1, <2>2, <2>3 DEF Backed, Linked
  <2>5. CASE x.flag
    <3>1. End(x) /\ Linked' # {}
      BY <1>12, <2>0, <2>3, <2>5 DEF Unlink
    <3>. QED BY <1>e, <2>0, <2>1, <2>4, <3>1, HeldIsAtRest
  <2>6. CASE ~x.flag
    <3>1. Advance(x, "remove") /\ Linked' = {}
      BY <1>12, <2>0, <2>3, <2>6 DEF Unlink
    <3>2. vendor' = Identities'
      BY <2>1 DEF Agree
    <3>. QED BY <1>a, <2>0, <2>1, <3>1, <3>2 DEF Midway
  <2>. QED BY <2>5, <2>6
<1>13. ASSUME ActivateKept(x) PROVE Quiet'
  <2>0. /\ Current(x) /\ UNCHANGED <<used, domain, link, vendor>>
        /\ vendor = Identities /\ Linked = {x.project} /\ link[x.project].pending = None
        /\ x.provider \in Identities /\ x.provider \in x.todo
        /\ Identities = x.todo \cup {x.provider} /\ x.kind # "delete" /\ x.step = "remove"
    BY <1>13, <1>x DEF ActivateKept, ledger, Midway
  <2>1. active' = [active EXCEPT ![x.provider] = TRUE]
    BY <1>13, <2>0 DEF ActivateKept
  <2>2. Identities' = Identities /\ Linked' = Linked /\ active'[x.provider] = TRUE
    <3>. TRUE # None
      BY CustomDomainAssumption
    <3>. QED BY <2>0, <2>1 DEF Identities, Linked, TypeOK
  <2>3. PICK y : y = [x EXCEPT !.todo = @ \ {x.provider}]
    OBVIOUS
  <2>4. /\ y.step = "remove" /\ y.project = x.project /\ y.provider = x.provider
        /\ y.kind = x.kind /\ y.todo = x.todo \ {x.provider}
    BY <1>x, <2>0, <2>3 DEF Operation
  <2>5. Midway(y)'
    BY <2>0, <2>2, <2>4 DEF Midway
  <2>. QED BY <1>13, <1>b, <2>0, <2>3, <2>5 DEF ActivateKept
<1>14. ASSUME NEW p \in Providers, RemoveAtVendor(x, p) PROVE Quiet'
  <2>0. /\ Current(x) /\ UNCHANGED <<used, domain, link, active>> /\ x.step = "remove"
        /\ p \in x.todo /\ vendor' = vendor \ {p} /\ (x.kind = "delete" \/ p # x.provider)
    BY <1>14, <1>x DEF RemoveAtVendor, ledger
  <2>1. Identities' = Identities /\ Linked' = Linked
    BY <2>0 DEF Identities, Linked
  <2>2. PICK y : y = [x EXCEPT !.step = "removeRow", !.current = p, !.todo = @ \ {p}]
    OBVIOUS
  <2>3. /\ y.step = "removeRow" /\ y.project = x.project /\ y.provider = x.provider
        /\ y.kind = x.kind /\ y.todo = x.todo \ {p} /\ y.current = p
    BY <1>x, <2>2 DEF Operation
  <2>4. vendor' = Identities' \ {p} /\ p \in Identities'
    BY <1>x, <2>0, <2>1 DEF Midway
  <2>5. CASE x.kind = "delete"
    <3>1. Linked' = {} /\ Identities' = y.todo \cup {p}
      BY <1>x, <2>0, <2>1, <2>3, <2>5 DEF Midway
    <3>2. Midway(y)'
      BY <2>3, <2>4, <2>5, <3>1 DEF Midway
    <3>. QED BY <1>14, <1>b, <2>0, <2>2, <3>2 DEF RemoveAtVendor
  <2>6. CASE x.kind # "delete"
    <3>1. /\ Linked' = {x.project} /\ link'[x.project].pending = None
          /\ x.provider \in Identities' \ {p}
          /\ Identities' = y.todo \cup {x.provider, p}
          /\ x.provider \notin y.todo => active'[x.provider] = TRUE
      BY <1>x, <2>0, <2>1, <2>3, <2>6 DEF Midway
    <3>2. Midway(y)'
      BY <2>3, <2>4, <2>6, <3>1 DEF Midway
    <3>. QED BY <1>14, <1>b, <2>0, <2>2, <3>2 DEF RemoveAtVendor
  <2>. QED BY <2>5, <2>6
<1>15. ASSUME RemoveRow(x) PROVE Quiet'
  <2>0. /\ Current(x) /\ UNCHANGED <<used, domain, link, vendor>> /\ x.step = "removeRow"
        /\ active' = [active EXCEPT ![x.current] = None]
        /\ x.current \in Identities /\ x.current \notin x.todo
        /\ vendor = Identities \ {x.current}
    BY <1>15, <1>x DEF RemoveRow, ledger, Midway
  <2>1. /\ Identities' = Identities \ {x.current} /\ Linked' = Linked
        /\ \A p \in Identities' : active'[p] = active[p]
    BY <2>0 DEF Identities, Linked, TypeOK
  <2>2. PICK y : y = [x EXCEPT !.step = "remove", !.current = None]
    OBVIOUS
  <2>3. /\ y.step = "remove" /\ y.project = x.project /\ y.provider = x.provider
        /\ y.kind = x.kind /\ y.todo = x.todo
    BY <1>x, <2>2 DEF Operation
  <2>4. CASE x.kind = "delete"
    <3>1. Linked' = {} /\ Identities' = x.todo
      BY <1>x, <2>0, <2>1, <2>4 DEF Midway
    <3>2. Midway(y)'
      BY <2>0, <2>1, <2>3, <2>4, <3>1 DEF Midway
    <3>. QED BY <1>15, <1>b, <2>0, <2>2, <3>2 DEF RemoveRow
  <2>5. CASE x.kind # "delete"
    <3>0. /\ Linked = {x.project} /\ link[x.project].pending = None
          /\ x.provider \in Identities \ {x.current}
          /\ Identities = x.todo \cup {x.provider, x.current}
          /\ x.provider \notin x.todo => active[x.provider] = TRUE
      BY <1>x, <2>0, <2>5 DEF Midway
    <3>1. /\ Linked' = {x.project} /\ link'[x.project].pending = None
          /\ x.provider \in Identities' /\ Identities' = x.todo \cup {x.provider}
          /\ x.provider \notin x.todo => active'[x.provider] = TRUE
      BY <2>0, <2>1, <3>0
    <3>2. Midway(y)'
      BY <2>0, <2>1, <2>3, <2>5, <3>1 DEF Midway
    <3>. QED BY <1>15, <1>b, <2>0, <2>2, <3>2 DEF RemoveRow
  <2>. QED BY <2>4, <2>5
<1>16. ASSUME Removed(x) PROVE Quiet'
  <2>0. /\ Current(x) /\ UNCHANGED <<used, domain, link, active, vendor>>
        /\ x.step = "remove" /\ x.todo = {} /\ vendor = Identities
    BY <1>16, <1>x DEF Removed, ledger, Midway
  <2>1. CASE x.kind = "delete"
    <3>1. Linked = {} /\ Identities = {} /\ Advance(x, "dropDomain")
      BY <1>16, <1>x, <2>0, <2>1 DEF Removed, Midway
    <3>2. Linked' = {} /\ Identities' = {} /\ vendor' = {}
      BY <2>0, <3>1, RestKept
    <3>. QED BY <1>a, <2>0, <3>1, <3>2 DEF Midway
  <2>2. CASE x.kind # "delete"
    <3>1. /\ Linked = {x.project} /\ link[x.project].pending = None /\ End(x)
          /\ Identities = {x.provider} /\ active[x.provider] = TRUE
      BY <1>16, <1>x, <2>0, <2>2 DEF Removed, Midway, Settle
    <3>2. ActiveOnes = {x.provider} /\ x.provider \in Providers
      <4>. TRUE # None
        BY CustomDomainAssumption
      <4>. QED BY <3>1 DEF ActiveOnes, Identities
    <3>3. Agree /\ Backed /\ Linked # {}
      BY <2>0, <3>1, <3>2 DEF Agree, Backed, Current
    <3>. QED BY <1>e, <2>0, <3>1, <3>3, RestKept, HeldIsAtRest
  <2>. QED BY <2>1, <2>2
<1>17. ASSUME DropDomain(x) PROVE Quiet'
  <2>1. Current(x) /\ domain \notin used /\ vendor = {} /\ End(x)
    BY <1>17, <1>x DEF DropDomain, Midway
  <2>2. domain' = None /\ vendor' = {} /\ UNCHANGED used
    BY <1>17, <2>1 DEF DropDomain
  <2>. QED BY <1>e, <2>1, <2>2 DEF AtRest
<1>. QED
  BY <1>1, <1>2, <1>3, <1>4, <1>5, <1>6, <1>7, <1>8, <1>9, <1>10, <1>11, <1>12, <1>13,
     <1>14, <1>15, <1>16, <1>17 DEF Step

\* The identities and the Providers, in every step.
LEMMA IdentitiesStep ==
  TypeOK /\ Rows /\ OneAtATime /\ IdentitiesInv /\ [Next]_vars => IdentitiesInv'
<1>. SUFFICES ASSUME TypeOK, Rows, OneAtATime, IdentitiesInv, [Next]_vars,
                     Sequential, "deliveries" \notin mode
              PROVE  Quiet'
  BY ModeKept DEF IdentitiesInv
<1>1. Quiet
  BY DEF IdentitiesInv
<1>2. ASSUME NEW o \in Projects, Starts(o) PROVE Quiet'
  BY <1>1, <1>2, StartsKeepIdentities
<1>3. ASSUME NEW x \in running, Step(x) PROVE Quiet'
  BY <1>1, <1>3, StepKeepsIdentities
<1>4. ASSUME NEW x \in running, Fail(x) PROVE FALSE
  BY <1>4 DEF Fail, Sequential
<1>5. ASSUME UNCHANGED <<used, domain, link, active, vendor, running>> PROVE Quiet'
  <2>1. ASSUME NEW x \in running PROVE Midway(x)'
    BY <1>1, <1>5, RestKept DEF Quiet, Midway
  <2>. QED BY <1>1, <1>5, <2>1, RestKept DEF Quiet
<1>6. CASE \/ \E o \in Projects : Publish(o) \/ Retract(o)
           \/ AcceptDelivery \/ UNCHANGED vars
  BY <1>5, <1>6 DEF Publish, Retract, AcceptDelivery, ledger, vars
<1>. QED BY <1>2, <1>3, <1>4, <1>6 DEF Next

-----------------------------------------------------------------------------
(* What is proved of the rows between operations.                          *)

\* The inductive invariant holds initially.
LEMMA InitInductive == Init => IInv
<1>. SUFFICES ASSUME Init PROVE IInv
  OBVIOUS
<1>1. TypeOK /\ Rows
  BY RowsInitially
<1>2. Linked = {}
  BY DEF Init, Linked
<1>3. OneAtATime
  BY DEF Init, OneAtATime
<1>4. OwnershipInv
  BY <1>2 DEF Init, OwnershipInv, Ownership, Owners
<1>5. IdentitiesInv
  BY DEF Init, IdentitiesInv, Quiet, AtRest
<1>. QED BY <1>1, <1>3, <1>4, <1>5 DEF IInv

\* The inductive invariant holds in every reachable state.
LEMMA InductiveHolds == Spec => []IInv
<1>1. IInv /\ [Next]_vars => IInv'
  BY TypeStep, RowsStep, OneAtATimeStep, OwnershipStep, IdentitiesStep DEF IInv
<1>. QED BY <1>1, InitInductive, PTL DEF Spec

\* It implies the invariant that the run checks.
LEMMA InductiveSuffices == IInv => Inv
<1>. SUFFICES ASSUME IInv PROVE Inv
  OBVIOUS
<1>t. TypeOK /\ Rows
  BY DEF IInv
<1>1. ASSUME Idle, Sequential, "deliveries" \notin mode
      PROVE  /\ vendor = Identities /\ (domain = None <=> Linked = {})
             /\ Cardinality({p \in Identities : active[p]}) = IF domain = None THEN 0 ELSE 1
  <2>1. AtRest
    BY <1>1 DEF IInv, IdentitiesInv, Quiet, Idle
  <2>2. {p \in Identities : active[p]} = ActiveOnes
    <3>1. TRUE # None
      BY CustomDomainAssumption
    <3>. QED BY <1>t, <3>1 DEF Identities, ActiveOnes, TypeOK
  <2>3. CASE domain = None
    <3>1. Linked = {} /\ Identities = {} /\ vendor = {}
      BY <1>t, <2>1, <2>3 DEF Rows, AtRest
    <3>. QED BY <2>3, <3>1, FS_EmptySet
  <2>4. CASE domain # None
    <3>1. vendor = Identities /\ Linked # {}
      BY <2>1, <2>4 DEF AtRest, Agree
    <3>2. PICK p \in Providers : ActiveOnes = {p}
      BY <2>1, <2>4 DEF AtRest, Agree
    <3>3. Cardinality(ActiveOnes) = 1
      BY <3>2, FS_Singleton
    <3>. QED BY <2>2, <2>4, <3>1, <3>3
  <2>. QED BY <2>3, <2>4
<1>2. ASSUME Idle, Sequential, ~demoted PROVE Cardinality(Owners) <= 1
  <2>1. \A o1, o2 \in Owners : o1 = o2
    BY <1>2 DEF IInv, OwnershipInv, Ownership, Idle
  <2>2. CASE Owners = {}
    BY <2>2, FS_EmptySet
  <2>3. ASSUME NEW o \in Owners PROVE Cardinality(Owners) <= 1
    <3>1. Owners = {o}
      BY <2>1
    <3>2. Cardinality(Owners) = 1
      BY <3>1, FS_Singleton
    <3>. QED BY <3>2
  <2>. QED BY <2>2, <2>3
<1>. QED BY <1>t, <1>1, <1>2 DEF Inv, OneActiveIdentity, SoleOwner

\* Between operations exactly one identity of a held Domain is active, the
\* Providers hold the identities of its rows and nothing else, a removed Domain
\* leaves nothing behind, and one Project owns the Domain unless an owner was
\* demoted (provider-identity.ts, custom-identity.ts).
THEOREM OneOwnerOneIdentity == Spec => []Inv
<1>. QED BY InductiveHolds, InductiveSuffices, PTL
=============================================================================
