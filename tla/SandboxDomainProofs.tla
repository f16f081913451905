------------------------- MODULE SandboxDomainProofs -------------------------
(***************************************************************************)
(* Proofs about the Sandbox Domain, for any Providers, accounts, Projects, *)
(* number of rows and records, overlaps and Modes.                         *)
(***************************************************************************)
EXTENDS SandboxDomain, FiniteSetTheorems, TLAPS

-----------------------------------------------------------------------------
(* What operations may be in the middle of.                                *)

Reconciling == {"find", "publish", "writeRow"}
Verifying   == {"status", "compare", "rollup", "record"}
Allocating  == {"sweep", "pick", "assign"}
Inserting   == {"ensure", "lookUp", "insertSandbox", "createIdentity",
                "listIdentities", "insertIdentity"} \cup Reconciling
Removing    == {"deleteVendor", "listRows", "deleteRecords", "deleteRows", "deleteIdentity"}

StepsOf(kind) ==
  CASE kind = "create"   -> {"clear", "check", "insert"} \cup Inserting \cup Allocating
    [] kind = "update"   -> {"clear", "set", "ensure"}
    [] kind = "ensure"   -> {"ensure"}
    [] kind = "delete"   -> Removing \cup {"promote", "teardown", "drop"}
    [] kind = "verify"   -> Verifying
    [] kind = "sweep"    -> Verifying \cup Allocating
    [] kind = "allocate" -> {"pick", "assign"}

\* One operation: its steps are its kind's, it has a Provider where it needs
\* one, and has read what it is going to use.
Sound(x) ==
  /\ x.step \in StepsOf(x.kind)
  /\ x.kind = "create" \/ x.step \notin Allocating => x.provider \in Providers
  /\ x.todo \subseteq (CASE x.step \in Verifying         -> Providers
                       [] x.step \in {"pick", "assign"} -> Projects
                       [] OTHER                        -> {})
  /\ x.kind = "delete" /\ x.step \in Removing \cup {"promote"} => sandbox # None
  /\ x.step \in Verifying \cup {"sweep", "createIdentity", "listIdentities", "insertIdentity"}
                 \cup Reconciling => sandbox # None
  /\ x.kind = "create" /\ x.step \in Inserting \cup Allocating => provider[x.provider] # "absent"
  /\ x.step \in {"publish", "writeRow", "deleteRecords"} \/ x.found = {}
  /\ x.step = "writeRow" => \E w \in Row : x.found = {w}
  /\ x.step \in {"listIdentities", "insertIdentity"} => x.key = "mailFrom"
  /\ x.step \in Reconciling \cup {"listIdentities", "insertIdentity"} \cup Allocating \/ x.key = "root"

\* A Provider is created by one operation at most.
OneCreate == \A x, y \in running :
  x.kind = "create" /\ y.kind = "create" /\ x.provider = y.provider => x = y

\* Every operation is sound, and identities come with the sandbox.
Sane ==
  /\ \A x \in running : Sound(x)
  /\ OneCreate
  /\ Identities # {} => sandbox # None

\* Providers whose creation is past the identity.  Each rank below their number
\* was given once at most, so ranks never pass the number of Providers.
Settled == {p \in Providers :
  /\ provider[p] # "absent"
  /\ \A x \in running : x.kind = "create" /\ x.provider = p => x.step \in Allocating}
Ranked ==
  /\ \A p \in Identities : identity[p].priority < Cardinality(Settled)
  /\ \A x \in running : x.step = "insertIdentity" => x.rank <= Cardinality(Settled)

\* A row of a key: what it names was made, and is a record of that key.
Names(w, k) ==
  /\ w.record <= serial
  /\ zone[w.record] # None => zone[w.record].key = k
  /\ w.owner = "root" <=> k = "root"

\* The rows an operation found, and the records in the zone, are of their key.
FoundKey(x) == IF x.kind = "delete" THEN "mailFrom" ELSE x.key
ZoneSound ==
  /\ \A r \in Serials : zone[r] # None => r <= serial
  /\ \A r \in Serials : (zone[r] # None /\ zone[r].key = "root") => zone[r].value = "root"
  /\ \A k \in Keys : rows[k] # None => Names(rows[k], k)
  /\ \A x \in running : \A w \in x.found : Names(w, FoundKey(x))

-----------------------------------------------------------------------------
(* What holds while one operation at a time is at work and none fails: what *)
(* is missing from the fleet, from the identities or from the zone is what  *)
(* the operation at work has yet to do.                                     *)

One == \A x, y \in running : x = y

\* Creations past the Provider's row, and past the identity at the vendor;
\* deletions past the identity's row, and past the identity at the vendor.
Added(x, p)   == x.kind = "create" /\ x.step \in Inserting /\ x.provider = p
Deleted(x, p) == x.kind = "delete" /\ x.step \in {"promote", "teardown", "drop"} /\ x.provider = p
Created(x, p) == Added(x, p) /\ x.key = "mailFrom"
Dropped(x, p) == x.kind = "delete" /\ x.step \in Removing \ {"deleteVendor"} /\ x.provider = p

\* What the operation at work has read is still so.
Working(x) ==
  /\ x.kind = "create" /\ x.step \in {"clear", "check", "insert"} => provider[x.provider] = "absent"
  /\ x.kind = "create" /\ x.step = "clear" => x.flag
  /\ x.kind \in {"update", "ensure", "delete"} => x.provider \in Present
  /\ x.kind = "delete" => x.provider \notin paired
  /\ x.kind = "delete" => (x.step \in Removing <=> x.provider \in Identities)
  /\ x.kind = "create" /\ x.step \in Inserting => x.provider \in Present \ Identities
  /\ x.kind = "create" /\ x.step = "insert" => (x.flag <=> default = None)
  /\ x.step = "set" => default = None
  /\ x.step = "insertSandbox" => sandbox = None
  /\ x.step = "publish" => x.found = (IF rows[x.key] = None THEN {} ELSE {rows[x.key]})
  /\ x.step = "writeRow" =>
       /\ x.flag <=> rows[x.key] # None
       /\ x.flag => \A w \in x.found : w.id = rows[x.key].id
       /\ \A w \in x.found : w.owner = Owner(x)
  /\ x.step = "insertIdentity" => (x.rank = 0 <=> Active = {})
  /\ x.kind = "delete" /\ x.step \in Removing => (x.flag <=> x.provider \in Active)
  /\ x.step = "deleteRecords" => x.found = {rows[k] : k \in OwnedBy(x.provider)}
  /\ x.step = "deleteRows" => \A k \in OwnedBy(x.provider) : zone[rows[k].record] = None
  /\ x.step = "deleteIdentity" => OwnedBy(x.provider) = {}
  /\ x.step = "record" /\ x.servable => Identities # {}

\* Providers, identities, vendor accounts and the default agree.
FleetMatches ==
  /\ \A p \in Providers : p \in Identities =>  p \in Present
  /\ \A p \in Present \ Identities : \E x \in running : Added(x, p) \/ Deleted(x, p)
  /\ \A p \in Providers : Alone(p) =>
       /\ Account[p] \in vendor <=>
            \/ p \in Identities /\ \A x \in running : ~Dropped(x, p)
            \/ \E x \in running : Created(x, p)
       /\ provider[p] # "present" => Account[p] \notin destination
       /\ (\E x \in running : x.step = "drop" /\ x.provider = p) => Account[p] \notin destination
  /\ default = None =>
       \/ Present = {} \/ \E p \in Providers : provider[p] = "deleted"
       \/ \E x \in running : x.step \in {"insert", "set"}

\* One identity is active, or the deletion of the active one promotes the next.
ActiveMatches ==
  /\ \A p, q \in Active : p = q
  /\ Identities # {} => Active # {} \/ \E x \in running : x.step = "promote" /\ x.flag
  /\ sandbox # None /\ sandbox.active => Identities # {} \/ \E x \in running : x.step = "promote"

\* Rows belong to identities, and mirror the records.
ZoneMatches ==
  /\ \A k \in Keys : rows[k] # None =>
       \/ rows[k].owner \in Identities \cup {"root"}
       \/ \E x \in running : x.provider = rows[k].owner /\ x.step \in {"listIdentities", "insertIdentity"}
  /\ \A r \in Serials : zone[r] # None =>
       \/ \E x \in running : x.step = "writeRow" /\ x.key = zone[r].key /\ \A w \in x.found : w.record = r
       \/ /\ rows[zone[r].key] # None /\ rows[zone[r].key].record = r
          /\ \A x \in running : x.step = "writeRow" /\ x.key = zone[r].key => \A w \in x.found : w.record = r
  /\ "drift" \notin mode => \A k \in Keys : rows[k] # None =>
       \/ zone[rows[k].record] # None
       \/ \E x \in running : x.step = "deleteRows" /\ rows[k].owner = x.provider
  /\ "drift" \notin mode => \A x \in running : x.step = "writeRow" => \A w \in x.found : zone[w.record] # None

OneAtATime ==
  /\ One /\ \A x \in running : Working(x)
  /\ FleetMatches /\ ActiveMatches /\ ZoneMatches

-----------------------------------------------------------------------------
(* How operations begin and advance.                                       *)

Starts ==
  \/ \E p \in Providers : \/ \E d, c \in BOOLEAN : StartCreate(p, d) \/ StartUpdate(p, d, c)
                          \/ StartEnsure(p) \/ StartDelete(p) \/ StartVerify(p)
  \/ StartVerifySandbox
  \/ \E o \in Projects : StartAllocate(o)

\* Every step is one of these.
LEMMA Actions ==
  ASSUME Next
  PROVE  \/ Starts
         \/ /\ UNCHANGED overlaps
            /\ \/ \E x \in running : CreateStep(x) \/ DeleteStep(x) \/ VerifyStep(x) \/ Fail(x)
               \/ \E r \in Serials : Drift(r)
               \/ \E p \in Providers : Pair(p)
  BY DEF Next, Starts

\* An operation that begins: what it knows of its Provider, and nothing else yet.
Begins(y) ==
  /\ MayStart /\ UNCHANGED world /\ overlaps' \in 0..MaxOverlaps
  /\ y \in Operation /\ Sound(y) /\ running' = running \cup {y}
  /\ y.key = "root" /\ y.found = {} /\ ~y.servable
  /\ CASE y.kind = "create" ->
            /\ y.step \in {"clear", "check"} /\ (y.step = "clear" => y.flag) /\ provider[y.provider] = "absent"
            /\ \A x \in running : x.kind = "create" => x.provider # y.provider
       [] y.kind \in {"update", "ensure"} ->
            y.step \in {"clear", "ensure"} /\ y.provider \in Present
       [] y.kind = "delete" ->
            /\ y.provider \in Present \ paired
            /\ IF y.provider \in Identities
               THEN y.step = "deleteVendor" /\ (y.flag <=> y.provider \in Active)
               ELSE y.step = "teardown"
       [] OTHER -> y.step \in {"status", "sweep", "pick"}

\* Every start is a beginning.
LEMMA StartsBegin ==
  ASSUME TypeOK, Sane, Starts
  PROVE  \E y : Begins(y)
<1>0. 0 \in Ranks
  BY FS_CardinalityType, SandboxAssumption DEF Ranks
<1>1. ASSUME NEW kind \in Kinds, NEW p \in Providers \cup {None}, NEW step \in Steps,
             NEW flag \in BOOLEAN, NEW todo \in SUBSET (Providers \cup Projects),
             Start(kind, p, step, flag, todo)
      PROVE  /\ MayStart /\ overlaps' \in 0..MaxOverlaps
             /\ \E y \in Operation :
                  /\ running' = running \cup {y}
                  /\ y.kind = kind /\ y.provider = p /\ y.step = step /\ y.flag = flag
                  /\ y.todo = todo /\ y.key = "root" /\ y.found = {} /\ ~y.servable
  <2>1. MayStart /\ overlaps' \in 0..MaxOverlaps
    BY <1>1, SandboxAssumption DEF Start, MayStart, TypeOK
  <2> DEFINE y == [kind |-> kind, step |-> step, provider |-> p, flag |-> flag, rank |-> 0,
                   key |-> "root", found |-> {}, servable |-> FALSE, todo |-> todo,
                   turn |-> overlaps']
  <2>2. y \in Operation
    BY <1>0, <2>1 DEF Operation, Keys
  <2>. QED BY <1>1, <2>1, <2>2 DEF Start
<1>k. /\ \A k \in {"create", "update", "delete", "ensure", "verify", "sweep", "allocate"} : k \in Kinds
      /\ \A s \in {"clear", "check", "ensure", "deleteVendor", "teardown", "status", "sweep", "pick"} :
           s \in Steps
      /\ \A p \in Providers : p \in Providers \cup {None}
      /\ {} \in SUBSET (Providers \cup Projects)
      /\ TRUE \in BOOLEAN /\ FALSE \in BOOLEAN
  BY DEF Kinds, Steps
<1> USE DEF Sound, StepsOf, Inserting, Reconciling, Removing, Allocating, Verifying
<1>2. ASSUME NEW p \in Providers, NEW d \in BOOLEAN, StartCreate(p, d)
      PROVE  \E y : Begins(y)
  <2>1. PICK step \in {"clear", "check"} :
          Start("create", p, step, d, {}) /\ (step = "clear" => d)
    BY <1>2 DEF StartCreate
  <2>s. Start("create", p, step, d, {})
    BY <2>1
  <2>m. "create" \in Kinds /\ step \in Steps /\ p \in Providers \cup {None}
        /\ d \in BOOLEAN /\ {} \in SUBSET (Providers \cup Projects)
    BY <1>k
  <2>2. PICK y \in Operation :
          /\ running' = running \cup {y}
          /\ y.kind = "create" /\ y.provider = p /\ y.step = step /\ y.flag = d
          /\ y.todo = {} /\ y.key = "root" /\ y.found = {} /\ ~y.servable
    BY <1>1, <2>m, <2>s
  <2>3. MayStart /\ overlaps' \in 0..MaxOverlaps
    BY <1>1, <2>m, <2>s
  <2>4. Begins(y)
    BY <1>2, <2>1, <2>2, <2>3 DEF StartCreate, Begins
  <2>. QED BY <2>4
<1>3. ASSUME NEW p \in Providers, NEW d \in BOOLEAN, NEW c \in BOOLEAN,
             StartUpdate(p, d, c) \/ StartEnsure(p)
      PROVE  \E y : Begins(y)
  <2>1. PICK kind \in {"update", "ensure"}, step \in {"clear", "ensure"}, flag \in BOOLEAN :
          /\ Start(kind, p, step, flag, {})
          /\ kind = "ensure" => step = "ensure"
    BY <1>3 DEF StartUpdate, StartEnsure
  <2>s. Start(kind, p, step, flag, {})
    BY <2>1
  <2>m. kind \in Kinds /\ step \in Steps /\ p \in Providers \cup {None}
        /\ flag \in BOOLEAN /\ {} \in SUBSET (Providers \cup Projects)
    BY <1>k
  <2>2. PICK y \in Operation :
          /\ running' = running \cup {y}
          /\ y.kind = kind /\ y.provider = p /\ y.step = step /\ y.flag = flag
          /\ y.todo = {} /\ y.key = "root" /\ y.found = {} /\ ~y.servable
    BY <1>1, <2>m, <2>s
  <2>3. MayStart /\ overlaps' \in 0..MaxOverlaps
    BY <1>1, <2>m, <2>s
  <2>4. Begins(y)
    BY <1>3, <2>1, <2>2, <2>3 DEF StartUpdate, StartEnsure, Begins, Present
  <2>. QED BY <2>4
<1>4. ASSUME NEW p \in Providers, StartDelete(p)
      PROVE  \E y : Begins(y)
  <2>1. PICK step \in {"deleteVendor", "teardown"}, flag \in BOOLEAN :
          /\ Start("delete", p, step, flag, {})
          /\ IF p \in Identities THEN step = "deleteVendor" /\ (flag <=> p \in Active)
                                 ELSE step = "teardown"
    <3>1. CASE p \in Identities
      <4>1. (p \in Active) \in BOOLEAN
        OBVIOUS
      <4>2. Start("delete", p, "deleteVendor", p \in Active, {})
        BY <1>4, <3>1 DEF StartDelete
      <4>. QED BY <3>1, <4>1, <4>2
    <3>2. CASE p \notin Identities
      BY <1>4, <3>2 DEF StartDelete
    <3>. QED BY <3>1, <3>2
  <2>s. Start("delete", p, step, flag, {})
    BY <2>1
  <2>m. "delete" \in Kinds /\ step \in Steps /\ p \in Providers \cup {None}
        /\ flag \in BOOLEAN /\ {} \in SUBSET (Providers \cup Projects)
    BY <1>k
  <2>2. PICK y \in Operation :
          /\ running' = running \cup {y}
          /\ y.kind = "delete" /\ y.provider = p /\ y.step = step /\ y.flag = flag
          /\ y.todo = {} /\ y.key = "root" /\ y.found = {} /\ ~y.servable
    BY <1>1, <2>m, <2>s
  <2>3. MayStart /\ overlaps' \in 0..MaxOverlaps
    BY <1>1, <2>m, <2>s
  <2>4. p \in Identities => sandbox # None
    BY DEF Sane
  <2>5. Begins(y)
    BY <1>4, <2>1, <2>2, <2>3, <2>4 DEF StartDelete, Begins
  <2>. QED BY <2>5
<1>5. ASSUME \/ \E p \in Providers : StartVerify(p)
             \/ StartVerifySandbox
             \/ \E o \in Projects : StartAllocate(o)
      PROVE  \E y : Begins(y)
  <2>1. PICK kind \in {"verify", "sweep", "allocate"}, p \in Providers \cup {None},
             step \in {"status", "sweep", "pick"}, todo \in SUBSET (Providers \cup Projects), flag \in BOOLEAN :
          /\ Start(kind, p, step, flag, todo)
          /\ CASE kind = "verify"   -> p \in Providers /\ step = "status" /\ todo = {}
               [] kind = "sweep"    -> \/ p \in Providers /\ step = "status" /\ todo \subseteq Providers
                                       \/ step = "sweep" /\ todo = {}
               [] kind = "allocate" -> step = "pick" /\ todo \subseteq Projects
          /\ kind \in {"verify", "sweep"} => sandbox # None
          /\ UNCHANGED world
    <3>1. CASE \E p \in Providers : StartVerify(p)
      BY <3>1, <1>k DEF StartVerify, Sane
    <3>2. CASE StartVerifySandbox
      <4>1. Identities \subseteq Providers
        BY DEF Identities
      <4>2. CASE Identities = {}
        BY <3>2, <4>2, <1>k DEF StartVerifySandbox
      <4>3. CASE Identities # {}
        <5>1. PICK p \in Identities : Start("sweep", p, "status", FALSE, Identities \ {p})
          BY <3>2, <4>3 DEF StartVerifySandbox
        <5>2. p \in Providers \cup {None} /\ Identities \ {p} \in SUBSET (Providers \cup Projects)
              /\ Identities \ {p} \subseteq Providers
          BY <4>1
        <5>. QED BY <3>2, <4>1, <5>1, <5>2 DEF StartVerifySandbox
      <4>. QED BY <4>2, <4>3
    <3>3. CASE \E o \in Projects : StartAllocate(o)
      <4>1. PICK o \in Projects : Start("allocate", None, "pick", FALSE, {o}) /\ UNCHANGED world
        BY <3>3 DEF StartAllocate
      <4>2. {o} \in SUBSET (Providers \cup Projects) /\ {o} \subseteq Projects
            /\ None \in Providers \cup {None}
        OBVIOUS
      <4>. QED BY <4>1, <4>2
    <3>. QED BY <1>5, <3>1, <3>2, <3>3
  <2>s. Start(kind, p, step, flag, todo)
    BY <2>1
  <2>m. kind \in Kinds /\ step \in Steps /\ p \in Providers \cup {None}
        /\ flag \in BOOLEAN /\ todo \in SUBSET (Providers \cup Projects)
    BY <1>k
  <2>2. PICK y \in Operation :
          /\ running' = running \cup {y}
          /\ y.kind = kind /\ y.provider = p /\ y.step = step /\ y.flag = flag
          /\ y.todo = todo /\ y.key = "root" /\ y.found = {} /\ ~y.servable
    BY <1>1, <2>m, <2>s, SMTT(60)
  <2>3. MayStart /\ overlaps' \in 0..MaxOverlaps
    BY <1>1, <2>m, <2>s
  <2>4. Begins(y)
    BY <2>1, <2>2, <2>3 DEF Begins
  <2>. QED BY <2>4
<1>. QED BY <1>2, <1>3, <1>4, <1>5 DEF Starts

-----------------------------------------------------------------------------
(* Type correctness.                                                       *)

\* The sandbox is never removed, and no Provider becomes absent again.
Kept ==
  /\ sandbox # None => sandbox' # None
  /\ \A p \in Providers : provider[p] # "absent" => provider'[p] # "absent"

\* What the state says when an operation is left out.
WorldTyped ==
  /\ mode \in Modes
  /\ provider \in [Providers -> {"absent", "present", "deleted"}]
  /\ default \in Providers \cup {None} /\ paired \subseteq Providers
  /\ destination \subseteq Accounts /\ vendor \subseteq Accounts
  /\ sandbox \in [active : BOOLEAN, verified : BOOLEAN] \cup {None}
  /\ identity \in [Providers -> Identity \cup {None}]
  /\ rows \in [Keys -> Row \cup {None}]
  /\ zone \in [Serials -> Record \cup {None}]
  /\ serial \in 0..MaxSerial
  /\ assigned \subseteq Projects

\* The step of an operation in hand: it ends, or goes on with its type, sound.
Moves(x) ==
  \/ End(x)
  \/ \E y \in Operation :
       /\ Become(x, y) /\ Sound(y)' /\ y.kind = x.kind /\ y.turn = x.turn
       /\ y.kind = "create" => y.provider = x.provider
       /\ y.kind = "create" /\ y.step \in Allocating => provider'[y.provider] # "absent"
       /\ x.step \in Allocating => y.step \in Allocating
       /\ y.step = "insertIdentity" => y.rank <= Cardinality(Settled)

\* None is none of what it stands in for.
LEMMA NoneIsNone ==
  /\ None \notin [active : BOOLEAN, verified : BOOLEAN]
  /\ \A p \in Providers : p # None /\ p # "root" /\ Account[p] \in Accounts
  /\ [active |-> FALSE, verified |-> FALSE] \in [active : BOOLEAN, verified : BOOLEAN]
  BY SandboxAssumption DEF Accounts

\* An operation that waits stays sound while others work.
LEMMA SoundStays ==
  ASSUME NEW z \in Operation, Sound(z), Kept
  PROVE  Sound(z)'
  BY NoneIsNone DEF Sound, Kept, Allocating, Inserting, Verifying, Removing, Reconciling

\* What is known of an operation at work.
LEMMA OperationSound ==
  ASSUME TypeOK, Sane, NEW x \in running
  PROVE  /\ x \in Operation /\ Sound(x)
         /\ x.step \notin Allocating => x.provider \in Providers
         /\ x.provider \in Providers => Account[x.provider] \in Accounts
         /\ WorldTyped
  BY NoneIsNone DEF TypeOK, Sane, Sound, WorldTyped

\* The steps of a create or an update change the world by its types.
LEMMA CreateTyped ==
  ASSUME TypeOK, Sane, Ranked, NEW x \in running, CreateStep(x)
  PROVE  WorldTyped' /\ Kept
<1>0. /\ x \in Operation /\ Sound(x)
      /\ x.step \notin Allocating => x.provider \in Providers /\ Account[x.provider] \in Accounts
      /\ WorldTyped
  BY OperationSound
<1> USE NoneIsNone DEF WorldTyped, Kept, Allocating
<1>1. CASE ClearEmailDefaults(x)
  BY <1>0, <1>1 DEF ClearEmailDefaults, dns
<1>2. CASE CheckDefault(x)
  BY <1>0, <1>2 DEF CheckDefault, world, fleet, dns
<1>3. CASE InsertProvider(x)
  BY <1>0, <1>3 DEF InsertProvider, dns
<1>4. CASE SetDefault(x)
  BY <1>0, <1>4 DEF SetDefault, dns
<1>5. CASE EnsureInfrastructure(x)
  BY <1>0, <1>5 DEF EnsureInfrastructure, dns
<1>6. CASE LookUpSandbox(x) \/ FindRow(x) \/ ListIdentities(x)
  BY <1>0, <1>6 DEF LookUpSandbox, FindRow, ListIdentities, world, fleet, dns
<1>7. CASE InsertSandbox(x)
  <2> DEFINE new == [active |-> FALSE, verified |-> FALSE]
  <2>1. new \in [active : BOOLEAN, verified : BOOLEAN]
    OBVIOUS
  <2>2. (sandbox' \in {sandbox, new} /\ sandbox = None) \/ sandbox' = sandbox
    BY <1>7 DEF InsertSandbox
  <2>. HIDE DEF new
  <2>. QED BY <1>0, <1>7, <2>1, <2>2 DEF InsertSandbox, fleet, dns
<1>8. CASE CreateIdentity(x)
  BY <1>0, <1>8 DEF CreateIdentity, fleet, dns
<1>9. CASE PublishRecord(x)
  <2>1. Wanted(x) \in Record
    BY <1>0, <1>9 DEF PublishRecord, Wanted, Record, Value, Operation
  <2>. QED BY <1>0, <1>9, <2>1, SandboxAssumption DEF PublishRecord, fleet, Serials
<1>10. CASE WriteRow(x)
  <2>1. x.found \subseteq Row /\ x.key \in Keys
    BY <1>0 DEF Operation
  <2>. QED BY <1>0, <1>10, <2>1 DEF WriteRow, fleet
<1>11. CASE InsertIdentity(x)
  <2>1. [active |-> x.rank = 0, verified |-> FALSE, priority |-> x.rank] \in Identity
    BY <1>0 DEF Operation, Identity
  <2>. QED BY <1>0, <1>11, <2>1 DEF InsertIdentity, fleet, dns
<1>. QED BY <1>1, <1>2, <1>3, <1>4, <1>5, <1>6, <1>7, <1>8, <1>9, <1>10, <1>11 DEF CreateStep

\* So do those of a delete.
LEMMA DeleteTyped ==
  ASSUME TypeOK, Sane, Ranked, NEW x \in running, DeleteStep(x)
  PROVE  WorldTyped' /\ Kept
<1>0. /\ x \in Operation /\ Sound(x)
      /\ x.step \notin Allocating => x.provider \in Providers /\ Account[x.provider] \in Accounts
      /\ WorldTyped
  BY OperationSound
<1> USE NoneIsNone DEF WorldTyped, Kept, Allocating
<1>1. CASE DeleteAtVendor(x)
  BY <1>0, <1>1 DEF DeleteAtVendor, fleet, dns
<1>2. CASE ListRows(x)
  BY <1>0, <1>2 DEF ListRows, world, fleet, dns
<1>3. CASE DeleteRecords(x)
  BY <1>0, <1>3 DEF DeleteRecords, fleet
<1>4. CASE DeleteRows(x)
  BY <1>0, <1>4 DEF DeleteRows, fleet
<1>5. CASE DeleteIdentity(x)
  BY <1>0, <1>5 DEF DeleteIdentity, fleet, dns
<1>6. CASE Promote(x)
  <2>1. sandbox # None
    BY <1>0, <1>6 DEF Promote, Sound, StepsOf, Inserting, Removing, Verifying, Reconciling,
                      Operation, Kinds
  <2>2. ASSUME NEW p \in NextInOrder, identity' = [identity EXCEPT ![p].active = TRUE]
        PROVE  identity' \in [Providers -> Identity \cup {None}]
    <3>1. p \in Providers /\ identity[p] \in Identity
      BY <1>0, <2>2 DEF NextInOrder, Identities
    <3>2. [identity[p] EXCEPT !.active = TRUE] \in Identity
      BY <3>1 DEF Identity
    <3>. QED BY <1>0, <2>2, <3>1, <3>2
  <2>3. sandbox' \in [active : BOOLEAN, verified : BOOLEAN]
    BY <1>0, <1>6, <2>1 DEF Promote
  <2>4. identity' \in [Providers -> Identity \cup {None}]
    BY <1>0, <1>6, <2>2 DEF Promote
  <2>. QED BY <1>0, <1>6, <2>3, <2>4 DEF Promote, fleet, dns
<1>7. CASE TeardownInfrastructure(x)
  BY <1>0, <1>7 DEF TeardownInfrastructure, dns
<1>8. CASE DropProvider(x)
  BY <1>0, <1>8 DEF DropProvider, dns
<1>. QED BY <1>1, <1>2, <1>3, <1>4, <1>5, <1>6, <1>7, <1>8 DEF DeleteStep

\* And those of a verification or an allocation.
LEMMA VerifyTyped ==
  ASSUME TypeOK, Sane, Ranked, NEW x \in running, VerifyStep(x)
  PROVE  WorldTyped' /\ Kept
<1>0. /\ x \in Operation /\ Sound(x)
      /\ x.step \notin Allocating => x.provider \in Providers /\ Account[x.provider] \in Accounts
      /\ WorldTyped
  BY OperationSound
<1> USE NoneIsNone DEF WorldTyped, Kept, Allocating
<1>1. CASE ReadStatus(x)
  <2>1. ASSUME x.provider \in Identities, NEW verdict \in BOOLEAN
        PROVE  [identity EXCEPT ![x.provider].verified = verdict]
                 \in [Providers -> Identity \cup {None}]
    <3>1. x.provider \in Providers /\ identity[x.provider] \in Identity
      BY <1>0, <2>1 DEF Identities
    <3>2. [identity[x.provider] EXCEPT !.verified = verdict] \in Identity
      BY <3>1 DEF Identity
    <3>. QED BY <1>0, <3>1, <3>2
  <2>2. identity' \in [Providers -> Identity \cup {None}]
    BY <1>0, <1>1, <2>1 DEF ReadStatus
  <2>. QED BY <1>0, <1>1, <2>2 DEF ReadStatus, fleet, dns
<1>2. CASE CompareDns(x) \/ Rollup(x) \/ Sweep(x) \/ Pick(x)
  BY <1>0, <1>2 DEF CompareDns, Rollup, Sweep, Pick, world, fleet, dns
<1>3. CASE RecordStatus(x)
  <2>1. x.servable \in BOOLEAN /\ x.flag \in BOOLEAN
    BY <1>0 DEF Operation
  <2>2. [active |-> x.servable, verified |-> x.flag] \in [active : BOOLEAN, verified : BOOLEAN]
    BY <2>1
  <2>. QED BY <1>0, <1>3, <2>2 DEF RecordStatus, fleet, dns
<1>4. CASE Assign(x)
  <2>1. x.todo \subseteq Projects
    BY <1>0, <1>4 DEF Assign, Sound
  <2>. QED BY <1>0, <1>4, <2>1 DEF Assign, fleet, dns
<1>. QED BY <1>1, <1>2, <1>3, <1>4 DEF VerifyStep

\* What is settled is a finite set, no larger than the fleet.
LEMMA SettledCount ==
  /\ IsFiniteSet(Settled) /\ Cardinality(Settled) \in Ranks
  /\ Cardinality(Settled) \in Nat /\ 0 \in Ranks
  /\ Cardinality(Settled) <= Cardinality(Providers)
<1>1. Settled \subseteq Providers
  BY DEF Settled
<1>. QED BY <1>1, SandboxAssumption, FS_Subset, FS_CardinalityType DEF Ranks

\* What a record that is written holds.
LEMMA RowTyped ==
  ASSUME TypeOK, Sane, NEW x \in running, x.step = "publish", NEW r \in Serials
  PROVE  [id     |-> IF x.found = {} THEN r ELSE (CHOOSE w \in x.found : TRUE).id,
          owner  |-> Owner(x),
          record |-> r] \in Row
<1>1. x \in Operation /\ x.found \subseteq Row /\ x.provider \in Providers
  BY OperationSound DEF Operation, Allocating
<1>2. x.found # {} => (CHOOSE w \in x.found : TRUE) \in Row
  BY <1>1
<1>. QED BY <1>1, <1>2 DEF Row, Owner, Owners

\* An operation goes on.
LEMMA MovesTo ==
  ASSUME NEW x \in running, NEW y \in Operation, Become(x, y), Sound(y)',
         y.kind = x.kind, y.turn = x.turn, y.kind = "create" => y.provider = x.provider,
         y.kind = "create" /\ y.step \in Allocating => provider'[y.provider] # "absent",
         x.step \in Allocating => y.step \in Allocating,
         y.step = "insertIdentity" => y.rank <= Cardinality(Settled)
  PROVE  Moves(x)
  BY DEF Moves

\* A step of a create or an update.
LEMMA CreateMoves ==
  ASSUME TypeOK, Sane, Ranked, NEW x \in running, CreateStep(x)
  PROVE  Moves(x)
<1>0. /\ x \in Operation /\ Sound(x)
      /\ x.step \notin Allocating => x.provider \in Providers /\ Account[x.provider] \in Accounts
      /\ WorldTyped
  BY OperationSound
<1>k. Kept
  BY CreateTyped
<1>s. /\ \A s \in {"insert", "set", "ensure", "lookUp", "insertSandbox", "find", "publish", "writeRow",
                   "createIdentity", "listIdentities", "insertIdentity", "sweep"} : s \in Steps
      /\ "root" \in Keys /\ "mailFrom" \in Keys /\ 0 \in Ranks
  BY SettledCount DEF Steps, Keys
<1>e. End(x) => Moves(x)
  BY DEF Moves
<1> USE NoneIsNone DEF Kept, Sound, StepsOf, Allocating, Inserting, Reconciling,
        Removing, Verifying
<1>1. CASE ClearEmailDefaults(x)
  <2>s. PICK s \in {"insert", "set"} : Advance(x, s) /\ (s = "insert" <=> x.kind = "create")
    BY <1>1 DEF ClearEmailDefaults
  <2>1. PICK y : y = [x EXCEPT !.step = s]
    OBVIOUS
  <2>2. y \in Operation
    BY <1>0, <1>s, <2>1 DEF Operation
  <2>3. /\ y.step = s
       /\ y.kind = x.kind /\ y.provider = x.provider /\ y.turn = x.turn /\ y.key = x.key
       /\ y.found = x.found /\ y.todo = x.todo /\ y.rank = x.rank
    BY <1>0, <2>1 DEF Operation
  <2>4. Become(x, y)
    BY <1>1, <2>s, <2>1 DEF Advance, ClearEmailDefaults
  <2>5. Sound(y)'
    BY <1>0, <1>k, <1>1, <2>s, <2>2, <2>3 DEF Operation, Kinds, Advance, ClearEmailDefaults
  <2>. QED BY <1>0, <1>k, <1>1, <2>s, <2>2, <2>3, <2>4, <2>5, MovesTo DEF Advance, ClearEmailDefaults
<1>2. CASE CheckDefault(x)
  <2>1. PICK y : y = [x EXCEPT !.step = "insert", !.flag = (default = None)]
    OBVIOUS
  <2>2. y \in Operation
    BY <1>0, <1>s, <2>1 DEF Operation
  <2>3. /\ y.step = "insert" /\ y.flag = (default = None)
       /\ y.kind = x.kind /\ y.provider = x.provider /\ y.turn = x.turn /\ y.key = x.key
       /\ y.found = x.found /\ y.todo = x.todo /\ y.rank = x.rank
    BY <1>0, <2>1 DEF Operation
  <2>4. Become(x, y)
    BY <1>2, <2>1 DEF CheckDefault
  <2>5. Sound(y)'
    BY <1>0, <1>k, <1>2, <2>2, <2>3 DEF Operation, Kinds, CheckDefault
  <2>. QED BY <1>0, <1>k, <1>2, <2>2, <2>3, <2>4, <2>5, MovesTo DEF CheckDefault
<1>3. CASE InsertProvider(x)
  <2>a. CASE Advance(x, "ensure") /\ provider'[x.provider] # "absent"
    <3>1. PICK y : y = [x EXCEPT !.step = "ensure"]
      OBVIOUS
    <3>2. y \in Operation
      BY <1>0, <1>s, <3>1 DEF Operation
    <3>3. /\ y.step = "ensure"
         /\ y.kind = x.kind /\ y.provider = x.provider /\ y.turn = x.turn /\ y.key = x.key
         /\ y.found = x.found /\ y.todo = x.todo /\ y.rank = x.rank
      BY <1>0, <3>1 DEF Operation
    <3>4. Become(x, y)
      BY <2>a, <3>1 DEF Advance, InsertProvider
    <3>5. Sound(y)'
      BY <1>0, <1>k, <1>3, <2>a, <3>2, <3>3 DEF Operation, Kinds, Advance, InsertProvider
    <3>. QED BY <1>0, <1>k, <1>3, <2>a, <3>2, <3>3, <3>4, <3>5, MovesTo DEF Advance, InsertProvider
  <2>. QED BY <1>0, <1>3, <1>e, <2>a DEF InsertProvider, WorldTyped
<1>4. CASE SetDefault(x)
  <2>a. CASE Advance(x, "ensure")
    <3>1. PICK y : y = [x EXCEPT !.step = "ensure"]
      OBVIOUS
    <3>2. y \in Operation
      BY <1>0, <1>s, <3>1 DEF Operation
    <3>3. /\ y.step = "ensure"
         /\ y.kind = x.kind /\ y.provider = x.provider /\ y.turn = x.turn /\ y.key = x.key
         /\ y.found = x.found /\ y.todo = x.todo /\ y.rank = x.rank
      BY <1>0, <3>1 DEF Operation
    <3>4. Become(x, y)
      BY <2>a, <3>1 DEF Advance, SetDefault
    <3>5. Sound(y)'
      BY <1>0, <1>k, <1>4, <2>a, <3>2, <3>3 DEF Operation, Kinds, Advance, SetDefault
    <3>. QED BY <1>0, <1>k, <1>4, <2>a, <3>2, <3>3, <3>4, <3>5, MovesTo DEF Advance, SetDefault
  <2>. QED BY <1>4, <1>e, <2>a DEF SetDefault
<1>5. CASE EnsureInfrastructure(x)
  <2>a. CASE Advance(x, "lookUp") /\ x.kind = "create"
    <3>1. PICK y : y = [x EXCEPT !.step = "lookUp"]
      OBVIOUS
    <3>2. y \in Operation
      BY <1>0, <1>s, <3>1 DEF Operation
    <3>3. /\ y.step = "lookUp"
         /\ y.kind = x.kind /\ y.provider = x.provider /\ y.turn = x.turn /\ y.key = x.key
         /\ y.found = x.found /\ y.todo = x.todo /\ y.rank = x.rank
      BY <1>0, <3>1 DEF Operation
    <3>4. Become(x, y)
      BY <2>a, <3>1 DEF Advance, EnsureInfrastructure
    <3>5. Sound(y)'
      BY <1>0, <1>k, <1>5, <2>a, <3>2, <3>3 DEF Operation, Kinds, Advance, EnsureInfrastructure
    <3>. QED BY <1>0, <1>k, <1>5, <2>a, <3>2, <3>3, <3>4, <3>5, MovesTo DEF Advance, EnsureInfrastructure
  <2>. QED BY <1>5, <1>e, <2>a DEF EnsureInfrastructure
<1>6. CASE LookUpSandbox(x)
  <2>s. PICK s \in {"insertSandbox", "sweep", "createIdentity"} :
          Advance(x, s) /\ (s # "insertSandbox" => sandbox # None)
    BY <1>6 DEF LookUpSandbox, Sane
  <2>1. PICK y : y = [x EXCEPT !.step = s]
    OBVIOUS
  <2>2. y \in Operation
    BY <1>0, <1>s, <2>1 DEF Operation
  <2>3. /\ y.step = s
       /\ y.kind = x.kind /\ y.provider = x.provider /\ y.turn = x.turn /\ y.key = x.key
       /\ y.found = x.found /\ y.todo = x.todo /\ y.rank = x.rank
    BY <1>0, <2>1 DEF Operation
  <2>4. Become(x, y)
    BY <1>6, <2>s, <2>1 DEF Advance, LookUpSandbox
  <2>5. Sound(y)'
    BY <1>0, <1>k, <1>6, <2>s, <2>2, <2>3 DEF Operation, Kinds, Advance, LookUpSandbox
  <2>. QED BY <1>0, <1>k, <1>6, <2>s, <2>2, <2>3, <2>4, <2>5, MovesTo DEF Advance, LookUpSandbox
<1>7. CASE InsertSandbox(x)
  <2>a. CASE sandbox' # None /\ Become(x, [x EXCEPT !.step = "find", !.key = "root"])
    <3>1. PICK y : y = [x EXCEPT !.step = "find", !.key = "root"]
      OBVIOUS
    <3>2. y \in Operation
      BY <1>0, <1>s, <3>1 DEF Operation
    <3>3. /\ y.step = "find" /\ y.key = "root"
         /\ y.kind = x.kind /\ y.provider = x.provider /\ y.turn = x.turn /\ y.found = x.found
         /\ y.todo = x.todo /\ y.rank = x.rank
      BY <1>0, <3>1 DEF Operation
    <3>4. Become(x, y)
      BY <2>a, <3>1 DEF InsertSandbox
    <3>5. Sound(y)'
      BY <1>0, <1>k, <1>7, <2>a, <3>2, <3>3 DEF Operation, Kinds, InsertSandbox
    <3>. QED BY <1>0, <1>k, <1>7, <2>a, <3>2, <3>3, <3>4, <3>5, MovesTo DEF InsertSandbox
  <2>. QED BY <1>7, <1>e, <2>a, SandboxAssumption DEF InsertSandbox
<1>8. CASE CreateIdentity(x)
  <2>1. PICK y : y = [x EXCEPT !.step = "find", !.key = "mailFrom"]
    OBVIOUS
  <2>2. y \in Operation
    BY <1>0, <1>s, <2>1 DEF Operation
  <2>3. /\ y.step = "find" /\ y.key = "mailFrom"
       /\ y.kind = x.kind /\ y.provider = x.provider /\ y.turn = x.turn /\ y.found = x.found
       /\ y.todo = x.todo /\ y.rank = x.rank
    BY <1>0, <2>1 DEF Operation
  <2>4. Become(x, y)
    BY <1>8, <2>1 DEF CreateIdentity
  <2>5. Sound(y)'
    BY <1>0, <1>k, <1>8, <2>2, <2>3 DEF Operation, Kinds, CreateIdentity
  <2>. QED BY <1>0, <1>k, <1>8, <2>2, <2>3, <2>4, <2>5, MovesTo DEF CreateIdentity
<1>9. CASE FindRow(x)
  <2>r. (IF rows[x.key] = None THEN {} ELSE {rows[x.key]}) \in SUBSET Row
    BY <1>0 DEF Operation, WorldTyped
  <2>1. PICK y : y = [x EXCEPT !.step = "publish", !.found = IF rows[x.key] = None THEN {} ELSE {rows[x.key]}]
    OBVIOUS
  <2>2. y \in Operation
    BY <1>0, <1>s, <2>r, <2>1 DEF Operation
  <2>3. /\ y.step = "publish" /\ y.found = IF rows[x.key] = None THEN {} ELSE {rows[x.key]}
       /\ y.kind = x.kind /\ y.provider = x.provider /\ y.turn = x.turn /\ y.key = x.key
       /\ y.todo = x.todo /\ y.rank = x.rank
    BY <1>0, <2>1 DEF Operation
  <2>4. Become(x, y)
    BY <1>9, <2>1 DEF FindRow
  <2>5. Sound(y)'
    BY <1>0, <1>k, <1>9, <2>2, <2>3 DEF Operation, Kinds, FindRow
  <2>. QED BY <1>0, <1>k, <1>9, <2>2, <2>3, <2>4, <2>5, MovesTo DEF FindRow
<1>10. CASE PublishRecord(x)
  <2>r. PICK r \in Serials :
          Become(x, [x EXCEPT !.step = "writeRow", !.flag = x.found # {},
                              !.found = {[id     |-> IF x.found = {} THEN r
                                                     ELSE (CHOOSE w \in x.found : TRUE).id,
                                          owner  |-> Owner(x),
                                          record |-> r]}])
    BY <1>10 DEF PublishRecord
  <2>w. PICK w \in Row :
          Become(x, [x EXCEPT !.step = "writeRow", !.flag = (x.found # {}), !.found = {w}])
    BY <1>10, <2>r, RowTyped DEF PublishRecord
  <2>1. PICK y : y = [x EXCEPT !.step = "writeRow", !.flag = (x.found # {}), !.found = {w}]
    OBVIOUS
  <2>2. y \in Operation
    BY <1>0, <1>s, <2>w, <2>1 DEF Operation
  <2>3. /\ y.step = "writeRow" /\ y.flag = (x.found # {}) /\ y.found = {w}
       /\ y.kind = x.kind /\ y.provider = x.provider /\ y.turn = x.turn /\ y.key = x.key
       /\ y.todo = x.todo /\ y.rank = x.rank
    BY <1>0, <2>1 DEF Operation
  <2>4. Become(x, y)
    BY <2>w, <2>1 DEF PublishRecord
  <2>5. Sound(y)'
    BY <1>0, <1>k, <1>10, <2>2, <2>3 DEF Operation, Kinds, PublishRecord
  <2>. QED BY <1>0, <1>k, <1>10, <2>2, <2>3, <2>4, <2>5, MovesTo DEF PublishRecord
<1>11. CASE WriteRow(x)
  <2>a. CASE Become(x, [x EXCEPT !.found = {}, !.flag = FALSE,
                              !.step = IF x.key = "root" THEN "createIdentity"
                                                         ELSE "listIdentities"])
    <3>s. PICK s \in {"createIdentity", "listIdentities"} :
            s = IF x.key = "root" THEN "createIdentity" ELSE "listIdentities"
      OBVIOUS
    <3>m. x.key \in Keys
      BY <1>0 DEF Operation
    <3>1. PICK y : y = [x EXCEPT !.found = {}, !.flag = FALSE, !.step = s]
      OBVIOUS
    <3>2. y \in Operation
      BY <1>0, <1>s, <3>s, <3>1 DEF Operation
    <3>3. /\ y.found = {} /\ y.flag = FALSE /\ y.step = s
         /\ y.kind = x.kind /\ y.provider = x.provider /\ y.turn = x.turn /\ y.key = x.key
         /\ y.todo = x.todo /\ y.rank = x.rank
      BY <1>0, <3>1 DEF Operation
    <3>4. Become(x, y)
      BY <2>a, <3>s, <3>1 DEF WriteRow, Keys
    <3>5. Sound(y)'
      BY <1>0, <1>k, <1>11, <3>s, <3>m, <3>2, <3>3 DEF Operation, Kinds, WriteRow, Keys
    <3>. QED BY <1>0, <1>k, <1>11, <3>s, <3>m, <3>2, <3>3, <3>4, <3>5, MovesTo DEF WriteRow, Keys
  <2>. QED BY <1>11, <1>e, <2>a DEF WriteRow
<1>12. CASE ListIdentities(x)
  <2>t. PICK top \in Ranks :
          /\ \A p \in Identities : identity[p].priority <= top
          /\ top = 0 \/ \E p \in Identities : identity[p].priority = top
          /\ Become(x, [x EXCEPT !.step = "insertIdentity",
                                 !.rank = IF Active = {} THEN 0 ELSE top + 1])
    BY <1>12 DEF ListIdentities
  <2>u. (IF Active = {} THEN 0 ELSE top + 1) \in Ranks
        /\ (IF Active = {} THEN 0 ELSE top + 1) <= Cardinality(Settled)
    <3>1. CASE Active = {}
      BY <3>1, SettledCount
    <3>2. CASE Active # {}
      <4>1. PICK p \in Identities : identity[p].priority = top \/ top = 0
        BY <2>t, <3>2 DEF Active
      <4>2. identity[p].priority < Cardinality(Settled) /\ identity[p].priority \in Nat
        <5>1. p \in Providers /\ identity[p] \in Identity
          BY <1>0 DEF Identities, WorldTyped
        <5>. QED BY <5>1, SettledCount DEF Ranked, Identity, Ranks
      <4>3. top \in Nat /\ top + 1 <= Cardinality(Settled)
        BY <4>1, <4>2, SettledCount DEF Ranks
      <4>. QED BY <3>2, <4>3, SettledCount, FS_CardinalityType, SandboxAssumption DEF Ranks
    <3>. QED BY <3>1, <3>2
  <2>v. PICK rank \in Ranks : /\ rank <= Cardinality(Settled)
                            /\ Become(x, [x EXCEPT !.step = "insertIdentity", !.rank = rank])
    BY <2>t, <2>u
  <2>1. PICK y : y = [x EXCEPT !.step = "insertIdentity", !.rank = rank]
    OBVIOUS
  <2>2. y \in Operation
    BY <1>0, <1>s, <2>v, <2>1 DEF Operation
  <2>3. /\ y.step = "insertIdentity" /\ y.rank = rank
       /\ y.kind = x.kind /\ y.provider = x.provider /\ y.turn = x.turn /\ y.key = x.key
       /\ y.found = x.found /\ y.todo = x.todo
    BY <1>0, <2>1 DEF Operation
  <2>4. Become(x, y)
    BY <2>v, <2>1 DEF ListIdentities
  <2>5. Sound(y)'
    BY <1>0, <1>k, <1>12, <2>v, <2>2, <2>3 DEF Operation, Kinds, ListIdentities
  <2>. QED BY <1>0, <1>k, <1>12, <2>v, <2>2, <2>3, <2>4, <2>5, MovesTo DEF ListIdentities
<1>13. CASE InsertIdentity(x)
  <2>a. CASE Become(x, [x EXCEPT !.step = "sweep", !.rank = 0])
    <3>1. PICK y : y = [x EXCEPT !.step = "sweep", !.rank = 0]
      OBVIOUS
    <3>2. y \in Operation
      BY <1>0, <1>s, <3>1 DEF Operation
    <3>3. /\ y.step = "sweep" /\ y.rank = 0
         /\ y.kind = x.kind /\ y.provider = x.provider /\ y.turn = x.turn /\ y.key = x.key
         /\ y.found = x.found /\ y.todo = x.todo
      BY <1>0, <3>1 DEF Operation
    <3>4. Become(x, y)
      BY <2>a, <3>1 DEF InsertIdentity
    <3>5. Sound(y)'
      BY <1>0, <1>k, <1>13, <2>a, <3>2, <3>3 DEF Operation, Kinds, InsertIdentity
    <3>. QED BY <1>0, <1>k, <1>13, <2>a, <3>2, <3>3, <3>4, <3>5, MovesTo DEF InsertIdentity
  <2>. QED BY <1>13, <1>e, <2>a DEF InsertIdentity
<1>. QED BY <1>1, <1>2, <1>3, <1>4, <1>5, <1>6, <1>7, <1>8, <1>9, <1>10, <1>11, <1>12, <1>13
     DEF CreateStep

\* A step of a delete.
LEMMA DeleteMoves ==
  ASSUME TypeOK, Sane, Ranked, NEW x \in running, DeleteStep(x)
  PROVE  Moves(x)
<1>0. /\ x \in Operation /\ Sound(x)
      /\ x.step \notin Allocating => x.provider \in Providers /\ Account[x.provider] \in Accounts
      /\ WorldTyped
  BY OperationSound
<1>k. Kept
  BY DeleteTyped
<1>s. \A s \in {"listRows", "deleteRecords", "deleteRows", "deleteIdentity", "promote", "teardown", "drop"} :
        s \in Steps
  BY DEF Steps
<1>e. End(x) => Moves(x)
  BY DEF Moves
<1> USE NoneIsNone DEF Kept, Sound, StepsOf, Allocating, Inserting, Reconciling,
        Removing, Verifying
<1>1. CASE DeleteAtVendor(x)
  <2>1. PICK y : y = [x EXCEPT !.step = "listRows"]
    OBVIOUS
  <2>2. y \in Operation
    BY <1>0, <1>s, <2>1 DEF Operation
  <2>3. /\ y.step = "listRows"
       /\ y.kind = x.kind /\ y.provider = x.provider /\ y.turn = x.turn /\ y.key = x.key
       /\ y.found = x.found /\ y.todo = x.todo /\ y.rank = x.rank
    BY <1>0, <2>1 DEF Operation
  <2>4. Become(x, y)
    BY <1>1, <2>1 DEF Advance, DeleteAtVendor
  <2>5. Sound(y)'
    BY <1>0, <1>k, <1>1, <2>2, <2>3 DEF Operation, Kinds, Advance, DeleteAtVendor
  <2>. QED BY <1>0, <1>k, <1>1, <2>2, <2>3, <2>4, <2>5, MovesTo DEF Advance, DeleteAtVendor
<1>2. CASE ListRows(x)
  <2>a. CASE Advance(x, "deleteIdentity")
    <3>1. PICK y : y = [x EXCEPT !.step = "deleteIdentity"]
      OBVIOUS
    <3>2. y \in Operation
      BY <1>0, <1>s, <3>1 DEF Operation
    <3>3. /\ y.step = "deleteIdentity"
         /\ y.kind = x.kind /\ y.provider = x.provider /\ y.turn = x.turn /\ y.key = x.key
         /\ y.found = x.found /\ y.todo = x.todo /\ y.rank = x.rank
      BY <1>0, <3>1 DEF Operation
    <3>4. Become(x, y)
      BY <2>a, <3>1 DEF Advance, ListRows
    <3>5. Sound(y)'
      BY <1>0, <1>k, <1>2, <2>a, <3>2, <3>3 DEF Operation, Kinds, Advance, ListRows
    <3>. QED BY <1>0, <1>k, <1>2, <2>a, <3>2, <3>3, <3>4, <3>5, MovesTo DEF Advance, ListRows
  <2>b. CASE Become(x, [x EXCEPT !.step = "deleteRecords",
                                 !.found = {rows[k] : k \in OwnedBy(x.provider)}])
    <3>r. PICK found \in SUBSET Row : found = {rows[k] : k \in OwnedBy(x.provider)}
      <4>1. \A k \in OwnedBy(x.provider) : rows[k] \in Row
        BY <1>0 DEF OwnedBy, WorldTyped
      <4>. QED BY <4>1
    <3>1. PICK y : y = [x EXCEPT !.step = "deleteRecords", !.found = found]
      OBVIOUS
    <3>2. y \in Operation
      BY <1>0, <1>s, <3>r, <3>1 DEF Operation
    <3>3. /\ y.step = "deleteRecords" /\ y.found = found
         /\ y.kind = x.kind /\ y.provider = x.provider /\ y.turn = x.turn /\ y.key = x.key
         /\ y.todo = x.todo /\ y.rank = x.rank
      BY <1>0, <3>1 DEF Operation
    <3>4. Become(x, y)
      BY <2>b, <3>r, <3>1 DEF ListRows
    <3>5. Sound(y)'
      BY <1>0, <1>k, <1>2, <3>2, <3>3 DEF Operation, Kinds, ListRows
    <3>. QED BY <1>0, <1>k, <1>2, <3>2, <3>3, <3>4, <3>5, MovesTo DEF ListRows
  <2>. QED BY <1>2, <2>a, <2>b DEF ListRows
<1>3. CASE DeleteRecords(x)
  <2>1. PICK y : y = [x EXCEPT !.step = "deleteRows", !.found = {}]
    OBVIOUS
  <2>2. y \in Operation
    BY <1>0, <1>s, <2>1 DEF Operation
  <2>3. /\ y.step = "deleteRows" /\ y.found = {}
       /\ y.kind = x.kind /\ y.provider = x.provider /\ y.turn = x.turn /\ y.key = x.key
       /\ y.todo = x.todo /\ y.rank = x.rank
    BY <1>0, <2>1 DEF Operation
  <2>4. Become(x, y)
    BY <1>3, <2>1 DEF DeleteRecords
  <2>5. Sound(y)'
    BY <1>0, <1>k, <1>3, <2>2, <2>3 DEF Operation, Kinds, DeleteRecords
  <2>. QED BY <1>0, <1>k, <1>3, <2>2, <2>3, <2>4, <2>5, MovesTo DEF DeleteRecords
<1>4. CASE DeleteRows(x)
  <2>1. PICK y : y = [x EXCEPT !.step = "deleteIdentity"]
    OBVIOUS
  <2>2. y \in Operation
    BY <1>0, <1>s, <2>1 DEF Operation
  <2>3. /\ y.step = "deleteIdentity"
       /\ y.kind = x.kind /\ y.provider = x.provider /\ y.turn = x.turn /\ y.key = x.key
       /\ y.found = x.found /\ y.todo = x.todo /\ y.rank = x.rank
    BY <1>0, <2>1 DEF Operation
  <2>4. Become(x, y)
    BY <1>4, <2>1 DEF Advance, DeleteRows
  <2>5. Sound(y)'
    BY <1>0, <1>k, <1>4, <2>2, <2>3 DEF Operation, Kinds, Advance, DeleteRows
  <2>. QED BY <1>0, <1>k, <1>4, <2>2, <2>3, <2>4, <2>5, MovesTo DEF Advance, DeleteRows
<1>5. CASE DeleteIdentity(x)
  <2>1. PICK y : y = [x EXCEPT !.step = "promote"]
    OBVIOUS
  <2>2. y \in Operation
    BY <1>0, <1>s, <2>1 DEF Operation
  <2>3. /\ y.step = "promote"
       /\ y.kind = x.kind /\ y.provider = x.provider /\ y.turn = x.turn /\ y.key = x.key
       /\ y.found = x.found /\ y.todo = x.todo /\ y.rank = x.rank
    BY <1>0, <2>1 DEF Operation
  <2>4. Become(x, y)
    BY <1>5, <2>1 DEF Advance, DeleteIdentity
  <2>5. Sound(y)'
    BY <1>0, <1>k, <1>5, <2>2, <2>3 DEF Operation, Kinds, Advance, DeleteIdentity
  <2>. QED BY <1>0, <1>k, <1>5, <2>2, <2>3, <2>4, <2>5, MovesTo DEF Advance, DeleteIdentity
<1>6. CASE Promote(x)
  <2>1. PICK y : y = [x EXCEPT !.step = "teardown"]
    OBVIOUS
  <2>2. y \in Operation
    BY <1>0, <1>s, <2>1 DEF Operation
  <2>3. /\ y.step = "teardown"
       /\ y.kind = x.kind /\ y.provider = x.provider /\ y.turn = x.turn /\ y.key = x.key
       /\ y.found = x.found /\ y.todo = x.todo /\ y.rank = x.rank
    BY <1>0, <2>1 DEF Operation
  <2>4. Become(x, y)
    BY <1>6, <2>1 DEF Advance, Promote
  <2>5. Sound(y)'
    BY <1>0, <1>k, <1>6, <2>2, <2>3 DEF Operation, Kinds, Advance, Promote
  <2>. QED BY <1>0, <1>k, <1>6, <2>2, <2>3, <2>4, <2>5, MovesTo DEF Advance, Promote
<1>7. CASE TeardownInfrastructure(x)
  <2>1. PICK y : y = [x EXCEPT !.step = "drop"]
    OBVIOUS
  <2>2. y \in Operation
    BY <1>0, <1>s, <2>1 DEF Operation
  <2>3. /\ y.step = "drop"
       /\ y.kind = x.kind /\ y.provider = x.provider /\ y.turn = x.turn /\ y.key = x.key
       /\ y.found = x.found /\ y.todo = x.todo /\ y.rank = x.rank
    BY <1>0, <2>1 DEF Operation
  <2>4. Become(x, y)
    BY <1>7, <2>1 DEF Advance, TeardownInfrastructure
  <2>5. Sound(y)'
    BY <1>0, <1>k, <1>7, <2>2, <2>3 DEF Operation, Kinds, Advance, TeardownInfrastructure
  <2>. QED BY <1>0, <1>k, <1>7, <2>2, <2>3, <2>4, <2>5, MovesTo DEF Advance, TeardownInfrastructure
<1>8. CASE DropProvider(x)
  BY <1>8, <1>e DEF DropProvider
<1>. QED BY <1>1, <1>2, <1>3, <1>4, <1>5, <1>6, <1>7, <1>8 DEF DeleteStep

\* A step of a verification or an allocation.
LEMMA VerifyMoves ==
  ASSUME TypeOK, Sane, Ranked, NEW x \in running, VerifyStep(x)
  PROVE  Moves(x)
<1>0. /\ x \in Operation /\ Sound(x)
      /\ x.step \notin Allocating => x.provider \in Providers /\ Account[x.provider] \in Accounts
      /\ WorldTyped
  BY OperationSound
<1>k. Kept
  BY VerifyTyped
<1>s. \A s \in {"compare", "rollup", "record", "sweep", "status", "pick", "assign"} :
        s \in Steps
  BY DEF Steps
<1>e. End(x) => Moves(x)
  BY DEF Moves
<1> USE NoneIsNone DEF Kept, Sound, StepsOf, Allocating, Inserting, Reconciling,
        Removing, Verifying
<1>1. CASE ReadStatus(x)
  <2>a. CASE Advance(x, "compare")
    <3>1. PICK y : y = [x EXCEPT !.step = "compare"]
      OBVIOUS
    <3>2. y \in Operation
      BY <1>0, <1>s, <3>1 DEF Operation
    <3>3. /\ y.step = "compare"
         /\ y.kind = x.kind /\ y.provider = x.provider /\ y.turn = x.turn /\ y.key = x.key
         /\ y.found = x.found /\ y.todo = x.todo /\ y.rank = x.rank
      BY <1>0, <3>1 DEF Operation
    <3>4. Become(x, y)
      BY <2>a, <3>1 DEF Advance, ReadStatus
    <3>5. Sound(y)'
      BY <1>0, <1>k, <1>1, <2>a, <3>2, <3>3 DEF Operation, Kinds, Advance, ReadStatus
    <3>. QED BY <1>0, <1>k, <1>1, <2>a, <3>2, <3>3, <3>4, <3>5, MovesTo DEF Advance, ReadStatus
  <2>. QED BY <1>1, <1>e, <2>a DEF ReadStatus
<1>2. CASE CompareDns(x)
  <2>f. PICK flag \in BOOLEAN : Become(x, [x EXCEPT !.step = "rollup", !.flag = flag])
    BY <1>2 DEF CompareDns
  <2>1. PICK y : y = [x EXCEPT !.step = "rollup", !.flag = flag]
    OBVIOUS
  <2>2. y \in Operation
    BY <1>0, <1>s, <2>f, <2>1 DEF Operation
  <2>3. /\ y.step = "rollup" /\ y.flag = flag
       /\ y.kind = x.kind /\ y.provider = x.provider /\ y.turn = x.turn /\ y.key = x.key
       /\ y.found = x.found /\ y.todo = x.todo /\ y.rank = x.rank
    BY <1>0, <2>1 DEF Operation
  <2>4. Become(x, y)
    BY <2>f, <2>1 DEF CompareDns
  <2>5. Sound(y)'
    BY <1>0, <1>k, <1>2, <2>2, <2>3 DEF Operation, Kinds, CompareDns
  <2>. QED BY <1>0, <1>k, <1>2, <2>2, <2>3, <2>4, <2>5, MovesTo DEF CompareDns
<1>3. CASE Rollup(x)
  <2>f. PICK servable \in BOOLEAN : Become(x, [x EXCEPT !.step = "record", !.servable = servable])
    BY <1>3 DEF Rollup
  <2>1. PICK y : y = [x EXCEPT !.step = "record", !.servable = servable]
    OBVIOUS
  <2>2. y \in Operation
    BY <1>0, <1>s, <2>f, <2>1 DEF Operation
  <2>3. /\ y.step = "record" /\ y.servable = servable
       /\ y.kind = x.kind /\ y.provider = x.provider /\ y.turn = x.turn /\ y.key = x.key
       /\ y.found = x.found /\ y.todo = x.todo /\ y.rank = x.rank
    BY <1>0, <2>1 DEF Operation
  <2>4. Become(x, y)
    BY <2>f, <2>1 DEF Rollup
  <2>5. Sound(y)'
    BY <1>0, <1>k, <1>3, <2>2, <2>3 DEF Operation, Kinds, Rollup
  <2>. QED BY <1>0, <1>k, <1>3, <2>2, <2>3, <2>4, <2>5, MovesTo DEF Rollup
<1>4. CASE RecordStatus(x)
  <2>a. CASE x.kind # "verify" /\ x.todo = {}
    <3>1. PICK y : y = [x EXCEPT !.flag = FALSE, !.servable = FALSE, !.step = "sweep"]
      OBVIOUS
    <3>2. y \in Operation
      BY <1>0, <1>s, <3>1 DEF Operation
    <3>3. /\ y.flag = FALSE /\ y.servable = FALSE /\ y.step = "sweep"
         /\ y.kind = x.kind /\ y.provider = x.provider /\ y.turn = x.turn /\ y.key = x.key
         /\ y.found = x.found /\ y.todo = x.todo /\ y.rank = x.rank
      BY <1>0, <3>1 DEF Operation
    <3>4. Become(x, y)
      BY <1>4, <2>a, <3>1 DEF RecordStatus
    <3>5. Sound(y)'
      BY <1>0, <1>k, <1>4, <2>a, <3>2, <3>3 DEF Operation, Kinds, RecordStatus
    <3>. QED BY <1>0, <1>k, <1>4, <2>a, <3>2, <3>3, <3>4, <3>5, MovesTo DEF RecordStatus
  <2>b. CASE x.kind # "verify" /\ x.todo # {}
    <3>p. PICK p \in x.todo :
            Become(x, [x EXCEPT !.flag = FALSE, !.servable = FALSE, !.step = "status",
                                !.provider = p, !.todo = x.todo \ {p}])
      BY <1>0, <1>4, <2>b DEF RecordStatus, Operation
    <3>q. x.todo \subseteq Providers /\ x.kind = "sweep"
      BY <1>0, <1>4, <2>b DEF RecordStatus, Operation, Kinds
    <3>1. PICK y : y = [x EXCEPT !.flag = FALSE, !.servable = FALSE, !.step = "status", !.provider = p, !.todo = x.todo \ {p}]
      OBVIOUS
    <3>2. y \in Operation
      BY <1>0, <1>s, <3>p, <3>q, <3>1 DEF Operation
    <3>3. /\ y.flag = FALSE /\ y.servable = FALSE /\ y.step = "status" /\ y.provider = p /\ y.todo = x.todo \ {p}
         /\ y.kind = x.kind /\ y.turn = x.turn /\ y.key = x.key /\ y.found = x.found
         /\ y.rank = x.rank
      BY <1>0, <3>1 DEF Operation
    <3>4. Become(x, y)
      BY <3>p, <3>1 DEF RecordStatus
    <3>5. Sound(y)'
      BY <1>0, <1>k, <1>4, <3>p, <3>q, <3>2, <3>3 DEF Operation, Kinds, RecordStatus
    <3>. QED BY <1>0, <1>k, <1>4, <3>p, <3>q, <3>2, <3>3, <3>4, <3>5, MovesTo DEF RecordStatus
  <2>. QED BY <1>4, <1>e, <2>a, <2>b DEF RecordStatus
<1>5. CASE Sweep(x)
  <2>a. CASE Become(x, [x EXCEPT !.step = "pick", !.todo = Projects \ assigned])
    <3>t. PICK todo \in SUBSET Projects : todo = Projects \ assigned
      OBVIOUS
    <3>1. PICK y : y = [x EXCEPT !.step = "pick", !.todo = todo]
      OBVIOUS
    <3>2. y \in Operation
      BY <1>0, <1>s, <3>t, <3>1 DEF Operation
    <3>3. /\ y.step = "pick" /\ y.todo = todo
         /\ y.kind = x.kind /\ y.provider = x.provider /\ y.turn = x.turn /\ y.key = x.key
         /\ y.found = x.found /\ y.rank = x.rank
      BY <1>0, <3>1 DEF Operation
    <3>4. Become(x, y)
      BY <2>a, <3>t, <3>1 DEF Sweep
    <3>5. Sound(y)'
      BY <1>0, <1>k, <1>5, <3>t, <3>2, <3>3 DEF Operation, Kinds, Sweep
    <3>. QED BY <1>0, <1>k, <1>5, <3>t, <3>2, <3>3, <3>4, <3>5, MovesTo DEF Sweep
  <2>. QED BY <1>5, <1>e, <2>a DEF Sweep
<1>6. CASE Pick(x)
  <2>a. CASE Advance(x, "assign")
    <3>1. PICK y : y = [x EXCEPT !.step = "assign"]
      OBVIOUS
    <3>2. y \in Operation
      BY <1>0, <1>s, <3>1 DEF Operation
    <3>3. /\ y.step = "assign"
         /\ y.kind = x.kind /\ y.provider = x.provider /\ y.turn = x.turn /\ y.key = x.key
         /\ y.found = x.found /\ y.todo = x.todo /\ y.rank = x.rank
      BY <1>0, <3>1 DEF Operation
    <3>4. Become(x, y)
      BY <2>a, <3>1 DEF Advance, Pick
    <3>5. Sound(y)'
      BY <1>0, <1>k, <1>6, <2>a, <3>2, <3>3 DEF Operation, Kinds, Advance, Pick
    <3>. QED BY <1>0, <1>k, <1>6, <2>a, <3>2, <3>3, <3>4, <3>5, MovesTo DEF Advance, Pick
  <2>. QED BY <1>6, <1>e, <2>a DEF Pick
<1>7. CASE Assign(x)
  <2>a. ASSUME NEW o \in x.todo,
               Become(x, [x EXCEPT !.step = "pick", !.todo = x.todo \ {o}])
        PROVE  Moves(x)
    <3>1. PICK y : y = [x EXCEPT !.step = "pick", !.todo = x.todo \ {o}]
      OBVIOUS
    <3>2. y \in Operation
      BY <1>0, <1>s, <3>1 DEF Operation
    <3>3. /\ y.step = "pick" /\ y.todo = x.todo \ {o}
         /\ y.kind = x.kind /\ y.provider = x.provider /\ y.turn = x.turn /\ y.key = x.key
         /\ y.found = x.found /\ y.rank = x.rank
      BY <1>0, <3>1 DEF Operation
    <3>4. Become(x, y)
      BY <2>a, <3>1 DEF Assign
    <3>5. Sound(y)'
      BY <1>0, <1>k, <1>7, <3>2, <3>3 DEF Operation, Kinds, Assign
    <3>. QED BY <1>0, <1>k, <1>7, <3>2, <3>3, <3>4, <3>5, MovesTo DEF Assign
  <2>. QED BY <1>0, <1>7, <1>e, <2>a DEF Assign, Operation
<1>. QED BY <1>1, <1>2, <1>3, <1>4, <1>5, <1>6, <1>7 DEF VerifyStep

Moved ==
  \/ \E y : Begins(y)
  \/ UNCHANGED overlaps /\ \E x \in running : Moves(x)
  \/ UNCHANGED <<overlaps, running>>

\* A step of the whole: an operation begins, moves or ends, or the world drifts.
LEMMA NextMoves ==
  ASSUME TypeOK, Sane, Ranked, Next
  PROVE  WorldTyped' /\ Kept /\ Moved
<1>. USE DEF Moved
<1>0. WorldTyped
  BY DEF TypeOK, WorldTyped
<1>1. CASE Starts
  <2>1. PICK y : Begins(y)
    BY <1>1, StartsBegin
  <2>. QED BY <1>0, <2>1 DEF Begins, world, fleet, dns, WorldTyped, Kept
<1>2. ASSUME NEW x \in running, CreateStep(x), UNCHANGED overlaps PROVE WorldTyped' /\ Kept /\ Moved
  BY <1>2, CreateTyped, CreateMoves
<1>3. ASSUME NEW x \in running, DeleteStep(x), UNCHANGED overlaps PROVE WorldTyped' /\ Kept /\ Moved
  BY <1>3, DeleteTyped, DeleteMoves
<1>4. ASSUME NEW x \in running, VerifyStep(x), UNCHANGED overlaps PROVE WorldTyped' /\ Kept /\ Moved
  BY <1>4, VerifyTyped, VerifyMoves
<1>5. ASSUME NEW x \in running, Fail(x), UNCHANGED overlaps PROVE WorldTyped' /\ Kept /\ Moved
  BY <1>0, <1>5 DEF Fail, Moves, world, fleet, dns, WorldTyped, Kept
<1>6. ASSUME NEW r \in Serials, Drift(r), UNCHANGED overlaps PROVE WorldTyped' /\ Kept /\ Moved
  BY <1>0, <1>6 DEF Drift, fleet, WorldTyped, Kept
<1>7. ASSUME NEW p \in Providers, Pair(p), UNCHANGED overlaps PROVE WorldTyped' /\ Kept /\ Moved
  BY <1>0, <1>7 DEF Pair, fleet, dns, WorldTyped, Kept
<1>. QED BY <1>1, <1>2, <1>3, <1>4, <1>5, <1>6, <1>7, Actions

\* The types hold in every reachable state.
LEMMA TypeStep ==
  ASSUME TypeOK, Sane, Ranked, Next
  PROVE  TypeOK'
<1>1. WorldTyped' /\ Moved
  BY NextMoves
<1>2. running' \subseteq Operation /\ overlaps' \in 0..MaxOverlaps
  <2>1. CASE \E y : Begins(y)
    BY <2>1 DEF Begins, TypeOK
  <2>2. ASSUME UNCHANGED overlaps, NEW x \in running, Moves(x)
        PROVE  running' \subseteq Operation /\ overlaps' \in 0..MaxOverlaps
    BY <2>2 DEF Moves, End, Become, TypeOK
  <2>. QED BY <1>1, <2>1, <2>2 DEF Moved, TypeOK
<1>. QED BY <1>1, <1>2 DEF WorldTyped, TypeOK

\* Only these steps write an identity.
LEMMA IdentityChanges ==
  ASSUME Next
  PROVE  \/ UNCHANGED identity
         \/ \E x \in running : InsertIdentity(x) \/ DeleteIdentity(x) \/ Promote(x) \/ ReadStatus(x)
<1>1. CASE Starts
  BY <1>1 DEF Starts, StartCreate, StartUpdate, StartEnsure, StartDelete, StartVerify,
              StartVerifySandbox, StartAllocate, world
<1>2. ASSUME NEW x \in running, CreateStep(x), ~InsertIdentity(x) PROVE UNCHANGED identity
  BY <1>2 DEF CreateStep, ClearEmailDefaults, CheckDefault, InsertProvider, SetDefault,
              EnsureInfrastructure, LookUpSandbox, InsertSandbox, CreateIdentity, FindRow,
              PublishRecord, WriteRow, ListIdentities, world
<1>3. ASSUME NEW x \in running, DeleteStep(x), ~DeleteIdentity(x), ~Promote(x)
      PROVE  UNCHANGED identity
  BY <1>3 DEF DeleteStep, DeleteAtVendor, ListRows, DeleteRecords, DeleteRows,
              TeardownInfrastructure, DropProvider, world
<1>4. ASSUME NEW x \in running, VerifyStep(x), ~ReadStatus(x) PROVE UNCHANGED identity
  BY <1>4 DEF VerifyStep, CompareDns, Rollup, RecordStatus, Sweep, Pick, Assign, world
<1>. QED BY <1>1, <1>2, <1>3, <1>4, Actions DEF Fail, Drift, Pair, world

\* Operations stay sound, a Provider is created by one of them at most, and
\* identities have a sandbox.
LEMMA SaneStep ==
  ASSUME TypeOK, Sane, Ranked, Next
  PROVE  Sane'
<1>1. Kept /\ Moved
  BY NextMoves
<1>2. \A z \in running : Sound(z)'
  BY <1>1, SoundStays DEF Sane, TypeOK
<1>3. (\A x \in running : Sound(x))' /\ OneCreate'
  <2>1. CASE \E y : Begins(y)
    <3>1. PICK y : Begins(y)
      BY <2>1
    <3>2. Sound(y)'
      BY <1>1, <3>1, SoundStays DEF Begins
    <3>. QED BY <1>2, <3>1, <3>2 DEF Begins, OneCreate, Sane
  <2>2. ASSUME NEW x \in running, Moves(x) PROVE (\A z \in running : Sound(z))' /\ OneCreate'
    BY <1>2, <2>2 DEF Moves, End, Become, OneCreate, Sane
  <2>. QED BY <1>1, <1>2, <2>1, <2>2 DEF Moved, OneCreate, Sane
<1>4. Identities' # {} => sandbox' # None
  <2>1. CASE Identities' \subseteq Identities
    BY <1>1, <2>1 DEF Sane, Kept
  <2>2. ASSUME NEW x \in running, InsertIdentity(x) PROVE sandbox' # None
    BY <1>1, <2>2 DEF InsertIdentity, Sane, Sound, Kept
  <2>3. Identities' \subseteq Identities \/ \E x \in running : InsertIdentity(x)
    <3>1. CASE UNCHANGED identity
      BY <3>1 DEF Identities
    <3>2. ASSUME NEW x \in running, DeleteIdentity(x) \/ Promote(x) \/ ReadStatus(x)
          PROVE  Identities' \subseteq Identities
      <4>1. CASE DeleteIdentity(x)
        BY <4>1 DEF DeleteIdentity, Identities, TypeOK
      <4>2. CASE Promote(x)
        BY <4>2 DEF Promote, NextInOrder, Identities, TypeOK
      <4>3. CASE ReadStatus(x)
        BY <4>3 DEF ReadStatus, Identities, TypeOK
      <4>. QED BY <3>2, <4>1, <4>2, <4>3
    <3>. QED BY <3>1, <3>2, IdentityChanges
  <2>. QED BY <2>1, <2>2, <2>3
<1>. QED BY <1>3, <1>4 DEF Sane

\* A Provider that is settled stays so, and the one whose identity is inserted
\* joins them.
LEMMA SettledGrows ==
  ASSUME TypeOK, Sane, Ranked, Next
  PROVE  /\ Settled \subseteq Settled'
         /\ Cardinality(Settled) <= Cardinality(Settled')
         /\ Cardinality(Settled) \in Nat /\ Cardinality(Settled') \in Nat
<1>1. Kept /\ Moved
  BY NextMoves
<1>2. Settled \subseteq Settled'
  <2>1. CASE \E y : Begins(y)
    BY <1>1, <2>1 DEF Begins, Settled, Kept
  <2>2. ASSUME NEW x \in running, Moves(x) PROVE Settled \subseteq Settled'
    BY <1>1, <2>2 DEF Moves, End, Become, Settled, Kept
  <2>. QED BY <1>1, <2>1, <2>2 DEF Moved, Settled, Kept
<1>3. Settled' \subseteq Providers
  BY DEF Settled
<1>. QED BY <1>2, <1>3, SettledCount, SandboxAssumption, FS_Subset, FS_CardinalityType

\* Failover priorities never exceed the number of Providers.
LEMMA RankedStep ==
  ASSUME TypeOK, Sane, Ranked, Next
  PROVE  Ranked'
<1>1. Kept /\ Moved /\ TypeOK'
  BY NextMoves, TypeStep
<1>2. \A x \in running' : x.step = "insertIdentity" => x.rank <= Cardinality(Settled)'
  <2>0. \A x \in running : x.rank \in Nat
    BY FS_CardinalityType, SandboxAssumption DEF TypeOK, Operation, Ranks
  <2>1. CASE \E y : Begins(y)
    <3>1. PICK y : Begins(y)
      BY <2>1
    <3>2. y.step # "insertIdentity"
      BY <3>1 DEF Begins, Operation, Kinds
    <3>. QED BY <2>0, <3>1, <3>2, SettledGrows DEF Begins, Ranked
  <2>2. ASSUME NEW x \in running, Moves(x)
        PROVE  \A z \in running' : z.step = "insertIdentity" => z.rank <= Cardinality(Settled)'
    <3>1. \A z \in running' : z \in running
             \/ (z \in Operation /\ (z.step = "insertIdentity" => z.rank <= Cardinality(Settled)))
      BY <2>2 DEF Moves, End, Become
    <3>2. \A z \in Operation : z.rank \in Nat
      BY FS_CardinalityType, SandboxAssumption DEF Operation, Ranks
    <3>. QED BY <2>0, <3>1, <3>2, SettledGrows DEF Ranked
  <2>. QED BY <1>1, <2>0, <2>1, <2>2, SettledGrows DEF Moved, Ranked
<1>3. ASSUME NEW p \in Providers, identity'[p] # None
      PROVE  identity'[p].priority < Cardinality(Settled)'
  <2>1. ASSUME identity[p] # None, identity'[p].priority = identity[p].priority
        PROVE  identity'[p].priority < Cardinality(Settled)'
    <3>1. identity[p].priority \in Nat
      BY <2>1, FS_CardinalityType, SandboxAssumption DEF TypeOK, Identity, Ranks
    <3>. QED BY <2>1, <3>1, SettledGrows DEF Ranked, Identities
  <2>2. ASSUME NEW x \in running, InsertIdentity(x), p = x.provider, x.provider \in Present
        PROVE  identity'[p].priority < Cardinality(Settled)'
    <3>1. x \in Operation /\ Sound(x)
      BY OperationSound
    <3>2. /\ x.kind = "create" /\ x.rank \in Nat /\ x.rank <= Cardinality(Settled)
          /\ identity'[p].priority = x.rank
      BY <2>2, <3>1, FS_CardinalityType, SandboxAssumption
         DEF InsertIdentity, Sound, StepsOf, Operation, Kinds, Ranks, Ranked, Allocating,
             Verifying, Inserting, Reconciling, Removing, TypeOK
    <3>3. p \notin Settled
      BY <2>2, <3>2 DEF Settled, InsertIdentity, Allocating
    <3>4. p \in Settled'
      <4>1. PICK y : y = [x EXCEPT !.step = "sweep", !.rank = 0] /\ Become(x, y)
        BY <2>2 DEF InsertIdentity
      <4>2. y.step = "sweep" /\ running' = (running \ {x}) \cup {y}
        BY <3>1, <4>1 DEF Become, Operation
      <4>3. provider'[p] # "absent"
        BY <2>2 DEF InsertIdentity, fleet, Present
      <4>4. \A z \in running' : z.kind = "create" /\ z.provider = p => z.step \in Allocating
        BY <2>2, <3>2, <4>2 DEF Sane, OneCreate, Allocating
      <4>. QED BY <4>3, <4>4 DEF Settled
    <3>5. Settled \cup {p} \subseteq Settled' /\ IsFiniteSet(Settled')
      <4>1. Settled' \subseteq Providers
        BY DEF Settled
      <4>. QED BY <3>4, <4>1, SettledGrows, SandboxAssumption, FS_Subset
    <3>6. Cardinality(Settled \cup {p}) = Cardinality(Settled) + 1
      BY <3>3, SettledCount, FS_AddElement
    <3>7. Cardinality(Settled) + 1 <= Cardinality(Settled')
      BY <3>5, <3>6, FS_Subset
    <3>. QED BY <3>2, <3>7, SettledGrows
  <2>3. ASSUME NEW x \in running, InsertIdentity(x), ~(p = x.provider /\ x.provider \in Present)
        PROVE  identity'[p] = identity[p]
    BY <2>3 DEF InsertIdentity, TypeOK
  <2>4. ASSUME NEW x \in running, DeleteIdentity(x) \/ Promote(x) \/ ReadStatus(x)
        PROVE  identity[p] # None /\ identity'[p].priority = identity[p].priority
    <3>1. CASE DeleteIdentity(x)
      BY <1>3, <3>1 DEF DeleteIdentity, TypeOK
    <3>2. CASE Promote(x)
      BY <1>3, <3>2 DEF Promote, NextInOrder, Identities, TypeOK, Identity
    <3>3. CASE ReadStatus(x)
      <4>1. PICK verdict \in BOOLEAN :
              \/ identity' = identity
              \/ /\ identity[x.provider] # None /\ x.provider \in Providers
                 /\ identity' = [identity EXCEPT ![x.provider].verified = verdict]
        BY <3>3 DEF ReadStatus, Identities
      <4>2. identity[p] # None
        BY <1>3, <4>1 DEF TypeOK
      <4>3. identity[p] \in Identity
        BY <4>2 DEF TypeOK
      <4>. QED BY <1>3, <4>1, <4>3, <4>2 DEF TypeOK, Identity
    <3>. QED BY <2>4, <3>1, <3>2, <3>3
  <2>5. ASSUME UNCHANGED identity PROVE identity[p] # None /\ identity'[p].priority = identity[p].priority
    BY <1>3, <2>5
  <2>6. ASSUME NEW x \in running, InsertIdentity(x)
        PROVE  identity'[p].priority < Cardinality(Settled)'
    <3>1. CASE p = x.provider /\ x.provider \in Present
      BY <2>2, <2>6, <3>1
    <3>2. CASE ~(p = x.provider /\ x.provider \in Present)
      BY <1>3, <2>1, <2>3, <2>6, <3>2
    <3>. QED BY <3>1, <3>2
  <2>. QED BY <2>1, <2>4, <2>5, <2>6, IdentityChanges
<1>. QED BY <1>2, <1>3 DEF Ranked, Identities

\* Only these steps write rows or records.
LEMMA DnsChanges ==
  ASSUME Next
  PROVE  \/ UNCHANGED dns
         \/ \E x \in running : PublishRecord(x) \/ WriteRow(x) \/ DeleteRecords(x) \/ DeleteRows(x)
         \/ \E r \in Serials : Drift(r)
<1>1. CASE Starts
  BY <1>1 DEF Starts, StartCreate, StartUpdate, StartEnsure, StartDelete, StartVerify,
              StartVerifySandbox, StartAllocate, world
<1>2. ASSUME NEW x \in running, CreateStep(x), ~PublishRecord(x), ~WriteRow(x)
      PROVE  UNCHANGED dns
  BY <1>2 DEF CreateStep, ClearEmailDefaults, CheckDefault, InsertProvider, SetDefault,
              EnsureInfrastructure, LookUpSandbox, InsertSandbox, CreateIdentity, FindRow,
              InsertIdentity, ListIdentities, world
<1>3. ASSUME NEW x \in running, DeleteStep(x), ~DeleteRecords(x), ~DeleteRows(x)
      PROVE  UNCHANGED dns
  BY <1>3 DEF DeleteStep, DeleteAtVendor, ListRows, DeleteIdentity, Promote,
              TeardownInfrastructure, DropProvider, world
<1>4. ASSUME NEW x \in running, VerifyStep(x) PROVE UNCHANGED dns
  BY <1>4 DEF VerifyStep, ReadStatus, CompareDns, Rollup, RecordStatus, Sweep, Pick, Assign, world
<1>. QED BY <1>1, <1>2, <1>3, <1>4, Actions DEF Fail, Pair, world

\* What a row or a listed row names stays a record of its key: no serial is
\* given twice, and a record that is overwritten keeps its key.
ZoneMoves ==
  /\ serial \in Nat /\ serial' \in Nat /\ serial <= serial'
  /\ \A r \in Serials : zone'[r] # None =>
       \/ /\ zone[r] # None /\ zone'[r].key = zone[r].key /\ r <= serial'
          /\ zone[r].key = "root" => zone'[r].value = "root"
       \/ /\ r = serial + 1 /\ serial' = r
          /\ zone'[r].key = "root" => zone'[r].value = "root"

\* Every step writes records so.
LEMMA ZoneWrites ==
  ASSUME TypeOK, Sane, ZoneSound, Next
  PROVE  ZoneMoves
<1>. USE DEF ZoneMoves
<1>0. serial \in Nat /\ zone \in [Serials -> Record \cup {None}]
  BY SandboxAssumption DEF TypeOK
<1>1. CASE UNCHANGED dns
  BY <1>0, <1>1 DEF dns, ZoneSound
<1>2. ASSUME NEW x \in running, PublishRecord(x) PROVE ZoneMoves
  <2>1. PICK r \in Serials :
          /\ IF Known(x) # {} THEN \E w \in Known(x) : r = w.record
             ELSE IF Same(x) # {} THEN r \in Same(x) ELSE r = serial + 1
          /\ zone' = [zone EXCEPT ![r] = Wanted(x)]
          /\ serial' = IF Known(x) = {} /\ Same(x) = {} THEN r ELSE serial
    BY <1>2 DEF PublishRecord
  <2>2. x \in Operation /\ Sound(x)
    BY OperationSound
  <2>3. FoundKey(x) = x.key
    BY <1>2, <2>2 DEF PublishRecord, FoundKey, Sound, StepsOf, Removing, Operation, Kinds
  <2>4. Wanted(x).key = x.key /\ (x.key = "root" => Wanted(x).value = "root")
    BY DEF Wanted, Value
  <2>5. CASE Known(x) # {}
    <3>1. PICK w \in x.found : r = w.record /\ zone[r] # None
      BY <2>1, <2>5 DEF Known
    <3>2. zone[r].key = x.key
      BY <2>3, <3>1 DEF ZoneSound, Names
    <3>. QED BY <1>0, <2>1, <2>4, <2>5, <3>1, <3>2 DEF ZoneSound
  <2>6. CASE Known(x) = {} /\ Same(x) # {}
    <3>1. zone[r] = Wanted(x)
      BY <2>1, <2>6 DEF Same
    <3>. QED BY <1>0, <2>1, <2>4, <2>6, <3>1 DEF ZoneSound
  <2>7. CASE Known(x) = {} /\ Same(x) = {}
    BY <1>0, <2>1, <2>4, <2>7, SandboxAssumption DEF ZoneSound, Serials
  <2>. QED BY <2>5, <2>6, <2>7
<1>3. ASSUME NEW x \in running, DeleteRecords(x) PROVE ZoneMoves
  BY <1>0, <1>3 DEF DeleteRecords, ZoneSound
<1>4. ASSUME NEW x \in running, WriteRow(x) \/ DeleteRows(x) PROVE ZoneMoves
  BY <1>0, <1>4 DEF WriteRow, DeleteRows, ZoneSound
<1>5. ASSUME NEW r \in Serials, Drift(r) PROVE ZoneMoves
  BY <1>0, <1>5 DEF Drift, ZoneSound
<1>. QED BY <1>1, <1>2, <1>3, <1>4, <1>5, DnsChanges

\* Only these steps find rows.
LEMMA FoundChanges ==
  ASSUME TypeOK, Sane, Ranked, Next, NEW x \in running', x \notin running, x.found # {}
  PROVE  \E z \in running : FindRow(z) \/ ListRows(z) \/ PublishRecord(z)
<1>0. x.step \in {"publish", "writeRow", "deleteRecords"}
  BY SaneStep DEF Sane, Sound
<1>1. CASE Starts
  BY <1>1, StartsBegin DEF Begins
<1>2. ASSUME NEW z \in running, CreateStep(z), ~FindRow(z), ~PublishRecord(z) PROVE FALSE
  <2>0. z \in Operation
    BY DEF TypeOK
  <2>1. CASE ClearEmailDefaults(z)
    BY <1>0, <2>0, <2>1 DEF ClearEmailDefaults, Advance, Become, End, Operation
  <2>2. CASE CheckDefault(z)
    BY <1>0, <2>0, <2>2 DEF CheckDefault, Advance, Become, End, Operation
  <2>3. CASE InsertProvider(z)
    BY <1>0, <2>0, <2>3 DEF InsertProvider, Advance, Become, End, Operation
  <2>4. CASE SetDefault(z)
    BY <1>0, <2>0, <2>4 DEF SetDefault, Advance, Become, End, Operation
  <2>5. CASE EnsureInfrastructure(z)
    BY <1>0, <2>0, <2>5 DEF EnsureInfrastructure, Advance, Become, End, Operation
  <2>6. CASE LookUpSandbox(z)
    BY <1>0, <2>0, <2>6, SMTT(30) DEF LookUpSandbox, Advance, Become, End, Operation
  <2>7. CASE InsertSandbox(z)
    BY <1>0, <2>0, <2>7, ZenonT(40) DEF InsertSandbox, Advance, Become, End, Operation
  <2>8. CASE CreateIdentity(z)
    BY <1>0, <2>0, <2>8 DEF CreateIdentity, Advance, Become, End, Operation
  <2>9. CASE WriteRow(z)
    <3>1. x.step \in {"createIdentity", "listIdentities"}
      <4>1. PICK y : (y.step \in {"createIdentity", "listIdentities"} /\ Become(z, y)) \/ End(z)
        BY <2>0, <2>9 DEF WriteRow, Operation
      <4>. QED BY <4>1 DEF Become, End
    <3>. QED BY <1>0, <3>1
  <2>10. CASE ListIdentities(z)
    <3>1. x.step \in {"insertIdentity"}
      <4>1. PICK y : (y.step \in {"insertIdentity"} /\ Become(z, y)) \/ End(z)
        BY <2>0, <2>10 DEF ListIdentities, Operation
      <4>. QED BY <4>1 DEF Become, End
    <3>. QED BY <1>0, <3>1
  <2>11. CASE InsertIdentity(z)
    <3>1. x.step \in {"sweep"}
      <4>1. PICK y : (y.step \in {"sweep"} /\ Become(z, y)) \/ End(z)
        BY <2>0, <2>11 DEF InsertIdentity, Operation
      <4>. QED BY <4>1 DEF Become, End
    <3>. QED BY <1>0, <3>1
  <2>. QED BY <1>2, <2>1, <2>2, <2>3, <2>4, <2>5, <2>6, <2>7, <2>8, <2>9, <2>10, <2>11 DEF CreateStep
<1>3. ASSUME NEW z \in running, DeleteStep(z), ~ListRows(z) PROVE FALSE
  <2>0. z \in Operation
    BY DEF TypeOK
  <2>1. CASE DeleteAtVendor(z)
    BY <1>0, <2>0, <2>1 DEF DeleteAtVendor, Advance, Become, End, Operation
  <2>2. CASE DeleteRecords(z)
    BY <1>0, <2>0, <2>2 DEF DeleteRecords, Advance, Become, End, Operation
  <2>3. CASE DeleteRows(z)
    BY <1>0, <2>0, <2>3 DEF DeleteRows, Advance, Become, End, Operation
  <2>4. CASE DeleteIdentity(z)
    BY <1>0, <2>0, <2>4 DEF DeleteIdentity, Advance, Become, End, Operation
  <2>5. CASE Promote(z)
    BY <1>0, <2>0, <2>5 DEF Promote, Advance, Become, End, Operation
  <2>6. CASE TeardownInfrastructure(z)
    BY <1>0, <2>0, <2>6 DEF TeardownInfrastructure, Advance, Become, End, Operation
  <2>7. CASE DropProvider(z)
    BY <1>0, <2>0, <2>7 DEF DropProvider, Advance, Become, End, Operation
  <2>. QED BY <1>3, <2>1, <2>2, <2>3, <2>4, <2>5, <2>6, <2>7 DEF DeleteStep
<1>4. ASSUME NEW z \in running, VerifyStep(z) PROVE FALSE
  <2>0. z \in Operation
    BY DEF TypeOK
  <2>1. CASE ReadStatus(z)
    BY <1>0, <2>0, <2>1 DEF ReadStatus, Advance, Become, End, Operation
  <2>2. CASE CompareDns(z)
    BY <1>0, <2>0, <2>2 DEF CompareDns, Advance, Become, End, Operation
  <2>3. CASE Rollup(z)
    BY <1>0, <2>0, <2>3 DEF Rollup, Advance, Become, End, Operation
  <2>4. CASE RecordStatus(z)
    <3>1. x.step \in {"sweep", "status"}
      <4>1. PICK y : (y.step \in {"sweep", "status"} /\ Become(z, y)) \/ End(z)
        BY <2>0, <2>4 DEF RecordStatus, Operation
      <4>. QED BY <4>1 DEF Become, End
    <3>. QED BY <1>0, <3>1
  <2>5. CASE Sweep(z)
    BY <1>0, <2>0, <2>5, ZenonT(40) DEF Sweep, Advance, Become, End, Operation
  <2>6. CASE Pick(z)
    BY <1>0, <2>0, <2>6 DEF Pick, Advance, Become, End, Operation
  <2>7. CASE Assign(z)
    <3>1. x.step \in {"pick"}
      <4>1. PICK y : (y.step \in {"pick"} /\ Become(z, y)) \/ End(z)
        BY <2>0, <2>7 DEF Assign, Operation
      <4>. QED BY <4>1 DEF Become, End
    <3>. QED BY <1>0, <3>1
  <2>. QED BY <1>4, <2>1, <2>2, <2>3, <2>4, <2>5, <2>6, <2>7 DEF VerifyStep
<1>. QED BY <1>1, <1>2, <1>3, <1>4, Actions DEF Fail, End, Drift, Pair

\* Rows name what was made for their key, whoever holds them.
LEMMA ZoneStep ==
  ASSUME TypeOK, Sane, Ranked, ZoneSound, Next
  PROVE  ZoneSound'
<1>0. /\ serial \in Nat /\ serial' \in Nat /\ serial <= serial' /\ ZoneMoves
      /\ Moved /\ Kept /\ TypeOK'
      /\ zone \in [Serials -> Record \cup {None}]
  BY ZoneWrites, NextMoves, TypeStep DEF ZoneMoves, TypeOK
<1>1. ASSUME NEW w \in Row, NEW k \in Keys, Names(w, k) PROVE Names(w, k)'
  <2>1. w.record \in Serials /\ w.record \in Nat
    BY <1>1, SandboxAssumption DEF Row, Serials
  <2>2. w.record <= serial' /\ w.record # serial + 1
    BY <1>0, <1>1, <2>1 DEF Names
  <2>3. zone'[w.record] # None => zone[w.record] # None /\ zone'[w.record].key = zone[w.record].key
    BY <1>0, <2>1, <2>2 DEF ZoneMoves
  <2>. QED BY <1>1, <2>2, <2>3 DEF Names
<1>2. /\ \A r \in Serials : zone'[r] # None => r <= serial'
      /\ \A r \in Serials : (zone'[r] # None /\ zone'[r].key = "root") => zone'[r].value = "root"
  BY <1>0, SandboxAssumption DEF ZoneMoves, Serials
<1>3. ASSUME NEW x \in running, NEW w \in x.found
      PROVE  w \in Row /\ FoundKey(x) \in Keys /\ Names(w, FoundKey(x))
  BY <1>3 DEF ZoneSound, TypeOK, Operation, FoundKey, Keys
<1>4. ASSUME NEW k \in Keys, rows[k] # None PROVE rows[k] \in Row /\ Names(rows[k], k)
  BY <1>4 DEF ZoneSound, TypeOK
<1>5. ASSUME NEW k \in Keys, rows'[k] # None PROVE Names(rows[k], k)'
  <2>1. CASE rows'[k] = rows[k]
    BY <1>1, <1>4, <1>5, <2>1 DEF Names
  <2>2. ASSUME NEW x \in running, WriteRow(x), k = x.key, NEW w \in x.found, rows'[k] = w
        PROVE  Names(rows[k], k)'
    <3>1. FoundKey(x) = x.key
      BY <2>2, OperationSound DEF WriteRow, FoundKey, Sound, StepsOf, Removing, Operation, Kinds
    <3>. QED BY <1>1, <1>3, <2>2, <3>1 DEF Names
  <2>3. ASSUME NEW x \in running, WriteRow(x) PROVE Names(rows[k], k)'
    BY <2>1, <2>2, <2>3, OperationSound DEF WriteRow, TypeOK, Operation
  <2>4. ASSUME NEW x \in running, DeleteRows(x) PROVE rows'[k] = rows[k]
    BY <1>5, <2>4 DEF DeleteRows
  <2>. QED BY <2>1, <2>3, <2>4, DnsChanges DEF dns, PublishRecord, DeleteRecords, Drift
<1>6. ASSUME NEW x \in running', NEW w \in x.found PROVE Names(w, FoundKey(x))'
  <2>1. CASE x \in running
    BY <1>1, <1>3, <2>1 DEF FoundKey
  <2>2. CASE x.found = {}
    BY <1>6, <2>2
  <2>4. ASSUME NEW z \in running, FindRow(z), x \notin running PROVE Names(w, FoundKey(x))'
    <3>1. /\ x.found = (IF rows[z.key] = None THEN {} ELSE {rows[z.key]})
          /\ x.key = z.key /\ x.kind = z.kind /\ z.key \in Keys
      BY <2>4 DEF FindRow, Become, TypeOK, Operation
    <3>2. FoundKey(x) = z.key
      BY <2>4, <3>1, OperationSound DEF FindRow, FoundKey, Sound, StepsOf, Removing, Operation, Kinds
    <3>. QED BY <1>1, <1>4, <1>6, <3>1, <3>2
  <2>5. ASSUME NEW z \in running, ListRows(z), x \notin running PROVE Names(w, FoundKey(x))'
    <3>1. CASE x.found = {}
      BY <2>2, <3>1
    <3>2. CASE x.found = {rows[k] : k \in OwnedBy(z.provider)} /\ x.kind = z.kind
      <4>1. PICK k \in Keys : w = rows[k] /\ rows[k] # None /\ rows[k].owner = z.provider
        BY <1>6, <3>2 DEF OwnedBy
      <4>2. z.provider # "root" /\ z.kind = "delete"
        BY <2>5, OperationSound, SandboxAssumption
           DEF ListRows, Sound, StepsOf, Allocating, Verifying, Inserting, Reconciling, Operation, Kinds
      <4>3. k = "mailFrom"
        BY <1>4, <4>1, <4>2 DEF Names, Keys
      <4>. QED BY <1>1, <1>4, <3>2, <4>1, <4>2, <4>3 DEF FoundKey
    <3>3. (x.found = z.found /\ z.found = {}) \/ (x.kind = z.kind /\ x.found = {rows[k] : k \in OwnedBy(z.provider)})
      <4>1. z \in Operation /\ Sound(z)
        BY OperationSound
      <4>2. z.found = {}
        BY <2>5, <4>1 DEF ListRows, Sound
      <4>3. PICK y : /\ Become(z, y) /\ y.kind = z.kind
                     /\ y.found = z.found \/ y.found = {rows[k] : k \in OwnedBy(z.provider)}
        <5>2. ASSUME Become(z, [z EXCEPT !.step = "deleteRecords",
                                         !.found = {rows[k] : k \in OwnedBy(z.provider)}])
              PROVE  \E y : /\ Become(z, y) /\ y.kind = z.kind
                            /\ y.found = z.found \/ y.found = {rows[k] : k \in OwnedBy(z.provider)}
          <6>1. PICK y : y = [z EXCEPT !.step = "deleteRecords",
                                       !.found = {rows[k] : k \in OwnedBy(z.provider)}]
            OBVIOUS
          <6>2. y.kind = z.kind /\ y.found = {rows[k] : k \in OwnedBy(z.provider)}
            BY <4>1, <6>1 DEF Operation
          <6>. QED BY <5>2, <6>1, <6>2
        <5>3. CASE OwnedBy(z.provider) = {}
          <6>1. PICK y : y = [z EXCEPT !.step = "deleteIdentity"]
            OBVIOUS
          <6>2. Become(z, y)
            BY <2>5, <5>3, <6>1 DEF ListRows, Advance
          <6>3. y.kind = z.kind /\ y.found = z.found
            BY <4>1, <6>1 DEF Operation
          <6>. QED BY <6>2, <6>3
        <5>4. CASE OwnedBy(z.provider) # {}
          BY <2>5, <5>2, <5>4 DEF ListRows
        <5>. QED BY <5>3, <5>4
      <4>. QED BY <2>5, <4>2, <4>3 DEF Become
    <3>. QED BY <3>1, <3>2, <3>3
  <2>6. ASSUME NEW z \in running, PublishRecord(z), x \notin running PROVE Names(w, FoundKey(x))'
    <3>r. PICK r, y :
            /\ r \in Serials
            /\ IF Known(z) # {} THEN \E v \in Known(z) : r = v.record
               ELSE IF Same(z) # {} THEN r \in Same(z) ELSE r = serial + 1
            /\ zone' = [zone EXCEPT ![r] = Wanted(z)]
            /\ serial' = IF Known(z) = {} /\ Same(z) = {} THEN r ELSE serial
            /\ Become(z, y)
            /\ y = [z EXCEPT !.step = "writeRow", !.flag = z.found # {},
                             !.found = {[id     |-> IF z.found = {} THEN r
                                                    ELSE (CHOOSE v \in z.found : TRUE).id,
                                         owner  |-> Owner(z),
                                         record |-> r]}]
      BY <2>6 DEF PublishRecord
    <3>p. x = y /\ z \in Operation /\ z.provider \in Providers
      BY <2>6, <3>r, OperationSound DEF Become, PublishRecord, Allocating
    <3>1. /\ x.found = {[id |-> IF z.found = {} THEN r ELSE (CHOOSE v \in z.found : TRUE).id,
                         owner |-> Owner(z), record |-> r]}
          /\ x.key = z.key /\ x.kind = z.kind /\ z.key \in Keys /\ z.provider \in Providers
      BY <3>r, <3>p DEF Operation
    <3>2. FoundKey(x) = z.key
      BY <2>6, <3>1, OperationSound
         DEF PublishRecord, FoundKey, Sound, StepsOf, Removing, Operation, Kinds
    <3>3. w.record = r /\ (w.owner = "root" <=> z.key = "root")
      BY <1>6, <3>1, SandboxAssumption DEF Owner
    <3>4. zone'[r] # None /\ zone'[r].key = z.key
      <4>1. Wanted(z) \in Record
        BY <3>1, OperationSound, <2>6 DEF PublishRecord, Wanted, Value, Record, Allocating
      <4>. QED BY <1>0, <3>r, <4>1, SandboxAssumption DEF Wanted
    <3>5. r <= serial'
      <4>1. r \in Serials
        BY <3>r
      <4>. QED BY <1>2, <3>4, <4>1
    <3>. QED BY <3>2, <3>3, <3>4, <3>5 DEF Names
  <2>. QED BY <2>1, <2>2, <2>4, <2>5, <2>6, FoundChanges
<1>. QED BY <1>2, <1>5, <1>6 DEF ZoneSound

-----------------------------------------------------------------------------
(* However operations overlap and fail.                                    *)

\* The part of the inductive invariant that every mode keeps.
General == TypeOK /\ Sane /\ Ranked /\ ZoneSound

\* It holds before any operation.
LEMMA GeneralInit == Init => General
<1>. SUFFICES ASSUME Init PROVE General
  OBVIOUS
<1>1. TypeOK
  BY SandboxAssumption DEF Init, TypeOK
<1>2. Sane
  BY DEF Init, Sane, OneCreate, Identities
<1>3. Ranked
  BY DEF Init, Ranked, Identities
<1>4. ZoneSound
  BY DEF Init, ZoneSound
<1>. QED BY <1>1, <1>2, <1>3, <1>4 DEF General

\* Every step keeps it.
LEMMA GeneralStep == General /\ [Next]_vars => General'
<1>1. General /\ Next => General'
  BY TypeStep, SaneStep, RankedStep, ZoneStep DEF General
<1>2. General /\ UNCHANGED vars => General'
  <2>. SUFFICES ASSUME General, UNCHANGED vars PROVE General'
    OBVIOUS
  <2>0. UNCHANGED <<world, running, overlaps>>
    BY DEF vars
  <2>1. TypeOK'
    BY <2>0 DEF General, TypeOK, world, fleet, dns
  <2>2. Sane'
    BY <2>0 DEF General, Sane, Sound, OneCreate, Identities, world, fleet
  <2>3. Settled' = Settled
    BY <2>0 DEF Settled, world, fleet
  <2>4. Ranked'
    BY <2>0, <2>3 DEF General, Ranked, Identities, world
  <2>5. ZoneSound'
    BY <2>0 DEF General, ZoneSound, Names, FoundKey, world, dns
  <2>. QED BY <2>1, <2>2, <2>4, <2>5 DEF General
<1>. QED BY <1>1, <1>2

\* Operations, rows and records keep their types, and ranks and serials their
\* bounds, whatever overlaps or fails.
THEOREM TypeCorrect == Spec => []TypeOK
<1>1. General => TypeOK
  BY DEF General
<1>. QED BY GeneralInit, GeneralStep, <1>1, PTL DEF Spec

\* No step of any operation takes the root's records out of the zone.
THEOREM RootRecordsStay == Spec => RootStays
<1>1. ASSUME General, Next, "drift" \notin mode, InZone("root", "root")
      PROVE  InZone("root", "root")'
  <2>1. PICK r \in Serials : zone[r] = [key |-> "root", value |-> "root"]
    BY <1>1 DEF InZone
  <2>2. zone[r] # None /\ zone[r].key = "root" /\ TypeOK /\ Sane /\ Ranked /\ ZoneSound
    BY <1>1, <2>1, SandboxAssumption DEF General, Record, Keys
  <2>3. ASSUME zone'[r] # None PROVE InZone("root", "root")'
    <3>1. zone'[r].key = "root" /\ zone'[r].value = "root"
      BY <1>1, <2>2, <2>3, ZoneWrites, SandboxAssumption DEF ZoneMoves, ZoneSound, TypeOK, Serials
    <3>2. zone'[r] \in Record
      BY <1>1, <2>2, <2>3, TypeStep DEF TypeOK
    <3>. QED BY <3>1, <3>2 DEF InZone, Record
  <2>4. zone'[r] # None
    <3>1. CASE UNCHANGED zone
      BY <2>2, <3>1
    <3>2. ASSUME NEW x \in running, PublishRecord(x) PROVE zone'[r] # None
      <4>1. Wanted(x) # None
        BY <2>2, <3>2, OperationSound, SandboxAssumption
           DEF PublishRecord, Wanted, Value, Record, Allocating, Operation
      <4>. QED BY <2>2, <3>2, <4>1 DEF PublishRecord, TypeOK
    <3>3. ASSUME NEW x \in running, DeleteRecords(x) PROVE zone'[r] # None
      <4>1. FoundKey(x) = "mailFrom"
        BY <2>2, <3>3, OperationSound
           DEF DeleteRecords, FoundKey, Sound, StepsOf, Allocating, Verifying, Inserting,
               Reconciling, Operation, Kinds
      <4>2. \A w \in x.found : w.record # r
        BY <2>2, <4>1 DEF ZoneSound, Names
      <4>. QED BY <2>2, <3>3, <4>2 DEF DeleteRecords
    <3>. QED BY <1>1, <3>1, <3>2, <3>3, DnsChanges DEF dns, WriteRow, DeleteRows, Drift
  <2>. QED BY <2>3, <2>4
<1>2. General /\ [Next]_vars =>
        [("drift" \notin mode /\ InZone("root", "root")) => InZone("root", "root")']_vars
  BY <1>1
<1>. QED BY GeneralInit, GeneralStep, <1>2, PTL DEF Spec, RootStays

-----------------------------------------------------------------------------
(* One operation at a time.                                                *)

\* A step tells the kind of operation.
TellsKind(x) ==
  /\ x.step \in {"check", "insert", "lookUp"} \cup (Inserting \ {"ensure"}) => x.kind = "create"
  /\ x.step \in Removing \cup {"promote", "teardown", "drop"} => x.kind = "delete"
  /\ x.step = "clear" => x.kind \in {"create", "update"}
  /\ x.step = "set" => x.kind = "update"
  /\ x.step = "ensure" => x.kind \in {"create", "update", "ensure"}
  /\ x.step \in Verifying => x.kind \in {"verify", "sweep"}
  /\ x.step \in Allocating => x.kind \in {"create", "sweep", "allocate"}
  /\ x.kind \in {"update", "ensure"} => x.step \in {"clear", "set", "ensure"}
  /\ x.kind = "delete" => x.step \in Removing \cup {"promote", "teardown", "drop"}
  /\ x.kind \in {"verify", "sweep", "allocate"} => x.step \in Verifying \cup Allocating

LEMMA KindOf ==
  ASSUME NEW x \in Operation, Sound(x)
  PROVE  TellsKind(x)
  BY DEF TellsKind, Operation, Kinds, Sound, StepsOf, Inserting, Reconciling, Removing, Verifying,
         Allocating

\* One create or update at a time.
LEMMA CreateAlone ==
  ASSUME General, Sequential, OneAtATime, NEW x \in running, CreateStep(x), General'
  PROVE  OneAtATime'
<1>0. /\ running = {x} /\ x \in Operation /\ Sound(x) /\ Working(x) /\ WorldTyped /\ WorldTyped'
      /\ x.step \notin Allocating => x.provider \in Providers /\ Account[x.provider] \in Accounts
      /\ FleetMatches /\ ActiveMatches /\ ZoneMatches /\ Sane /\ ZoneSound
  BY OperationSound, CreateTyped DEF General, OneAtATime, One
<1>k. TellsKind(x)
  BY <1>0, KindOf
<1> USE NoneIsNone DEF TellsKind, WorldTyped, Sound, fleet, dns, world, Kinds
<1>1. CASE ClearEmailDefaults(x)
  <2>s. PICK s \in {"insert", "set"} : Advance(x, s) /\ (s = "insert" <=> x.kind = "create")
    BY <1>1 DEF ClearEmailDefaults
  <2>1. PICK y : y = [x EXCEPT !.step = s]
    OBVIOUS
  <2>2. /\ y.step = s
       /\ y.kind = x.kind /\ y.provider = x.provider /\ y.turn = x.turn /\ y.key = x.key
       /\ y.found = x.found /\ y.todo = x.todo /\ y.rank = x.rank /\ y.flag = x.flag /\ y.servable = x.servable
    BY <1>0, <2>1 DEF Operation
  <2>3. running' = {y}
    BY <1>0, <2>s, <2>1 DEF ClearEmailDefaults, Become, Advance
  <2>4. \A z \in running' : Working(z)'
    BY <1>0, <1>k, <1>1, <2>2, <2>3, <2>s DEF ClearEmailDefaults, Working, Present, Identities, Active, OwnedBy, Owner, Inserting, Removing,
           Reconciling, StepsOf, Verifying, Allocating
  <2>5. FleetMatches'
    BY <1>0, <1>k, <1>1, <2>2, <2>3, <2>s DEF ClearEmailDefaults, FleetMatches, Added, Deleted, Created, Dropped, Present, Identities,
           Alone, Inserting, Removing, Reconciling, StepsOf, Verifying, Allocating
  <2>6. ActiveMatches'
    BY <1>0, <1>k, <1>1, <2>2, <2>3, <2>s DEF ClearEmailDefaults, ActiveMatches, Active, Identities
  <2>7. ZoneMatches'
    BY <1>0, <1>k, <1>1, <2>2, <2>3, <2>s DEF ClearEmailDefaults, ZoneMatches, Identities, Present
  <2>. QED BY <2>3, <2>4, <2>5, <2>6, <2>7 DEF OneAtATime, One
<1>2. CASE CheckDefault(x)
  <2>f. PICK flag \in BOOLEAN : /\ flag <=> default = None
                              /\ Become(x, [x EXCEPT !.step = "insert", !.flag = flag])
    <3>1. (default = None) \in BOOLEAN
      OBVIOUS
    <3>. QED BY <1>2, <3>1 DEF CheckDefault
  <2>1. PICK y : y = [x EXCEPT !.step = "insert", !.flag = flag]
    OBVIOUS
  <2>2. /\ y.step = "insert" /\ y.flag = flag
       /\ y.kind = x.kind /\ y.provider = x.provider /\ y.turn = x.turn /\ y.key = x.key
       /\ y.found = x.found /\ y.todo = x.todo /\ y.rank = x.rank /\ y.servable = x.servable
    BY <1>0, <2>1 DEF Operation
  <2>3. running' = {y}
    BY <1>0, <2>f, <2>1 DEF CheckDefault, Become, Advance
  <2>4. \A z \in running' : Working(z)'
    BY <1>0, <1>k, <1>2, <2>2, <2>3, <2>f DEF CheckDefault, Working, Present, Identities, Active, OwnedBy, Owner, Inserting, Removing,
           Reconciling, StepsOf, Verifying, Allocating
  <2>5. FleetMatches'
    BY <1>0, <1>k, <1>2, <2>2, <2>3, <2>f DEF CheckDefault, FleetMatches, Added, Deleted, Created, Dropped, Present, Identities,
           Alone, Inserting, Removing, Reconciling, StepsOf, Verifying, Allocating
  <2>6. ActiveMatches'
    BY <1>0, <1>k, <1>2, <2>2, <2>3, <2>f DEF CheckDefault, ActiveMatches, Active, Identities
  <2>7. ZoneMatches'
    BY <1>0, <1>k, <1>2, <2>2, <2>3, <2>f DEF CheckDefault, ZoneMatches, Identities, Present
  <2>. QED BY <2>3, <2>4, <2>5, <2>6, <2>7 DEF OneAtATime, One
<1>3. CASE InsertProvider(x)
  <2>a. Advance(x, "ensure") /\ provider' = [provider EXCEPT ![x.provider] = "present"]
        /\ default' = IF x.flag THEN x.provider ELSE default
    BY <1>0, <1>k, <1>3 DEF InsertProvider, Working, Inserting, StepsOf, Removing, Reconciling, Allocating,
                      Verifying, Operation
  <2>b. /\ x.kind = "create" /\ x.provider \notin Present \cup Identities
        /\ Present' = Present \cup {x.provider} /\ default' # None
        /\ UNCHANGED <<identity, vendor, destination, sandbox, paired>>
    BY <1>0, <1>k, <1>3, <2>a DEF InsertProvider, Working, Present, FleetMatches, StepsOf, Inserting, Removing,
         Reconciling, Verifying, Allocating
  <2>1. PICK y : y = [x EXCEPT !.step = "ensure"]
    OBVIOUS
  <2>2. /\ y.step = "ensure"
       /\ y.kind = x.kind /\ y.provider = x.provider /\ y.turn = x.turn /\ y.key = x.key
       /\ y.found = x.found /\ y.todo = x.todo /\ y.rank = x.rank /\ y.flag = x.flag /\ y.servable = x.servable
    BY <1>0, <2>1 DEF Operation
  <2>3. running' = {y}
    BY <1>0, <2>a, <2>1 DEF InsertProvider, Become, Advance
  <2>4. \A z \in running' : Working(z)'
    BY <1>0, <1>k, <1>3, <2>2, <2>3, <2>a, <2>b DEF InsertProvider, Working, Present, Identities, Active, OwnedBy, Owner, Inserting, Removing,
           Reconciling, StepsOf, Verifying, Allocating
  <2>5. FleetMatches'
    <3>1. \A p \in Providers : p \in Identities' => p \in Present'
      BY <1>0, <1>k, <1>3, <2>2, <2>3, <2>a, <2>b DEF InsertProvider, FleetMatches, Added, Deleted, Working, Present, Identities, Inserting,
             Removing, Reconciling, StepsOf, Verifying, Allocating
    <3>2. \A p \in Present' \ Identities' : \E z \in running' : Added(z, p) \/ Deleted(z, p)
      BY <1>0, <1>k, <1>3, <2>2, <2>3, <2>a, <2>b DEF InsertProvider, FleetMatches, Added, Deleted, Working, Present, Identities, Inserting,
             Removing, Reconciling, StepsOf, Verifying, Allocating
    <3>3. ASSUME NEW p \in Providers, Alone(p)
         PROVE  Account[p] \in vendor' <=>
                  \/ p \in Identities' /\ \A z \in running' : ~Dropped(z, p)
                  \/ \E z \in running' : Created(z, p)
      BY <1>0, <1>k, <1>3, <2>2, <2>3, <2>a, <2>b, <3>3 DEF InsertProvider, FleetMatches, Added, Created, Dropped, Alone, Working, Present, Identities, Inserting,
             Removing, Reconciling, StepsOf, Verifying, Allocating
    <3>4. ASSUME NEW p \in Providers, Alone(p)
         PROVE  /\ provider'[p] # "present" => Account[p] \notin destination'
                /\ (\E z \in running' : z.step = "drop" /\ z.provider = p) =>
                     Account[p] \notin destination'
      BY <1>0, <1>k, <1>3, <2>2, <2>3, <2>a, <2>b, <3>4 DEF InsertProvider, FleetMatches, Alone, Working, Present, Identities, Inserting,
             Removing, Reconciling, StepsOf, Verifying, Allocating
    <3>5. default' = None =>
           \/ Present' = {} \/ \E p \in Providers : provider'[p] = "deleted"
           \/ \E z \in running' : z.step \in {"insert", "set"}
      BY <1>0, <1>k, <1>3, <2>2, <2>3, <2>a, <2>b DEF InsertProvider, FleetMatches, Working, Present, Identities, Inserting,
             Removing, Reconciling, StepsOf, Verifying, Allocating
    <3>. QED BY <3>1, <3>2, <3>3, <3>4, <3>5 DEF FleetMatches, Alone
  <2>6. ActiveMatches'
    BY <1>0, <1>k, <1>3, <2>2, <2>3, <2>a, <2>b DEF InsertProvider, ActiveMatches, Active, Identities
  <2>7. ZoneMatches'
    BY <1>0, <1>k, <1>3, <2>2, <2>3, <2>a, <2>b DEF InsertProvider, ZoneMatches, Identities, Present
  <2>. QED BY <2>3, <2>4, <2>5, <2>6, <2>7 DEF OneAtATime, One
<1>4. CASE SetDefault(x)
  <2>a. /\ default' = x.provider
        /\ Advance(x, "ensure") \/ End(x)
        /\ UNCHANGED <<provider, destination, mode, paired, vendor, sandbox, identity, dns>>
    BY <1>0, <1>4 DEF SetDefault, Working, StepsOf, Inserting, Removing, Reconciling, Allocating,
         Verifying, Operation
  <2>k. x.step = "set" /\ x.kind = "update" /\ x.provider \in Present /\ x.provider # None
    BY <1>0, SandboxAssumption, <1>k, <1>4 DEF SetDefault, Working, StepsOf, Inserting, Removing, Reconciling,
         Allocating, Verifying, Present
  <2>f. Present' = Present /\ Identities' = Identities /\ Active' = Active /\ default' # None
    <3>1. Present' = Present
      BY <2>a DEF Present
    <3>2. Identities' = Identities /\ Active' = Active
      BY <2>a DEF Identities, Active
    <3>. QED BY <2>a, <2>k, <3>1, <3>2
  <2>b. CASE Advance(x, "ensure")
    <3>1. PICK y : y = [x EXCEPT !.step = "ensure"]
      OBVIOUS
    <3>2. /\ y.step = "ensure"
         /\ y.kind = x.kind /\ y.provider = x.provider /\ y.turn = x.turn /\ y.key = x.key
         /\ y.found = x.found /\ y.todo = x.todo /\ y.rank = x.rank /\ y.flag = x.flag /\ y.servable = x.servable
      BY <1>0, <3>1 DEF Operation
    <3>3. running' = {y}
      BY <1>0, <2>b, <3>1 DEF Become, Advance
    <3>4. \A z \in running' : Working(z)'
      BY <1>0, <1>k, <2>a, <2>k, <3>2, <3>3 DEF Working, Present, Identities, Active, OwnedBy, Owner,
             Inserting, Removing, Reconciling, StepsOf, Verifying, Allocating
    <3>5. FleetMatches'
      <4>1. /\ \A p \in Providers : p \in Identities' => p \in Present'
            /\ \A p \in Present' \ Identities' : \E z \in running' : Added(z, p) \/ Deleted(z, p)
        BY <1>0, <2>f, <2>k, <3>2, <3>3 DEF FleetMatches, Added, Deleted
      <4>2. \A p : ~Created(x, p) /\ ~Dropped(x, p)
        BY <2>k DEF Added, Created, Dropped
      <4>3. ASSUME NEW p \in Providers, Alone(p)
            PROVE  /\ Account[p] \in vendor' <=>
                        \/ p \in Identities' /\ \A z \in running' : ~Dropped(z, p)
                        \/ \E z \in running' : Created(z, p)
                   /\ provider'[p] # "present" => Account[p] \notin destination'
                   /\ (\E z \in running' : z.step = "drop" /\ z.provider = p) =>
                        Account[p] \notin destination'
        BY <1>0, <2>a, <2>f, <2>k, <3>2, <3>3, <4>2, <4>3 DEF FleetMatches, Added, Created, Dropped
      <4>. QED BY <2>f, <4>1, <4>3 DEF FleetMatches, Alone
    <3>6. ActiveMatches'
      BY <1>0, <1>k, <2>a, <2>k, <3>2, <3>3 DEF ActiveMatches, Active, Identities
    <3>7. ZoneMatches'
      BY <1>0, <1>k, <2>a, <2>k, <3>2, <3>3 DEF ZoneMatches, Identities, Present, dns
    <3>. QED BY <3>3, <3>4, <3>5, <3>6, <3>7 DEF OneAtATime, One
  <2>c. CASE End(x)
    <3>3. running' = {}
      BY <1>0, <2>c DEF End
    <3>5. FleetMatches'
      <4>1. /\ \A p \in Providers : p \in Identities' => p \in Present'
            /\ \A p \in Present' \ Identities' : \E z \in running' : Added(z, p) \/ Deleted(z, p)
        BY <1>0, <2>f, <2>k, <3>3 DEF FleetMatches, Added, Deleted
      <4>2. \A p : ~Created(x, p) /\ ~Dropped(x, p)
        BY <2>k DEF Added, Created, Dropped
      <4>3. ASSUME NEW p \in Providers, Alone(p)
            PROVE  /\ Account[p] \in vendor' <=>
                        \/ p \in Identities' /\ \A z \in running' : ~Dropped(z, p)
                        \/ \E z \in running' : Created(z, p)
                   /\ provider'[p] # "present" => Account[p] \notin destination'
                   /\ (\E z \in running' : z.step = "drop" /\ z.provider = p) =>
                        Account[p] \notin destination'
        BY <1>0, <2>a, <2>f, <2>k, <3>3, <4>2, <4>3 DEF FleetMatches, Added, Created, Dropped
      <4>. QED BY <2>f, <4>1, <4>3 DEF FleetMatches, Alone
    <3>6. ActiveMatches'
      BY <1>0, <1>k, <2>a, <2>k, <3>3 DEF ActiveMatches, Active, Identities
    <3>7. ZoneMatches'
      BY <1>0, <1>k, <2>a, <2>k, <3>3 DEF ZoneMatches, Identities, Present, dns
    <3>. QED BY <3>3, <3>5, <3>6, <3>7 DEF OneAtATime, One
  <2>. QED BY <2>a, <2>b, <2>c
<1>5. CASE EnsureInfrastructure(x)
  <2>a. CASE x.kind = "create"
    <3>1. PICK y : y = [x EXCEPT !.step = "lookUp"]
      OBVIOUS
    <3>2. /\ y.step = "lookUp"
         /\ y.kind = x.kind /\ y.provider = x.provider /\ y.turn = x.turn /\ y.key = x.key
         /\ y.found = x.found /\ y.todo = x.todo /\ y.rank = x.rank /\ y.flag = x.flag /\ y.servable = x.servable
      BY <1>0, <3>1 DEF Operation
    <3>3. running' = {y}
      BY <1>0, <1>5, <2>a, <3>1 DEF EnsureInfrastructure, Become, Advance
    <3>4. \A z \in running' : Working(z)'
      BY <1>0, <1>k, <1>5, <3>2, <3>3, <2>a DEF EnsureInfrastructure, Working, Present, Identities, Active, OwnedBy, Owner, Inserting, Removing,
             Reconciling, StepsOf, Verifying, Allocating
    <3>5. FleetMatches'
      <4>1. \A p \in Providers : p \in Identities' => p \in Present'
        BY <1>0, <1>k, <1>5, <3>2, <3>3, <2>a DEF EnsureInfrastructure, FleetMatches, Added, Deleted, Working, Present, Identities, Inserting,
               Removing, Reconciling, StepsOf, Verifying, Allocating
      <4>2. \A p \in Present' \ Identities' : \E z \in running' : Added(z, p) \/ Deleted(z, p)
        BY <1>0, <1>k, <1>5, <3>2, <3>3, <2>a DEF EnsureInfrastructure, FleetMatches, Added, Deleted, Working, Present, Identities, Inserting,
               Removing, Reconciling, StepsOf, Verifying, Allocating
      <4>3. ASSUME NEW p \in Providers, Alone(p)
           PROVE  Account[p] \in vendor' <=>
                    \/ p \in Identities' /\ \A z \in running' : ~Dropped(z, p)
                    \/ \E z \in running' : Created(z, p)
        BY <1>0, <1>k, <1>5, <3>2, <3>3, <2>a, <4>3 DEF EnsureInfrastructure, FleetMatches, Added, Created, Dropped, Alone, Working, Present, Identities, Inserting,
               Removing, Reconciling, StepsOf, Verifying, Allocating
      <4>4. ASSUME NEW p \in Providers, Alone(p)
           PROVE  /\ provider'[p] # "present" => Account[p] \notin destination'
                  /\ (\E z \in running' : z.step = "drop" /\ z.provider = p) =>
                       Account[p] \notin destination'
        BY <1>0, <1>k, <1>5, <3>2, <3>3, <2>a, <4>4 DEF EnsureInfrastructure, FleetMatches, Alone, Working, Present, Identities, Inserting,
               Removing, Reconciling, StepsOf, Verifying, Allocating
      <4>5. default' = None =>
             \/ Present' = {} \/ \E p \in Providers : provider'[p] = "deleted"
             \/ \E z \in running' : z.step \in {"insert", "set"}
        BY <1>0, <1>k, <1>5, <3>2, <3>3, <2>a DEF EnsureInfrastructure, FleetMatches, Working, Present, Identities, Inserting,
               Removing, Reconciling, StepsOf, Verifying, Allocating
      <4>. QED BY <4>1, <4>2, <4>3, <4>4, <4>5 DEF FleetMatches, Alone
    <3>6. ActiveMatches'
      BY <1>0, <1>k, <1>5, <3>2, <3>3, <2>a DEF EnsureInfrastructure, ActiveMatches, Active, Identities
    <3>7. ZoneMatches'
      BY <1>0, <1>k, <1>5, <3>2, <3>3, <2>a DEF EnsureInfrastructure, ZoneMatches, Identities, Present
    <3>. QED BY <3>3, <3>4, <3>5, <3>6, <3>7 DEF OneAtATime, One
  <2>b. CASE x.kind # "create"
    <3>1. x.provider \in Present /\ destination' = destination \cup {Account[x.provider]}
      BY <1>0, <1>k, <1>5, <2>b DEF EnsureInfrastructure, Working, StepsOf, Inserting, Removing, Reconciling,
           Verifying, Allocating
    <3>3. running' = {}
      BY <1>0, <1>5, <2>b DEF EnsureInfrastructure, End
    <3>4. \A z \in running' : Working(z)'
      BY <1>0, <1>k, <1>5, <3>3, <2>b, <3>1 DEF EnsureInfrastructure, Working, Present, Identities, Active, OwnedBy, Owner, Inserting, Removing,
             Reconciling, StepsOf, Verifying, Allocating
    <3>5. FleetMatches'
      <4>1. \A p \in Providers : p \in Identities' => p \in Present'
        BY <1>0, <1>k, <1>5, <3>3, <2>b, <3>1 DEF EnsureInfrastructure, FleetMatches, Added, Deleted, Working, Present, Identities, Inserting,
               Removing, Reconciling, StepsOf, Verifying, Allocating
      <4>2. \A p \in Present' \ Identities' : \E z \in running' : Added(z, p) \/ Deleted(z, p)
        BY <1>0, <1>k, <1>5, <3>3, <2>b, <3>1 DEF EnsureInfrastructure, FleetMatches, Added, Deleted, Working, Present, Identities, Inserting,
               Removing, Reconciling, StepsOf, Verifying, Allocating
      <4>3. ASSUME NEW p \in Providers, Alone(p)
           PROVE  Account[p] \in vendor' <=>
                    \/ p \in Identities' /\ \A z \in running' : ~Dropped(z, p)
                    \/ \E z \in running' : Created(z, p)
        BY <1>0, <1>k, <1>5, <3>3, <2>b, <3>1, <4>3 DEF EnsureInfrastructure, FleetMatches, Added, Created, Dropped, Alone, Working, Present, Identities, Inserting,
               Removing, Reconciling, StepsOf, Verifying, Allocating
      <4>4. ASSUME NEW p \in Providers, Alone(p)
           PROVE  /\ provider'[p] # "present" => Account[p] \notin destination'
                  /\ (\E z \in running' : z.step = "drop" /\ z.provider = p) =>
                       Account[p] \notin destination'
        BY <1>0, <1>k, <1>5, <3>3, <2>b, <3>1, <4>4 DEF EnsureInfrastructure, FleetMatches, Alone, Working, Present, Identities, Inserting,
               Removing, Reconciling, StepsOf, Verifying, Allocating
      <4>5. default' = None =>
             \/ Present' = {} \/ \E p \in Providers : provider'[p] = "deleted"
             \/ \E z \in running' : z.step \in {"insert", "set"}
        BY <1>0, <1>k, <1>5, <3>3, <2>b, <3>1 DEF EnsureInfrastructure, FleetMatches, Working, Present, Identities, Inserting,
               Removing, Reconciling, StepsOf, Verifying, Allocating
      <4>. QED BY <4>1, <4>2, <4>3, <4>4, <4>5 DEF FleetMatches, Alone
    <3>6. ActiveMatches'
      BY <1>0, <1>k, <1>5, <3>3, <2>b, <3>1 DEF EnsureInfrastructure, ActiveMatches, Active, Identities
    <3>7. ZoneMatches'
      BY <1>0, <1>k, <1>5, <3>3, <2>b, <3>1 DEF EnsureInfrastructure, ZoneMatches, Identities, Present
    <3>. QED BY <3>3, <3>4, <3>5, <3>6, <3>7 DEF OneAtATime, One
  <2>. QED BY <2>a, <2>b
<1>6. CASE LookUpSandbox(x)
  <2>s. PICK s \in {"insertSandbox", "createIdentity"} :
          Advance(x, s) /\ (s = "insertSandbox" <=> sandbox = None)
    BY <1>0, <1>6 DEF LookUpSandbox, Working, Inserting, StepsOf, Removing, Reconciling, Allocating, Verifying, Operation
  <2>1. PICK y : y = [x EXCEPT !.step = s]
    OBVIOUS
  <2>2. /\ y.step = s
       /\ y.kind = x.kind /\ y.provider = x.provider /\ y.turn = x.turn /\ y.key = x.key
       /\ y.found = x.found /\ y.todo = x.todo /\ y.rank = x.rank /\ y.flag = x.flag /\ y.servable = x.servable
    BY <1>0, <2>1 DEF Operation
  <2>3. running' = {y}
    BY <1>0, <2>s, <2>1 DEF LookUpSandbox, Become, Advance
  <2>4. \A z \in running' : Working(z)'
    BY <1>0, <1>k, <1>6, <2>2, <2>3, <2>s DEF LookUpSandbox, Working, Present, Identities, Active, OwnedBy, Owner, Inserting, Removing,
           Reconciling, StepsOf, Verifying, Allocating
  <2>5. FleetMatches'
    BY <1>0, <1>k, <1>6, <2>2, <2>3, <2>s DEF LookUpSandbox, FleetMatches, Added, Deleted, Created, Dropped, Present, Identities,
           Alone, Inserting, Removing, Reconciling, StepsOf, Verifying, Allocating
  <2>6. ActiveMatches'
    BY <1>0, <1>k, <1>6, <2>2, <2>3, <2>s DEF LookUpSandbox, ActiveMatches, Active, Identities
  <2>7. ZoneMatches'
    BY <1>0, <1>k, <1>6, <2>2, <2>3, <2>s DEF LookUpSandbox, ZoneMatches, Identities, Present
  <2>. QED BY <2>3, <2>4, <2>5, <2>6, <2>7 DEF OneAtATime, One
<1>7. CASE InsertSandbox(x)
  <2>a. Become(x, [x EXCEPT !.step = "find", !.key = "root"])
        /\ sandbox' = [active |-> FALSE, verified |-> FALSE]
    BY <1>0, <1>7 DEF InsertSandbox, Working
  <2>1. PICK y : y = [x EXCEPT !.step = "find", !.key = "root"]
    OBVIOUS
  <2>2. /\ y.step = "find" /\ y.key = "root"
       /\ y.kind = x.kind /\ y.provider = x.provider /\ y.turn = x.turn /\ y.found = x.found
       /\ y.todo = x.todo /\ y.rank = x.rank /\ y.flag = x.flag /\ y.servable = x.servable
    BY <1>0, <2>1 DEF Operation
  <2>3. running' = {y}
    BY <1>0, <2>a, <2>1 DEF InsertSandbox, Become, Advance
  <2>4. \A z \in running' : Working(z)'
    BY <1>0, <1>k, <1>7, <2>2, <2>3, <2>a DEF InsertSandbox, Working, Present, Identities, Active, OwnedBy, Owner, Inserting, Removing,
           Reconciling, StepsOf, Verifying, Allocating
  <2>5. FleetMatches'
    BY <1>0, <1>k, <1>7, <2>2, <2>3, <2>a DEF InsertSandbox, FleetMatches, Added, Deleted, Created, Dropped, Present, Identities,
           Alone, Inserting, Removing, Reconciling, StepsOf, Verifying, Allocating
  <2>6. ActiveMatches'
    BY <1>0, <1>k, <1>7, <2>2, <2>3, <2>a DEF InsertSandbox, ActiveMatches, Active, Identities
  <2>7. ZoneMatches'
    BY <1>0, <1>k, <1>7, <2>2, <2>3, <2>a DEF InsertSandbox, ZoneMatches, Identities, Present
  <2>. QED BY <2>3, <2>4, <2>5, <2>6, <2>7 DEF OneAtATime, One
<1>8. CASE CreateIdentity(x)
  <2>b. x.kind = "create" /\ x.key = "root" /\ vendor' = vendor \cup {Account[x.provider]}
    BY <1>0, <1>k, <1>8 DEF CreateIdentity, StepsOf, Inserting, Removing, Reconciling, Verifying, Allocating
  <2>1. PICK y : y = [x EXCEPT !.step = "find", !.key = "mailFrom"]
    OBVIOUS
  <2>2. /\ y.step = "find" /\ y.key = "mailFrom"
       /\ y.kind = x.kind /\ y.provider = x.provider /\ y.turn = x.turn /\ y.found = x.found
       /\ y.todo = x.todo /\ y.rank = x.rank /\ y.flag = x.flag /\ y.servable = x.servable
    BY <1>0, <2>1 DEF Operation
  <2>3. running' = {y}
    BY <1>0, <1>8, <2>1 DEF CreateIdentity, Become, Advance
  <2>4. \A z \in running' : Working(z)'
    BY <1>0, <1>k, <1>8, <2>2, <2>3, <2>b DEF CreateIdentity, Working, Present, Identities, Active, OwnedBy, Owner, Inserting, Removing,
           Reconciling, StepsOf, Verifying, Allocating
  <2>5. FleetMatches'
    <3>1. \A p \in Providers : p \in Identities' => p \in Present'
      BY <1>0, <1>k, <1>8, <2>2, <2>3, <2>b DEF CreateIdentity, FleetMatches, Added, Deleted, Working, Present, Identities, Inserting,
             Removing, Reconciling, StepsOf, Verifying, Allocating
    <3>2. \A p \in Present' \ Identities' : \E z \in running' : Added(z, p) \/ Deleted(z, p)
      BY <1>0, <1>k, <1>8, <2>2, <2>3, <2>b DEF CreateIdentity, FleetMatches, Added, Deleted, Working, Present, Identities, Inserting,
             Removing, Reconciling, StepsOf, Verifying, Allocating
    <3>3. ASSUME NEW p \in Providers, Alone(p)
         PROVE  Account[p] \in vendor' <=>
                  \/ p \in Identities' /\ \A z \in running' : ~Dropped(z, p)
                  \/ \E z \in running' : Created(z, p)
      BY <1>0, <1>k, <1>8, <2>2, <2>3, <2>b, <3>3 DEF CreateIdentity, FleetMatches, Added, Created, Dropped, Alone, Working, Present, Identities, Inserting,
             Removing, Reconciling, StepsOf, Verifying, Allocating
    <3>4. ASSUME NEW p \in Providers, Alone(p)
         PROVE  /\ provider'[p] # "present" => Account[p] \notin destination'
                /\ (\E z \in running' : z.step = "drop" /\ z.provider = p) =>
                     Account[p] \notin destination'
      BY <1>0, <1>k, <1>8, <2>2, <2>3, <2>b, <3>4 DEF CreateIdentity, FleetMatches, Alone, Working, Present, Identities, Inserting,
             Removing, Reconciling, StepsOf, Verifying, Allocating
    <3>5. default' = None =>
           \/ Present' = {} \/ \E p \in Providers : provider'[p] = "deleted"
           \/ \E z \in running' : z.step \in {"insert", "set"}
      BY <1>0, <1>k, <1>8, <2>2, <2>3, <2>b DEF CreateIdentity, FleetMatches, Working, Present, Identities, Inserting,
             Removing, Reconciling, StepsOf, Verifying, Allocating
    <3>. QED BY <3>1, <3>2, <3>3, <3>4, <3>5 DEF FleetMatches, Alone
  <2>6. ActiveMatches'
    BY <1>0, <1>k, <1>8, <2>2, <2>3, <2>b DEF CreateIdentity, ActiveMatches, Active, Identities
  <2>7. ZoneMatches'
    BY <1>0, <1>k, <1>8, <2>2, <2>3, <2>b DEF CreateIdentity, ZoneMatches, Identities, Present
  <2>. QED BY <2>3, <2>4, <2>5, <2>6, <2>7 DEF OneAtATime, One
<1>9. CASE FindRow(x)
  <2>f. PICK found \in SUBSET Row : found = (IF rows[x.key] = None THEN {} ELSE {rows[x.key]})
    <3>1. (IF rows[x.key] = None THEN {} ELSE {rows[x.key]}) \in SUBSET Row
      BY <1>0 DEF Operation
    <3>. QED BY <3>1
  <2>1. PICK y : y = [x EXCEPT !.step = "publish", !.found = found]
    OBVIOUS
  <2>2. /\ y.step = "publish" /\ y.found = found
       /\ y.kind = x.kind /\ y.provider = x.provider /\ y.turn = x.turn /\ y.key = x.key
       /\ y.todo = x.todo /\ y.rank = x.rank /\ y.flag = x.flag /\ y.servable = x.servable
    BY <1>0, <2>1 DEF Operation
  <2>3. running' = {y}
    BY <1>0, <1>9, <2>f, <2>1 DEF FindRow, Become, Advance
  <2>4. \A z \in running' : Working(z)'
    <3>1. y.step = "publish" /\ y.kind = "create" /\ x.step = "find"
      BY <1>k, <1>9, <2>2 DEF FindRow, Inserting, Reconciling
    <3>2. y.found = (IF rows'[y.key] = None THEN {} ELSE {rows'[y.key]})
      BY <1>9, <2>2, <2>f DEF FindRow
    <3>3. y.provider \in Present' \ Identities'
      BY <1>0, <1>9, <2>2, <3>1 DEF FindRow, Working, Inserting, Reconciling, Present, Identities
    <3>. QED BY <2>3, <3>1, <3>2, <3>3 DEF Working, Removing
  <2>5. FleetMatches'
    BY <1>0, <1>k, <1>9, <2>2, <2>3, <2>f DEF FindRow, FleetMatches, Added, Deleted, Created, Dropped, Present, Identities,
           Alone, Inserting, Removing, Reconciling, StepsOf, Verifying, Allocating
  <2>6. ActiveMatches'
    BY <1>0, <1>k, <1>9, <2>2, <2>3, <2>f DEF FindRow, ActiveMatches, Active, Identities
  <2>7. ZoneMatches'
    BY <1>0, <1>k, <1>9, <2>2, <2>3, <2>f DEF FindRow, ZoneMatches, Identities, Present
  <2>. QED BY <2>3, <2>4, <2>5, <2>6, <2>7 DEF OneAtATime, One
<1>10. CASE PublishRecord(x)
  <2>r. PICK r \in Serials, w \in Row :
          /\ IF Known(x) # {} THEN \E v \in Known(x) : r = v.record
             ELSE IF Same(x) # {} THEN r \in Same(x) ELSE r = serial + 1
          /\ zone' = [zone EXCEPT ![r] = Wanted(x)]
          /\ w.id = (IF x.found = {} THEN r ELSE (CHOOSE v \in x.found : TRUE).id)
          /\ w.owner = Owner(x) /\ w.record = r
          /\ Become(x, [x EXCEPT !.step = "writeRow", !.flag = (x.found # {}), !.found = {w}])
    BY <1>10, RowTyped DEF PublishRecord, General
  <2>b. x.found = (IF rows[x.key] = None THEN {} ELSE {rows[x.key]})
    BY <1>0, <1>10 DEF PublishRecord, Working
  <2>c. /\ x.found # {} <=> rows[x.key] # None
        /\ rows[x.key] # None => w.id = rows[x.key].id
    <3>1. CASE rows[x.key] = None
      BY <2>b, <3>1
    <3>2. CASE rows[x.key] # None
      <4>1. x.found = {rows[x.key]}
        BY <2>b, <3>2
      <4>2. (CHOOSE v \in x.found : TRUE) = rows[x.key]
        BY <4>1
      <4>3. w.id = (CHOOSE v \in x.found : TRUE).id
        BY <2>r, <4>1
      <4>. QED BY <3>2, <4>1, <4>2, <4>3
    <3>. QED BY <3>1, <3>2
  <2>1. PICK y : y = [x EXCEPT !.step = "writeRow", !.flag = (x.found # {}), !.found = {w}]
    OBVIOUS
  <2>2. /\ y.step = "writeRow" /\ y.flag = (x.found # {}) /\ y.found = {w}
       /\ y.kind = x.kind /\ y.provider = x.provider /\ y.turn = x.turn /\ y.key = x.key
       /\ y.todo = x.todo /\ y.rank = x.rank /\ y.servable = x.servable
    BY <1>0, <2>1 DEF Operation
  <2>3. running' = {y}
    BY <1>0, <2>r, <2>1 DEF PublishRecord, Become, Advance
  <2>4. \A z \in running' : Working(z)'
    <3>1. y.step = "writeRow" /\ y.kind = "create" /\ x.step = "publish"
      BY <1>k, <1>10, <2>2 DEF PublishRecord, Inserting, Reconciling
    <3>2. /\ y.flag <=> rows'[y.key] # None
          /\ y.flag => \A v \in y.found : v.id = rows'[y.key].id
          /\ \A v \in y.found : v.owner = Owner(y)
      BY <1>10, <2>2, <2>r, <2>c DEF PublishRecord, Owner
    <3>3. y.provider \in Present' \ Identities'
      BY <1>0, <1>10, <2>2, <3>1 DEF PublishRecord, Working, Inserting, Reconciling, Present, Identities
    <3>. QED BY <2>3, <3>1, <3>2, <3>3 DEF Working, Removing, Owner
  <2>5. FleetMatches'
    BY <1>0, <1>k, <1>10, <2>2, <2>3, <2>r, <2>c DEF PublishRecord, FleetMatches, Added, Deleted, Created, Dropped, Present, Identities,
           Alone, Inserting, Removing, Reconciling, StepsOf, Verifying, Allocating
  <2>6. ActiveMatches'
    BY <1>0, <1>k, <1>10, <2>2, <2>3, <2>r, <2>c DEF PublishRecord, ActiveMatches, Active, Identities
  <2>7. ZoneMatches'
    <3>0. /\ x.step = "publish" /\ y.step = "writeRow" /\ y.key = x.key /\ y.found = {w} /\ w.record = r
          /\ Wanted(x) # None /\ Wanted(x).key = x.key
          /\ UNCHANGED <<rows, mode>> /\ Identities' = Identities /\ zone'[r] = Wanted(x)
          /\ \A s \in Serials \ {r} : zone'[s] = zone[s]
      <4>1. Wanted(x) \in Record
        BY <1>0, <1>10 DEF PublishRecord, Wanted, Record, Value, Operation, Allocating
      <4>2. Wanted(x) # None /\ Wanted(x).key = x.key
        BY <4>1, SandboxAssumption DEF Wanted
      <4>. QED BY <1>0, <1>10, <2>r, <2>2, <4>2 DEF PublishRecord, Identities
    <3>1. ASSUME NEW s \in Serials \ {r}, zone[s] # None
          PROVE  rows[zone[s].key] # None /\ rows[zone[s].key].record = s /\ zone[s].key # x.key
      <4>1. rows[zone[s].key] # None /\ rows[zone[s].key].record = s
        BY <1>0, <3>0, <3>1 DEF ZoneMatches
      <4>2. ASSUME zone[s].key = x.key PROVE FALSE
        <5>1. Known(x) = {rows[x.key]} /\ rows[x.key].record = s
          BY <2>b, <3>1, <4>1, <4>2 DEF Known
        <5>. QED BY <2>r, <5>1
      <4>. QED BY <4>1, <4>2
    <3>2. \A k \in Keys : rows[k] # None => rows[k].owner \in Identities \cup {"root"}
      BY <1>0, <3>0 DEF ZoneMatches
    <3>3. "drift" \notin mode => \A k \in Keys : rows[k] # None => zone'[rows[k].record] # None
      BY <1>0, <3>0 DEF ZoneMatches, Row
    <3>. QED BY <2>3, <3>0, <3>1, <3>2, <3>3 DEF ZoneMatches
  <2>. QED BY <2>3, <2>4, <2>5, <2>6, <2>7 DEF OneAtATime, One
<1>11. CASE WriteRow(x)
  <2>a. PICK w \in Row, s \in {"createIdentity", "listIdentities"} :
          /\ x.found = {w} /\ rows' = [rows EXCEPT ![x.key] = w]
          /\ s = IF x.key = "root" THEN "createIdentity" ELSE "listIdentities"
          /\ Become(x, [x EXCEPT !.found = {}, !.flag = FALSE, !.step = s])
    <3>1. PICK w \in Row : x.found = {w}
      BY <1>0, <1>11 DEF WriteRow
    <3>2. /\ rows' = [rows EXCEPT ![x.key] = w]
          /\ Become(x, [x EXCEPT !.found = {}, !.flag = FALSE,
                            !.step = IF x.key = "root" THEN "createIdentity" ELSE "listIdentities"])
      BY <1>0, <1>11, <3>1 DEF WriteRow, Working
    <3>. QED BY <3>1, <3>2
  <2>1. PICK y : y = [x EXCEPT !.found = {}, !.flag = FALSE, !.step = s]
    OBVIOUS
  <2>2. /\ y.found = {} /\ y.flag = FALSE /\ y.step = s
       /\ y.kind = x.kind /\ y.provider = x.provider /\ y.turn = x.turn /\ y.key = x.key
       /\ y.todo = x.todo /\ y.rank = x.rank /\ y.servable = x.servable
    BY <1>0, <2>1 DEF Operation
  <2>3. running' = {y}
    BY <1>0, <2>a, <2>1 DEF WriteRow, Become, Advance
  <2>4. \A z \in running' : Working(z)'
    BY <1>0, <1>k, <1>11, <2>2, <2>3, <2>a DEF WriteRow, Working, Present, Identities, Active, OwnedBy, Owner, Inserting, Removing,
           Reconciling, StepsOf, Verifying, Allocating
  <2>5. FleetMatches'
    BY <1>0, <1>k, <1>11, <2>2, <2>3, <2>a DEF WriteRow, FleetMatches, Added, Deleted, Created, Dropped, Present, Identities,
           Alone, Inserting, Removing, Reconciling, StepsOf, Verifying, Allocating
  <2>6. ActiveMatches'
    BY <1>0, <1>k, <1>11, <2>2, <2>3, <2>a DEF WriteRow, ActiveMatches, Active, Identities
  <2>7. ZoneMatches'
    <3>0. /\ x.step = "writeRow" /\ y.step = s /\ y.provider = x.provider
          /\ UNCHANGED <<zone, mode>> /\ Identities' = Identities /\ w # None /\ x.key \in Keys
          /\ rows'[x.key] = w /\ \A k \in Keys \ {x.key} : rows'[k] = rows[k]
          /\ w.owner = Owner(x) /\ s # "writeRow" /\ s # "deleteRows"
          /\ x.key # "root" => s = "listIdentities"
      <4>1. w # None
        BY <2>a, SandboxAssumption
      <4>. QED BY <1>0, <1>11, <2>a, <2>2, <4>1 DEF WriteRow, Identities, Operation, Working
    <3>1. ASSUME NEW k \in Keys, rows'[k] # None
          PROVE  /\ \/ rows'[k].owner \in Identities \cup {"root"}
                    \/ y.provider = rows'[k].owner /\ y.step = "listIdentities"
                 /\ "drift" \notin mode => zone[rows'[k].record] # None
      <4>1. CASE k = x.key
        <5>1. rows'[k].owner = "root" \/ (y.provider = rows'[k].owner /\ y.step = "listIdentities")
          BY <3>0, <4>1 DEF Owner
        <5>2. "drift" \notin mode => zone[rows'[k].record] # None
          BY <1>0, <2>a, <3>0, <4>1 DEF ZoneMatches
        <5>. QED BY <5>1, <5>2
      <4>2. CASE k # x.key
        <5>1. rows'[k] = rows[k] /\ rows[k] # None
          BY <3>0, <3>1, <4>2
        <5>2. rows[k].owner \in Identities \cup {"root"}
          BY <1>0, <3>0, <5>1 DEF ZoneMatches
        <5>3. "drift" \notin mode => zone[rows[k].record] # None
          BY <1>0, <3>0, <5>1 DEF ZoneMatches
        <5>. QED BY <3>0, <5>1, <5>2, <5>3
      <4>. QED BY <4>1, <4>2
    <3>2. ASSUME NEW r \in Serials, zone[r] # None
          PROVE  rows'[zone[r].key] # None /\ rows'[zone[r].key].record = r
      <4>1. zone[r].key \in Keys
        BY <1>0, <3>2 DEF Record
      <4>. QED BY <1>0, <2>a, <3>0, <3>2, <4>1 DEF ZoneMatches
    <3>. QED BY <2>3, <3>0, <3>1, <3>2 DEF ZoneMatches
  <2>. QED BY <2>3, <2>4, <2>5, <2>6, <2>7 DEF OneAtATime, One
<1>12. CASE ListIdentities(x)
  <2>a. PICK rank \in Nat :
          /\ rank = 0 <=> Active = {}
          /\ Become(x, [x EXCEPT !.step = "insertIdentity", !.rank = rank])
    <3>1. PICK top \in Ranks :
            Become(x, [x EXCEPT !.step = "insertIdentity",
                                !.rank = IF Active = {} THEN 0 ELSE top + 1])
      BY <1>12 DEF ListIdentities
    <3>2. top \in Nat
      BY FS_CardinalityType, SandboxAssumption DEF Ranks
    <3>3. CASE Active = {}
      BY <3>1, <3>3
    <3>4. CASE Active # {}
      <4>1. PICK rank \in Nat : rank = top + 1
        BY <3>2
      <4>2. Become(x, [x EXCEPT !.step = "insertIdentity", !.rank = rank])
        BY <3>1, <3>4, <4>1
      <4>3. rank # 0
        BY <3>2, <4>1
      <4>. QED BY <3>4, <4>2, <4>3, Zenon
    <3>. QED BY <3>3, <3>4
  <2>1. PICK y : y = [x EXCEPT !.step = "insertIdentity", !.rank = rank]
    OBVIOUS
  <2>2. /\ y.step = "insertIdentity" /\ y.rank = rank
       /\ y.kind = x.kind /\ y.provider = x.provider /\ y.turn = x.turn /\ y.key = x.key
       /\ y.found = x.found /\ y.todo = x.todo /\ y.flag = x.flag /\ y.servable = x.servable
    BY <1>0, <2>1 DEF Operation
  <2>3. running' = {y}
    BY <1>0, <2>a, <2>1 DEF ListIdentities, Become, Advance
  <2>4. \A z \in running' : Working(z)'
    BY <1>0, <1>k, <1>12, <2>2, <2>3, <2>a DEF ListIdentities, Working, Present, Identities, Active, OwnedBy, Owner, Inserting, Removing,
           Reconciling, StepsOf, Verifying, Allocating
  <2>5. FleetMatches'
    BY <1>0, <1>k, <1>12, <2>2, <2>3, <2>a DEF ListIdentities, FleetMatches, Added, Deleted, Created, Dropped, Present, Identities,
           Alone, Inserting, Removing, Reconciling, StepsOf, Verifying, Allocating
  <2>6. ActiveMatches'
    BY <1>0, <1>k, <1>12, <2>2, <2>3, <2>a DEF ListIdentities, ActiveMatches, Active, Identities
  <2>7. ZoneMatches'
    BY <1>0, <1>k, <1>12, <2>2, <2>3, <2>a DEF ListIdentities, ZoneMatches, Identities, Present
  <2>. QED BY <2>3, <2>4, <2>5, <2>6, <2>7 DEF OneAtATime, One
<1>13. CASE InsertIdentity(x)
  <2>a. /\ Become(x, [x EXCEPT !.step = "sweep", !.rank = 0])
        /\ identity' = [identity EXCEPT ![x.provider] =
               [active |-> x.rank = 0, verified |-> FALSE, priority |-> x.rank]]
        /\ x.kind = "create" /\ x.provider \in Present \ Identities /\ x.key = "mailFrom"
        /\ UNCHANGED <<mode, provider, default, destination, paired, vendor, sandbox, rows, zone>>
    BY <1>0, <1>k, <1>13 DEF InsertIdentity, Working, Inserting, StepsOf, Removing, Reconciling,
                       Allocating, Verifying
  <2>b. identity'[x.provider] # None /\ (identity'[x.provider].active <=> x.rank = 0)
    <3>1. PICK a \in BOOLEAN : a <=> x.rank = 0
      OBVIOUS
    <3>2. (x.rank = 0) = a
      BY <3>1
    <3>3. PICK new \in Identity : new = [active |-> a, verified |-> FALSE, priority |-> x.rank]
      BY <1>0 DEF Operation, Identity
    <3>4. new = [active |-> x.rank = 0, verified |-> FALSE, priority |-> x.rank]
      BY <3>2, <3>3, Zenon
    <3>5. identity' = [identity EXCEPT ![x.provider] = new]
      BY <2>a, <3>4, Zenon
    <3>6. identity'[x.provider] = new
      BY <1>0, <2>a, <3>5 DEF Present
    <3>7. new # None /\ (new.active <=> x.rank = 0)
      BY <3>1, <3>3, SandboxAssumption
    <3>. QED BY <3>6, <3>7, Zenon
  <2>c. /\ Identities' = Identities \cup {x.provider} /\ Present' = Present
        /\ Active' = IF x.rank = 0 THEN Active \cup {x.provider} ELSE Active
    BY <1>0, <2>a, <2>b DEF Identities, Active, Present
  <2>d. x.rank = 0 <=> Active = {}
    BY <1>0, <1>k, <1>13 DEF InsertIdentity, Working
  <2>1. PICK y : y = [x EXCEPT !.step = "sweep", !.rank = 0]
    OBVIOUS
  <2>2. /\ y.step = "sweep" /\ y.rank = 0
       /\ y.kind = x.kind /\ y.provider = x.provider /\ y.turn = x.turn /\ y.key = x.key
       /\ y.found = x.found /\ y.todo = x.todo /\ y.flag = x.flag /\ y.servable = x.servable
    BY <1>0, <2>1 DEF Operation
  <2>3. running' = {y}
    BY <1>0, <2>a, <2>1 DEF Become
  <2>4. \A z \in running' : Working(z)'
    BY <2>a, <2>2, <2>3 DEF Working, Inserting, Removing, Reconciling
  <2>5. FleetMatches'
    <3>1. \A p \in Providers : p \in Identities' => p \in Present'
      BY <1>0, <1>k, <1>13, <2>2, <2>3, <2>a, <2>c DEF InsertIdentity, FleetMatches, Added, Deleted, Working, Present, Identities, Inserting,
             Removing, Reconciling, StepsOf, Verifying, Allocating
    <3>2. \A p \in Present' \ Identities' : \E z \in running' : Added(z, p) \/ Deleted(z, p)
      BY <1>0, <1>k, <1>13, <2>2, <2>3, <2>a, <2>c DEF InsertIdentity, FleetMatches, Added, Deleted, Working, Present, Identities, Inserting,
             Removing, Reconciling, StepsOf, Verifying, Allocating
    <3>3. ASSUME NEW p \in Providers, Alone(p)
         PROVE  Account[p] \in vendor' <=>
                  \/ p \in Identities' /\ \A z \in running' : ~Dropped(z, p)
                  \/ \E z \in running' : Created(z, p)
      BY <1>0, <1>k, <1>13, <2>2, <2>3, <2>a, <2>c, <3>3 DEF InsertIdentity, FleetMatches, Added, Created, Dropped, Alone, Working, Present, Identities, Inserting,
             Removing, Reconciling, StepsOf, Verifying, Allocating
    <3>4. ASSUME NEW p \in Providers, Alone(p)
         PROVE  /\ provider'[p] # "present" => Account[p] \notin destination'
                /\ (\E z \in running' : z.step = "drop" /\ z.provider = p) =>
                     Account[p] \notin destination'
      BY <1>0, <1>k, <1>13, <2>2, <2>3, <2>a, <2>c, <3>4 DEF InsertIdentity, FleetMatches, Alone, Working, Present, Identities, Inserting,
             Removing, Reconciling, StepsOf, Verifying, Allocating
    <3>5. default' = None =>
           \/ Present' = {} \/ \E p \in Providers : provider'[p] = "deleted"
           \/ \E z \in running' : z.step \in {"insert", "set"}
      BY <1>0, <1>k, <1>13, <2>2, <2>3, <2>a, <2>c DEF InsertIdentity, FleetMatches, Working, Present, Identities, Inserting,
             Removing, Reconciling, StepsOf, Verifying, Allocating
    <3>. QED BY <3>1, <3>2, <3>3, <3>4, <3>5 DEF FleetMatches, Alone
  <2>6. ActiveMatches'
    BY <1>0, <2>a, <2>c, <2>d, <1>13 DEF ActiveMatches, InsertIdentity
  <2>7. ZoneMatches'
    BY <1>0, <1>13, <2>a, <2>c, <2>2, <2>3 DEF ZoneMatches, InsertIdentity
  <2>. QED BY <2>3, <2>4, <2>5, <2>6, <2>7 DEF OneAtATime, One
<1>. QED BY <1>1, <1>2, <1>3, <1>4, <1>5, <1>6, <1>7, <1>8, <1>9, <1>10, <1>11, <1>12, <1>13 DEF CreateStep

\* An identity that is made active.
LEMMA Activated ==
  ASSUME NEW old \in Identity
  PROVE  \E new \in Identity : new = [old EXCEPT !.active = TRUE] /\ new.active
<1>1. [old EXCEPT !.active = TRUE] \in Identity /\ [old EXCEPT !.active = TRUE].active
  BY DEF Identity
<1>. QED BY <1>1

\* One delete at a time.
LEMMA DeleteAlone ==
  ASSUME General, Sequential, OneAtATime, NEW x \in running, DeleteStep(x), General'
  PROVE  OneAtATime'
<1>0. /\ running = {x} /\ x \in Operation /\ Sound(x) /\ Working(x) /\ WorldTyped /\ WorldTyped'
      /\ x.step \notin Allocating => x.provider \in Providers /\ Account[x.provider] \in Accounts
      /\ FleetMatches /\ ActiveMatches /\ ZoneMatches /\ Sane /\ ZoneSound
  BY OperationSound, DeleteTyped DEF General, OneAtATime, One
<1>k. TellsKind(x)
  BY <1>0, KindOf
<1> USE NoneIsNone DEF TellsKind, WorldTyped, Sound, fleet, dns, world, Kinds
<1>1. CASE DeleteAtVendor(x)
  <2>a. x.provider \in Present /\ x.provider \in Identities /\ x.kind = "delete" /\ x.step = "deleteVendor"
    BY <1>0, <1>k, <1>1 DEF DeleteAtVendor, Working, Removing
  <2>1. PICK y : y = [x EXCEPT !.step = "listRows"]
    OBVIOUS
  <2>2. /\ y.step = "listRows"
       /\ y.kind = x.kind /\ y.provider = x.provider /\ y.turn = x.turn /\ y.key = x.key
       /\ y.found = x.found /\ y.todo = x.todo /\ y.rank = x.rank /\ y.flag = x.flag /\ y.servable = x.servable
    BY <1>0, <2>1 DEF Operation
  <2>3. running' = {y}
    BY <1>0, <1>1, <2>1 DEF DeleteAtVendor, Become, Advance
  <2>4. \A z \in running' : Working(z)'
    BY <1>0, <1>k, <1>1, <2>2, <2>3, <2>a DEF DeleteAtVendor, Working, Present, Identities, Active, OwnedBy, Owner, Inserting, Removing,
           Reconciling, StepsOf, Verifying, Allocating
  <2>5. FleetMatches'
    <3>1. \A p \in Providers : p \in Identities' => p \in Present'
      BY <1>0, <1>k, <1>1, <2>2, <2>3, <2>a DEF DeleteAtVendor, FleetMatches, Added, Deleted, Working, Present, Identities, Inserting,
             Removing, Reconciling, StepsOf, Verifying, Allocating
    <3>2. \A p \in Present' \ Identities' : \E z \in running' : Added(z, p) \/ Deleted(z, p)
      BY <1>0, <1>k, <1>1, <2>2, <2>3, <2>a DEF DeleteAtVendor, FleetMatches, Added, Deleted, Working, Present, Identities, Inserting,
             Removing, Reconciling, StepsOf, Verifying, Allocating
    <3>3. ASSUME NEW p \in Providers, Alone(p)
         PROVE  Account[p] \in vendor' <=>
                  \/ p \in Identities' /\ \A z \in running' : ~Dropped(z, p)
                  \/ \E z \in running' : Created(z, p)
      BY <1>0, <1>k, <1>1, <2>2, <2>3, <2>a, <3>3 DEF DeleteAtVendor, FleetMatches, Added, Created, Dropped, Alone, Working, Present, Identities, Inserting,
             Removing, Reconciling, StepsOf, Verifying, Allocating
    <3>4. ASSUME NEW p \in Providers, Alone(p)
         PROVE  /\ provider'[p] # "present" => Account[p] \notin destination'
                /\ (\E z \in running' : z.step = "drop" /\ z.provider = p) =>
                     Account[p] \notin destination'
      BY <1>0, <1>k, <1>1, <2>2, <2>3, <2>a, <3>4 DEF DeleteAtVendor, FleetMatches, Alone, Working, Present, Identities, Inserting,
             Removing, Reconciling, StepsOf, Verifying, Allocating
    <3>5. default' = None =>
           \/ Present' = {} \/ \E p \in Providers : provider'[p] = "deleted"
           \/ \E z \in running' : z.step \in {"insert", "set"}
      BY <1>0, <1>k, <1>1, <2>2, <2>3, <2>a DEF DeleteAtVendor, FleetMatches, Working, Present, Identities, Inserting,
             Removing, Reconciling, StepsOf, Verifying, Allocating
    <3>. QED BY <3>1, <3>2, <3>3, <3>4, <3>5 DEF FleetMatches, Alone
  <2>6. ActiveMatches'
    BY <1>0, <1>k, <1>1, <2>2, <2>3, <2>a DEF DeleteAtVendor, ActiveMatches, Active, Identities
  <2>7. ZoneMatches'
    BY <1>0, <1>k, <1>1, <2>2, <2>3, <2>a DEF DeleteAtVendor, ZoneMatches, Identities, Present
  <2>. QED BY <2>3, <2>4, <2>5, <2>6, <2>7 DEF OneAtATime, One
<1>2. CASE ListRows(x)
  <2>a. CASE OwnedBy(x.provider) = {}
    <3>1. PICK y : y = [x EXCEPT !.step = "deleteIdentity"]
      OBVIOUS
    <3>2. /\ y.step = "deleteIdentity"
         /\ y.kind = x.kind /\ y.provider = x.provider /\ y.turn = x.turn /\ y.key = x.key
         /\ y.found = x.found /\ y.todo = x.todo /\ y.rank = x.rank /\ y.flag = x.flag /\ y.servable = x.servable
      BY <1>0, <3>1 DEF Operation
    <3>3. running' = {y}
      BY <1>0, <1>2, <2>a, <3>1 DEF ListRows, Become, Advance
    <3>4. \A z \in running' : Working(z)'
      <4>2. /\ y.kind = "delete" /\ x.step = "listRows" /\ OwnedBy(y.provider)' = {}
            /\ y.provider \in Present' /\ y.provider \notin paired'
            /\ y.provider \in Identities' /\ (y.flag <=> y.provider \in Active')
        BY <1>0, <1>k, <1>2, <2>a, <3>2 DEF ListRows, Working, Removing, Present, Identities, Active, OwnedBy
      <4>. QED BY <3>2, <3>3, <4>2 DEF Working, Removing
    <3>5. FleetMatches'
      BY <1>0, <1>k, <1>2, <3>2, <3>3, <2>a DEF ListRows, FleetMatches, Added, Deleted, Created, Dropped, Present, Identities,
             Alone, Inserting, Removing, Reconciling, StepsOf, Verifying, Allocating
    <3>6. ActiveMatches'
      BY <1>0, <1>k, <1>2, <3>2, <3>3, <2>a DEF ListRows, ActiveMatches, Active, Identities
    <3>7. ZoneMatches'
      BY <1>0, <1>k, <1>2, <3>2, <3>3, <2>a DEF ListRows, ZoneMatches, Identities, Present
    <3>. QED BY <3>3, <3>4, <3>5, <3>6, <3>7 DEF OneAtATime, One
  <2>b. CASE OwnedBy(x.provider) # {}
    <3>1. PICK y : y = [x EXCEPT !.step = "deleteRecords", !.found = {rows[k] : k \in OwnedBy(x.provider)}]
      OBVIOUS
    <3>2. /\ y.step = "deleteRecords" /\ y.found = {rows[k] : k \in OwnedBy(x.provider)}
         /\ y.kind = x.kind /\ y.provider = x.provider /\ y.turn = x.turn /\ y.key = x.key
         /\ y.todo = x.todo /\ y.rank = x.rank /\ y.flag = x.flag /\ y.servable = x.servable
      BY <1>0, <3>1 DEF Operation
    <3>3. running' = {y}
      BY <1>0, <1>2, <2>b, <3>1 DEF ListRows, Become, Advance
    <3>4. \A z \in running' : Working(z)'
      <4>1. y.found = {rows'[k] : k \in OwnedBy(y.provider)'}
        BY <1>2, <3>2 DEF ListRows, OwnedBy
      <4>2. /\ y.kind = "delete" /\ x.step = "listRows"
            /\ y.provider \in Present' /\ y.provider \notin paired'
            /\ y.provider \in Identities' /\ (y.flag <=> y.provider \in Active')
        BY <1>0, <1>k, <1>2, <3>2 DEF ListRows, Working, Removing, Present, Identities, Active
      <4>. QED BY <3>2, <3>3, <4>1, <4>2 DEF Working, Removing
    <3>5. FleetMatches'
      BY <1>0, <1>k, <1>2, <3>2, <3>3, <2>b DEF ListRows, FleetMatches, Added, Deleted, Created, Dropped, Present, Identities,
             Alone, Inserting, Removing, Reconciling, StepsOf, Verifying, Allocating
    <3>6. ActiveMatches'
      BY <1>0, <1>k, <1>2, <3>2, <3>3, <2>b DEF ListRows, ActiveMatches, Active, Identities
    <3>7. ZoneMatches'
      BY <1>0, <1>k, <1>2, <3>2, <3>3, <2>b DEF ListRows, ZoneMatches, Identities, Present
    <3>. QED BY <3>3, <3>4, <3>5, <3>6, <3>7 DEF OneAtATime, One
  <2>. QED BY <2>a, <2>b
<1>3. CASE DeleteRecords(x)
  <2>a. /\ x.found = {rows[k] : k \in OwnedBy(x.provider)} /\ x.step = "deleteRecords" /\ rows' = rows
        /\ \A k \in OwnedBy(x.provider) : zone'[rows[k].record] = None /\ rows'[k] = rows[k]
        /\ \A r \in Serials : zone'[r] = zone[r] \/ zone'[r] = None
        /\ \A r \in Serials : (\A v \in x.found : v.record # r) => zone'[r] = zone[r]
    <3>1. x.found = {rows[k] : k \in OwnedBy(x.provider)} /\ x.step = "deleteRecords" /\ rows' = rows
      BY <1>0, <1>3 DEF DeleteRecords, Working
    <3>2. \A r \in Serials : zone'[r] = IF \E v \in x.found : v.record = r THEN None ELSE zone[r]
      BY <1>3 DEF DeleteRecords
    <3>3. ASSUME NEW k \in OwnedBy(x.provider) PROVE zone'[rows[k].record] = None
      <4>1. rows[k].record \in Serials /\ rows[k] \in x.found
        BY <1>0, <3>1 DEF OwnedBy, Row
      <4>. QED BY <3>2, <4>1
    <3>. QED BY <3>1, <3>2, <3>3
  <2>1. PICK y : y = [x EXCEPT !.step = "deleteRows", !.found = {}]
    OBVIOUS
  <2>2. /\ y.step = "deleteRows" /\ y.found = {}
       /\ y.kind = x.kind /\ y.provider = x.provider /\ y.turn = x.turn /\ y.key = x.key
       /\ y.todo = x.todo /\ y.rank = x.rank /\ y.flag = x.flag /\ y.servable = x.servable
    BY <1>0, <2>1 DEF Operation
  <2>3. running' = {y}
    BY <1>0, <1>3, <2>1 DEF DeleteRecords, Become, Advance
  <2>4. \A z \in running' : Working(z)'
    <3>1. /\ y.kind = "delete" /\ x.step = "deleteRecords" /\ OwnedBy(y.provider)' = OwnedBy(x.provider)
          /\ y.provider \in Present' /\ y.provider \notin paired'
          /\ y.provider \in Identities' /\ (y.flag <=> y.provider \in Active')
      BY <1>0, <1>k, <1>3, <2>2 DEF DeleteRecords, Working, Removing, Present, Identities, Active, OwnedBy
    <3>2. \A k \in OwnedBy(x.provider) : zone'[rows[k].record] = None /\ rows'[k] = rows[k]
      BY <2>a
    <3>. QED BY <2>2, <2>3, <3>1, <3>2 DEF Working, Removing
  <2>5. FleetMatches'
    BY <1>0, <1>k, <1>3, <2>2, <2>3, <2>a DEF DeleteRecords, FleetMatches, Added, Deleted, Created, Dropped, Present, Identities,
           Alone, Inserting, Removing, Reconciling, StepsOf, Verifying, Allocating
  <2>6. ActiveMatches'
    BY <1>0, <1>k, <1>3, <2>2, <2>3, <2>a DEF DeleteRecords, ActiveMatches, Active, Identities
  <2>7. ZoneMatches'
    <3>1. \A k \in Keys : rows[k] # None => rows[k].owner \in Identities \cup {"root"}
      BY <1>0, <2>a DEF ZoneMatches
    <3>2. \A r \in Serials : zone'[r] # None =>
            /\ zone'[r] = zone[r] /\ rows[zone[r].key] # None /\ rows[zone[r].key].record = r
      BY <1>0, <2>a DEF ZoneMatches
    <3>3. ASSUME NEW k \in Keys, rows[k] # None, rows[k].owner # y.provider, "drift" \notin mode
          PROVE  zone'[rows[k].record] # None
      <4>1. zone[rows[k].record] # None /\ rows[k].record \in Serials
        BY <1>0, <2>a, <3>3 DEF ZoneMatches, Row
      <4>2. ASSUME NEW v \in x.found, v.record = rows[k].record PROVE FALSE
        <5>1. PICK j \in Keys : v = rows[j] /\ rows[j] # None /\ rows[j].owner = x.provider
          BY <2>a DEF OwnedBy
        <5>2. zone[rows[k].record].key = k /\ zone[rows[k].record].key = j
          BY <1>0, <3>3, <4>1, <4>2, <5>1 DEF ZoneSound, Names
        <5>. QED BY <2>2, <3>3, <5>1, <5>2
      <4>. QED BY <2>a, <4>1, <4>2
    <3>4. y.step = "deleteRows" /\ UNCHANGED <<rows, mode>> /\ Identities' = Identities
      BY <1>3, <2>2 DEF DeleteRecords, Identities
    <3>. QED BY <2>3, <3>1, <3>2, <3>3, <3>4 DEF ZoneMatches
  <2>. QED BY <2>3, <2>4, <2>5, <2>6, <2>7 DEF OneAtATime, One
<1>4. CASE DeleteRows(x)
  <2>a. /\ x.step = "deleteRows"
        /\ \A k \in Keys : rows'[k] = IF k \in OwnedBy(x.provider) THEN None ELSE rows[k]
    BY <1>4 DEF DeleteRows
  <2>1. PICK y : y = [x EXCEPT !.step = "deleteIdentity"]
    OBVIOUS
  <2>2. /\ y.step = "deleteIdentity"
       /\ y.kind = x.kind /\ y.provider = x.provider /\ y.turn = x.turn /\ y.key = x.key
       /\ y.found = x.found /\ y.todo = x.todo /\ y.rank = x.rank /\ y.flag = x.flag /\ y.servable = x.servable
    BY <1>0, <2>1 DEF Operation
  <2>3. running' = {y}
    BY <1>0, <1>4, <2>1 DEF DeleteRows, Become, Advance
  <2>4. \A z \in running' : Working(z)'
    <3>1. /\ y.kind = "delete" /\ x.step = "deleteRows"
          /\ y.provider \in Present' /\ y.provider \notin paired'
          /\ y.provider \in Identities' /\ (y.flag <=> y.provider \in Active')
      BY <1>0, <1>k, <1>4, <2>2 DEF DeleteRows, Working, Removing, Present, Identities, Active
    <3>2. OwnedBy(y.provider)' = {}
      BY <1>0, <2>a, <2>2 DEF OwnedBy
    <3>. QED BY <2>2, <2>3, <3>1, <3>2 DEF Working, Removing
  <2>5. FleetMatches'
    BY <1>0, <1>k, <1>4, <2>2, <2>3, <2>a DEF DeleteRows, FleetMatches, Added, Deleted, Created, Dropped, Present, Identities,
           Alone, Inserting, Removing, Reconciling, StepsOf, Verifying, Allocating
  <2>6. ActiveMatches'
    BY <1>0, <1>k, <1>4, <2>2, <2>3, <2>a DEF DeleteRows, ActiveMatches, Active, Identities
  <2>7. ZoneMatches'
    <3>1. \A k \in Keys : rows'[k] # None =>
            /\ rows'[k] = rows[k] /\ rows[k].owner \in Identities \cup {"root"}
            /\ rows[k].owner # x.provider
      BY <1>0, <2>a DEF ZoneMatches, OwnedBy
    <3>2. ASSUME NEW r \in Serials, zone[r] # None
          PROVE  rows'[zone[r].key] # None /\ rows'[zone[r].key].record = r
      <4>1. zone[r].key \in Keys /\ rows[zone[r].key] # None /\ rows[zone[r].key].record = r
        BY <1>0, <2>a, <3>2 DEF ZoneMatches, Record
      <4>2. zone[r].key \notin OwnedBy(x.provider)
        BY <1>0, <2>a, <3>2, <4>1 DEF Working
      <4>. QED BY <2>a, <4>1, <4>2
    <3>3. ASSUME NEW k \in Keys, rows'[k] # None, "drift" \notin mode
          PROVE  zone[rows'[k].record] # None
      BY <1>0, <3>1, <3>3 DEF ZoneMatches
    <3>4. y.step = "deleteIdentity" /\ UNCHANGED <<zone, mode>> /\ Identities' = Identities
      BY <1>4, <2>2 DEF DeleteRows, Identities
    <3>. QED BY <2>3, <3>1, <3>2, <3>3, <3>4 DEF ZoneMatches
  <2>. QED BY <2>3, <2>4, <2>5, <2>6, <2>7 DEF OneAtATime, One
<1>5. CASE DeleteIdentity(x)
  <2>a. /\ x.step = "deleteIdentity" /\ x.kind = "delete" /\ x.provider \in Identities
        /\ x.provider \in Present /\ x.provider \notin paired /\ OwnedBy(x.provider) = {}
        /\ Identities' = Identities \ {x.provider} /\ Active' = Active \ {x.provider}
        /\ (x.flag <=> x.provider \in Active) /\ Present' = Present /\ paired' = paired
    <3>1. /\ x.step = "deleteIdentity" /\ x.kind = "delete" /\ x.provider \in Identities
          /\ x.provider \in Present /\ x.provider \notin paired /\ OwnedBy(x.provider) = {}
          /\ (x.flag <=> x.provider \in Active)
      BY <1>0, <1>k, <1>5 DEF DeleteIdentity, Working, Removing
    <3>2. Identities' = Identities \ {x.provider} /\ Active' = Active \ {x.provider}
      BY <1>0, <1>5 DEF DeleteIdentity, Identities, Active
    <3>3. Present' = Present /\ paired' = paired
      BY <1>5 DEF DeleteIdentity, Present
    <3>. QED BY <3>1, <3>2, <3>3
  <2>1. PICK y : y = [x EXCEPT !.step = "promote"]
    OBVIOUS
  <2>2. /\ y.step = "promote"
       /\ y.kind = x.kind /\ y.provider = x.provider /\ y.turn = x.turn /\ y.key = x.key
       /\ y.found = x.found /\ y.todo = x.todo /\ y.rank = x.rank /\ y.flag = x.flag /\ y.servable = x.servable
    BY <1>0, <2>1 DEF Operation
  <2>3. running' = {y}
    BY <1>0, <1>5, <2>1 DEF DeleteIdentity, Become, Advance
  <2>4. \A z \in running' : Working(z)'
    BY <1>0, <2>2, <2>3, <2>a DEF Working, Removing
  <2>5. FleetMatches'
    <3>1. \A p \in Providers : p \in Identities' => p \in Present'
      BY <1>0, <1>k, <1>5, <2>2, <2>3, <2>a DEF DeleteIdentity, FleetMatches, Added, Deleted, Working, Present, Identities, Inserting,
             Removing, Reconciling, StepsOf, Verifying, Allocating
    <3>2. \A p \in Present' \ Identities' : \E z \in running' : Added(z, p) \/ Deleted(z, p)
      BY <1>0, <1>k, <1>5, <2>2, <2>3, <2>a DEF DeleteIdentity, FleetMatches, Added, Deleted, Working, Present, Identities, Inserting,
             Removing, Reconciling, StepsOf, Verifying, Allocating
    <3>3. ASSUME NEW p \in Providers, Alone(p)
         PROVE  Account[p] \in vendor' <=>
                  \/ p \in Identities' /\ \A z \in running' : ~Dropped(z, p)
                  \/ \E z \in running' : Created(z, p)
      BY <1>0, <1>k, <1>5, <2>2, <2>3, <2>a, <3>3 DEF DeleteIdentity, FleetMatches, Added, Created, Dropped, Alone, Working, Present, Identities, Inserting,
             Removing, Reconciling, StepsOf, Verifying, Allocating
    <3>4. ASSUME NEW p \in Providers, Alone(p)
         PROVE  /\ provider'[p] # "present" => Account[p] \notin destination'
                /\ (\E z \in running' : z.step = "drop" /\ z.provider = p) =>
                     Account[p] \notin destination'
      BY <1>0, <1>k, <1>5, <2>2, <2>3, <2>a, <3>4 DEF DeleteIdentity, FleetMatches, Alone, Working, Present, Identities, Inserting,
             Removing, Reconciling, StepsOf, Verifying, Allocating
    <3>5. default' = None =>
           \/ Present' = {} \/ \E p \in Providers : provider'[p] = "deleted"
           \/ \E z \in running' : z.step \in {"insert", "set"}
      BY <1>0, <1>k, <1>5, <2>2, <2>3, <2>a DEF DeleteIdentity, FleetMatches, Working, Present, Identities, Inserting,
             Removing, Reconciling, StepsOf, Verifying, Allocating
    <3>. QED BY <3>1, <3>2, <3>3, <3>4, <3>5 DEF FleetMatches, Alone
  <2>6. ActiveMatches'
    BY <1>0, <1>k, <1>5, <2>2, <2>3, <2>a DEF DeleteIdentity, ActiveMatches, Active, Identities
  <2>7. ZoneMatches'
    <3>1. \A k \in Keys : rows[k] # None =>
            rows[k].owner \in Identities \cup {"root"} /\ rows[k].owner # x.provider
      BY <1>0, <2>a DEF ZoneMatches, OwnedBy
    <3>2. UNCHANGED <<rows, zone, mode>> /\ y.step = "promote"
      BY <1>5, <2>2 DEF DeleteIdentity
    <3>. QED BY <1>0, <2>a, <2>3, <3>1, <3>2 DEF ZoneMatches
  <2>. QED BY <2>3, <2>4, <2>5, <2>6, <2>7 DEF OneAtATime, One
<1>6. CASE Promote(x)
  <2>a. /\ x.step = "promote" /\ x.kind = "delete" /\ x.provider \notin Identities
        /\ x.provider \in Present /\ x.provider \notin paired
        /\ Identities' = Identities /\ Present' = Present /\ UNCHANGED <<fleet, paired, vendor, dns, mode>>
        /\ \A p, q \in Active' : p = q
        /\ Identities # {} => Active' # {}
        /\ sandbox' # None /\ sandbox'.active => Identities # {}
    <3>1. /\ x.step = "promote" /\ x.kind = "delete" /\ x.provider \notin Identities
          /\ x.provider \in Present /\ x.provider \notin paired
          /\ UNCHANGED <<fleet, paired, vendor, dns, mode>> /\ Present' = Present
      BY <1>0, <1>k, <1>6 DEF Promote, Working, Removing, Present
    <3>2. CASE ~(Identities # {} /\ x.flag /\ Active = {})
      <4>0. identity' = identity
        BY <1>6, <3>2 DEF Promote
      <4>1. Identities' = Identities /\ Active' = Active
        BY <4>0 DEF Identities, Active
      <4>2. Identities # {} => Active # {}
        BY <1>0, <3>1, <3>2 DEF ActiveMatches
      <4>3. sandbox' # None /\ sandbox'.active => Identities # {}
        BY <1>0, <1>6 DEF Promote
      <4>. QED BY <1>0, <3>1, <4>1, <4>2, <4>3 DEF ActiveMatches
    <3>3. CASE Identities # {} /\ x.flag /\ Active = {}
      <4>1. PICK p \in Identities : identity' = [identity EXCEPT ![p].active = TRUE]
        BY <1>6, <3>3 DEF Promote, NextInOrder
      <4>2. PICK old \in Identity : old = identity[p]
        BY <1>0, <4>1 DEF Identities
      <4>3. PICK new \in Identity : new = [old EXCEPT !.active = TRUE] /\ new.active
        BY Activated
      <4>4. identity'[p] = new /\ \A q \in Providers \ {p} : identity'[q] = identity[q]
        <5>2. identity'[p] = [identity[p] EXCEPT !.active = TRUE] /\ \A q \in Providers \ {p} : identity'[q] = identity[q]
          BY <1>0, <4>1 DEF Identities
        <5>. QED BY <4>2, <4>3, <5>2, Zenon
      <4>5. Identities' = Identities /\ Active' = {p}
        <5>1. new.active /\ new # None /\ p \in Providers /\ identity[p] # None
          BY <4>1, <4>3, SandboxAssumption DEF Identities
        <5>2. \A q \in Providers \ {p} : identity[q] # None => ~identity[q].active
          BY <3>3 DEF Active, Identities
        <5>. QED BY <4>4, <5>1, <5>2, Zenon DEF Identities, Active
      <4>. QED BY <3>1, <3>3, <4>5
    <3>. QED BY <3>2, <3>3
  <2>1. PICK y : y = [x EXCEPT !.step = "teardown"]
    OBVIOUS
  <2>2. /\ y.step = "teardown"
       /\ y.kind = x.kind /\ y.provider = x.provider /\ y.turn = x.turn /\ y.key = x.key
       /\ y.found = x.found /\ y.todo = x.todo /\ y.rank = x.rank /\ y.flag = x.flag /\ y.servable = x.servable
    BY <1>0, <2>1 DEF Operation
  <2>3. running' = {y}
    BY <1>0, <1>6, <2>1 DEF Promote, Become, Advance
  <2>4. \A z \in running' : Working(z)'
    BY <1>0, <2>2, <2>3, <2>a DEF Working, Removing
  <2>5. FleetMatches'
    BY <1>0, <1>k, <1>6, <2>2, <2>3, <2>a DEF Promote, FleetMatches, Added, Deleted, Created, Dropped, Present, Identities,
           Alone, Inserting, Removing, Reconciling, StepsOf, Verifying, Allocating
  <2>6. ActiveMatches'
    BY <2>2, <2>3, <2>a DEF ActiveMatches
  <2>7. ZoneMatches'
    BY <1>0, <1>k, <1>6, <2>2, <2>3, <2>a DEF Promote, ZoneMatches, Identities, Present
  <2>. QED BY <2>3, <2>4, <2>5, <2>6, <2>7 DEF OneAtATime, One
<1>7. CASE TeardownInfrastructure(x)
  <2>a. /\ x.step = "teardown" /\ x.kind = "delete" /\ x.provider \notin Identities
        /\ x.provider \in Present /\ x.provider \notin paired
        /\ Identities' = Identities /\ Present' = Present /\ UNCHANGED paired
    BY <1>0, <1>k, <1>7 DEF TeardownInfrastructure, Working, Removing, Present, Identities
  <2>1. PICK y : y = [x EXCEPT !.step = "drop"]
    OBVIOUS
  <2>2. /\ y.step = "drop"
       /\ y.kind = x.kind /\ y.provider = x.provider /\ y.turn = x.turn /\ y.key = x.key
       /\ y.found = x.found /\ y.todo = x.todo /\ y.rank = x.rank /\ y.flag = x.flag /\ y.servable = x.servable
    BY <1>0, <2>1 DEF Operation
  <2>3. running' = {y}
    BY <1>0, <1>7, <2>1 DEF TeardownInfrastructure, Become, Advance
  <2>4. \A z \in running' : Working(z)'
    BY <1>0, <2>2, <2>3, <2>a DEF Working, Removing
  <2>5. FleetMatches'
    <3>1. \A p \in Providers : p \in Identities' => p \in Present'
      BY <1>0, <1>k, <1>7, <2>2, <2>3, <2>a DEF TeardownInfrastructure, FleetMatches, Added, Deleted, Working, Present, Identities, Inserting,
             Removing, Reconciling, StepsOf, Verifying, Allocating
    <3>2. \A p \in Present' \ Identities' : \E z \in running' : Added(z, p) \/ Deleted(z, p)
      BY <1>0, <1>k, <1>7, <2>2, <2>3, <2>a DEF TeardownInfrastructure, FleetMatches, Added, Deleted, Working, Present, Identities, Inserting,
             Removing, Reconciling, StepsOf, Verifying, Allocating
    <3>3. ASSUME NEW p \in Providers, Alone(p)
         PROVE  Account[p] \in vendor' <=>
                  \/ p \in Identities' /\ \A z \in running' : ~Dropped(z, p)
                  \/ \E z \in running' : Created(z, p)
      BY <1>0, <1>k, <1>7, <2>2, <2>3, <2>a, <3>3 DEF TeardownInfrastructure, FleetMatches, Added, Created, Dropped, Alone, Working, Present, Identities, Inserting,
             Removing, Reconciling, StepsOf, Verifying, Allocating
    <3>4. ASSUME NEW p \in Providers, Alone(p)
         PROVE  /\ provider'[p] # "present" => Account[p] \notin destination'
                /\ (\E z \in running' : z.step = "drop" /\ z.provider = p) =>
                     Account[p] \notin destination'
      BY <1>0, <1>k, <1>7, <2>2, <2>3, <2>a, <3>4 DEF TeardownInfrastructure, FleetMatches, Alone, Working, Present, Identities, Inserting,
             Removing, Reconciling, StepsOf, Verifying, Allocating
    <3>5. default' = None =>
           \/ Present' = {} \/ \E p \in Providers : provider'[p] = "deleted"
           \/ \E z \in running' : z.step \in {"insert", "set"}
      BY <1>0, <1>k, <1>7, <2>2, <2>3, <2>a DEF TeardownInfrastructure, FleetMatches, Working, Present, Identities, Inserting,
             Removing, Reconciling, StepsOf, Verifying, Allocating
    <3>. QED BY <3>1, <3>2, <3>3, <3>4, <3>5 DEF FleetMatches, Alone
  <2>6. ActiveMatches'
    BY <1>0, <1>k, <1>7, <2>2, <2>3, <2>a DEF TeardownInfrastructure, ActiveMatches, Active, Identities
  <2>7. ZoneMatches'
    BY <1>0, <1>k, <1>7, <2>2, <2>3, <2>a DEF TeardownInfrastructure, ZoneMatches, Identities, Present
  <2>. QED BY <2>3, <2>4, <2>5, <2>6, <2>7 DEF OneAtATime, One
<1>8. CASE DropProvider(x)
  <2>a. /\ x.step = "drop" /\ x.kind = "delete" /\ x.provider \notin Identities
        /\ x.provider \in Present /\ x.provider \notin paired
        /\ provider' = [provider EXCEPT ![x.provider] = "deleted"]
        /\ default' = IF default = x.provider THEN None ELSE default
        /\ Identities' = Identities /\ Present' = Present \ {x.provider}
    <3>1. /\ x.step = "drop" /\ x.kind = "delete" /\ x.provider \notin Identities
          /\ x.provider \in Present /\ x.provider \notin paired
      BY <1>0, <1>k, <1>8 DEF DropProvider, Working, Removing
    <3>2. /\ provider' = [provider EXCEPT ![x.provider] = "deleted"]
          /\ default' = IF default = x.provider THEN None ELSE default
      BY <1>8, <3>1 DEF DropProvider
    <3>. QED BY <1>0, <1>8, <3>1, <3>2 DEF DropProvider, Present, Identities
  <2>3. running' = {}
    BY <1>0, <1>8 DEF DropProvider, End
  <2>4. \A z \in running' : Working(z)'
    BY <1>0, <1>k, <1>8, <2>3, <2>a DEF DropProvider, Working, Present, Identities, Active, OwnedBy, Owner, Inserting, Removing,
           Reconciling, StepsOf, Verifying, Allocating
  <2>5. FleetMatches'
    <3>1. \A p \in Providers : p \in Identities' => p \in Present'
      BY <1>0, <1>k, <1>8, <2>3, <2>a DEF DropProvider, FleetMatches, Added, Deleted, Working, Present, Identities, Inserting,
             Removing, Reconciling, StepsOf, Verifying, Allocating
    <3>2. \A p \in Present' \ Identities' : \E z \in running' : Added(z, p) \/ Deleted(z, p)
      BY <1>0, <1>k, <1>8, <2>3, <2>a DEF DropProvider, FleetMatches, Added, Deleted, Working, Present, Identities, Inserting,
             Removing, Reconciling, StepsOf, Verifying, Allocating
    <3>3. ASSUME NEW p \in Providers, Alone(p)
         PROVE  Account[p] \in vendor' <=>
                  \/ p \in Identities' /\ \A z \in running' : ~Dropped(z, p)
                  \/ \E z \in running' : Created(z, p)
      BY <1>0, <1>k, <1>8, <2>3, <2>a, <3>3 DEF DropProvider, FleetMatches, Added, Created, Dropped, Alone, Working, Present, Identities, Inserting,
             Removing, Reconciling, StepsOf, Verifying, Allocating
    <3>4. ASSUME NEW p \in Providers, Alone(p)
         PROVE  /\ provider'[p] # "present" => Account[p] \notin destination'
                /\ (\E z \in running' : z.step = "drop" /\ z.provider = p) =>
                     Account[p] \notin destination'
      BY <1>0, <1>k, <1>8, <2>3, <2>a, <3>4 DEF DropProvider, FleetMatches, Alone, Working, Present, Identities, Inserting,
             Removing, Reconciling, StepsOf, Verifying, Allocating
    <3>5. default' = None =>
           \/ Present' = {} \/ \E p \in Providers : provider'[p] = "deleted"
           \/ \E z \in running' : z.step \in {"insert", "set"}
      BY <1>0, <1>k, <1>8, <2>3, <2>a DEF DropProvider, FleetMatches, Working, Present, Identities, Inserting,
             Removing, Reconciling, StepsOf, Verifying, Allocating
    <3>. QED BY <3>1, <3>2, <3>3, <3>4, <3>5 DEF FleetMatches, Alone
  <2>6. ActiveMatches'
    BY <1>0, <1>k, <1>8, <2>3, <2>a DEF DropProvider, ActiveMatches, Active, Identities
  <2>7. ZoneMatches'
    BY <1>0, <1>k, <1>8, <2>3, <2>a DEF DropProvider, ZoneMatches, Identities, Present
  <2>. QED BY <2>3, <2>4, <2>5, <2>6, <2>7 DEF OneAtATime, One
<1>. QED BY <1>1, <1>2, <1>3, <1>4, <1>5, <1>6, <1>7, <1>8 DEF DeleteStep

\* An identity whose verification changes.
LEMMA Marked ==
  ASSUME NEW old \in Identity, NEW v \in BOOLEAN
  PROVE  \E new \in Identity : new = [old EXCEPT !.verified = v] /\ (new.active <=> old.active)
<1>1. [old EXCEPT !.verified = v] \in Identity /\ ([old EXCEPT !.verified = v].active <=> old.active)
  BY DEF Identity
<1>. QED BY <1>1

\* A step that leaves fleet, records and identities as they are, of an operation
\* that is in the middle of none of them.
LEMMA QuietAlone ==
  ASSUME NEW x, running = {x}, x.step \in Verifying \cup Allocating,
         FleetMatches, ActiveMatches, ZoneMatches,
         UNCHANGED <<mode, fleet, paired, vendor, dns>>,
         Identities' = Identities, Active' = Active,
         sandbox' # None /\ sandbox'.active => Identities # {},
         \A y, z \in running' : y = z,
         \A y \in running' : /\ y.step \in Verifying \cup Allocating
                             /\ y.kind \in {"create", "verify", "sweep", "allocate"}
                             /\ y.step = "record" /\ y.servable => Identities # {}
  PROVE  OneAtATime'
<1> USE DEF fleet, dns, Verifying, Allocating
<1>0. Present' = Present
  BY DEF Present
<1>1. \A y \in running' : Working(y)'
  BY DEF Working, Inserting, Reconciling, Removing
<1>2. FleetMatches'
  BY <1>0 DEF FleetMatches, Added, Deleted, Created, Dropped, Inserting, Reconciling, Removing
<1>3. ActiveMatches'
  BY DEF ActiveMatches
<1>4. ZoneMatches'
  BY DEF ZoneMatches
<1>. QED BY <1>1, <1>2, <1>3, <1>4 DEF OneAtATime, One

\* One verification or allocation at a time.
LEMMA VerifyAlone ==
  ASSUME General, Sequential, OneAtATime, NEW x \in running, VerifyStep(x), General'
  PROVE  OneAtATime'
<1>0. /\ running = {x} /\ x \in Operation /\ Sound(x) /\ Working(x) /\ WorldTyped /\ WorldTyped'
      /\ x.step \notin Allocating => x.provider \in Providers /\ Account[x.provider] \in Accounts
      /\ FleetMatches /\ ActiveMatches /\ ZoneMatches /\ Sane /\ ZoneSound
  BY OperationSound, VerifyTyped DEF General, OneAtATime, One
<1>k. TellsKind(x)
  BY <1>0, KindOf
<1>1. x.step \in Verifying \cup Allocating /\ x.kind \in {"create", "verify", "sweep", "allocate"}
  BY <1>k DEF VerifyStep, TellsKind, ReadStatus, CompareDns, Rollup, RecordStatus, Sweep, Pick, Assign,
              Verifying, Allocating
<1>2. UNCHANGED <<mode, fleet, paired, vendor, dns>>
  BY DEF VerifyStep, ReadStatus, CompareDns, Rollup, RecordStatus, Sweep, Pick, Assign, world, fleet, dns
<1>3. Identities' = Identities /\ Active' = Active
  <2>1. CASE UNCHANGED identity
    BY <2>1 DEF Identities, Active
  <2>2. CASE ~UNCHANGED identity
    <3>1. PICK v \in BOOLEAN : identity' = [identity EXCEPT ![x.provider].verified = v]
      BY <2>2 DEF VerifyStep, ReadStatus, CompareDns, Rollup, RecordStatus, Sweep, Pick, Assign, world
    <3>2. PICK p \in Providers : p = x.provider /\ p \in Identities
      BY <1>0, <2>2 DEF VerifyStep, ReadStatus, CompareDns, Rollup, RecordStatus, Sweep, Pick, Assign,
                        world, Identities
    <3>3. PICK old \in Identity : old = identity[p]
      BY <1>0, <3>2 DEF Identities, WorldTyped
    <3>4. PICK new \in Identity : new = [old EXCEPT !.verified = v] /\ (new.active <=> old.active)
      BY Marked
    <3>5. identity'[p] = new /\ \A q \in Providers \ {p} : identity'[q] = identity[q]
      <4>1. /\ identity'[p] = [identity[p] EXCEPT !.verified = v]
            /\ \A q \in Providers \ {p} : identity'[q] = identity[q]
        BY <1>0, <3>1, <3>2 DEF WorldTyped
      <4>. QED BY <3>3, <3>4, <4>1, Zenon
    <3>6. new # None
      BY SandboxAssumption
    <3>7. p \in Providers /\ identity[p] # None /\ (new.active <=> identity[p].active)
      BY <3>2, <3>3, <3>4 DEF Identities
    <3>8. ASSUME NEW q \in Providers
          PROVE  /\ identity'[q] # None <=> identity[q] # None
                 /\ identity[q] # None => (identity'[q].active <=> identity[q].active)
      <4>1. CASE q = p
        BY <3>5, <3>6, <3>7, <4>1, Zenon
      <4>2. CASE q # p
        BY <3>5, <4>2
      <4>. QED BY <4>1, <4>2
    <3>9. Identities' = Identities
      BY <3>8 DEF Identities
    <3>. QED BY <3>8, <3>9 DEF Active, Identities
  <2>. QED BY <2>1, <2>2
<1>4. sandbox' # None /\ sandbox'.active => Identities # {}
  <2>1. CASE UNCHANGED sandbox
    BY <1>0, <1>1, <2>1 DEF ActiveMatches, Verifying, Allocating
  <2>2. CASE RecordStatus(x)
    <3>1. PICK a \in BOOLEAN, b \in BOOLEAN : a = x.servable /\ b = x.flag
      BY <1>0 DEF Operation
    <3>2. sandbox' = [active |-> a, verified |-> b]
      BY <2>2, <3>1 DEF RecordStatus
    <3>3. a => Identities # {}
      BY <1>0, <2>2, <3>1 DEF RecordStatus, Working
    <3>. QED BY <3>2, <3>3
  <2>. QED BY <2>1, <2>2 DEF VerifyStep, ReadStatus, CompareDns, Rollup, Sweep, Pick, Assign, world
<1>5. ASSUME NEW y \in running'
      PROVE  /\ y.step \in Verifying \cup Allocating
             /\ y.kind \in {"create", "verify", "sweep", "allocate"}
             /\ y.step = "record" /\ y.servable => Identities # {}
             /\ running' = {y}
  <2> USE DEF Verifying, Allocating
  <2>1. CASE ReadStatus(x)
    <3>1. y = [x EXCEPT !.step = "compare"] /\ running' = {y}
      BY <1>0, <1>5, <2>1 DEF ReadStatus, End, Advance, Become
    <3>2. y.kind = x.kind /\ y.step = "compare"
      BY <1>0, <3>1 DEF Operation
    <3>. QED BY <1>1, <3>1, <3>2
  <2>2. CASE CompareDns(x)
    <3>1. PICK flag : y = [x EXCEPT !.step = "rollup", !.flag = flag] /\ running' = {y}
      BY <1>0, <1>5, <2>2 DEF CompareDns, Become
    <3>2. y.kind = x.kind /\ y.step = "rollup"
      BY <1>0, <3>1 DEF Operation
    <3>. QED BY <1>1, <3>1, <3>2
  <2>3. CASE Rollup(x)
    <3>1. PICK s \in BOOLEAN : s <=> (x.flag /\ Active \cap Verified # {})
      OBVIOUS
    <3>2. (x.flag /\ Active \cap Verified # {}) = s
      BY <1>0, <3>1 DEF Operation
    <3>3. y = [x EXCEPT !.step = "record", !.servable = s] /\ running' = {y}
      BY <1>0, <1>5, <2>3, <3>2 DEF Rollup, Become
    <3>4. y.kind = x.kind /\ y.step = "record" /\ y.servable = s
      BY <1>0, <3>3 DEF Operation
    <3>5. s => Identities # {}
      BY <3>1 DEF Active
    <3>. QED BY <1>1, <3>3, <3>4, <3>5
  <2>4. CASE RecordStatus(x)
    <3>1. PICK s \in {"sweep", "status"} : \E p, todo :
            /\ y = [x EXCEPT !.flag = FALSE, !.servable = FALSE, !.step = s, !.provider = p, !.todo = todo]
            /\ running' = {y}
      <4>1. CASE x.kind = "verify"
        BY <1>0, <1>5, <2>4, <4>1 DEF RecordStatus, End
      <4>2. CASE x.kind # "verify" /\ x.todo = {}
        <5>1. /\ running' = {y}
              /\ y = [[x EXCEPT !.flag = FALSE, !.servable = FALSE] EXCEPT !.step = "sweep"]
          BY <1>0, <1>5, <2>4, <4>2 DEF RecordStatus, Become
        <5>2. y = [x EXCEPT !.flag = FALSE, !.servable = FALSE, !.step = "sweep",
                            !.provider = x.provider, !.todo = x.todo]
          BY <1>0, <5>1 DEF Operation
        <5>. QED BY <5>1, <5>2
      <4>3. CASE x.kind # "verify" /\ x.todo # {}
        <5>1. PICK p \in x.todo :
                /\ running' = {y}
                /\ y = [[x EXCEPT !.flag = FALSE, !.servable = FALSE]
                          EXCEPT !.step = "status", !.provider = p, !.todo = @ \ {p}]
          BY <1>0, <1>5, <2>4, <4>3 DEF RecordStatus, Become
        <5>2. y = [x EXCEPT !.flag = FALSE, !.servable = FALSE, !.step = "status",
                            !.provider = p, !.todo = x.todo \ {p}]
          BY <1>0, <5>1 DEF Operation
        <5>. QED BY <5>1, <5>2
      <4>. QED BY <4>1, <4>2, <4>3
    <3>2. y.kind = x.kind /\ y.step = s
      BY <1>0, <3>1 DEF Operation
    <3>. QED BY <1>1, <3>1, <3>2
  <2>5. CASE Sweep(x) \/ Pick(x) \/ Assign(x)
    <3>1. PICK s, todo :
            s \in {"pick", "assign"} /\ y = [x EXCEPT !.step = s, !.todo = todo] /\ running' = {y}
      <4>1. CASE Sweep(x)
        BY <1>0, <1>5, <4>1 DEF Sweep, End, Become
      <4>2. CASE Pick(x)
        <5>1. y = [x EXCEPT !.step = "assign"] /\ running' = {y}
          BY <1>0, <1>5, <4>2 DEF Pick, End, Advance, Become
        <5>2. y = [x EXCEPT !.step = "assign", !.todo = x.todo]
          BY <1>0, <5>1 DEF Operation
        <5>. QED BY <5>1, <5>2
      <4>3. CASE Assign(x)
        BY <1>0, <1>5, <4>3 DEF Assign, End, Become
      <4>. QED BY <2>5, <4>1, <4>2, <4>3
    <3>2. y.kind = x.kind /\ y.step = s
      BY <1>0, <3>1 DEF Operation
    <3>. QED BY <1>1, <3>1, <3>2
  <2>. QED BY <2>1, <2>2, <2>3, <2>4, <2>5 DEF VerifyStep
<1>6. \A y, z \in running' : y = z
  BY <1>5
<1>. QED BY <1>0, <1>1, <1>2, <1>3, <1>4, <1>5, <1>6, QuietAlone

\* An operation begins where none is at work.
LEMMA BeginAlone ==
  ASSUME General, Sequential, OneAtATime, NEW y, Begins(y)
  PROVE  OneAtATime'
<1>0. /\ running = {} /\ running' = {y} /\ UNCHANGED world /\ y \in Operation /\ Sound(y)
      /\ FleetMatches /\ ActiveMatches /\ ZoneMatches
  BY DEF Begins, MayStart, Sequential, OneAtATime
<1>k. TellsKind(y)
  BY <1>0, KindOf
<1>1. Present' = Present /\ Identities' = Identities /\ Active' = Active
  BY <1>0 DEF Present, Identities, Active, world, fleet
<1> USE DEF Inserting, Reconciling, Removing, Verifying, Allocating
<1>2. y.step \in {"clear", "check", "ensure", "deleteVendor", "teardown", "status", "sweep", "pick"}
  BY <1>0 DEF Begins, Operation, Kinds
<1>3. Working(y)'
  <2>1. CASE y.kind = "create"
    BY <1>0, <2>1 DEF Begins, Working, world, fleet
  <2>2. CASE y.kind \in {"update", "ensure"}
    BY <1>0, <1>1, <2>2 DEF Begins, Working
  <2>3. CASE y.kind = "delete"
    BY <1>0, <1>1, <2>3 DEF Begins, Working, world
  <2>4. CASE y.kind \in {"verify", "sweep", "allocate"}
    BY <1>0, <2>4 DEF Begins, Working
  <2>. QED BY <1>0, <2>1, <2>2, <2>3, <2>4 DEF Operation, Kinds
<1>4. FleetMatches'
  <2>1. \A p \in Providers : ~Added(y, p) /\ ~Created(y, p) /\ ~Dropped(y, p)
    BY <1>0, <1>2 DEF Added, Created, Dropped, Begins, Operation, Kinds
  <2>. QED BY <1>0, <1>1, <1>2, <2>1 DEF FleetMatches, world, fleet
<1>5. ActiveMatches'
  BY <1>0, <1>1 DEF ActiveMatches, world
<1>6. ZoneMatches'
  BY <1>0, <1>1, <1>2 DEF ZoneMatches, world, dns
<1>. QED BY <1>0, <1>3, <1>4, <1>5, <1>6 DEF OneAtATime, One

\* A record vanishes, or a pairing changes.
LEMMA OutsideAlone ==
  ASSUME General, Sequential, OneAtATime, NEW r, NEW p, (r \in Serials /\ Drift(r)) \/ Pair(p)
  PROVE  OneAtATime'
<1>0. FleetMatches /\ ActiveMatches /\ ZoneMatches /\ One /\ \A x \in running : Working(x)
  BY DEF OneAtATime
<1>1. CASE r \in Serials /\ Drift(r)
  <2>0. /\ UNCHANGED <<mode, fleet, paired, vendor, sandbox, identity, rows, running>> /\ "drift" \in mode
        /\ \A s \in Serials : zone'[s] = zone[s] \/ zone'[s] = None
    BY <1>1 DEF Drift, General, TypeOK
  <2>1. Present' = Present /\ Identities' = Identities /\ Active' = Active
    BY <2>0 DEF Present, Identities, Active, fleet
  <2>2. ASSUME NEW x \in running PROVE Working(x)'
    <3>1. OwnedBy(x.provider)' = OwnedBy(x.provider) /\ Owner(x)' = Owner(x)
      BY <2>0 DEF OwnedBy, Owner
    <3>2. x.step = "deleteRows" => \A k \in OwnedBy(x.provider) : zone'[rows[k].record] = None
      <4>. SUFFICES ASSUME x.step = "deleteRows", NEW k \in OwnedBy(x.provider)
                    PROVE  zone'[rows[k].record] = None
        OBVIOUS
      <4>1. rows[k].record \in Serials
        BY DEF OwnedBy, General, TypeOK, Row
      <4>2. zone[rows[k].record] = None
        BY <1>0 DEF Working
      <4>. QED BY <2>0, <4>1, <4>2
    <3>3. Working(x)
      BY <1>0
    <3>. QED BY <2>0, <2>1, <3>1, <3>2, <3>3 DEF Working, fleet
  <2>3. FleetMatches'
    BY <1>0, <2>0, <2>1 DEF FleetMatches, fleet
  <2>4. ActiveMatches'
    BY <1>0, <2>0, <2>1 DEF ActiveMatches
  <2>5. ZoneMatches'
    BY <1>0, <2>0, <2>1 DEF ZoneMatches
  <2>. QED BY <1>0, <2>0, <2>2, <2>3, <2>4, <2>5 DEF OneAtATime, One
<1>2. CASE Pair(p)
  <2>0. /\ UNCHANGED <<mode, fleet, vendor, sandbox, identity, dns, running>> /\ running = {}
    BY <1>2 DEF Pair, Sequential
  <2>1. Present' = Present /\ Identities' = Identities /\ Active' = Active
    BY <2>0 DEF Present, Identities, Active, fleet
  <2>. QED BY <1>0, <2>0, <2>1 DEF OneAtATime, One, FleetMatches, ActiveMatches, ZoneMatches, fleet, dns
<1>. QED BY <1>1, <1>2

-----------------------------------------------------------------------------
(* The properties.                                                         *)

\* What holds when operations neither overlap nor fail.
IInv == General /\ (Sequential => OneAtATime)

\* It holds before any operation.
LEMMA IInvInit == Init => IInv
<1>. SUFFICES ASSUME Init PROVE OneAtATime
  BY GeneralInit DEF IInv
<1>1. Present = {} /\ Identities = {} /\ Active = {}
  BY DEF Init, Present, Identities, Active
<1>. QED BY <1>1 DEF Init, OneAtATime, One, FleetMatches, ActiveMatches, ZoneMatches

\* Every step keeps it: operations of every kind, drift and pairings.
LEMMA IInvStep == IInv /\ [Next]_vars => IInv'
<1>1. ASSUME IInv, Next PROVE IInv'
  <2>0. General'
    BY <1>1, GeneralStep DEF IInv
  <2>1. Sequential' => Sequential
    <3>1. mode' = mode
      BY <1>1, ZenonT(60) DEF Next, StartCreate, StartUpdate, StartEnsure, StartDelete, StartVerify,
           StartVerifySandbox, StartAllocate, CreateStep, DeleteStep, VerifyStep, Fail, Drift, Pair,
           ClearEmailDefaults, CheckDefault, InsertProvider, SetDefault, EnsureInfrastructure,
           LookUpSandbox, InsertSandbox, CreateIdentity, FindRow, PublishRecord, WriteRow,
           ListIdentities, InsertIdentity, DeleteAtVendor, ListRows, DeleteRecords, DeleteRows,
           DeleteIdentity, Promote, TeardownInfrastructure, DropProvider, ReadStatus, CompareDns,
           Rollup, RecordStatus, Sweep, Pick, Assign, world
    <3>. QED BY <3>1 DEF Sequential
  <2>2. ASSUME Sequential, OneAtATime PROVE OneAtATime'
    <3>0. General
      BY <1>1 DEF IInv
    <3>1. CASE Starts
      <4>1. PICK y : Begins(y)
        BY <3>0, <3>1, StartsBegin DEF General
      <4>. QED BY <2>2, <3>0, <4>1, BeginAlone
    <3>2. ASSUME NEW x \in running, CreateStep(x) PROVE OneAtATime'
      BY <2>0, <2>2, <3>0, <3>2, CreateAlone
    <3>3. ASSUME NEW x \in running, DeleteStep(x) PROVE OneAtATime'
      BY <2>0, <2>2, <3>0, <3>3, DeleteAlone
    <3>4. ASSUME NEW x \in running, VerifyStep(x) PROVE OneAtATime'
      BY <2>0, <2>2, <3>0, <3>4, VerifyAlone
    <3>5. ASSUME NEW x \in running, Fail(x) PROVE FALSE
      BY <2>2, <3>5 DEF Fail, Sequential
    <3>6. ASSUME NEW r \in Serials, Drift(r) PROVE OneAtATime'
      BY <2>2, <3>0, <3>6, OutsideAlone
    <3>7. ASSUME NEW p \in Providers, Pair(p) PROVE OneAtATime'
      BY <2>2, <3>0, <3>7, OutsideAlone
    <3>. QED BY <1>1, <3>1, <3>2, <3>3, <3>4, <3>5, <3>6, <3>7, Actions
  <2>. QED BY <1>1, <2>0, <2>1, <2>2 DEF IInv
<1>2. ASSUME IInv, UNCHANGED vars PROVE IInv'
  <2>0. General' /\ UNCHANGED <<world, running>>
    BY <1>2, GeneralStep DEF IInv, vars
  <2>1. Present' = Present /\ Identities' = Identities /\ Active' = Active
    BY <2>0 DEF Present, Identities, Active, world, fleet
  <2>2. OneAtATime => OneAtATime'
    <3>. USE DEF world, fleet, dns
    <3>1. ASSUME NEW x \in running, Working(x) PROVE Working(x)'
      BY <2>0, <2>1, <3>1 DEF Working, OwnedBy, Owner
    <3>2. FleetMatches => FleetMatches'
      BY <2>0, <2>1 DEF FleetMatches
    <3>3. ActiveMatches => ActiveMatches'
      BY <2>0, <2>1 DEF ActiveMatches
    <3>4. ZoneMatches => ZoneMatches'
      BY <2>0, <2>1 DEF ZoneMatches
    <3>. QED BY <2>0, <3>1, <3>2, <3>3, <3>4 DEF OneAtATime, One
  <2>3. Sequential' = Sequential
    BY <2>0 DEF Sequential, world
  <2>. QED BY <1>2, <2>0, <2>2, <2>3 DEF IInv
<1>. QED BY <1>1, <1>2

\* Between operations that neither overlap nor fail, the sandbox has exactly
\* one active identity if any, and the zone mirrors the rows, which belong to
\* the root or to an identity that is there.
THEOREM SandboxAtRest == Spec => []Inv
<1>1. IInv => Inv
  <2>. SUFFICES ASSUME IInv PROVE Inv
    OBVIOUS
  <2>1. TypeOK
    BY DEF IInv, General
  <2>2. OneActiveIdentity
    <3>. SUFFICES ASSUME Idle, Sequential
                  PROVE  /\ Cardinality(Active) = IF Identities = {} THEN 0 ELSE 1
                         /\ (sandbox # None /\ sandbox.active) => Identities # {}
      BY DEF OneActiveIdentity
    <3>1. /\ \A p, q \in Active : p = q
          /\ Identities # {} => Active # {}
          /\ (sandbox # None /\ sandbox.active) => Identities # {}
      BY DEF IInv, OneAtATime, ActiveMatches, Idle
    <3>2. CASE Identities = {}
      <4>1. Active = {}
        BY <3>2 DEF Active
      <4>. QED BY <3>1, <3>2, <4>1, FS_EmptySet
    <3>3. CASE Identities # {}
      <4>1. PICK p : Active = {p}
        BY <3>1, <3>3
      <4>2. Cardinality(Active) = 1
        BY <4>1, FS_Singleton
      <4>. QED BY <3>1, <3>3, <4>2
    <3>. QED BY <3>2, <3>3
  <2>3. ZoneMirrorsRows
    BY DEF IInv, OneAtATime, ZoneMatches, ZoneMirrorsRows, Idle
  <2>. QED BY <2>1, <2>2, <2>3 DEF Inv
<1>. QED BY IInvInit, IInvStep, <1>1, PTL DEF Spec

\* A Provider alone in its account has its destination, except before its
\* creation ensures it and after its deletion took it down.
Unsupplied(x, p) ==
  /\ x.provider = p
  /\ \/ x.kind = "create" /\ x.step = "ensure"
     \/ x.kind = "delete" /\ x.step = "drop"
Supplied ==
  \A p \in Present : Alone(p) =>
    Account[p] \in destination \/ \E x \in running : Unsupplied(x, p)

\* A step that changes neither Providers nor destinations, by an operation that
\* is at none of those two points.
LEMMA SupplyKept ==
  ASSUME Supplied, UNCHANGED <<provider, destination>>,
         \A p \in Present : \A x \in running : Unsupplied(x, p) => x \in running'
  PROVE  Supplied'
BY DEF Supplied, Present, Unsupplied, Alone

\* The steps of the operations keep it.
LEMMA SupplyStep ==
  ASSUME General, General', Sequential, OneAtATime, Supplied,
         NEW x \in running, CreateStep(x) \/ DeleteStep(x) \/ VerifyStep(x)
  PROVE  Supplied'
<1>0. x \in Operation /\ Sound(x) /\ Working(x)
  BY DEF General, TypeOK, Sane, OneAtATime
<1>1. CASE x.step \notin {"insert", "ensure", "teardown", "drop"}
  <2>1. UNCHANGED <<provider, destination>>
    <3>1. CASE CreateStep(x)
      BY <1>1, <3>1 DEF CreateStep, ClearEmailDefaults, CheckDefault,
           InsertProvider, SetDefault, EnsureInfrastructure, LookUpSandbox, InsertSandbox,
           CreateIdentity, FindRow, PublishRecord, WriteRow, ListIdentities, InsertIdentity, world, fleet
    <3>2. CASE DeleteStep(x)
      BY <1>1, <3>2 DEF DeleteStep, DeleteAtVendor, ListRows, DeleteRecords,
           DeleteRows, DeleteIdentity, Promote, TeardownInfrastructure, DropProvider, world, fleet
    <3>3. CASE VerifyStep(x)
      BY <1>1, <3>3 DEF VerifyStep, ReadStatus, CompareDns, Rollup, RecordStatus,
           Sweep, Pick, Assign, world, fleet
    <3>. QED BY <3>1, <3>2, <3>3
  <2>2. \A y \in running \ {x} : y \in running'
    <3>1. CASE CreateStep(x)
      BY <3>1, Zenon DEF CreateStep, ClearEmailDefaults, CheckDefault,
           InsertProvider, SetDefault, EnsureInfrastructure, LookUpSandbox, InsertSandbox,
           CreateIdentity, FindRow, PublishRecord, WriteRow, ListIdentities, InsertIdentity, Become, Advance, End
    <3>2. CASE DeleteStep(x)
      BY <3>2, Zenon DEF DeleteStep, DeleteAtVendor, ListRows, DeleteRecords,
           DeleteRows, DeleteIdentity, Promote, TeardownInfrastructure, DropProvider, Become, Advance, End
    <3>3. CASE VerifyStep(x)
      BY <3>3, Zenon DEF VerifyStep, ReadStatus, CompareDns, Rollup, RecordStatus,
           Sweep, Pick, Assign, Become, Advance, End
    <3>. QED BY <3>1, <3>2, <3>3
  <2>3. \A p \in Present : ~Unsupplied(x, p)
    BY <1>1 DEF Unsupplied
  <2>. QED BY <2>1, <2>2, <2>3, SupplyKept
<1>2. CASE x.step = "insert"
  <2>1. InsertProvider(x) /\ x.kind = "create"
    BY <1>0, <1>2 DEF CreateStep, DeleteStep, VerifyStep, ClearEmailDefaults, CheckDefault,
         InsertProvider, SetDefault, EnsureInfrastructure, LookUpSandbox, InsertSandbox,
         CreateIdentity, FindRow, PublishRecord, WriteRow, ListIdentities, InsertIdentity,
         DeleteAtVendor, ListRows, DeleteRecords, DeleteRows, DeleteIdentity, Promote,
         TeardownInfrastructure, DropProvider, ReadStatus, CompareDns, Rollup, RecordStatus,
         Sweep, Pick, Assign, Sound, StepsOf, Inserting, Reconciling, Removing, Verifying,
         Allocating, Operation, Kinds
  <2>2. CASE x.flag /\ default # None
    <3>1. UNCHANGED <<provider, destination>> /\ running' = running \ {x}
      BY <2>1, <2>2 DEF InsertProvider, End
    <3>2. \A p \in Present : ~Unsupplied(x, p)
      BY <2>1 DEF Unsupplied, InsertProvider
    <3>. QED BY <3>1, <3>2, SupplyKept
  <2>3. CASE ~(x.flag /\ default # None)
    <3>1. PICK y : y = [x EXCEPT !.step = "ensure"]
      OBVIOUS
    <3>2. /\ running' = (running \ {x}) \cup {y}
          /\ provider' = [provider EXCEPT ![x.provider] = "present"] /\ destination' = destination
      BY <2>1, <2>3, <3>1 DEF InsertProvider, Advance, Become
    <3>3. y.kind = "create" /\ y.step = "ensure" /\ y.provider = x.provider
      BY <1>0, <2>1, <3>1 DEF Operation
    <3>4. ASSUME NEW p \in Present', Alone(p)
          PROVE  Account[p] \in destination' \/ \E z \in running' : Unsupplied(z, p)
      <4>1. CASE p = x.provider
        BY <3>2, <3>3, <4>1 DEF Unsupplied
      <4>2. CASE p # x.provider
        <5>1. p \in Present
          BY <3>2, <3>4, <4>2 DEF Present, General, TypeOK
        <5>2. ~Unsupplied(x, p)
          BY <4>2 DEF Unsupplied
        <5>. QED BY <3>2, <3>4, <5>1, <5>2 DEF Supplied
      <4>. QED BY <4>1, <4>2
    <3>. QED BY <3>4 DEF Supplied, Alone, Unsupplied
  <2>. QED BY <2>2, <2>3
<1>3. CASE x.step = "ensure"
  <2>1. EnsureInfrastructure(x)
    BY <1>0, <1>3 DEF CreateStep, DeleteStep, VerifyStep, ClearEmailDefaults, CheckDefault,
         InsertProvider, SetDefault, EnsureInfrastructure, LookUpSandbox, InsertSandbox,
         CreateIdentity, FindRow, PublishRecord, WriteRow, ListIdentities, InsertIdentity,
         DeleteAtVendor, ListRows, DeleteRecords, DeleteRows, DeleteIdentity, Promote,
         TeardownInfrastructure, DropProvider, ReadStatus, CompareDns, Rollup, RecordStatus,
         Sweep, Pick, Assign
  <2>2. /\ provider' = provider /\ destination' = destination \cup {Account[x.provider]}
        /\ \A y \in running \ {x} : y \in running'
    BY <2>1 DEF EnsureInfrastructure, Advance, Become, End
  <2>3. ASSUME NEW p \in Present, Alone(p)
        PROVE  Account[p] \in destination' \/ \E z \in running' : Unsupplied(z, p)
    <3>1. CASE Unsupplied(x, p)
      BY <2>2, <3>1 DEF Unsupplied
    <3>2. CASE ~Unsupplied(x, p)
      BY <2>2, <2>3, <3>2 DEF Supplied
    <3>. QED BY <3>1, <3>2
  <2>. QED BY <2>2, <2>3 DEF Supplied, Present, Alone, Unsupplied
<1>4. CASE x.step = "teardown"
  <2>1. TeardownInfrastructure(x) /\ x.kind = "delete" /\ x.provider \in Providers
    BY <1>0, <1>4 DEF CreateStep, DeleteStep, VerifyStep, ClearEmailDefaults, CheckDefault,
         InsertProvider, SetDefault, EnsureInfrastructure, LookUpSandbox, InsertSandbox,
         CreateIdentity, FindRow, PublishRecord, WriteRow, ListIdentities, InsertIdentity,
         DeleteAtVendor, ListRows, DeleteRecords, DeleteRows, DeleteIdentity, Promote,
         TeardownInfrastructure, DropProvider, ReadStatus, CompareDns, Rollup, RecordStatus,
         Sweep, Pick, Assign, Sound, StepsOf, Inserting, Reconciling, Removing, Verifying,
         Allocating, Operation, Kinds
  <2>2. PICK y : y = [x EXCEPT !.step = "drop"]
    OBVIOUS
  <2>3. /\ running' = (running \ {x}) \cup {y}
        /\ provider' = provider /\ destination' = destination \ {Account[x.provider]}
    BY <2>1, <2>2 DEF TeardownInfrastructure, Advance, Become
  <2>4. y.kind = "delete" /\ y.step = "drop" /\ y.provider = x.provider
    BY <1>0, <2>1, <2>2 DEF Operation
  <2>5. ASSUME NEW p \in Present, Alone(p)
        PROVE  Account[p] \in destination' \/ \E z \in running' : Unsupplied(z, p)
    <3>1. CASE p = x.provider
      BY <2>3, <2>4, <3>1 DEF Unsupplied
    <3>2. CASE p # x.provider
      <4>1. Account[p] # Account[x.provider]
        BY <2>1, <2>5, <3>2 DEF Alone
      <4>2. ~Unsupplied(x, p)
        BY <3>2 DEF Unsupplied
      <4>. QED BY <2>3, <2>5, <4>1, <4>2 DEF Supplied
    <3>. QED BY <3>1, <3>2
  <2>. QED BY <2>3, <2>5 DEF Supplied, Present, Alone, Unsupplied
<1>5. CASE x.step = "drop"
  <2>1. DropProvider(x) /\ x.kind = "delete"
    BY <1>0, <1>5 DEF CreateStep, DeleteStep, VerifyStep, ClearEmailDefaults, CheckDefault,
         InsertProvider, SetDefault, EnsureInfrastructure, LookUpSandbox, InsertSandbox,
         CreateIdentity, FindRow, PublishRecord, WriteRow, ListIdentities, InsertIdentity,
         DeleteAtVendor, ListRows, DeleteRecords, DeleteRows, DeleteIdentity, Promote,
         TeardownInfrastructure, DropProvider, ReadStatus, CompareDns, Rollup, RecordStatus,
         Sweep, Pick, Assign, Sound, StepsOf, Inserting, Reconciling, Removing, Verifying,
         Allocating, Operation, Kinds
  <2>2. x.provider \in Present \ (paired \cup Identities)
    BY <1>0, <1>5, <2>1 DEF Working, Removing
  <2>3. /\ running' = running \ {x} /\ destination' = destination
        /\ provider' = [provider EXCEPT ![x.provider] = "deleted"]
    BY <2>1, <2>2 DEF DropProvider, End
  <2>4. ASSUME NEW p \in Present', Alone(p)
        PROVE  Account[p] \in destination' \/ \E z \in running' : Unsupplied(z, p)
    <3>1. p # x.provider /\ p \in Present
      BY <2>2, <2>3 DEF Present, General, TypeOK
    <3>2. ~Unsupplied(x, p)
      BY <3>1 DEF Unsupplied
    <3>. QED BY <2>3, <2>4, <3>1, <3>2 DEF Supplied
  <2>. QED BY <2>4 DEF Supplied, Alone, Unsupplied
<1>. QED BY <1>1, <1>2, <1>3, <1>4, <1>5

\* Together with IInv it is inductive.
LEMMA SuppliedStep == IInv /\ (Sequential => Supplied) /\ [Next]_vars => (Sequential => Supplied)'
<1>. SUFFICES ASSUME IInv, Sequential => Supplied, [Next]_vars, Sequential' PROVE Supplied'
  OBVIOUS
<1>0. IInv'
  BY IInvStep
<1>1. CASE UNCHANGED vars
  BY <1>1 DEF vars, world, fleet, Sequential, Supplied, Present, Unsupplied, Alone
<1>2. CASE Next
  <2>1. Sequential
    <3>1. mode' = mode
      BY <1>2, ZenonT(60) DEF Next, StartCreate, StartUpdate, StartEnsure, StartDelete, StartVerify,
           StartVerifySandbox, StartAllocate, CreateStep, DeleteStep, VerifyStep, Fail, Drift, Pair,
           ClearEmailDefaults, CheckDefault, InsertProvider, SetDefault, EnsureInfrastructure,
           LookUpSandbox, InsertSandbox, CreateIdentity, FindRow, PublishRecord, WriteRow,
           ListIdentities, InsertIdentity, DeleteAtVendor, ListRows, DeleteRecords, DeleteRows,
           DeleteIdentity, Promote, TeardownInfrastructure, DropProvider, ReadStatus, CompareDns,
           Rollup, RecordStatus, Sweep, Pick, Assign, world
    <3>. QED BY <3>1 DEF Sequential
  <2>2. General /\ General' /\ OneAtATime /\ Supplied
    BY <1>0, <2>1 DEF IInv
  <2>3. CASE Starts
    <3>1. PICK y : Begins(y)
      BY <2>2, <2>3, StartsBegin DEF General
    <3>2. UNCHANGED <<provider, destination>> /\ running' = running \cup {y}
      BY <3>1 DEF Begins, world, fleet
    <3>. QED BY <2>2, <3>2, SupplyKept
  <2>4. ASSUME NEW x \in running, CreateStep(x) \/ DeleteStep(x) \/ VerifyStep(x) PROVE Supplied'
    BY <2>1, <2>2, <2>4, SupplyStep
  <2>5. ASSUME NEW x \in running, Fail(x) PROVE FALSE
    BY <2>1, <2>5 DEF Fail, Sequential
  <2>6. CASE (\E r \in Serials : Drift(r)) \/ (\E p \in Providers : Pair(p))
    <3>1. UNCHANGED <<provider, destination, running>>
      BY <2>6 DEF Drift, Pair, fleet
    <3>. QED BY <2>2, <3>1, SupplyKept
  <2>. QED BY <1>2, <2>3, <2>4, <2>5, <2>6, Actions
<1>. QED BY <1>1, <1>2

\* Between operations that neither overlap nor fail, the Providers that are
\* there are those with an identity; one alone in its account has its identity
\* at the vendor and its event destination exactly while it is there; and only
\* a deletion leaves the fleet without a default.
THEOREM FleetAtRest == Spec => []ProvidersProvisioned
<1>1. IInv /\ (Sequential => Supplied) => ProvidersProvisioned
  <2>. SUFFICES ASSUME IInv, Supplied, Idle, Sequential
                PROVE  /\ Identities = Present
                       /\ \A p \in Providers : Alone(p) =>
                            /\ Account[p] \in vendor <=> p \in Identities
                            /\ Account[p] \in destination <=> p \in Present
                       /\ default = None => (Present = {} \/ \E p \in Providers : provider[p] = "deleted")
    BY DEF ProvidersProvisioned
  <2>1. FleetMatches /\ running = {}
    BY DEF IInv, OneAtATime, Idle
  <2>2. Identities \subseteq Providers /\ Present \subseteq Providers
    BY DEF Identities, Present
  <2>3. \A p \in Providers : Alone(p) => (Account[p] \in destination <=> p \in Present)
    BY <2>1 DEF FleetMatches, Supplied, Present
  <2>. QED BY <2>1, <2>2, <2>3 DEF FleetMatches
<1>2. Init => Supplied
  BY DEF Init, Supplied, Present
<1>. QED BY IInvInit, IInvStep, SuppliedStep, <1>1, <1>2, PTL DEF Spec
=============================================================================
