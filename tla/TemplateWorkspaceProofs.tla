----------------------- MODULE TemplateWorkspaceProofs -----------------------
(***************************************************************************)
(* Proofs about TemplateWorkspace for any operations, entries and changes, *)
(* with failures and deaths at any step.                                   *)
(***************************************************************************)
EXTENDS TemplateWorkspace, TLAPS

-----------------------------------------------------------------------------
(* The inductive invariant.                                                *)

\* The steps an operation does with the lock in hand.
Holding == {"scaffold", "read", "check", "write", "seedMain", "checkout", "install",
            "sync", "bundle", "seal"}

\* Where no operation outlives its lease: it holds the lock while it works,
\* compares and writes the tip it has read, has its commit in dev once it
\* syncs, and bundles and seals what it has checked out.
Undisturbed(o, x) ==
  /\ x.step \in Holding => lock = o
  /\ x.step \in {"check", "write"} => x.base = dev
  /\ x.kind = "commitFiles" /\ x.step \in {"sync", "ok"} => o \in LogOf(dev)
  /\ x.kind = "depsSync" /\ x.step = "ok" => o \in LogOf(dev)
  /\ Welcome \in DOMAIN x.changes /\ x.seeding /\ x.step \in {"read", "check", "write"}
       => dev = 0
  /\ x.step = "seedMain" => x.seen = 1
  /\ x.step = "bundle" => EntriesOf(x.seen) \subseteq Active
  /\ x.step = "seal" => \A e \in EntriesOf(x.seen) \ x.left : <<e, x.seen>> \in sealed

\* What is known of an operation at each of its steps.
Sound(o, x) ==
  /\ x.seen \in 0..Len(commits) /\ x.base \in 0..Len(commits)
  /\ x.kind = "publish" /\ x.step \in {"install", "sync", "bundle", "seal"} => x.seen # 0
  /\ \A e \in x.left : entry[e] # None
  /\ x.seeding \/ x.step \in {"scaffold", "seedMain"} => x.kind \notin {"depsSync", "preview"}
  /\ x.step = "sync" => x.kind \in {"commitFiles", "listFiles", "publish"}
  /\ x.step \in {"checkout", "install"} => x.kind \in {"publish", "depsSync", "preview"}
  /\ x.step \in {"bundle", "seal"} => x.kind = "publish"
  /\ x.step \in {"read", "check", "write"} /\ ~x.seeding => x.kind \in {"commitFiles", "depsSync"}
  /\ "lapses" \notin mode => Undisturbed(o, x)

IInv ==
  /\ TypeOK
  /\ dev = 0 => commits = <<>>
  /\ \A o \in Ops : Sound(o, op[o])
  /\ PublishedWasSealed

-----------------------------------------------------------------------------
(* Types of what an operation reads and becomes.                           *)

\* A file map of some paths.
Changed == UNION {[S -> Version] : S \in SUBSET Paths}

LEMMA ChangesTyped ==
  ASSUME NEW S \in SUBSET Paths, NEW f \in [S -> Version] PROVE f \in Changed
  BY DEF Changed

LEMMA NothingTyped == Nothing \in Changed
<1>1. Nothing \in [{} -> Version]
  BY DEF Nothing
<1>. QED
  BY <1>1, ChangesTyped

LEMMA OnlyTyped ==
  ASSUME NEW p \in Paths, NEW v \in Version PROVE Only(p, v) \in Changed
<1>1. Only(p, v) \in [{p} -> Version]
  BY DEF Only
<1>. QED
  BY <1>1, ChangesTyped

\* The tree of a tip is a tree, and its log a set of operations.
LEMMA FilesTyped ==
  ASSUME TypeOK, NEW c \in 0..Len(commits)
  PROVE  FilesOf(c) \in Tree /\ LogOf(c) \in SUBSET Ops /\ EntriesOf(c) \in SUBSET Entries
<1>1. CASE c = 0
  BY <1>1 DEF FilesOf, LogOf, EmptyTree, Tree, Version, EntriesOf
<1>2. CASE c # 0
  <2>1. commits[c] \in Commit
    BY <1>2 DEF TypeOK
  <2>. QED BY <1>2, <2>1 DEF FilesOf, LogOf, Commit, EntriesOf
<1>. QED
  BY <1>1, <1>2

\* What an operation is, part by part.
LEMMA OpParts ==
  ASSUME TypeOK, NEW o \in Ops
  PROVE  /\ op[o] \in Operation
         /\ op[o].kind \in Kinds /\ op[o].change \in Changes /\ op[o].step \in Steps
         /\ op[o].seeding \in BOOLEAN /\ op[o].changes \in Changed
         /\ op[o].base \in Nat /\ op[o].seen \in Nat /\ op[o].left \in SUBSET Entries
         /\ op[o].change[1] \in Paths
<1>1. op[o] \in Operation
  BY DEF TypeOK
<1>2. op[o].change \in Changes
  BY <1>1 DEF Operation
<1>3. op[o].change[1] \in Paths
  BY <1>2, WorkspaceAssumption
<1>. QED
  BY <1>1, <1>2, <1>3 DEF Operation, Changed

\* What an operation becomes in a step that only moves it on.
LEMMA StepUpdate ==
  ASSUME NEW x \in Operation, NEW s \in Steps, NEW y,
         y = [x EXCEPT !.step = s]
  PROVE  /\ y \in Operation /\ y.step = s
         /\ y.kind = x.kind /\ y.change = x.change /\ y.seeding = x.seeding
         /\ y.changes = x.changes /\ y.base = x.base /\ y.seen = x.seen /\ y.left = x.left
  BY DEF Operation, Changed

\* The first step of the work proper.
FirstStep(kind) == CASE kind = "commitFiles" -> "read"
                     [] kind = "publish" -> "checkout"
                     [] OTHER -> "sync"

\* What an operation is when its work proper begins.
LEMMA WorkMove ==
  ASSUME NEW o \in Ops, NEW x \in Operation, x.change[1] \in Paths, NEW y, y = Work(o, x)
  PROVE  /\ y \in Operation /\ y.kind = x.kind /\ y.seeding = FALSE
         /\ y.step = FirstStep(x.kind)
         /\ y.base = x.base /\ y.seen = x.seen /\ y.left = x.left
<1>. DEFINE c == IF x.kind = "commitFiles"
                 THEN Only(x.change[1], IF x.change[2] = "write" THEN o ELSE None)
                 ELSE Nothing
            s == FirstStep(x.kind)
<1>1. c \in Changed
  BY OnlyTyped, NothingTyped DEF Version
<1>2. s \in Steps
  BY DEF Steps, FirstStep
<1>3. y = [x EXCEPT !.step = s, !.seeding = FALSE, !.changes = c]
  BY Zenon DEF Work, FirstStep
<1>. HIDE DEF c
<1>4. PICK z : z = [x EXCEPT !.step = s, !.seeding = FALSE]
  OBVIOUS
<1>5. /\ z \in Operation /\ z.kind = x.kind /\ z.seeding = FALSE /\ z.step = s
      /\ z.base = x.base /\ z.seen = x.seen /\ z.left = x.left
  BY <1>2, <1>4 DEF Operation
<1>6. y = [z EXCEPT !.changes = c]
  BY <1>3, <1>4 DEF Operation
<1>7. /\ y \in Operation /\ y.kind = z.kind /\ y.seeding = z.seeding /\ y.step = z.step
      /\ y.base = z.base /\ y.seen = z.seen /\ y.left = z.left
  BY <1>1, <1>5, <1>6 DEF Operation, Changed
<1>. QED
  BY <1>5, <1>7

\* And what it is when it has ended.
LEMMA RestMove ==
  ASSUME TypeOK, NEW o \in Ops, NEW r \in Steps, Rest(o, r)
  PROVE  \E y \in Operation :
           /\ op' = [op EXCEPT ![o] = y]
           /\ y.kind = op[o].kind /\ y.step = r /\ y.seeding = FALSE
           /\ y.base = 0 /\ y.seen = 0 /\ y.left = {}
<1>. DEFINE x == op[o]
<1>0. x \in Operation
  BY OpParts
<1>. PICK y : y = [x EXCEPT !.step = r, !.seeding = FALSE, !.changes = Nothing,
                            !.base = 0, !.seen = 0, !.left = {}]
  OBVIOUS
<1>1. op' = [op EXCEPT ![o] = y]
  BY DEF Rest, Set
<1>. HIDE DEF x
<1>2. PICK z : z = [x EXCEPT !.step = r, !.seeding = FALSE]
  OBVIOUS
<1>3. z \in Operation /\ z.kind = x.kind /\ z.step = r /\ z.seeding = FALSE
  BY <1>0, <1>2 DEF Operation
<1>4. PICK u : u = [z EXCEPT !.changes = Nothing, !.base = 0]
  OBVIOUS
<1>5. /\ u \in Operation /\ u.kind = x.kind /\ u.step = r /\ u.seeding = FALSE /\ u.base = 0
  BY <1>3, <1>4, NothingTyped DEF Operation, Changed
<1>6. y = [u EXCEPT !.seen = 0, !.left = {}]
  BY <1>0, <1>2, <1>4 DEF Operation
<1>7. /\ y \in Operation /\ y.kind = x.kind /\ y.step = r /\ y.seeding = FALSE
      /\ y.base = 0 /\ y.seen = 0 /\ y.left = {}
  BY <1>5, <1>6 DEF Operation
<1>. QED
  BY <1>1, <1>7 DEF x

-----------------------------------------------------------------------------
(* Frames: what a step of one operation leaves of the others.               *)

\* What is read of a tip and of the rows depends on the refs and the rows only.
LEMMA SameTips ==
  ASSUME UNCHANGED commits
  PROVE  \A c : LogOf(c)' = LogOf(c) /\ EntriesOf(c)' = EntriesOf(c)
  BY DEF LogOf, EntriesOf, FilesOf

\* An operation that does not hold the lock, or sees nothing change, stays sound.
LEMMA OthersSound ==
  ASSUME TypeOK, NEW q \in Ops, Sound(q, op[q]), op'[q] = op[q],
         mode' = mode, commits' \in Seq(Commit), Len(commits) <= Len(commits'),
         \A e \in Entries : entry[e] # None => entry'[e] # None,
         "lapses" \notin mode => LogOf(dev) \subseteq LogOf(dev)',
         ("lapses" \notin mode /\ op[q].step \in Holding) =>
            /\ lock' = lock
            /\ UNCHANGED <<commits, dev, entry, sealed>>
  PROVE  Sound(q, op[q])'
<1>. DEFINE x == op[q]
<1>0. /\ Len(commits) \in Nat /\ Len(commits') \in Nat /\ x.left \in SUBSET Entries
      /\ x.seen \in Nat /\ x.base \in Nat
  BY OpParts DEF TypeOK
<1>1. Sound(q, x) /\ op'[q] = x
  OBVIOUS
<1>2. ASSUME "lapses" \notin mode PROVE Undisturbed(q, op[q])'
  <2>1. Undisturbed(q, x)
    BY <1>2 DEF Sound
  <2>2. CASE x.step \in Holding
    <3>1. \A c : LogOf(c)' = LogOf(c) /\ EntriesOf(c)' = EntriesOf(c)
      BY <1>2, <2>2, SameTips
    <3>2. Active' = Active
      BY <1>2, <2>2 DEF Active
    <3>. QED BY <1>1, <1>2, <2>1, <2>2, <3>1, <3>2 DEF Undisturbed
  <2>3. CASE x.step \notin Holding
    BY <1>1, <1>2, <2>1, <2>3 DEF Undisturbed, Holding
  <2>. QED BY <2>2, <2>3
<1>. QED
  BY <1>0, <1>1, <1>2 DEF Sound

\* An operation that has ended is sound, if what it acknowledges is in dev.
LEMMA EndSound ==
  ASSUME NEW o \in Ops, NEW y \in Operation, Len(commits') \in Nat,
         y.step \in Ended, y.seeding = FALSE, y.base = 0, y.seen = 0, y.left = {},
         ("lapses" \notin mode' /\ y.step = "ok" /\ y.kind \in {"commitFiles", "depsSync"})
            => o \in LogOf(dev)'
  PROVE  Sound(o, y)'
<1>1. "lapses" \notin mode' => Undisturbed(o, y)'
  BY DEF Undisturbed, Holding, Ended
<1>. QED
  BY <1>1 DEF Sound, Ended

\* A step that moves one operation, and no ref, row or artifact.
LEMMA QuietStep ==
  ASSUME IInv, NEW o \in Ops, NEW y \in Operation, op' = [op EXCEPT ![o] = y],
         UNCHANGED <<mode, refs, entry, sealed>>, lock' \in Ops \cup {None},
         "lapses" \notin mode => \A q \in Ops \ {o} : lock = q => lock' = q,
         Sound(o, y)'
  PROVE  IInv'
<1>0. UNCHANGED <<commits, dev, main, entry, sealed, mode>>
  BY DEF refs
<1>1. TypeOK'
  BY <1>0 DEF IInv, TypeOK
<1>2. \A c : LogOf(c)' = LogOf(c) /\ EntriesOf(c)' = EntriesOf(c)
  BY <1>0, SameTips
<1>3. ASSUME NEW q \in Ops PROVE Sound(q, op[q])'
  <2>1. CASE q = o
    <3>1. op'[q] = y
      BY <2>1 DEF IInv, TypeOK
    <3>2. Sound(q, op[q])' <=> Sound(o, y)'
      BY <2>1, <3>1 DEF Sound, Undisturbed
    <3>. QED BY <3>2
  <2>2. CASE q # o
    <3>1. op'[q] = op[q] /\ Sound(q, op[q]) /\ TypeOK
      BY <2>2 DEF IInv, TypeOK
    <3>2. ("lapses" \notin mode /\ op[q].step \in Holding) => lock' = lock
      BY <2>2, <3>1 DEF Sound, Undisturbed
    <3>3. commits' \in Seq(Commit) /\ Len(commits) <= Len(commits')
      BY <1>0, <3>1 DEF TypeOK
    <3>4. LogOf(dev)' = LogOf(dev)
      BY <1>0, <1>2 DEF LogOf
    <3>. QED BY <1>0, <3>1, <3>2, <3>3, <3>4, OthersSound
  <2>. QED BY <2>1, <2>2
<1>4. PublishedWasSealed'
  BY <1>0, <1>2 DEF IInv, PublishedWasSealed
<1>. QED
  BY <1>0, <1>1, <1>3, <1>4 DEF IInv

\* An operation that ends without touching refs, rows or artifacts.
LEMMA QuietEnd ==
  ASSUME IInv, NEW o \in Ops, NEW r \in Ended, Rest(o, r),
         UNCHANGED <<mode, refs, entry, sealed>>, lock' \in Ops \cup {None},
         "lapses" \notin mode => \A q \in Ops \ {o} : lock = q => lock' = q,
         ("lapses" \notin mode /\ r = "ok" /\ op[o].kind \in {"commitFiles", "depsSync"})
            => o \in LogOf(dev)
  PROVE  IInv'
<1>1. TypeOK /\ r \in Steps
  BY DEF IInv, Steps
<1>2. PICK y \in Operation :
        /\ op' = [op EXCEPT ![o] = y]
        /\ y.kind = op[o].kind /\ y.step = r /\ y.seeding = FALSE
        /\ y.base = 0 /\ y.seen = 0 /\ y.left = {}
  BY <1>1, RestMove
<1>3. UNCHANGED <<commits, dev, mode>>
  BY DEF refs
<1>4. LogOf(dev)' = LogOf(dev) /\ Len(commits') \in Nat
  BY <1>1, <1>3 DEF LogOf, TypeOK
<1>5. Sound(o, y)'
  BY <1>2, <1>3, <1>4, EndSound
<1>. QED
  BY <1>2, <1>5, QuietStep

-----------------------------------------------------------------------------
(* The steps that move no ref, row or artifact.                             *)

LEMMA StartStep ==
  ASSUME IInv, NEW o \in Ops, Start(o) PROVE IInv'
<1>. DEFINE x == op[o]
<1>0. TypeOK /\ x \in Operation /\ Sound(o, x)
  BY OpParts DEF IInv
<1>1. PICK s \in {"ok", "acquire"} :
        op' = [op EXCEPT ![o] = [x EXCEPT !.step = s]] /\ (s = "ok" => x.kind = "listFiles")
  BY DEF Start, Go, Set
<1>2. PICK y : y = [x EXCEPT !.step = s]
  OBVIOUS
<1>3. /\ y \in Operation /\ y.step = s /\ y.kind = x.kind /\ y.seeding = x.seeding
      /\ y.base = x.base /\ y.seen = x.seen /\ y.left = x.left
  BY <1>0, <1>2, StepUpdate DEF Steps, Ended
<1>4. UNCHANGED <<mode, refs, entry, sealed, lock>>
  BY DEF Start
<1>5. "lapses" \notin mode' => Undisturbed(o, y)'
  BY <1>1, <1>3 DEF Undisturbed, Holding
<1>6. x.step = "idle"
  BY DEF Start, At
<1>7. Sound(o, y)'
  BY <1>0, <1>1, <1>3, <1>4, <1>5, <1>6 DEF Sound, refs
<1>. QED
  BY <1>0, <1>1, <1>2, <1>3, <1>4, <1>7, QuietStep DEF TypeOK

LEMMA AcquireStep ==
  ASSUME IInv, NEW o \in Ops, Acquire(o) PROVE IInv'
<1>. DEFINE x == op[o]
<1>0. TypeOK /\ x \in Operation /\ Sound(o, x) /\ x.kind \in Kinds
  BY OpParts DEF IInv
<1>1. PICK s \in {"checkout", "scaffold", "busy"} :
        /\ op' = [op EXCEPT ![o] = [x EXCEPT !.step = s]]
        /\ s = "busy" => lock' = lock
        /\ s # "busy" => lock = None /\ lock' = o
        /\ s = "checkout" => x.kind \in {"depsSync", "preview"}
        /\ s = "scaffold" => x.kind \notin {"depsSync", "preview"}
  BY DEF Acquire, Go, Set
<1>2. PICK y : y = [x EXCEPT !.step = s]
  OBVIOUS
<1>3. /\ y \in Operation /\ y.step = s /\ y.kind = x.kind /\ y.seeding = x.seeding
      /\ y.base = x.base /\ y.seen = x.seen /\ y.left = x.left
  BY <1>0, <1>2, StepUpdate DEF Steps, Ended
<1>4. UNCHANGED <<mode, refs, entry, sealed>>
  BY DEF Acquire
<1>5. "lapses" \notin mode' => Undisturbed(o, y)'
  BY <1>1, <1>3 DEF Undisturbed, Holding
<1>6. x.step = "acquire"
  BY DEF Acquire, At
<1>7. Sound(o, y)'
  BY <1>0, <1>1, <1>3, <1>4, <1>5, <1>6 DEF Sound, refs
<1>8. lock' \in Ops \cup {None} /\ \A q \in Ops \ {o} : lock = q => lock' = q
  BY <1>0, <1>1, WorkspaceAssumption DEF TypeOK
<1>. QED
  BY <1>1, <1>2, <1>3, <1>4, <1>7, <1>8, QuietStep

LEMMA ScaffoldStep ==
  ASSUME IInv, NEW o \in Ops, Scaffold(o) PROVE IInv'
<1>. DEFINE x == op[o]
            files == FilesOf(dev)
            manifest == IF files[Manifest] = None THEN Starter ELSE files[Manifest]
            missing == {p \in {Manifest, Lockfile} : files[p] = None}
            paths == IF dev = 0 THEN missing \cup {Welcome} ELSE missing
            seed == [p \in paths |-> IF p = Lockfile THEN manifest ELSE Starter]
<1>0. /\ TypeOK /\ x \in Operation /\ Sound(o, x) /\ x.kind \in Kinds /\ x.change[1] \in Paths
      /\ x.step = "scaffold"
  BY OpParts DEF IInv, Scaffold, At
<1>a. UNCHANGED <<mode, lock, refs, entry, sealed>>
  BY DEF Scaffold
<1>b. UNCHANGED <<mode, lock, commits, dev, entry, sealed>>
  BY <1>a DEF refs
<1>c. "lapses" \notin mode => lock = o
  BY <1>0 DEF Sound, Undisturbed, Holding
<1>d. \A c : LogOf(c)' = LogOf(c) /\ EntriesOf(c)' = EntriesOf(c)
  BY <1>b, SameTips
<1>1. CASE paths = {}
  <2>1. PICK y : y = Work(o, x)
    OBVIOUS
  <2>2. op' = [op EXCEPT ![o] = y]
    BY <1>1, <2>1 DEF Scaffold, Set
  <2>3. /\ y \in Operation /\ y.kind = x.kind /\ y.seeding = FALSE
        /\ y.step = FirstStep(x.kind)
        /\ y.base = x.base /\ y.seen = x.seen /\ y.left = x.left
    BY <1>0, <2>1, WorkMove, ZenonT(40)
  <2>4. "lapses" \notin mode' => Undisturbed(o, y)'
    BY <1>0, <1>b, <1>c, <2>3 DEF Undisturbed, FirstStep
  <2>5. Sound(o, y)'
    BY <1>0, <1>b, <2>3, <2>4 DEF Sound, Kinds, FirstStep
  <2>. QED BY <1>0, <1>a, <2>2, <2>3, <2>5, QuietStep DEF TypeOK
<1>2. CASE paths # {}
  <2>1. PICK y : y = [x EXCEPT !.step = "read", !.seeding = TRUE, !.changes = seed]
    OBVIOUS
  <2>2. op' = [op EXCEPT ![o] = y]
    BY <1>2, <2>1 DEF Scaffold, Set
  <2>3. seed \in Changed
    <3>1. files \in Tree
      BY <1>0, FilesTyped DEF TypeOK
    <3>2. manifest \in Version /\ Starter \in Version
      BY <3>1 DEF Tree, Paths, Version
    <3>3. paths \in SUBSET Paths
      BY WorkspaceAssumption DEF Paths
    <3>4. seed \in [paths -> Version]
      BY <3>2
    <3>. QED BY <3>3, <3>4, ChangesTyped
  <2>4. Welcome \in DOMAIN seed => dev = 0
    BY WorkspaceAssumption
  <2>. HIDE DEF seed
  <2>5. PICK z : z = [x EXCEPT !.step = "read", !.seeding = TRUE]
    OBVIOUS
  <2>6. /\ z \in Operation /\ z.kind = x.kind /\ z.seeding = TRUE /\ z.step = "read"
        /\ z.base = x.base /\ z.seen = x.seen /\ z.left = x.left
    BY <1>0, <2>5 DEF Operation, Steps
  <2>7. y = [z EXCEPT !.changes = seed]
    BY <1>0, <2>1, <2>5 DEF Operation
  <2>8. /\ y \in Operation /\ y.kind = x.kind /\ y.seeding = TRUE /\ y.step = "read"
        /\ y.base = x.base /\ y.seen = x.seen /\ y.left = x.left /\ y.changes = seed
    BY <2>3, <2>6, <2>7 DEF Operation, Changed
  <2>9. "lapses" \notin mode' => Undisturbed(o, y)'
    BY <1>0, <1>b, <1>c, <2>4, <2>8 DEF Undisturbed
  <2>10. Sound(o, y)'
    BY <1>0, <1>b, <2>8, <2>9 DEF Sound
  <2>. QED BY <1>0, <1>a, <2>2, <2>8, <2>10, QuietStep DEF TypeOK
<1>. QED
  BY <1>1, <1>2

LEMMA ReadTipStep ==
  ASSUME IInv, NEW o \in Ops, ReadTip(o) PROVE IInv'
<1>. DEFINE x == op[o]
<1>0. /\ TypeOK /\ x \in Operation /\ Sound(o, x) /\ x.step = "read"
      /\ dev \in 0..Len(commits) /\ Len(commits) \in Nat /\ dev \in Nat
  BY OpParts DEF IInv, ReadTip, At, TypeOK
<1>1. PICK y : y = [x EXCEPT !.step = "check", !.base = dev]
  OBVIOUS
<1>2. op' = [op EXCEPT ![o] = y] /\ UNCHANGED <<mode, lock, refs, entry, sealed>>
  BY <1>1 DEF ReadTip, Set
<1>3. /\ y \in Operation /\ y.step = "check" /\ y.kind = x.kind /\ y.seeding = x.seeding
      /\ y.base = dev /\ y.seen = x.seen /\ y.left = x.left /\ y.changes = x.changes
  BY <1>0, <1>1 DEF Operation, Steps
<1>4. "lapses" \notin mode' => Undisturbed(o, y)'
  BY <1>0, <1>2, <1>3 DEF Undisturbed, Sound, Holding, refs
<1>5. Sound(o, y)'
  BY <1>0, <1>2, <1>3, <1>4 DEF Sound, refs
<1>. QED
  BY <1>0, <1>2, <1>3, <1>5, QuietStep DEF TypeOK

LEMMA CompareRefStep ==
  ASSUME IInv, NEW o \in Ops, CompareRef(o) PROVE IInv'
<1>. DEFINE x == op[o]
<1>0. TypeOK /\ x \in Operation /\ Sound(o, x) /\ x.step = "check"
  BY OpParts DEF IInv, CompareRef, At
<1>a. UNCHANGED <<mode, refs, entry, sealed>>
  BY DEF CompareRef
<1>1. CASE dev = x.base
  <2>1. PICK y : y = [x EXCEPT !.step = "write"]
    OBVIOUS
  <2>2. op' = [op EXCEPT ![o] = y] /\ UNCHANGED lock
    BY <1>1, <2>1 DEF CompareRef, Go, Set
  <2>3. /\ y \in Operation /\ y.step = "write" /\ y.kind = x.kind /\ y.seeding = x.seeding
        /\ y.base = x.base /\ y.seen = x.seen /\ y.left = x.left /\ y.changes = x.changes
    BY <1>0, <2>1, StepUpdate DEF Steps
  <2>4. "lapses" \notin mode' => Undisturbed(o, y)'
    BY <1>0, <1>a, <2>2, <2>3 DEF Undisturbed, Sound, Holding, refs
  <2>5. Sound(o, y)'
    BY <1>0, <1>a, <2>3, <2>4 DEF Sound, refs
  <2>. QED BY <1>0, <1>a, <2>2, <2>3, <2>5, QuietStep DEF TypeOK
<1>2. CASE dev # x.base
  BY <1>0, <1>a, <1>2, QuietEnd DEF CompareRef, End, TypeOK, Ended
<1>. QED
  BY <1>1, <1>2

LEMMA CheckoutStep ==
  ASSUME IInv, NEW o \in Ops, Checkout(o) PROVE IInv'
<1>. DEFINE x == op[o]
<1>0. /\ TypeOK /\ x \in Operation /\ Sound(o, x) /\ x.step = "checkout"
      /\ dev \in 0..Len(commits) /\ Len(commits) \in Nat /\ dev \in Nat
  BY OpParts DEF IInv, Checkout, At, TypeOK
<1>a. UNCHANGED <<mode, refs, entry, sealed>>
  BY DEF Checkout
<1>1. CASE FilesOf(dev)[Manifest] = None \/ (x.kind = "preview" /\ Active = {})
  BY <1>0, <1>a, <1>1, QuietEnd DEF Checkout, End, TypeOK, Ended
<1>2. CASE ~(FilesOf(dev)[Manifest] = None \/ (x.kind = "preview" /\ Active = {}))
  <2>0. dev # 0
    BY <1>2 DEF FilesOf, EmptyTree, Paths
  <2>1. PICK y : y = [x EXCEPT !.step = "install", !.seen = dev]
    OBVIOUS
  <2>2. op' = [op EXCEPT ![o] = y] /\ UNCHANGED lock
    BY <1>2, <2>1 DEF Checkout, Set
  <2>3. /\ y \in Operation /\ y.step = "install" /\ y.kind = x.kind /\ y.seeding = x.seeding
        /\ y.base = x.base /\ y.seen = dev /\ y.left = x.left
    BY <1>0, <2>1 DEF Operation, Steps
  <2>4. "lapses" \notin mode' => Undisturbed(o, y)'
    BY <1>0, <1>a, <2>2, <2>3 DEF Undisturbed, Sound, Holding
  <2>5. Sound(o, y)'
    BY <1>0, <1>a, <2>0, <2>3, <2>4 DEF Sound, refs
  <2>. QED BY <1>0, <1>a, <2>2, <2>3, <2>5, QuietStep DEF TypeOK
<1>. QED
  BY <1>1, <1>2

LEMMA InstallStep ==
  ASSUME IInv, NEW o \in Ops, Install(o) PROVE IInv'
<1>. DEFINE x == op[o]
            files == FilesOf(x.seen)
<1>0. /\ TypeOK /\ x \in Operation /\ Sound(o, x) /\ x.step = "install" /\ x.kind \in Kinds
      /\ x.kind \in {"publish", "depsSync", "preview"}
  BY OpParts DEF IInv, Install, EndPreview, At, Sound
<1>a. UNCHANGED <<mode, refs, entry, sealed>>
  BY DEF Install, EndPreview
<1>1. CASE x.kind = "depsSync"
  <2>1. PICK y : y = [x EXCEPT !.step = "read", !.changes = Only(Lockfile, files[Manifest])]
    OBVIOUS
  <2>2. op' = [op EXCEPT ![o] = y] /\ UNCHANGED lock
    BY <1>1, <2>1 DEF Install, EndPreview, Set
  <2>3. Only(Lockfile, files[Manifest]) \in Changed
    <3>1. files[Manifest] \in Version
      BY <1>0, FilesTyped DEF Sound, Tree, Paths
    <3>. QED BY <3>1, OnlyTyped DEF Paths
  <2>4. /\ y \in Operation /\ y.step = "read" /\ y.kind = x.kind /\ y.seeding = x.seeding
        /\ y.base = x.base /\ y.seen = x.seen /\ y.left = x.left
    BY <1>0, <2>1, <2>3 DEF Operation, Steps, Changed
  <2>5. ~x.seeding
    BY <1>0, <1>1 DEF Sound, Operation
  <2>6. "lapses" \notin mode' => Undisturbed(o, y)'
    BY <1>0, <1>1, <1>a, <2>2, <2>4, <2>5 DEF Undisturbed, Sound, Holding
  <2>7. Sound(o, y)'
    BY <1>0, <1>1, <1>a, <2>4, <2>5, <2>6 DEF Sound, refs
  <2>. QED BY <1>0, <1>a, <2>2, <2>4, <2>7, QuietStep DEF TypeOK
<1>2. ASSUME NEW r \in {"ok", "failed"}, End(o, r), x.kind # "depsSync" PROVE IInv'
  <2>1. r \in Ended /\ x.kind \notin {"commitFiles", "depsSync"}
    BY <1>0, <1>2 DEF Ended
  <2>2. Rest(o, r) /\ lock' \in Ops \cup {None} /\ \A q \in Ops \ {o} : lock = q => lock' = q
    BY <1>0, <1>2 DEF End, TypeOK
  <2>. QED BY <1>a, <2>1, <2>2, QuietEnd
<1>3. ASSUME x.kind = "publish", EntriesOf(x.seen) # {}, Go(o, "sync"), UNCHANGED lock
      PROVE  IInv'
  <2>1. PICK y : y = [x EXCEPT !.step = "sync"]
    OBVIOUS
  <2>2. op' = [op EXCEPT ![o] = y]
    BY <1>3, <2>1 DEF Go, Set
  <2>3. /\ y \in Operation /\ y.step = "sync" /\ y.kind = x.kind /\ y.seeding = x.seeding
        /\ y.base = x.base /\ y.seen = x.seen /\ y.left = x.left /\ y.changes = x.changes
    BY <1>0, <2>1, StepUpdate DEF Steps
  <2>4. "lapses" \notin mode' => Undisturbed(o, y)'
    BY <1>0, <1>3, <1>a, <2>3 DEF Undisturbed, Sound, Holding
  <2>5. Sound(o, y)'
    BY <1>0, <1>3, <1>a, <2>3, <2>4 DEF Sound, refs
  <2>. QED BY <1>0, <1>3, <1>a, <2>2, <2>3, <2>5, QuietStep DEF TypeOK
<1>4. CASE x.kind = "publish"
  BY <1>2, <1>3, <1>4 DEF Install, EndPreview
<1>5. CASE x.kind = "preview"
  BY <1>2, <1>5 DEF Install, EndPreview
<1>. QED
  BY <1>0, <1>1, <1>4, <1>5

LEMMA BundleStep ==
  ASSUME IInv, NEW o \in Ops, BundleEntries(o) PROVE IInv'
<1>. DEFINE x == op[o]
<1>0. /\ TypeOK /\ x \in Operation /\ Sound(o, x) /\ x.step = "bundle" /\ x.kind = "publish"
      /\ Active \subseteq Entries
  BY OpParts DEF IInv, BundleEntries, At, Sound, Active
<1>a. UNCHANGED <<mode, refs, entry, sealed>>
  BY DEF BundleEntries
<1>1. CASE End(o, "failed")
  <2>1. Rest(o, "failed") /\ lock' \in Ops \cup {None} /\ \A q \in Ops \ {o} : lock = q => lock' = q
    BY <1>0, <1>1 DEF End, TypeOK
  <2>. QED BY <1>a, <2>1, QuietEnd DEF Ended
<1>2. CASE /\ Active \subseteq EntriesOf(x.seen)
           /\ Set(o, [x EXCEPT !.step = "seal", !.left = Active]) /\ UNCHANGED lock
  <2>1. PICK y : y = [x EXCEPT !.step = "seal", !.left = Active]
    OBVIOUS
  <2>2. op' = [op EXCEPT ![o] = y]
    BY <1>2, <2>1 DEF Set
  <2>3. /\ y \in Operation /\ y.step = "seal" /\ y.kind = x.kind /\ y.seeding = x.seeding
        /\ y.base = x.base /\ y.seen = x.seen /\ y.left = Active
    BY <1>0, <2>1 DEF Operation, Steps
  <2>4. \A c : LogOf(c)' = LogOf(c) /\ EntriesOf(c)' = EntriesOf(c)
    BY <1>a, SameTips DEF refs
  <2>5. \A e \in Active : entry[e] # None
    BY DEF Active
  <2>6. "lapses" \notin mode' => Undisturbed(o, y)'
    BY <1>0, <1>2, <1>a, <2>3, <2>4 DEF Undisturbed, Sound, Holding
  <2>7. Sound(o, y)'
    BY <1>0, <1>a, <2>3, <2>5, <2>6 DEF Sound, refs
  <2>. QED BY <1>0, <1>2, <1>a, <2>2, <2>3, <2>7, QuietStep DEF TypeOK
<1>. QED
  BY <1>1, <1>2 DEF BundleEntries

LEMMA FailsStep ==
  ASSUME IInv, NEW o \in Ops, OperationFails(o) PROVE IInv'
<1>1. TypeOK
  BY DEF IInv
<1>2. /\ Rest(o, "failed") /\ UNCHANGED <<mode, refs, entry, sealed>>
      /\ lock' \in Ops \cup {None} /\ \A q \in Ops \ {o} : lock = q => lock' = q
  BY <1>1, WorkspaceAssumption DEF OperationFails, TypeOK
<1>. QED
  BY <1>2, QuietEnd DEF Ended

\* A lease that lapses under an operation at work makes the behaviour one of
\* those that are disturbed.
LEMMA LapseStep ==
  ASSUME IInv, LeaseLapses PROVE IInv'
<1>0. TypeOK
  BY DEF IInv
<1>1. /\ lock' = None /\ UNCHANGED <<mode, refs, commits, dev, main, entry, op, sealed>>
      /\ lock \in Ops /\ (AtWork(lock) => "lapses" \in mode)
  BY <1>0 DEF LeaseLapses, refs, TypeOK
<1>2. \A c : LogOf(c)' = LogOf(c) /\ EntriesOf(c)' = EntriesOf(c)
  BY <1>1, SameTips
<1>3. ASSUME NEW q \in Ops PROVE Sound(q, op[q])'
  <2>1. "lapses" \notin mode => op[q].step \notin Holding
    <3>1. Sound(q, op[q])
      BY DEF IInv
    <3>. QED BY <1>1, <3>1 DEF Sound, Undisturbed, AtWork, Holding, Ended
  <2>2. LogOf(dev)' = LogOf(dev)
    BY <1>1 DEF LogOf
  <2>3. commits' \in Seq(Commit) /\ Len(commits) <= Len(commits')
    BY <1>0, <1>1 DEF TypeOK
  <2>. QED BY <1>0, <1>1, <2>1, <2>2, <2>3, OthersSound DEF IInv
<1>4. TypeOK'
  BY <1>0, <1>1 DEF TypeOK
<1>5. PublishedWasSealed'
  BY <1>1, <1>2 DEF IInv, PublishedWasSealed
<1>. QED
  BY <1>1, <1>3, <1>4, <1>5 DEF IInv


-----------------------------------------------------------------------------
(* The steps that write a ref, a row or an artifact.                        *)

\* The operation that writes moves, and the others stay sound: where none
\* outlives its lease, the writer is the one that holds the lock.
LEMMA OneWrites ==
  ASSUME IInv, NEW o \in Ops, NEW y \in Operation, op' = [op EXCEPT ![o] = y],
         op[o].step \in Holding,
         mode' = mode, commits' \in Seq(Commit), Len(commits) <= Len(commits'),
         \A e \in Entries : entry[e] # None => entry'[e] # None,
         "lapses" \notin mode => LogOf(dev) \subseteq LogOf(dev)',
         Sound(o, y)'
  PROVE  op' \in [Ops -> Operation] /\ \A q \in Ops : Sound(q, op[q])'
<1>0. TypeOK /\ op' \in [Ops -> Operation]
  BY DEF IInv, TypeOK
<1>1. ASSUME NEW q \in Ops PROVE Sound(q, op[q])'
  <2>1. CASE q = o
    <3>1. op'[q] = y
      BY <1>0, <2>1 DEF TypeOK
    <3>. QED BY <2>1, <3>1 DEF Sound, Undisturbed
  <2>2. CASE q # o
    <3>1. op'[q] = op[q] /\ Sound(q, op[q]) /\ Sound(o, op[o])
      BY <1>0, <2>2 DEF IInv, TypeOK
    <3>2. ~("lapses" \notin mode /\ op[q].step \in Holding)
      BY <2>2, <3>1 DEF Sound, Undisturbed
    <3>. QED BY <1>0, <3>1, <3>2, OthersSound
  <2>. QED BY <2>1, <2>2
<1>. QED
  BY <1>0, <1>1

\* The commit of a write, of the tree and the log of the tip it was made from.
LEMMA CommitTyped ==
  ASSUME TypeOK, NEW o \in Ops, op[o].base \in 0..Len(commits)
  PROVE  [files |-> [p \in Paths |-> IF p \in DOMAIN op[o].changes THEN op[o].changes[p]
                                     ELSE FilesOf(op[o].base)[p]],
          log |-> IF op[o].seeding THEN LogOf(op[o].base) ELSE LogOf(op[o].base) \cup {o}]
           \in Commit
<1>1. FilesOf(op[o].base) \in Tree /\ LogOf(op[o].base) \in SUBSET Ops
  BY FilesTyped
<1>2. \A p \in DOMAIN op[o].changes : op[o].changes[p] \in Version
  <2>1. op[o].changes \in Changed
    BY OpParts
  <2>. QED BY <2>1 DEF Changed
<1>. QED
  BY <1>1, <1>2 DEF Commit, Tree

LEMMA WriteRefStep ==
  ASSUME IInv, NEW o \in Ops, WriteRef(o) PROVE IInv'
<1>. DEFINE x == op[o]
            n == Len(commits) + 1
            c == [files |-> [p \in Paths |-> IF p \in DOMAIN x.changes THEN x.changes[p]
                                             ELSE FilesOf(x.base)[p]],
                  log |-> IF x.seeding THEN LogOf(x.base) ELSE LogOf(x.base) \cup {o}]
<1>0. /\ TypeOK /\ x \in Operation /\ Sound(o, x) /\ x.step = "write" /\ x.kind \in Kinds
      /\ x.change[1] \in Paths /\ x.seeding \in BOOLEAN
      /\ Len(commits) \in Nat /\ dev \in 0..Len(commits) /\ main \in 0..Len(commits)
      /\ x.left \in SUBSET Entries /\ x.base \in Nat /\ x.seen \in Nat
  BY OpParts DEF IInv, WriteRef, At, TypeOK
<1>a. UNCHANGED <<mode, entry, sealed>>
  BY DEF WriteRef
<1>1. CASE x.base = 0 /\ dev # 0
  <2>1. Rest(o, "failed") /\ lock' \in Ops \cup {None} /\ \A q \in Ops \ {o} : lock = q => lock' = q
    BY <1>0, <1>1 DEF WriteRef, End, TypeOK
  <2>2. UNCHANGED refs
    BY <1>1 DEF WriteRef
  <2>. QED BY <1>a, <2>1, <2>2, QuietEnd DEF Ended
<1>2. CASE ~(x.base = 0 /\ dev # 0)
  <2>0. commits' = Append(commits, c) /\ dev' = n /\ main' = main
    BY <1>2 DEF WriteRef
  <2>1. c \in Commit
    BY <1>0, CommitTyped DEF Sound
  <2>2. c.log = IF x.seeding THEN LogOf(x.base) ELSE LogOf(x.base) \cup {o}
    OBVIOUS
  <2>. HIDE DEF c
  <2>3. /\ commits' \in Seq(Commit) /\ Len(commits') = n /\ commits'[n] = c
        /\ \A i \in 1..Len(commits) : commits'[i] = commits[i]
    BY <1>0, <2>0, <2>1 DEF TypeOK
  <2>4. \A i \in 0..Len(commits) : EntriesOf(i)' = EntriesOf(i)
    BY <1>0, <2>3 DEF EntriesOf, FilesOf
  <2>5. LogOf(dev)' = c.log
    BY <1>0, <2>0, <2>3 DEF LogOf
  <2>6. "lapses" \notin mode => x.base = dev /\ lock = o
    BY <1>0 DEF Sound, Undisturbed, Holding
  <2>7. "lapses" \notin mode => LogOf(dev) \subseteq LogOf(dev)'
    BY <2>2, <2>5, <2>6
  <2>8. PublishedWasSealed'
    BY <1>0, <1>a, <2>0, <2>4 DEF IInv, PublishedWasSealed
  <2>9. ASSUME NEW y \in Operation, op' = [op EXCEPT ![o] = y], lock' \in Ops \cup {None},
               Sound(o, y)'
        PROVE  IInv'
    <3>0. /\ op[o].step \in Holding /\ mode' = mode /\ Len(commits) <= Len(commits')
          /\ \A e \in Entries : entry[e] # None => entry'[e] # None
      BY <1>0, <1>a, <2>3 DEF Holding
    <3>1. op' \in [Ops -> Operation] /\ \A q \in Ops : Sound(q, op[q])'
      BY <2>3, <2>7, <2>9, <3>0, OneWrites
    <3>2. TypeOK'
      BY <1>0, <1>a, <2>0, <2>3, <2>9, <3>1 DEF TypeOK
    <3>. QED BY <1>0, <2>0, <2>8, <3>1, <3>2 DEF IInv
  <2>10. CASE x.seeding /\ Welcome \in DOMAIN x.changes
    <3>1. PICK y : y = [x EXCEPT !.step = "seedMain", !.seen = n]
      OBVIOUS
    <3>c. x.kind # "depsSync"
      BY <1>0, <2>10 DEF Sound
    <3>a. Set(o, [x EXCEPT !.step = "seedMain", !.seen = n]) /\ lock' = lock
      BY <1>2, <2>10, <3>c DEF WriteRef
    <3>2. op' = [op EXCEPT ![o] = y] /\ lock' = lock
      BY <3>a, <3>1 DEF Set
    <3>b. n \in Nat /\ "seedMain" \in Steps /\ x \in Operation
      BY <1>0 DEF Steps
    <3>3. /\ y \in Operation /\ y.step = "seedMain" /\ y.kind = x.kind /\ y.seeding = x.seeding
          /\ y.base = x.base /\ y.seen = n /\ y.left = x.left
      BY <3>b, <3>1 DEF Operation
    <3>4. "lapses" \notin mode => n = 1
      <4>1. "lapses" \notin mode => dev = 0
        BY <1>0, <2>10 DEF Sound, Undisturbed
      <4>. QED BY <1>0, <4>1 DEF IInv
    <3>5. "lapses" \notin mode' => Undisturbed(o, y)'
      BY <1>a, <2>6, <3>2, <3>3, <3>4 DEF Undisturbed
    <3>6. Sound(o, y)'
      BY <1>0, <1>a, <2>3, <2>10, <3>3, <3>5 DEF Sound
    <3>. QED BY <1>0, <2>9, <3>2, <3>3, <3>6 DEF TypeOK
  <2>11. CASE x.seeding /\ Welcome \notin DOMAIN x.changes
    <3>1. PICK y : y = Work(o, x)
      OBVIOUS
    <3>c. x.kind # "depsSync"
      BY <1>0, <2>11 DEF Sound
    <3>a. Set(o, Work(o, x)) /\ lock' = lock
      BY <1>2, <2>11, <3>c DEF WriteRef
    <3>2. op' = [op EXCEPT ![o] = y] /\ lock' = lock
      BY <3>a, <3>1 DEF Set
    <3>3. /\ y \in Operation /\ y.kind = x.kind /\ y.seeding = FALSE /\ y.step = FirstStep(x.kind)
          /\ y.base = x.base /\ y.seen = x.seen /\ y.left = x.left
      BY <1>0, <3>1, WorkMove
    <3>4. "lapses" \notin mode' => Undisturbed(o, y)'
      BY <1>0, <1>a, <2>6, <3>2, <3>3 DEF Undisturbed, FirstStep
    <3>5. Sound(o, y)'
      BY <1>0, <1>a, <2>3, <2>11, <3>3, <3>4 DEF Sound, Kinds, FirstStep
    <3>. QED BY <1>0, <2>9, <3>2, <3>3, <3>5 DEF TypeOK
  <2>12. CASE ~x.seeding /\ x.kind = "depsSync"
    <3>1. End(o, "ok")
      BY <1>2, <2>12 DEF WriteRef
    <3>a. Rest(o, "ok") /\ "ok" \in Steps /\ TypeOK
      BY <1>0, <3>1 DEF End, Steps, Ended
    <3>2. PICK y \in Operation :
            /\ op' = [op EXCEPT ![o] = y]
            /\ y.kind = x.kind /\ y.step = "ok" /\ y.seeding = FALSE
            /\ y.base = 0 /\ y.seen = 0 /\ y.left = {}
      <4>1. \A r \in Steps : Rest(o, r) => \E y \in Operation :
              /\ op' = [op EXCEPT ![o] = y]
              /\ y.kind = op[o].kind /\ y.step = r /\ y.seeding = FALSE
              /\ y.base = 0 /\ y.seen = 0 /\ y.left = {}
        BY <3>a, RestMove
      <4>. QED BY <3>a, <4>1, Zenon
    <3>3. lock' \in Ops \cup {None}
      BY <1>0, <3>1 DEF End, TypeOK
    <3>4. o \in LogOf(dev)' /\ Len(commits') \in Nat
      BY <1>0, <2>2, <2>3, <2>5, <2>12
    <3>5. Sound(o, y)'
      BY <3>2, <3>4, EndSound DEF Ended
    <3>. QED BY <2>9, <3>2, <3>3, <3>5
  <2>13. CASE ~x.seeding /\ x.kind # "depsSync"
    <3>1. PICK y : y = [x EXCEPT !.step = "sync"]
      OBVIOUS
    <3>2. op' = [op EXCEPT ![o] = y] /\ lock' = lock
      BY <1>2, <2>13, <3>1 DEF WriteRef, Go, Set
    <3>3. /\ y \in Operation /\ y.step = "sync" /\ y.kind = x.kind /\ y.seeding = x.seeding
          /\ y.base = x.base /\ y.seen = x.seen /\ y.left = x.left
      <4>1. x \in Operation /\ "sync" \in Steps
        BY <1>0 DEF Steps
      <4>. QED BY <3>1, <4>1, StepUpdate
    <3>4. x.kind = "commitFiles"
      BY <1>0, <2>13 DEF Sound
    <3>5. o \in LogOf(dev)'
      BY <2>2, <2>5, <2>13
    <3>6. "lapses" \notin mode' => Undisturbed(o, y)'
      BY <1>a, <2>6, <3>2, <3>3, <3>4, <3>5 DEF Undisturbed
    <3>7. Sound(o, y)'
      BY <1>0, <1>a, <2>3, <2>13, <3>3, <3>4, <3>6 DEF Sound
    <3>. QED BY <1>0, <2>9, <3>2, <3>3, <3>7 DEF TypeOK
  <2>. QED BY <1>0, <2>10, <2>11, <2>12, <2>13
<1>. QED
  BY <1>1, <1>2

LEMMA SeedMainStep ==
  ASSUME IInv, NEW o \in Ops, SeedMain(o) PROVE IInv'
<1>. DEFINE x == op[o]
<1>0. /\ TypeOK /\ x \in Operation /\ Sound(o, x) /\ x.step = "seedMain" /\ x.kind \in Kinds
      /\ x.change[1] \in Paths /\ Len(commits) \in Nat /\ x.left \in SUBSET Entries
      /\ x.base \in Nat /\ x.seen \in Nat
  BY OpParts DEF IInv, SeedMain, At, TypeOK
<1>a. UNCHANGED <<mode, commits, dev, entry, sealed>>
  BY DEF SeedMain
<1>1. CASE main # 0
  <2>1. Rest(o, "failed") /\ lock' \in Ops \cup {None} /\ \A q \in Ops \ {o} : lock = q => lock' = q
    BY <1>0, <1>1 DEF SeedMain, End, TypeOK
  <2>2. UNCHANGED refs
    BY <1>1 DEF SeedMain, refs
  <2>. QED BY <1>a, <2>1, <2>2, QuietEnd DEF Ended
<1>2. CASE main = 0
  <2>1. PICK y : y = Work(o, x)
    OBVIOUS
  <2>2. op' = [op EXCEPT ![o] = y] /\ lock' = lock /\ main' = x.seen
    BY <1>2, <2>1 DEF SeedMain, Set
  <2>3. /\ y \in Operation /\ y.kind = x.kind /\ y.seeding = FALSE /\ y.step = FirstStep(x.kind)
        /\ y.base = x.base /\ y.seen = x.seen /\ y.left = x.left
    BY <1>0, <2>1, WorkMove, ZenonT(40)
  <2>4. "lapses" \notin mode => lock = o /\ x.seen = 1
    BY <1>0 DEF Sound, Undisturbed, Holding
  <2>5. "lapses" \notin mode' => Undisturbed(o, y)'
    BY <1>0, <1>a, <2>2, <2>3, <2>4 DEF Undisturbed, FirstStep
  <2>6. Sound(o, y)'
    BY <1>0, <1>a, <2>3, <2>5 DEF Sound, Kinds, FirstStep
  <2>7. PublishedWasSealed'
    BY <1>a, <2>2, <2>4 DEF PublishedWasSealed
  <2>8. LogOf(dev)' = LogOf(dev) /\ commits' \in Seq(Commit) /\ Len(commits) <= Len(commits')
    BY <1>0, <1>a DEF LogOf, TypeOK
  <2>9. op' \in [Ops -> Operation] /\ \A q \in Ops : Sound(q, op[q])'
    BY <1>0, <1>a, <2>2, <2>3, <2>6, <2>8, OneWrites DEF Holding
  <2>10. TypeOK'
    BY <1>0, <1>a, <2>2, <2>9 DEF TypeOK, Sound
  <2>. QED BY <1>a, <2>7, <2>9, <2>10 DEF IInv
<1>. QED
  BY <1>1, <1>2

LEMMA NoneIsNoRow ==
  ASSUME TypeOK PROVE None \notin [deleted : BOOLEAN, artifact : 0..Len(commits)]
<1>1. Len(commits) \in Nat
  BY DEF TypeOK
<1>2. [deleted : BOOLEAN, artifact : 0..Len(commits)] \subseteq [deleted : BOOLEAN, artifact : Nat]
  BY <1>1
<1>. QED
  BY <1>2, WorkspaceAssumption

\* The row of an entry stays a row, and is active if its path is in the tree.
LEMMA SyncedTyped ==
  ASSUME TypeOK, NEW e \in Entries, NEW paths
  PROVE  /\ SyncedRow(e, paths) \in [deleted : BOOLEAN, artifact : 0..Len(commits)] \cup {None}
         /\ entry[e] # None => SyncedRow(e, paths) # None
         /\ e \in paths => SyncedRow(e, paths) # None /\ ~SyncedRow(e, paths).deleted
<1>. DEFINE Row == [deleted : BOOLEAN, artifact : 0..Len(commits)]
<1>1. entry[e] \in Row \cup {None}
  BY DEF TypeOK
<1>2. Len(commits) \in Nat
  BY DEF TypeOK
<1>3. None \notin Row
  BY NoneIsNoRow
<1>4. CASE entry[e] = None
  <2>1. [deleted |-> FALSE, artifact |-> 0] \in Row
    BY <1>2
  <2>2. [deleted |-> FALSE, artifact |-> 0].deleted = FALSE
    OBVIOUS
  <2>. QED BY <1>3, <1>4, <2>1, <2>2 DEF SyncedRow
<1>5. CASE entry[e] \in Row
  <2>1. \A d \in BOOLEAN : [entry[e] EXCEPT !.deleted = d] \in Row
    BY <1>5
  <2>2. [entry[e] EXCEPT !.deleted = FALSE].deleted = FALSE
    BY <1>5
  <2>. QED BY <1>3, <1>5, <2>1, <2>2 DEF SyncedRow
<1>. QED
  BY <1>1, <1>4, <1>5

LEMMA SyncEntriesStep ==
  ASSUME IInv, NEW o \in Ops, SyncEntries(o) PROVE IInv'
<1>. DEFINE x == op[o]
            paths == EntriesOf(IF x.kind = "publish" THEN x.seen ELSE dev)
<1>0. /\ TypeOK /\ x \in Operation /\ Sound(o, x) /\ x.step = "sync"
      /\ x.kind \in {"commitFiles", "listFiles", "publish"}
      /\ Len(commits) \in Nat /\ x.left \in SUBSET Entries
  BY OpParts DEF IInv, SyncEntries, At, TypeOK, Sound
<1>a. UNCHANGED <<mode, commits, dev, main, sealed>>
  BY DEF SyncEntries, refs
<1>b. \A c : LogOf(c)' = LogOf(c) /\ EntriesOf(c)' = EntriesOf(c)
  BY <1>a, SameTips
<1>c. LogOf(dev)' = LogOf(dev) /\ commits' \in Seq(Commit) /\ Len(commits) <= Len(commits')
  BY <1>0, <1>a DEF LogOf, TypeOK
<1>d. PublishedWasSealed'
  BY <1>a, <1>b DEF IInv, PublishedWasSealed
<1>1. PICK some \in SUBSET Entries :
        /\ entry' = [e \in Entries |-> IF e \in some THEN SyncedRow(e, paths) ELSE entry[e]]
        /\ \/ some = Entries /\ x.kind = "publish" /\ Go(o, "bundle") /\ UNCHANGED lock
           \/ x.kind # "publish" /\ End(o, "ok")
           \/ End(o, "failed")
  <2>1. CASE entry' = [e \in Entries |-> SyncedRow(e, paths)]
    BY <2>1 DEF SyncEntries
  <2>2. CASE entry' # [e \in Entries |-> SyncedRow(e, paths)]
    BY <2>2 DEF SyncEntries
  <2>. QED BY <2>1, <2>2
<1>2. /\ entry' \in [Entries -> [deleted : BOOLEAN, artifact : 0..Len(commits)] \cup {None}]
      /\ \A e \in Entries : entry[e] # None => entry'[e] # None
  BY <1>0, <1>1, SyncedTyped DEF TypeOK
<1>3. ASSUME NEW y \in Operation, op' = [op EXCEPT ![o] = y], lock' \in Ops \cup {None},
             Sound(o, y)'
      PROVE  IInv'
  <2>1. op' \in [Ops -> Operation] /\ \A q \in Ops : Sound(q, op[q])'
    BY <1>0, <1>a, <1>c, <1>2, <1>3, OneWrites DEF Holding
  <2>2. TypeOK'
    BY <1>0, <1>a, <1>2, <1>3, <2>1 DEF TypeOK
  <2>. QED BY <1>a, <1>d, <2>1, <2>2 DEF IInv
<1>4. CASE some = Entries /\ x.kind = "publish" /\ Go(o, "bundle") /\ UNCHANGED lock
  <2>1. PICK y : y = [x EXCEPT !.step = "bundle"]
    OBVIOUS
  <2>2. op' = [op EXCEPT ![o] = y]
    BY <1>4, <2>1 DEF Go, Set
  <2>3. /\ y \in Operation /\ y.step = "bundle" /\ y.kind = x.kind /\ y.seeding = x.seeding
        /\ y.base = x.base /\ y.seen = x.seen /\ y.left = x.left
    <3>1. x \in Operation /\ "bundle" \in Steps
      BY <1>0 DEF Steps
    <3>. QED BY <2>1, <3>1, StepUpdate
  <2>4. EntriesOf(x.seen) \subseteq Active'
    <3>1. paths = EntriesOf(x.seen) /\ paths \subseteq Entries
      BY <1>4 DEF EntriesOf
    <3>2. \A e \in paths : entry'[e] = SyncedRow(e, paths)
      BY <1>1, <1>4, <3>1
    <3>. HIDE DEF paths
    <3>. QED BY <1>0, <3>1, <3>2, SyncedTyped DEF Active
  <2>5. "lapses" \notin mode' => Undisturbed(o, y)'
    BY <1>0, <1>4, <1>a, <1>b, <2>3, <2>4 DEF Undisturbed, Sound, Holding
  <2>6. Sound(o, y)'
    BY <1>0, <1>4, <1>a, <1>2, <2>3, <2>5 DEF Sound
  <2>. QED BY <1>0, <1>3, <1>4, <2>2, <2>3, <2>6 DEF TypeOK
<1>5. ASSUME NEW r \in {"ok", "failed"}, End(o, r), r = "ok" => x.kind # "publish" PROVE IInv'
  <2>1. PICK y \in Operation :
          /\ op' = [op EXCEPT ![o] = y]
          /\ y.kind = x.kind /\ y.step = r /\ y.seeding = FALSE
          /\ y.base = 0 /\ y.seen = 0 /\ y.left = {}
    BY <1>0, <1>5, RestMove DEF End, Steps, Ended
  <2>2. lock' \in Ops \cup {None}
    BY <1>0, <1>5 DEF End, TypeOK
  <2>3. ("lapses" \notin mode' /\ y.step = "ok" /\ y.kind \in {"commitFiles", "depsSync"})
           => o \in LogOf(dev)'
    BY <1>0, <1>a, <1>c, <2>1 DEF Sound, Undisturbed
  <2>4. Sound(o, y)'
    BY <1>0, <1>a, <1>5, <2>1, <2>3, EndSound DEF Ended
  <2>. QED BY <1>3, <2>1, <2>2, <2>4
<1>. QED
  BY <1>1, <1>4, <1>5

LEMMA SealEntryStep ==
  ASSUME IInv, NEW o \in Ops, NEW e \in Entries, SealEntry(o, e) PROVE IInv'
<1>. DEFINE x == op[o]
<1>0. /\ TypeOK /\ x \in Operation /\ Sound(o, x) /\ x.step = "seal" /\ x.kind = "publish"
      /\ Len(commits) \in Nat /\ x.left \in SUBSET Entries
      /\ x.seen \in 1..Len(commits) /\ e \in x.left /\ entry[e] # None
  BY OpParts DEF IInv, SealEntry, At, TypeOK, Sound
<1>a. /\ UNCHANGED <<mode, lock, commits, dev, main>>
      /\ entry' = [entry EXCEPT ![e].artifact = x.seen] /\ sealed' = sealed \cup {<<e, x.seen>>}
  BY DEF SealEntry, refs
<1>b. \A c : LogOf(c)' = LogOf(c) /\ EntriesOf(c)' = EntriesOf(c)
  BY <1>a, SameTips
<1>c. LogOf(dev)' = LogOf(dev) /\ commits' \in Seq(Commit) /\ Len(commits) <= Len(commits')
  BY <1>0, <1>a DEF LogOf, TypeOK
<1>d. PublishedWasSealed'
  BY <1>a, <1>b DEF IInv, PublishedWasSealed
<1>1. /\ entry' \in [Entries -> [deleted : BOOLEAN, artifact : 0..Len(commits)] \cup {None}]
      /\ \A a \in Entries : entry[a] # None => entry'[a] # None
  <2>1. entry[e] \in [deleted : BOOLEAN, artifact : 0..Len(commits)]
    BY <1>0 DEF TypeOK
  <2>2. [entry[e] EXCEPT !.artifact = x.seen] \in [deleted : BOOLEAN, artifact : 0..Len(commits)]
    BY <1>0, <2>1
  <2>3. None \notin [deleted : BOOLEAN, artifact : 0..Len(commits)]
    BY <1>0, NoneIsNoRow
  <2>4. entry' = [entry EXCEPT ![e] = [entry[e] EXCEPT !.artifact = x.seen]]
    BY <1>a
  <2>. QED BY <1>0, <2>2, <2>3, <2>4 DEF TypeOK
<1>2. PICK y : y = [x EXCEPT !.left = x.left \ {e}]
  OBVIOUS
<1>3. op' = [op EXCEPT ![o] = y]
  BY <1>2 DEF SealEntry, Set
<1>4. /\ y \in Operation /\ y.step = "seal" /\ y.kind = x.kind /\ y.seeding = x.seeding
      /\ y.base = x.base /\ y.seen = x.seen /\ y.left = x.left \ {e}
  BY <1>0, <1>2 DEF Operation
<1>5. "lapses" \notin mode' => Undisturbed(o, y)'
  BY <1>0, <1>a, <1>b, <1>4 DEF Undisturbed, Sound, Holding
<1>6. Sound(o, y)'
  BY <1>0, <1>a, <1>1, <1>4, <1>5 DEF Sound
<1>7. op' \in [Ops -> Operation] /\ \A q \in Ops : Sound(q, op[q])'
  BY <1>0, <1>a, <1>c, <1>1, <1>3, <1>4, <1>6, OneWrites DEF Holding
<1>8. TypeOK'
  BY <1>0, <1>a, <1>1, <1>7 DEF TypeOK
<1>. QED
  BY <1>a, <1>d, <1>7, <1>8 DEF IInv

LEMMA AdvanceMainStep ==
  ASSUME IInv, NEW o \in Ops, AdvanceMain(o) PROVE IInv'
<1>. DEFINE x == op[o]
<1>0. /\ TypeOK /\ Sound(o, x) /\ x.step = "seal" /\ x.kind = "publish" /\ x.left = {}
      /\ Len(commits) \in Nat /\ x.seen \in 1..Len(commits)
  BY OpParts DEF IInv, AdvanceMain, At, TypeOK, Sound
<1>a. UNCHANGED <<mode, commits, dev, entry, sealed>> /\ main' = x.seen /\ End(o, "ok")
  BY DEF AdvanceMain
<1>b. \A c : LogOf(c)' = LogOf(c) /\ EntriesOf(c)' = EntriesOf(c)
  BY <1>a, SameTips
<1>c. LogOf(dev)' = LogOf(dev) /\ commits' \in Seq(Commit) /\ Len(commits) <= Len(commits')
  BY <1>0, <1>a DEF LogOf, TypeOK
<1>1. PublishedWasSealed'
  <2>1. "lapses" \notin mode => \A e \in EntriesOf(x.seen) : <<e, x.seen>> \in sealed
    BY <1>0 DEF Sound, Undisturbed
  <2>. QED BY <1>a, <1>b, <2>1 DEF PublishedWasSealed
<1>d. Rest(o, "ok") /\ "ok" \in Steps /\ TypeOK
  BY <1>0, <1>a DEF End, Steps, Ended
<1>2. PICK y \in Operation :
        /\ op' = [op EXCEPT ![o] = y]
        /\ y.kind = x.kind /\ y.step = "ok" /\ y.seeding = FALSE
        /\ y.base = 0 /\ y.seen = 0 /\ y.left = {}
  <2>1. \A r \in Steps : Rest(o, r) => \E y \in Operation :
          /\ op' = [op EXCEPT ![o] = y]
          /\ y.kind = op[o].kind /\ y.step = r /\ y.seeding = FALSE
          /\ y.base = 0 /\ y.seen = 0 /\ y.left = {}
    BY <1>d, RestMove
  <2>. QED BY <1>d, <2>1, Zenon
<1>3. Sound(o, y)'
  BY <1>0, <1>a, <1>2, EndSound DEF Ended
<1>4. op' \in [Ops -> Operation] /\ \A q \in Ops : Sound(q, op[q])'
  BY <1>0, <1>a, <1>c, <1>2, <1>3, OneWrites DEF Holding
<1>5. TypeOK'
  BY <1>0, <1>a, <1>4 DEF TypeOK, End
<1>. QED
  BY <1>a, <1>1, <1>4, <1>5 DEF IInv

-----------------------------------------------------------------------------
(* The theorems.                                                            *)

LEMMA InitInvariant == Init => IInv
<1>. SUFFICES ASSUME Init PROVE IInv
  OBVIOUS
<1>. DEFINE Fresh == [kind : Kinds, change : Changes, step : {"idle"}, seeding : {FALSE},
                      changes : {Nothing}, base : {0}, seen : {0}, left : {{}}]
<1>1. op \in [Ops -> Fresh]
  BY DEF Init
<1>0. Nothing \in Changed /\ "idle" \in Steps
  BY NothingTyped DEF Steps
<1>2. \A x \in Fresh : x \in Operation
  <2>. SUFFICES ASSUME NEW x \in Fresh PROVE x \in Operation
    OBVIOUS
  <2>1. x.step \in Steps /\ x.changes \in Changed
        /\ x.left \in SUBSET Entries /\ x.base \in Nat /\ x.seen \in Nat /\ x.seeding \in BOOLEAN
    <3>1. /\ x.step = "idle" /\ x.changes = Nothing /\ x.left = {} /\ x.base = 0 /\ x.seen = 0
          /\ x.seeding = FALSE
      OBVIOUS
    <3>. HIDE DEF Fresh
    <3>2. x.step \in Steps /\ x.changes \in Changed
      BY <1>0, <3>1, Zenon
    <3>3. x.left \in SUBSET Entries /\ x.seeding \in BOOLEAN
      BY <3>1, Zenon
    <3>4. x.base \in Nat /\ x.seen \in Nat
      BY <3>1
    <3>. QED BY <3>2, <3>3, <3>4
  <2>2. x = [kind |-> x.kind, change |-> x.change, step |-> x.step, seeding |-> x.seeding,
             changes |-> x.changes, base |-> x.base, seen |-> x.seen, left |-> x.left]
    OBVIOUS
  <2>3. x.kind \in Kinds /\ x.change \in Changes
    OBVIOUS
  <2>. HIDE DEF Fresh
  <2>. QED BY <2>1, <2>2, <2>3 DEF Operation, Changed
<1>3. TypeOK
  <2>1. op \in [Ops -> Operation]
    BY <1>1, <1>2
  <2>2. Len(commits) = 0 /\ commits \in Seq(Commit)
    BY DEF Init
  <2>. QED BY <2>1, <2>2 DEF Init, TypeOK
<1>4. ASSUME NEW o \in Ops PROVE Sound(o, op[o])
  <2>1. /\ op[o].step = "idle" /\ op[o].seeding = FALSE /\ op[o].base = 0 /\ op[o].seen = 0
        /\ op[o].left = {}
    BY <1>1
  <2>2. Undisturbed(o, op[o])
    BY <2>1 DEF Undisturbed, Holding
  <2>3. Len(commits) = 0
    BY DEF Init
  <2>. QED BY <2>1, <2>2, <2>3 DEF Sound
<1>. QED
  BY <1>3, <1>4 DEF Init, IInv, PublishedWasSealed

LEMMA StepInvariant == IInv /\ [Next]_vars => IInv'
<1>. SUFFICES ASSUME IInv, [Next]_vars PROVE IInv'
  OBVIOUS
<1>1. CASE Next
  BY <1>1, StartStep, AcquireStep, ScaffoldStep, ReadTipStep, CompareRefStep, WriteRefStep,
     SeedMainStep, SyncEntriesStep, CheckoutStep, InstallStep, BundleStep, SealEntryStep,
     AdvanceMainStep, FailsStep, LapseStep DEF Next, OpStep
<1>2. CASE UNCHANGED vars
  <2>1. UNCHANGED <<mode, lock, commits, dev, main, entry, op, sealed>>
    BY <1>2 DEF vars, refs
  <2>2. \A c : LogOf(c)' = LogOf(c) /\ EntriesOf(c)' = EntriesOf(c)
    BY <2>1, SameTips
  <2>3. TypeOK' /\ PublishedWasSealed'
    BY <2>1, <2>2 DEF IInv, TypeOK, PublishedWasSealed
  <2>4. ASSUME NEW q \in Ops PROVE Sound(q, op[q])'
    <3>1. Sound(q, op[q]) /\ TypeOK /\ LogOf(dev)' = LogOf(dev)
      BY <2>1 DEF IInv, LogOf
    <3>2. commits' \in Seq(Commit) /\ Len(commits) <= Len(commits')
      BY <2>1, <3>1 DEF TypeOK
    <3>. QED BY <2>1, <3>1, <3>2, OthersSound
  <2>. QED BY <2>1, <2>3, <2>4 DEF IInv
<1>. QED
  BY <1>1, <1>2

\* The invariant holds throughout.
LEMMA Invariance == Spec => []IInv
  BY InitInvariant, StepInvariant, PTL DEF Spec

-----------------------------------------------------------------------------
(* Where nothing fails the rows follow dev.                                 *)

\* A tree a publish does not refuse.
Whole(c) == /\ FilesOf(c)[Manifest] # None /\ FilesOf(c)[Lockfile] = FilesOf(c)[Manifest]
            /\ EntriesOf(c) # {}

\* A scaffold writes the whole starter tree or no entry, a deps sync no entry,
\* and a publish works on dev.
Faithful(x) ==
  /\ x.step \in {"read", "check", "write"} =>
       /\ x.kind = "depsSync" \/ (x.seeding /\ Welcome \notin DOMAIN x.changes)
            => DOMAIN x.changes \subseteq {Manifest, Lockfile}
       /\ x.seeding /\ Welcome \in DOMAIN x.changes
            => \A p \in {Welcome, Manifest, Lockfile} :
                 p \in DOMAIN x.changes /\ x.changes[p] = Starter
  /\ x.step = "seedMain" => main = 0 /\ Whole(dev)
  /\ x.kind = "publish" /\ x.step \in {"install", "sync", "bundle", "seal"} => x.seen = dev

\* An operation that will sync the rows, and cannot be refused before it does.
Owes(x) ==
  \/ x.step \in {"seedMain", "sync"}
  \/ x.kind = "commitFiles" /\ x.step \in {"read", "check", "write"} /\ ~x.seeding
  \/ x.kind = "publish" /\ x.step \in {"checkout", "install"} /\ Whole(dev)

MInv ==
  /\ dev = 0 => main = 0
  /\ \A o \in Ops : Faithful(op[o])
  /\ Active # EntriesOf(dev) => \E o \in Ops : Owes(op[o])

\* One operation at most is between its lock and its end.
LEMMA OneHolds ==
  ASSUME IInv, mode = {}, NEW o \in Ops, op[o].step \in Holding
  PROVE  /\ lock = o /\ Undisturbed(o, op[o]) /\ Sound(o, op[o])
         /\ \A q \in Ops : op[q].step \in Holding => q = o
  BY DEF IInv, Sound, Undisturbed

LEMMA OwesHolds ==
  ASSUME NEW x, Owes(x) PROVE x.step \in Holding
  BY DEF Owes, Holding

\* A step that moves one operation and writes nothing.
LEMMA QuietMirror ==
  ASSUME IInv, MInv, NEW o \in Ops, NEW y, op' = [op EXCEPT ![o] = y],
         UNCHANGED <<commits, dev, main, entry>>,
         Faithful(y), Owes(op[o]) => Owes(y)
  PROVE  MInv'
<1>0. op \in [Ops -> Operation]
  BY DEF IInv, TypeOK
<1>1. /\ \A c : EntriesOf(c)' = EntriesOf(c) /\ Whole(c)' = Whole(c)
      /\ Active' = Active
  BY DEF EntriesOf, FilesOf, Whole, Active
<1>2. \A q \in Ops : op'[q] = IF q = o THEN y ELSE op[q]
  BY <1>0
<1>3. \A q \in Ops : Faithful(op[q])'
  <2>. SUFFICES ASSUME NEW q \in Ops PROVE Faithful(op[q])'
    OBVIOUS
  <2>1. CASE q = o
    BY <1>1, <1>2, <2>1 DEF Faithful
  <2>2. CASE q # o
    BY <1>1, <1>2, <2>2 DEF Faithful, MInv
  <2>. QED BY <2>1, <2>2
<1>4. ASSUME Active' # EntriesOf(dev)' PROVE \E q \in Ops : Owes(op[q])'
  <2>1. EntriesOf(dev)' = EntriesOf(dev)
    BY <1>1 DEF EntriesOf, FilesOf
  <2>2. PICK q \in Ops : Owes(op[q])
    BY <1>1, <1>4, <2>1 DEF MInv
  <2>3. CASE q = o
    BY <1>1, <1>2, <2>2, <2>3 DEF Owes
  <2>4. CASE q # o
    BY <1>1, <1>2, <2>2, <2>4 DEF Owes
  <2>. QED BY <2>3, <2>4
<1>. QED
  BY <1>3, <1>4 DEF MInv

\* The holder writes: the rows then follow dev, or it has still to sync them.
LEMMA WriteMirror ==
  ASSUME IInv, MInv, mode = {}, NEW o \in Ops, NEW y, op' = [op EXCEPT ![o] = y],
         op[o].step \in Holding, dev' = 0 => main' = 0,
         Faithful(y)', Active' = EntriesOf(dev)' \/ Owes(y)'
  PROVE  MInv'
<1>0. op \in [Ops -> Operation]
  BY DEF IInv, TypeOK
<1>1. \A q \in Ops : op'[q] = IF q = o THEN y ELSE op[q]
  BY <1>0
<1>2. ASSUME NEW q \in Ops PROVE Faithful(op[q])'
  <2>1. CASE q = o
    BY <1>1, <2>1 DEF Faithful
  <2>2. CASE q # o
    <3>1. op[q].step \notin Holding
      BY <2>2, OneHolds
    <3>. QED BY <1>1, <2>2, <3>1 DEF Faithful, Holding
  <2>. QED BY <2>1, <2>2
<1>3. Owes(y)' => Owes(op[o])'
  BY <1>1 DEF Owes
<1>. QED
  BY <1>2, <1>3 DEF MInv

\* With the holder owing nothing the rows follow dev.
LEMMA HolderMirrors ==
  ASSUME IInv, MInv, mode = {}, NEW o \in Ops, op[o].step \in Holding, ~Owes(op[o])
  PROVE  Active = EntriesOf(dev)
  BY OneHolds, OwesHolds DEF MInv

LEMMA RestStep ==
  ASSUME TypeOK, NEW o \in Ops, NEW r \in Steps, Rest(o, r)
  PROVE  \E y \in Operation : op' = [op EXCEPT ![o] = y] /\ y.step = r
<1>1. PICK y \in Operation :
        /\ op' = [op EXCEPT ![o] = y]
        /\ y.kind = op[o].kind /\ y.step = r /\ y.seeding = FALSE
        /\ y.base = 0 /\ y.seen = 0 /\ y.left = {}
  BY RestMove
<1>. QED
  BY <1>1

\* An operation that owes nothing ends.
LEMMA EndMirror ==
  ASSUME IInv, MInv, NEW o \in Ops, NEW r \in Ended, Rest(o, r), ~Owes(op[o]),
         UNCHANGED <<commits, dev, main, entry>>
  PROVE  MInv'
<1>1. TypeOK /\ r \in Steps
  BY DEF IInv, Steps
<1>2. PICK y \in Operation : op' = [op EXCEPT ![o] = y] /\ y.step = r
  BY <1>1, RestStep, Zenon
<1>3. Faithful(y)
  BY <1>2 DEF Faithful, Ended
<1>. QED
  BY <1>2, <1>3, QuietMirror

\* A step of an operation that owes nothing to another where it is faithful.
LEMMA GoMirror ==
  ASSUME IInv, MInv, NEW o \in Ops, NEW s \in Steps, Go(o, s),
         UNCHANGED <<commits, dev, main, entry>>,
         NEW y, y = [op[o] EXCEPT !.step = s], Faithful(y), Owes(op[o]) => Owes(y)
  PROVE  MInv'
<1>1. op' = [op EXCEPT ![o] = y]
  BY DEF Go, Set
<1>. QED
  BY <1>1, QuietMirror

-----------------------------------------------------------------------------
(* Each step, where nothing fails.                                          *)

LEMMA EarlyMirror ==
  ASSUME IInv, MInv, NEW o \in Ops, Start(o) \/ Acquire(o) PROVE MInv'
<1>. DEFINE x == op[o]
<1>0. x \in Operation /\ x.step \in {"idle", "acquire"}
  BY OpParts DEF IInv, Start, Acquire, At
<1>1. PICK s \in {"ok", "acquire", "checkout", "scaffold", "busy"} : Go(o, s)
  BY DEF Start, Acquire
<1>2. UNCHANGED <<commits, dev, main, entry>>
  BY DEF Start, Acquire, refs
<1>3. PICK y : y = [x EXCEPT !.step = s]
  OBVIOUS
<1>4. s \in Steps
  BY DEF Steps, Ended
<1>5. y.step = s
  BY <1>0, <1>3, <1>4, StepUpdate
<1>6. Faithful(y) /\ ~Owes(x)
  BY <1>0, <1>5 DEF Faithful, Owes
<1>. QED
  BY <1>1, <1>2, <1>3, <1>4, <1>6, GoMirror

LEMMA ScaffoldMirror ==
  ASSUME IInv, MInv, NEW o \in Ops, Scaffold(o) PROVE MInv'
<1>. DEFINE x == op[o]
            files == FilesOf(dev)
            manifest == IF files[Manifest] = None THEN Starter ELSE files[Manifest]
            missing == {p \in {Manifest, Lockfile} : files[p] = None}
            paths == IF dev = 0 THEN missing \cup {Welcome} ELSE missing
            seed == [p \in paths |-> IF p = Lockfile THEN manifest ELSE Starter]
<1>0. /\ TypeOK /\ x \in Operation /\ x.kind \in Kinds /\ x.change[1] \in Paths
      /\ x.step = "scaffold" /\ Sound(o, x)
  BY OpParts DEF IInv, Scaffold, At
<1>a. UNCHANGED <<commits, dev, main, entry>>
  BY DEF Scaffold, refs
<1>b. ~Owes(x)
  BY <1>0 DEF Owes
<1>1. CASE paths = {}
  <2>1. PICK y : y = Work(o, x)
    OBVIOUS
  <2>2. op' = [op EXCEPT ![o] = y]
    BY <1>1, <2>1 DEF Scaffold, Set
  <2>3. /\ y.kind = x.kind /\ y.seeding = FALSE /\ y.step = FirstStep(x.kind)
    BY <1>0, <2>1, WorkMove
  <2>4. Faithful(y)
    BY <1>0, <2>3 DEF Faithful, FirstStep
  <2>. QED BY <1>a, <1>b, <2>2, <2>4, QuietMirror
<1>2. CASE paths # {}
  <2>1. PICK y : y = [x EXCEPT !.step = "read", !.seeding = TRUE, !.changes = seed]
    OBVIOUS
  <2>2. op' = [op EXCEPT ![o] = y]
    BY <1>2, <2>1 DEF Scaffold, Set
  <2>3. Welcome \in DOMAIN seed =>
          \A p \in {Welcome, Manifest, Lockfile} : p \in DOMAIN seed /\ seed[p] = Starter
    <3>1. Welcome \in paths => dev = 0
      BY WorkspaceAssumption
    <3>2. dev = 0 => paths = {Welcome, Manifest, Lockfile} /\ manifest = Starter
      BY DEF FilesOf, EmptyTree, Paths
    <3>. QED BY <3>1, <3>2
  <2>4. Welcome \notin DOMAIN seed => DOMAIN seed \subseteq {Manifest, Lockfile}
    BY DEF Paths
  <2>. HIDE DEF seed
  <2>5. PICK z : z = [x EXCEPT !.step = "read", !.seeding = TRUE]
    OBVIOUS
  <2>6. z.kind = x.kind /\ z.seeding = TRUE /\ z.step = "read" /\ z \in Operation
    BY <1>0, <2>5 DEF Operation, Steps
  <2>7. y = [z EXCEPT !.changes = seed]
    BY <1>0, <2>1, <2>5 DEF Operation
  <2>8. y.kind = x.kind /\ y.seeding = TRUE /\ y.step = "read" /\ y.changes = seed
    BY <2>6, <2>7 DEF Operation
  <2>9. Faithful(y)
    <3>1. x.kind # "depsSync"
      BY <1>0 DEF Sound
    <3>. QED BY <2>3, <2>4, <2>8, <3>1 DEF Faithful
  <2>. QED BY <1>a, <1>b, <2>2, <2>9, QuietMirror
<1>. QED
  BY <1>1, <1>2

LEMMA ReadMirror ==
  ASSUME IInv, MInv, mode = {}, NEW o \in Ops, ReadTip(o) \/ CompareRef(o) PROVE MInv'
<1>. DEFINE x == op[o]
<1>0. x \in Operation /\ x.step \in {"read", "check"} /\ Faithful(x) /\ dev \in Nat
  <2>1. Len(commits) \in Nat /\ dev \in 0..Len(commits)
    BY DEF IInv, TypeOK
  <2>. QED BY <2>1, OpParts DEF IInv, MInv, ReadTip, CompareRef, At
<1>1. UNCHANGED <<commits, dev, main, entry>>
  BY DEF ReadTip, CompareRef, refs
<1>2. CASE ReadTip(o)
  <2>1. PICK y : y = [x EXCEPT !.step = "check", !.base = dev]
    OBVIOUS
  <2>2. op' = [op EXCEPT ![o] = y] /\ x.step = "read"
    BY <1>2, <2>1 DEF ReadTip, Set, At
  <2>3. y.step = "check" /\ y.kind = x.kind /\ y.seeding = x.seeding /\ y.changes = x.changes
    BY <1>0, <2>1 DEF Operation, Steps
  <2>4. Faithful(y) /\ (Owes(x) => Owes(y))
    BY <1>0, <2>2, <2>3 DEF Faithful, Owes
  <2>. QED BY <1>1, <2>2, <2>4, QuietMirror
<1>3. CASE CompareRef(o)
  <2>0. x.step = "check"
    BY <1>3 DEF CompareRef, At
  <2>1. dev = x.base
    BY <2>0, OneHolds DEF Undisturbed, Holding
  <2>2. Go(o, "write")
    BY <1>3, <2>1 DEF CompareRef
  <2>3. PICK y : y = [x EXCEPT !.step = "write"]
    OBVIOUS
  <2>a. "write" \in Steps
    BY DEF Steps
  <2>4. /\ y.step = "write" /\ y.kind = x.kind /\ y.seeding = x.seeding /\ y.changes = x.changes
    BY <1>0, <2>3, <2>a, StepUpdate
  <2>5. Faithful(y) /\ (Owes(x) => Owes(y))
    BY <1>0, <2>0, <2>4 DEF Faithful, Owes
  <2>. QED BY <1>1, <2>2, <2>3, <2>5, <2>a, GoMirror
<1>. QED
  BY <1>2, <1>3

LEMMA WriteRefMirror ==
  ASSUME IInv, MInv, mode = {}, NEW o \in Ops, WriteRef(o) PROVE MInv'
<1>. DEFINE x == op[o]
            n == Len(commits) + 1
            tree == [p \in Paths |-> IF p \in DOMAIN x.changes THEN x.changes[p]
                                     ELSE FilesOf(x.base)[p]]
            c == [files |-> tree,
                  log |-> IF x.seeding THEN LogOf(x.base) ELSE LogOf(x.base) \cup {o}]
<1>0. /\ TypeOK /\ x \in Operation /\ x.step = "write" /\ x.kind \in Kinds
      /\ x.change[1] \in Paths /\ x.seeding \in BOOLEAN /\ Len(commits) \in Nat
      /\ x.step \in Holding /\ Faithful(x)
  BY OpParts DEF IInv, MInv, WriteRef, At, TypeOK, Holding
<1>1. /\ x.base = dev
      /\ x.seeding => x.kind \notin {"depsSync", "preview"}
      /\ ~x.seeding => x.kind \in {"commitFiles", "depsSync"}
      /\ x.seeding /\ Welcome \in DOMAIN x.changes => dev = 0
  BY <1>0, OneHolds DEF Undisturbed, Sound
<1>2. commits' = Append(commits, c) /\ dev' = n /\ main' = main /\ entry' = entry
  BY <1>1 DEF WriteRef
<1>3. FilesOf(dev)' = tree
  <2>. HIDE DEF tree
  <2>1. commits'[n] = c /\ c.files = tree
    BY <1>0, <1>2 DEF TypeOK
  <2>. QED BY <1>0, <1>2, <2>1 DEF FilesOf
<1>4. Active' = Active /\ dev' # 0
  BY <1>0, <1>2 DEF Active
<1>5. ASSUME DOMAIN x.changes \subseteq {Manifest, Lockfile} PROVE EntriesOf(dev)' = EntriesOf(dev)
  <2>1. \A e \in Entries : tree[e] = FilesOf(dev)[e]
    BY <1>1, <1>5, WorkspaceAssumption DEF Paths
  <2>. HIDE DEF tree
  <2>. QED BY <1>3, <2>1 DEF EntriesOf
<1>6. CASE x.seeding /\ Welcome \in DOMAIN x.changes
  <2>1. Set(o, [x EXCEPT !.step = "seedMain", !.seen = n])
    BY <1>1, <1>6 DEF WriteRef
  <2>2. PICK y : y = [x EXCEPT !.step = "seedMain", !.seen = n]
    OBVIOUS
  <2>3. op' = [op EXCEPT ![o] = y]
    BY <2>1, <2>2 DEF Set
  <2>4. y.step = "seedMain" /\ y.kind = x.kind
    BY <1>0, <2>2 DEF Operation
  <2>5. Whole(dev)' /\ main' = 0
    <3>1. \A p \in {Welcome, Manifest, Lockfile} : tree[p] = Starter
      BY <1>0, <1>6, WorkspaceAssumption DEF Faithful, Paths
    <3>. HIDE DEF tree
    <3>2. Welcome \in EntriesOf(dev)'
      BY <1>3, <3>1, WorkspaceAssumption DEF EntriesOf
    <3>3. main' = 0
      BY <1>1, <1>2, <1>6 DEF MInv
    <3>. QED BY <1>3, <3>1, <3>2, <3>3, WorkspaceAssumption DEF Whole
  <2>6. Faithful(y)' /\ Owes(y)'
    BY <2>4, <2>5 DEF Faithful, Owes
  <2>. QED BY <1>0, <1>4, <2>3, <2>6, WriteMirror
<1>7. CASE x.seeding /\ Welcome \notin DOMAIN x.changes
  <2>1. Set(o, Work(o, x))
    BY <1>1, <1>7 DEF WriteRef
  <2>2. PICK y : y = Work(o, x)
    OBVIOUS
  <2>3. op' = [op EXCEPT ![o] = y]
    BY <2>1, <2>2 DEF Set
  <2>4. y.kind = x.kind /\ y.seeding = FALSE /\ y.step = FirstStep(x.kind)
    BY <1>0, <2>2, WorkMove
  <2>5. Faithful(y)'
    BY <1>1, <1>7, <2>4 DEF Faithful, FirstStep
  <2>6. Active' = EntriesOf(dev)'
    <3>1. DOMAIN x.changes \subseteq {Manifest, Lockfile} /\ ~Owes(x)
      BY <1>0, <1>7 DEF Faithful, Owes
    <3>. QED BY <1>0, <1>4, <1>5, <3>1, HolderMirrors
  <2>. QED BY <1>0, <1>4, <2>3, <2>5, <2>6, WriteMirror
<1>8. CASE ~x.seeding /\ x.kind = "depsSync"
  <2>1. Rest(o, "ok") /\ "ok" \in Steps
    BY <1>1, <1>8 DEF WriteRef, End, Steps, Ended
  <2>2. \A r \in Steps : Rest(o, r) =>
          \E y \in Operation : op' = [op EXCEPT ![o] = y] /\ y.step = r
    BY <1>0, RestStep, Zenon
  <2>3. PICK y \in Operation : op' = [op EXCEPT ![o] = y] /\ y.step = "ok"
    BY <2>1, <2>2, Zenon
  <2>4. Faithful(y)'
    BY <2>3 DEF Faithful
  <2>5. Active' = EntriesOf(dev)'
    <3>1. DOMAIN x.changes \subseteq {Manifest, Lockfile} /\ ~Owes(x)
      BY <1>0, <1>8 DEF Faithful, Owes
    <3>. QED BY <1>0, <1>4, <1>5, <3>1, HolderMirrors
  <2>. QED BY <1>0, <1>4, <2>3, <2>4, <2>5, WriteMirror
<1>9. CASE ~x.seeding /\ x.kind # "depsSync"
  <2>1. Go(o, "sync")
    BY <1>1, <1>9 DEF WriteRef
  <2>2. PICK y : y = [x EXCEPT !.step = "sync"]
    OBVIOUS
  <2>3. op' = [op EXCEPT ![o] = y]
    BY <2>1, <2>2 DEF Go, Set
  <2>4. y.step = "sync" /\ y.kind = "commitFiles"
    BY <1>0, <1>1, <1>9, <2>2 DEF Operation
  <2>5. Faithful(y)' /\ Owes(y)'
    BY <2>4 DEF Faithful, Owes
  <2>. QED BY <1>0, <1>4, <2>3, <2>5, WriteMirror
<1>. QED
  BY <1>0, <1>6, <1>7, <1>8, <1>9

LEMMA SeedMainMirror ==
  ASSUME IInv, MInv, mode = {}, NEW o \in Ops, SeedMain(o) PROVE MInv'
<1>. DEFINE x == op[o]
<1>0. /\ TypeOK /\ x \in Operation /\ x.step = "seedMain" /\ x.kind \in Kinds
      /\ x.change[1] \in Paths /\ x.step \in Holding /\ main = 0 /\ Whole(dev)
  BY OpParts DEF IInv, MInv, SeedMain, At, Holding, Faithful
<1>1. dev # 0
  BY <1>0 DEF Whole, FilesOf, EmptyTree, Paths
<1>2. Set(o, Work(o, x)) /\ UNCHANGED <<commits, dev, entry>>
  BY <1>0 DEF SeedMain
<1>3. PICK y : y = Work(o, x)
  OBVIOUS
<1>4. op' = [op EXCEPT ![o] = y]
  BY <1>2, <1>3 DEF Set
<1>5. y.kind = x.kind /\ y.seeding = FALSE /\ y.step = FirstStep(x.kind)
  BY <1>0, <1>3, WorkMove
<1>6. Whole(dev)'
  BY <1>0, <1>2 DEF Whole, FilesOf, EntriesOf
<1>7. x.kind # "depsSync"
  BY <1>0, OneHolds DEF Sound
<1>8. Faithful(y)' /\ Owes(y)'
  BY <1>0, <1>5, <1>6, <1>7 DEF Faithful, Owes, FirstStep, Kinds
<1>. QED
  BY <1>0, <1>1, <1>2, <1>4, <1>8, WriteMirror

\* Exactly the paths that are there are active once all rows are synced.
LEMMA SyncedActive ==
  ASSUME TypeOK, NEW paths \in SUBSET Entries,
         entry' = [e \in Entries |-> SyncedRow(e, paths)]
  PROVE  Active' = paths
<1>1. ASSUME NEW e \in Entries PROVE e \in Active' <=> e \in paths
  <2>1. CASE e \in paths
    BY <2>1, SyncedTyped DEF Active
  <2>2. CASE e \notin paths
    <3>1. CASE entry[e] = None
      BY <2>2, <3>1 DEF Active, SyncedRow
    <3>2. CASE entry[e] # None
      <4>1. entry[e] \in [deleted : BOOLEAN, artifact : 0..Len(commits)]
        BY <3>2 DEF TypeOK
      <4>2. [entry[e] EXCEPT !.deleted = TRUE].deleted
        BY <4>1
      <4>3. SyncedRow(e, paths) = [entry[e] EXCEPT !.deleted = TRUE]
        BY <2>2, <3>2 DEF SyncedRow
      <4>. QED BY <2>2, <4>2, <4>3 DEF Active
    <3>. QED BY <3>1, <3>2
  <2>. QED BY <2>1, <2>2
<1>. QED
  BY <1>1 DEF Active

LEMMA SyncMirror ==
  ASSUME IInv, MInv, mode = {}, NEW o \in Ops, SyncEntries(o) PROVE MInv'
<1>. DEFINE x == op[o]
            paths == EntriesOf(IF x.kind = "publish" THEN x.seen ELSE dev)
<1>0. TypeOK /\ x \in Operation /\ x.step = "sync" /\ x.step \in Holding /\ Faithful(x)
  BY OpParts DEF IInv, MInv, SyncEntries, At, Holding
<1>1. UNCHANGED <<commits, dev, main>>
  BY DEF SyncEntries, refs
<1>2. paths = EntriesOf(dev) /\ paths \in SUBSET Entries
  BY <1>0 DEF Faithful, EntriesOf
<1>3. /\ entry' = [e \in Entries |-> SyncedRow(e, paths)]
      /\ IF x.kind = "publish" THEN Go(o, "bundle") ELSE Rest(o, "ok")
  BY DEF SyncEntries, End
<1>. HIDE DEF paths
<1>4. Active' = EntriesOf(dev)'
  <2>1. EntriesOf(dev)' = EntriesOf(dev)
    BY <1>1 DEF EntriesOf, FilesOf
  <2>. QED BY <1>0, <1>2, <1>3, <2>1, SyncedActive
<1>5. CASE x.kind = "publish"
  <2>1. PICK y : y = [x EXCEPT !.step = "bundle"]
    OBVIOUS
  <2>2. op' = [op EXCEPT ![o] = y]
    BY <1>3, <1>5, <2>1 DEF Go, Set
  <2>3. y.step = "bundle" /\ y.seen = x.seen /\ y.kind = x.kind
    BY <1>0, <2>1 DEF Operation
  <2>4. Faithful(y)'
    BY <1>0, <1>1, <2>3 DEF Faithful
  <2>. QED BY <1>0, <1>1, <1>4, <2>2, <2>4, WriteMirror DEF MInv
<1>6. CASE x.kind # "publish"
  <2>1. Rest(o, "ok") /\ "ok" \in Steps
    BY <1>3, <1>6 DEF Steps, Ended
  <2>2. \A r \in Steps : Rest(o, r) =>
          \E y \in Operation : op' = [op EXCEPT ![o] = y] /\ y.step = r
    BY <1>0, RestStep, Zenon
  <2>3. PICK y \in Operation : op' = [op EXCEPT ![o] = y] /\ y.step = "ok"
    BY <2>1, <2>2, Zenon
  <2>4. Faithful(y)'
    BY <2>3 DEF Faithful
  <2>. QED BY <1>0, <1>1, <1>4, <2>3, <2>4, WriteMirror DEF MInv
<1>. QED
  BY <1>5, <1>6

LEMMA BuildMirror ==
  ASSUME IInv, MInv, NEW o \in Ops, Checkout(o) \/ Install(o) \/ BundleEntries(o) PROVE MInv'
<1>. DEFINE x == op[o]
<1>0. /\ TypeOK /\ x \in Operation /\ Faithful(x) /\ Sound(o, x) /\ dev \in Nat
      /\ UNCHANGED <<commits, dev, main, entry>> /\ x.left \in SUBSET Entries
      /\ x.step \in {"checkout", "install", "bundle"}
  <2>1. Len(commits) \in Nat /\ dev \in 0..Len(commits)
    BY DEF IInv, TypeOK
  <2>2. UNCHANGED <<commits, dev, main, entry>> /\ x.step \in {"checkout", "install", "bundle"}
    BY DEF Checkout, Install, EndPreview, BundleEntries, refs, At
  <2>3. x \in Operation /\ x.left \in SUBSET Entries
    BY OpParts DEF IInv
  <2>. QED BY <2>1, <2>2, <2>3 DEF IInv, MInv
<1>1. ASSUME NEW r \in {"ok", "failed"}, End(o, r), ~Owes(x) PROVE MInv'
  BY <1>0, <1>1, EndMirror DEF End, Ended
<1>2. CASE Checkout(o)
  <2>0. x.step = "checkout"
    BY <1>2 DEF Checkout, At
  <2>1. CASE FilesOf(dev)[Manifest] = None \/ (x.kind = "preview" /\ Active = {})
    <3>1. End(o, "failed")
      BY <1>2, <2>1 DEF Checkout
    <3>2. ~Owes(x)
      BY <2>0, <2>1 DEF Owes, Whole
    <3>. QED BY <1>1, <3>1, <3>2
  <2>2. CASE ~(FilesOf(dev)[Manifest] = None \/ (x.kind = "preview" /\ Active = {}))
    <3>1. PICK y : y = [x EXCEPT !.step = "install", !.seen = dev]
      OBVIOUS
    <3>2. op' = [op EXCEPT ![o] = y]
      BY <1>2, <2>2, <3>1 DEF Checkout, Set
    <3>3. y.step = "install" /\ y.kind = x.kind /\ y.seen = dev
      BY <1>0, <3>1 DEF Operation
    <3>4. Faithful(y) /\ (Owes(x) => Owes(y))
      BY <2>0, <3>3 DEF Faithful, Owes
    <3>. QED BY <1>0, <3>2, <3>4, QuietMirror
  <2>. QED BY <2>1, <2>2
<1>3. CASE Install(o)
  <2>0. x.step = "install" /\ x.kind \in {"publish", "depsSync", "preview"}
    BY <1>0, <1>3 DEF Install, EndPreview, At, Sound
  <2>1. CASE x.kind = "depsSync"
    <3>. DEFINE f == Only(Lockfile, FilesOf(x.seen)[Manifest])
    <3>1. PICK y : y = [x EXCEPT !.step = "read", !.changes = f]
      OBVIOUS
    <3>2. op' = [op EXCEPT ![o] = y]
      BY <1>3, <2>1, <3>1 DEF Install, EndPreview, Set
    <3>3. DOMAIN f = {Lockfile}
      BY DEF Only
    <3>. HIDE DEF f
    <3>4. y.step = "read" /\ y.kind = x.kind /\ y.seeding = x.seeding /\ y.changes = f
      BY <1>0, <3>1 DEF Operation
    <3>5. Welcome # Lockfile
      BY WorkspaceAssumption
    <3>6. Faithful(y) /\ ~Owes(x)
      BY <2>0, <2>1, <3>3, <3>4, <3>5 DEF Faithful, Owes
    <3>. QED BY <1>0, <3>2, <3>6, QuietMirror
  <2>2. CASE x.kind = "preview"
    <3>1. ~Owes(x)
      BY <2>0, <2>2 DEF Owes
    <3>2. \E r \in {"ok", "failed"} : End(o, r)
      BY <1>3, <2>2 DEF Install, EndPreview
    <3>. QED BY <1>1, <3>1, <3>2
  <2>3. CASE x.kind = "publish"
    <3>0. x.seen = dev
      BY <1>0, <2>0, <2>3 DEF Faithful
    <3>1. CASE Whole(dev)
      <4>1. Go(o, "sync") /\ "sync" \in Steps
        BY <1>3, <2>3, <3>0, <3>1 DEF Install, EndPreview, Whole, Steps
      <4>2. PICK y : y = [x EXCEPT !.step = "sync"]
        OBVIOUS
      <4>3. y.step = "sync" /\ y.kind = x.kind /\ y.seen = x.seen
        BY <1>0, <4>1, <4>2, StepUpdate
      <4>4. Faithful(y) /\ Owes(y)
        BY <3>0, <4>3 DEF Faithful, Owes
      <4>. QED BY <1>0, <4>1, <4>2, <4>4, GoMirror
    <3>2. CASE ~Whole(dev)
      <4>1. ~Owes(x)
        BY <2>0, <2>3, <3>2 DEF Owes
      <4>2. End(o, "failed") \/ Go(o, "sync")
        BY <1>3, <2>3 DEF Install, EndPreview
      <4>3. CASE Go(o, "sync")
        <5>1. "sync" \in Steps
          BY DEF Steps
        <5>2. PICK y : y = [x EXCEPT !.step = "sync"]
          OBVIOUS
        <5>3. y.step = "sync" /\ y.kind = x.kind /\ y.seen = x.seen
          BY <1>0, <5>1, <5>2, StepUpdate
        <5>4. Faithful(y)
          BY <3>0, <5>3 DEF Faithful
        <5>. QED BY <1>0, <4>1, <4>3, <5>1, <5>2, <5>4, GoMirror
      <4>. QED BY <1>1, <4>1, <4>2, <4>3
    <3>. QED BY <3>1, <3>2
  <2>. QED BY <2>0, <2>1, <2>2, <2>3
<1>4. CASE BundleEntries(o)
  <2>0. x.step = "bundle" /\ ~Owes(x) /\ Active \in SUBSET Entries
    BY <1>4 DEF BundleEntries, At, Owes, Active
  <2>1. CASE End(o, "failed")
    BY <1>1, <2>0, <2>1
  <2>2. CASE Set(o, [x EXCEPT !.step = "seal", !.left = Active])
    <3>1. PICK y : y = [x EXCEPT !.step = "seal", !.left = Active]
      OBVIOUS
    <3>2. op' = [op EXCEPT ![o] = y]
      BY <2>2, <3>1 DEF Set
    <3>3. y.step = "seal" /\ y.kind = x.kind /\ y.seen = x.seen
      BY <1>0, <3>1 DEF Operation
    <3>4. Faithful(y)
      BY <1>0, <2>0, <3>3 DEF Faithful
    <3>. QED BY <1>0, <2>0, <3>2, <3>4, QuietMirror
  <2>. QED BY <1>4, <2>1, <2>2 DEF BundleEntries
<1>. QED
  BY <1>2, <1>3, <1>4

LEMMA SealMirror ==
  ASSUME IInv, MInv, mode = {}, NEW o \in Ops,
         (\E e \in Entries : SealEntry(o, e)) \/ AdvanceMain(o)
  PROVE  MInv'
<1>. DEFINE x == op[o]
<1>0. /\ TypeOK /\ x \in Operation /\ x.step = "seal" /\ x.kind = "publish" /\ x.step \in Holding
      /\ Sound(o, x) /\ Faithful(x) /\ ~Owes(x) /\ x.left \in SUBSET Entries
  BY OpParts DEF IInv, MInv, SealEntry, AdvanceMain, At, Holding, Sound, Owes
<1>1. Active = EntriesOf(dev)
  BY <1>0, HolderMirrors
<1>2. x.seen = dev /\ x.seen # 0
  BY <1>0 DEF Faithful, Sound
<1>3. UNCHANGED <<commits, dev>>
  BY DEF SealEntry, AdvanceMain, refs
<1>4. EntriesOf(dev)' = EntriesOf(dev)
  BY <1>3 DEF EntriesOf, FilesOf
<1>5. CASE AdvanceMain(o)
  <2>1. Rest(o, "ok") /\ "ok" \in Steps /\ UNCHANGED entry
    BY <1>5 DEF AdvanceMain, End, Steps, Ended
  <2>2. \A r \in Steps : Rest(o, r) =>
          \E y \in Operation : op' = [op EXCEPT ![o] = y] /\ y.step = r
    BY <1>0, RestStep, Zenon
  <2>3. PICK y \in Operation : op' = [op EXCEPT ![o] = y] /\ y.step = "ok"
    BY <2>1, <2>2, Zenon
  <2>4. Faithful(y)'
    BY <2>3 DEF Faithful
  <2>5. Active' = EntriesOf(dev)'
    BY <1>1, <1>4, <2>1 DEF Active
  <2>. QED BY <1>0, <1>2, <1>3, <2>3, <2>4, <2>5, WriteMirror
<1>6. ASSUME NEW e \in Entries, SealEntry(o, e) PROVE MInv'
  <2>1. PICK y : y = [x EXCEPT !.left = x.left \ {e}]
    OBVIOUS
  <2>2. op' = [op EXCEPT ![o] = y]
    BY <1>6, <2>1 DEF SealEntry, Set
  <2>3. y.step = "seal" /\ y.kind = x.kind /\ y.seen = x.seen
    BY <1>0, <2>1 DEF Operation
  <2>4. Faithful(y)'
    BY <1>2, <1>3, <2>3 DEF Faithful
  <2>5. Active' = Active
    <3>1. entry[e] # None /\ entry[e] \in [deleted : BOOLEAN, artifact : 0..Len(commits)]
      BY <1>0, <1>6 DEF SealEntry, Sound, TypeOK
    <3>2. entry' = [entry EXCEPT ![e] = [entry[e] EXCEPT !.artifact = x.seen]]
      BY <1>6 DEF SealEntry
    <3>3. Len(commits) \in Nat /\ x.seen \in 0..Len(commits)
      BY <1>0 DEF Sound, TypeOK
    <3>4. /\ [entry[e] EXCEPT !.artifact = x.seen] \in [deleted : BOOLEAN, artifact : 0..Len(commits)]
          /\ [entry[e] EXCEPT !.artifact = x.seen].deleted = entry[e].deleted
      BY <3>1, <3>3
    <3>5. [entry[e] EXCEPT !.artifact = x.seen] # None
      BY <1>0, <3>4, NoneIsNoRow
    <3>6. DOMAIN entry = Entries
      BY <1>0 DEF TypeOK
    <3>. QED BY <3>1, <3>2, <3>4, <3>5, <3>6 DEF Active
  <2>6. dev' # 0
    BY <1>2, <1>3
  <2>. QED BY <1>0, <1>1, <1>4, <2>2, <2>4, <2>5, <2>6, WriteMirror
<1>. QED
  BY <1>5, <1>6

LEMMA InitMirror == Init => MInv
<1>. SUFFICES ASSUME Init PROVE MInv
  OBVIOUS
<1>1. \A o \in Ops : op[o].step = "idle"
  BY DEF Init
<1>2. Active = {} /\ EntriesOf(dev) = {}
  BY DEF Init, Active, EntriesOf, FilesOf, EmptyTree, Paths
<1>3. main = 0
  BY DEF Init
<1>. QED
  BY <1>1, <1>2, <1>3 DEF MInv, Faithful

LEMMA StepMirror == IInv /\ (mode = {} => MInv) /\ [Next]_vars => (mode = {} => MInv)'
<1>. SUFFICES ASSUME IInv, mode = {} => MInv, [Next]_vars, mode' = {} PROVE MInv'
  OBVIOUS
<1>0. mode' = mode
  BY DEF Next, OpStep, LeaseLapses, vars, Start, Acquire, Scaffold, ReadTip, CompareRef, WriteRef,
     SeedMain, SyncEntries, Checkout, Install, EndPreview, BundleEntries, SealEntry, AdvanceMain, OperationFails
<1>1. mode = {} /\ MInv
  BY <1>0
<1>2. ASSUME UNCHANGED <<commits, dev, main, entry, op>> PROVE MInv'
  <2>1. /\ \A c : EntriesOf(c)' = EntriesOf(c) /\ Whole(c)' = Whole(c)
        /\ Active' = Active
    BY <1>2 DEF EntriesOf, FilesOf, Whole, Active
  <2>2. \A o \in Ops : Faithful(op[o])' = Faithful(op[o]) /\ Owes(op[o])' = Owes(op[o])
    BY <1>2, <2>1 DEF Faithful, Owes
  <2>3. EntriesOf(dev)' = EntriesOf(dev)
    BY <1>2 DEF EntriesOf, FilesOf
  <2>. QED BY <1>1, <1>2, <2>1, <2>2, <2>3 DEF MInv
<1>3. ASSUME NEW o \in Ops, OpStep(o) PROVE MInv'
  <2>1. ~OperationFails(o)
    BY <1>1 DEF OperationFails
  <2>. QED BY <1>1, <1>3, <2>1, EarlyMirror, ScaffoldMirror, ReadMirror, WriteRefMirror,
            SeedMainMirror, SyncMirror, BuildMirror, SealMirror DEF OpStep
<1>. QED
  BY <1>2, <1>3 DEF Next, LeaseLapses, vars, refs

LEMMA MirrorInvariance == Spec => [](mode = {} => MInv)
  BY InitMirror, StepMirror, Invariance, PTL DEF Spec

-----------------------------------------------------------------------------
(* The theorems.                                                            *)

\* The refs, the rows and the operations have the shapes of the code's records,
\* in every behaviour (db/schema/templating, git/refs.ts).
THEOREM TypeCorrect == Spec => []TypeOK
<1>1. IInv => TypeOK
  BY DEF IInv
<1>. QED
  BY <1>1, Invariance, PTL

\* No acknowledged commit leaves dev, for any number of authors and whatever
\* fails or dies, as long as no operation outlives its lease (git/commit.ts
\* 62-116, git/refs.ts 45-104).
THEOREM AcknowledgedStay == Spec => []AcknowledgedCommitsStay
<1>1. IInv => AcknowledgedCommitsStay
  BY DEF IInv, AcknowledgedCommitsStay, At, Sound, Undisturbed
<1>. QED
  BY <1>1, Invariance, PTL

\* main is the starter tree or a commit all of whose entries were sealed, for
\* any number of authors and entries (publish.ts 62-65).
THEOREM PublishedStaysSealed == Spec => []PublishedWasSealed
<1>1. IInv => PublishedWasSealed
  BY DEF IInv
<1>. QED
  BY <1>1, Invariance, PTL

\* The checked invariant, for every value of the constants: types, sealed main,
\* and, where nothing fails and nobody is at work, active rows that are the
\* entries of dev (ops/workspace.ts 140-166, entries.ts 8-90).
THEOREM RowsFollowDev == Spec => []Inv
<1>1. IInv /\ (mode = {} => MInv) => Inv
  <2>. SUFFICES ASSUME IInv, mode = {} => MInv PROVE EntriesMirrorDev
    BY DEF Inv, IInv
  <2>. SUFFICES ASSUME mode = {}, lock = None, MInv, Active # EntriesOf(dev) PROVE FALSE
    BY DEF EntriesMirrorDev
  <2>1. PICK o \in Ops : Owes(op[o])
    BY DEF MInv
  <2>2. lock = o
    BY <2>1, OwesHolds, OneHolds
  <2>. QED BY <2>2, WorkspaceAssumption
<1>. QED
  BY <1>1, Invariance, MirrorInvariance, PTL
=============================================================================
