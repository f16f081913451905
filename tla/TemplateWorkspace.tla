------------------------- MODULE TemplateWorkspace -------------------------
(***************************************************************************)
(* packages/templating/src: a hosted Email Workspace.  Git objects are in  *)
(* object storage, the tips of dev and main in Postgres, and a Redis lock  *)
(* with a lease of 300 s goes around every operation of the builder.       *)
(*                                                                         *)
(* A commit is its files and the operations its history contains; objects  *)
(* are immutable, so a commit is made when its ref is written.  The        *)
(* version of a file is the operation that wrote it; the version of the    *)
(* lockfile is that of the manifest it was generated from.                 *)
(***************************************************************************)
EXTENDS Naturals, Sequences

CONSTANTS
  Ops,         \* calls of the builder; the bound on a behaviour
  Entries,     \* paths under reactEmail/
  Welcome,     \* the entry of the starter tree
  Starter,     \* the version of the starter files
  Changes,     \* what a commit may change: a path and write or delete
  Modes,       \* what may go wrong in a behaviour
  None

Manifest == "package.json"
Lockfile == "bun.lock"
Paths == Entries \cup {Manifest, Lockfile}
Kinds == {"commitFiles", "depsSync", "publish", "listFiles", "preview"}

\* The lockfile is platform-owned: commitFiles refuses to change it.
ASSUME WorkspaceAssumption ==
  /\ Welcome \in Entries /\ Entries \cap {Manifest, Lockfile} = {}
  /\ Changes \subseteq (Paths \ {Lockfile}) \X {"write", "delete"}
  /\ Starter \notin Ops /\ None \notin Ops \cup {Starter}
  /\ None \notin [deleted : BOOLEAN, artifact : Nat]
  /\ Modes \subseteq SUBSET {"faults", "lapses"}

VARIABLES
  mode,
  lock,     \* the operation whose token the lock holds
  commits,  \* the commits a ref was ever set to
  dev, main, \* templating_workspace_ref: a commit, or 0
  entry,    \* templating_workspace_entry per path
  op,       \* the operations, with what they have read
  sealed    \* history: <<entry, commit>> of every artifact gone live

refs == <<commits, dev, main>>
vars == <<mode, lock, refs, entry, op, sealed>>

Version == Ops \cup {Starter, None}
Tree == [Paths -> Version]
Commit == [files : Tree, log : SUBSET Ops]
Ended == {"ok", "failed", "busy"}
Steps == {"idle", "acquire", "scaffold", "read", "check", "write", "seedMain",
          "checkout", "install", "sync", "bundle", "seal"} \cup Ended

\* seeding tells the commit of the scaffold from the operation's own; base is
\* the tip it starts from, seen the commit that was checked out.
Operation == [kind : Kinds, change : Changes, step : Steps, seeding : BOOLEAN,
              changes : UNION {[S -> Version] : S \in SUBSET Paths},
              base : Nat, seen : Nat, left : SUBSET Entries]

TypeOK ==
  /\ mode \in Modes
  /\ lock \in Ops \cup {None}
  /\ commits \in Seq(Commit)
  /\ {dev, main} \subseteq 0..Len(commits)
  /\ entry \in [Entries -> [deleted : BOOLEAN, artifact : 0..Len(commits)] \cup {None}]
  /\ op \in [Ops -> Operation]
  /\ sealed \subseteq Entries \X (1..Len(commits))

Nothing == [p \in {} |-> None]
Only(path, version) == [p \in {path} |-> version]

Init ==
  /\ mode \in Modes
  /\ lock = None /\ commits = <<>> /\ dev = 0 /\ main = 0 /\ sealed = {}
  /\ entry = [e \in Entries |-> None]
  /\ op \in [Ops -> [kind : Kinds, change : Changes, step : {"idle"}, seeding : {FALSE},
                     changes : {Nothing}, base : {0}, seen : {0}, left : {{}}]]
  /\ \A o \in Ops : op[o].kind # "commitFiles" => op[o].change = CHOOSE c \in Changes : TRUE

At(o, step) == op[o].step = step
AtWork(o) == op[o].step \notin Ended \cup {"idle"}
Set(o, x) == op' = [op EXCEPT ![o] = x]
Go(o, step) == Set(o, [op[o] EXCEPT !.step = step])

\* What an operation has read is of no use after its end.
Rest(o, result) ==
  Set(o, [op[o] EXCEPT !.step = result, !.seeding = FALSE, !.changes = Nothing,
                       !.base = 0, !.seen = 0, !.left = {}])

\* The operation ends with its lock released, if the token is still its own.
End(o, result) ==
  /\ Rest(o, result)
  /\ lock' = IF lock = o THEN None ELSE lock

EmptyTree == [p \in Paths |-> None]
FilesOf(c) == IF c = 0 THEN EmptyTree ELSE commits[c].files
LogOf(c) == IF c = 0 THEN {} ELSE commits[c].log
EntriesOf(c) == {e \in Entries : FilesOf(c)[e] # None}
Active == {e \in Entries : entry[e] # None /\ ~entry[e].deleted}

-----------------------------------------------------------------------------
(* The lock.                                                               *)

\* listFiles looks before it locks: a tip with its manifest needs no scaffold.
Start(o) ==
  /\ At(o, "idle")
  /\ Go(o, IF op[o].kind = "listFiles" /\ dev # 0
                /\ FilesOf(dev)[Manifest] # None /\ FilesOf(dev)[Lockfile] # None
           THEN "ok" ELSE "acquire")
  /\ UNCHANGED <<mode, lock, refs, entry, sealed>>

\* Mutant: the lock is taken over from a holder still at work.
AcquireAnyway(o) ==
  /\ At(o, "acquire")
  /\ lock' = o
  /\ Go(o, IF op[o].kind \in {"depsSync", "preview"} THEN "checkout" ELSE "scaffold")
  /\ UNCHANGED <<mode, refs, entry, sealed>>

\* SET NX EX: a lock that is held answers busy.
Acquire(o) ==
  /\ At(o, "acquire")
  /\ IF lock = None
     THEN /\ lock' = o
          /\ Go(o, IF op[o].kind \in {"depsSync", "preview"} THEN "checkout" ELSE "scaffold")
     ELSE Go(o, "busy") /\ UNCHANGED lock
  /\ UNCHANGED <<mode, refs, entry, sealed>>

\* 300 seconds pass: the lock of a builder that died, or of one still at work.
LeaseLapses ==
  /\ lock # None
  /\ AtWork(lock) => "lapses" \in mode
  /\ lock' = None
  /\ UNCHANGED <<mode, refs, entry, op, sealed>>

-----------------------------------------------------------------------------
(* Commits.                                                                *)

\* What an operation does once the tree is there.
Work(o, x) ==
  CASE x.kind = "commitFiles" ->
         [x EXCEPT !.step = "read", !.seeding = FALSE,
                   !.changes = Only(x.change[1], IF x.change[2] = "write" THEN o ELSE None)]
    [] x.kind = "publish" ->
         [x EXCEPT !.step = "checkout", !.seeding = FALSE, !.changes = Nothing]
    [] OTHER -> [x EXCEPT !.step = "sync", !.seeding = FALSE, !.changes = Nothing]

\* scaffoldHostedWorkspace: the starter tree where there is no dev, and the
\* manifest and lockfile where a tip lacks them.
Scaffold(o) ==
  LET files == FilesOf(dev)
      manifest == IF files[Manifest] = None THEN Starter ELSE files[Manifest]
      missing == {p \in {Manifest, Lockfile} : files[p] = None}
      paths == IF dev = 0 THEN missing \cup {Welcome} ELSE missing
  IN
  /\ At(o, "scaffold")
  /\ IF paths = {} THEN Set(o, Work(o, op[o]))
     ELSE Set(o, [op[o] EXCEPT !.step = "read", !.seeding = TRUE,
            !.changes = [p \in paths |-> IF p = Lockfile THEN manifest ELSE Starter]])
  /\ UNCHANGED <<mode, lock, refs, entry, sealed>>

\* commitFiles reads the tip and its tree, and stores the new objects.
ReadTip(o) ==
  /\ At(o, "read")
  /\ Set(o, [op[o] EXCEPT !.step = "check", !.base = dev])
  /\ UNCHANGED <<mode, lock, refs, entry, sealed>>

\* updateRef compares the ref with the tip, in a query of its own.
CompareRef(o) ==
  /\ At(o, "check")
  /\ IF dev = op[o].base THEN Go(o, "write") /\ UNCHANGED lock ELSE End(o, "failed")
  /\ UNCHANGED <<mode, refs, entry, sealed>>

\* Then it writes: the unique index refuses a second dev, but an update of
\* an existing one compares nothing.
WriteRef(o) ==
  LET x == op[o]  files == FilesOf(x.base)  n == Len(commits) + 1 IN
  /\ At(o, "write")
  /\ IF x.base = 0 /\ dev # 0 THEN End(o, "failed") /\ UNCHANGED refs
     ELSE /\ commits' = Append(commits,
               [files |-> [p \in Paths |-> IF p \in DOMAIN x.changes THEN x.changes[p] ELSE files[p]],
                log |-> IF x.seeding THEN LogOf(x.base) ELSE LogOf(x.base) \cup {o}])
          /\ dev' = n /\ UNCHANGED main
          /\ CASE x.seeding /\ Welcome \in DOMAIN x.changes ->
                    Set(o, [x EXCEPT !.step = "seedMain", !.seen = n]) /\ UNCHANGED lock
               [] x.seeding /\ Welcome \notin DOMAIN x.changes -> Set(o, Work(o, x)) /\ UNCHANGED lock
               [] x.kind = "depsSync" -> End(o, "ok")
               [] OTHER -> Go(o, "sync") /\ UNCHANGED lock
  /\ UNCHANGED <<mode, entry, sealed>>

\* main starts at the first tip.
SeedMain(o) ==
  /\ At(o, "seedMain")
  /\ IF main # 0 THEN End(o, "failed") /\ UNCHANGED main
     ELSE main' = op[o].seen /\ Set(o, Work(o, op[o])) /\ UNCHANGED lock
  /\ UNCHANGED <<mode, commits, dev, entry, sealed>>

-----------------------------------------------------------------------------
(* Entries.                                                                *)

\* Mutant: rows of paths that are gone stay.
SyncedWithoutRemoval(e, paths) ==
  IF e \notin paths THEN entry[e]
  ELSE IF entry[e] = None THEN [deleted |-> FALSE, artifact |-> 0]
  ELSE [entry[e] EXCEPT !.deleted = FALSE]

\* A path that is new is minted, one that is back is revived with the
\* artifact it had, one that is gone is soft-deleted.
SyncedRow(e, paths) ==
  IF e \in paths THEN IF entry[e] = None THEN [deleted |-> FALSE, artifact |-> 0]
                      ELSE [entry[e] EXCEPT !.deleted = FALSE]
  ELSE IF entry[e] = None THEN None ELSE [entry[e] EXCEPT !.deleted = TRUE]

\* syncWorkspaceEntriesForPaths over the tree of the tip, or of the checkout
\* of a publish; the rows are written one by one and a write may fail.
SyncEntries(o) ==
  LET paths == EntriesOf(IF op[o].kind = "publish" THEN op[o].seen ELSE dev) IN
  /\ At(o, "sync")
  /\ \/ /\ entry' = [e \in Entries |-> SyncedRow(e, paths)]
        /\ IF op[o].kind = "publish" THEN Go(o, "bundle") /\ UNCHANGED lock ELSE End(o, "ok")
     \/ /\ "faults" \in mode
        /\ \E some \in SUBSET Entries :
             entry' = [e \in Entries |-> IF e \in some THEN SyncedRow(e, paths) ELSE entry[e]]
        /\ End(o, "failed")
  /\ UNCHANGED <<mode, refs, sealed>>

-----------------------------------------------------------------------------
(* Checkouts, and what is built from them.                                 *)

\* checkoutRefToDirectory of dev; the package.json is read from it.  A preview
\* is of an active entry.
Checkout(o) ==
  /\ At(o, "checkout")
  /\ IF FilesOf(dev)[Manifest] = None \/ (op[o].kind = "preview" /\ Active = {})
     THEN End(o, "failed")
     ELSE Set(o, [op[o] EXCEPT !.step = "install", !.seen = dev]) /\ UNCHANGED lock
  /\ UNCHANGED <<mode, refs, entry, sealed>>

\* The entry is bundled and rendered, and a preview ends without a trace.
EndPreview(o) == \E result \in {"ok", "failed"} : End(o, result)

\* bun install: frozen, it fails on a lockfile of another manifest; deps sync
\* takes its new lockfile and commits it.
Install(o) ==
  LET x == op[o]  files == FilesOf(x.seen) IN
  /\ At(o, "install")
  /\ CASE x.kind = "depsSync" ->
            Set(o, [x EXCEPT !.step = "read", !.changes = Only(Lockfile, files[Manifest])]) /\ UNCHANGED lock
       [] x.kind # "depsSync" /\ files[Lockfile] # files[Manifest] -> End(o, "failed")
       [] x.kind = "preview" /\ files[Lockfile] = files[Manifest] -> EndPreview(o)
       [] x.kind = "publish" /\ files[Lockfile] = files[Manifest] ->
            IF EntriesOf(x.seen) = {} THEN End(o, "failed") ELSE Go(o, "sync") /\ UNCHANGED lock
  /\ UNCHANGED <<mode, refs, entry, sealed>>

\* Every active entry is bundled before any is sealed; sources may not compile.
BundleEntries(o) ==
  /\ At(o, "bundle")
  /\ \/ /\ Active \subseteq EntriesOf(op[o].seen)
        /\ Set(o, [op[o] EXCEPT !.step = "seal", !.left = Active]) /\ UNCHANGED lock
     \/ End(o, "failed")
  /\ UNCHANGED <<mode, refs, entry, sealed>>

\* One entry at a time its artifact is uploaded and its row points to it,
\* which is what Message acceptance renders from then on.
SealEntry(o, e) ==
  /\ At(o, "seal") /\ e \in op[o].left
  /\ Set(o, [op[o] EXCEPT !.left = @ \ {e}])
  /\ entry' = [entry EXCEPT ![e].artifact = op[o].seen]
  /\ sealed' = sealed \cup {<<e, op[o].seen>>}
  /\ UNCHANGED <<mode, lock, refs>>

\* main is read, compared with what was just read, and written.
AdvanceMain(o) ==
  /\ At(o, "seal") /\ op[o].left = {}
  /\ main' = op[o].seen
  /\ End(o, "ok")
  /\ UNCHANGED <<mode, commits, dev, entry, sealed>>

-----------------------------------------------------------------------------
\* A query, a storage request or a process fails, or the builder dies.  The
\* lock is released, unless the builder died or that fails too; an answer
\* that is lost may have taken it.
OperationFails(o) ==
  /\ "faults" \in mode /\ AtWork(o)
  /\ Rest(o, "failed")
  /\ lock' \in {lock, IF lock = o THEN None ELSE lock,
                IF At(o, "acquire") /\ lock = None THEN o ELSE lock}
  /\ UNCHANGED <<mode, refs, entry, sealed>>

OpStep(o) ==
  \/ Start(o) \/ Acquire(o) \/ Scaffold(o) \/ ReadTip(o) \/ CompareRef(o)
  \/ WriteRef(o) \/ SeedMain(o) \/ SyncEntries(o) \/ Checkout(o) \/ Install(o)
  \/ BundleEntries(o) \/ \E e \in Entries : SealEntry(o, e) \/ AdvanceMain(o)
  \/ OperationFails(o)

Next == LeaseLapses \/ \E o \in Ops : OpStep(o)

Spec == Init /\ [][Next]_vars

-----------------------------------------------------------------------------
(* Correctness.                                                            *)

\* No commit that was acknowledged disappears from dev, whatever fails or
\* dies beside it, as long as no operation outlives its lease
\* (git/commit.ts 62-116, git/refs.ts 45-104).
AcknowledgedCommitsStay ==
  "lapses" \notin mode => \A o \in Ops :
    (op[o].kind \in {"commitFiles", "depsSync"} /\ At(o, "ok")) => o \in LogOf(dev)

\* main is the starter tree or a commit every entry of which was sealed,
\* whatever fails or dies, as long as no operation outlives its lease: no
\* partly built tree is published (publish.ts 62-65: "advance main only on
\* full success").
PublishedWasSealed ==
  ("lapses" \notin mode /\ main \notin {0, 1}) => \A e \in EntriesOf(main) : <<e, main>> \in sealed

\* With nobody at work the active rows are the entries of dev, so that what
\* can be picked for a Template is what the author sees (ops/workspace.ts
\* 140-166, entries.ts 8-90).  A failure between the two is not repaired
\* before the next commit.
EntriesMirrorDev ==
  (mode = {} /\ lock = None /\ dev # 0) => Active = EntriesOf(dev)

Inv == TypeOK /\ EntriesMirrorDev /\ PublishedWasSealed
=============================================================================
