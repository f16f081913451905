---------------------------- MODULE WorkspaceIde ----------------------------
(***************************************************************************)
(* The editor of the Email Workspace, apps/web components/templates/       *)
(* workspace/ide.tsx: one open tab, its requests and what their answers do *)
(* to its state, together with the Template catalog.  The builder's        *)
(* operations are single steps here, which its lock makes them             *)
(* (TemplateWorkspace); one that finds another at work may be refused.     *)
(*                                                                         *)
(* A version is the file it was typed for and a number: what New file and  *)
(* the bootstrap put has 0, what was there before 1, and numbers grow with *)
(* every edit, another author's being numbered when it is committed.       *)
(***************************************************************************)
EXTENDS TemplateCatalog

CONSTANTS
  Own,          \* the entry of the Template's slug, which create-new adds
  Subject,      \* the Template the editor was opened for
  LinkRequest,  \* the request of the tab's linkEntry
  Position,     \* of an entry in the lists, which are by path
  MaxEdits,     \* bound on the edits, in the tab and elsewhere
  MaxSwitches,  \* bound on the files that are opened
  MaxAtWork,    \* bound on the handlers of the tab at work
  Modes         \* what a behaviour has besides a patient author

Manifest == "package.json"
Files == Entries \cup {Manifest}
Version == [of : Files, n : 0..MaxEdits]

\* manage: the editor is opened to manage the files, otherwise to create the
\* email of the Subject; again: the entry of its slug is there; loading: the
\* author acts while the open file is still loading, or failed to; saving:
\* while an answer is awaited; slow: the bootstrap starts again under way;
\* others: somebody else works on the Workspace; templates: on the Template;
\* catalog: no editor is open at all.
ASSUME IdeAssumption ==
  /\ Manifest \notin Entries /\ None \notin Files
  /\ Own \in Entries /\ Subject \in Templates /\ LinkRequest \in Requests
  /\ Versions = Version /\ MaxEdits \in Nat \ {0} /\ MaxSwitches \in Nat /\ MaxAtWork \in Nat
  /\ Modes \subseteq SUBSET {"manage", "again", "loading", "saving", "slow", "failures", "others", "templates", "catalog"}
ASSUME ModesAssumption == \A m \in Modes : "catalog" \in m => m = {"catalog"}
ASSUME PositionAssumption == Position \in [Entries -> Nat]

VARIABLES
  mode,
  sought,     \* search.entryId
  file,       \* the tree of dev, without the lockfile
  locked,     \* the version of the manifest the lockfile was made from
  typed,      \* the edits so far
  opened,     \* the files opened so far
  boot,       \* the runs of the bootstrap effect
  bootstrapped,
  path,       \* activePath
  draft, dirty,
  loads,      \* reads of files under way
  loaded,     \* the last read of the open file was answered
  replaced,   \* history: New file put the starter over the open file, unread
  deps,       \* depsStatus
  html,       \* previewHtml: the version it shows
  running     \* save, preview, publish and new-file handlers at work

fixed == <<mode, sought>>
server == <<file, locked, entry, disturbed>>
boots == <<boot, bootstrapped>>
view == <<path, loads, loaded, html, opened, replaced>>
text == <<draft, dirty>>
vars == <<catalog, server, fixed, typed, boots, view, text, deps, running>>

\* search.intent.
intent == IF "manage" \in mode THEN "manage" ELSE "create-new"

Handlers == {"save", "preview", "publish", "new"}
\* path and draft as they were at the click; clean: nothing of it is left to
\* save; entry: the one a preview is of; link: the one create-new will link.
Handler == [kind : Handlers, path : Files, draft : Version, clean : BOOLEAN,
            entry : Entries \cup {None}, link : Entries \cup {None},
            step : {"commit", "committed", "refused", "sync", "synced", "unsynced",
                    "preview", "rendered", "publish", "published", "link", "failed"},
            got : Version \cup {None}]
\* missing: the list that was cached at the start lacks Own; live: not cancelled.
Boot == [step : {"start", "commit", "committed", "failed", "done"}, missing : BOOLEAN, live : BOOLEAN]
Load == [path : Files, got : Version \cup {None}, step : {"asked", "read", "failed"}]

ASSUME BootAssumption == None \notin Boot

TypeOK ==
  /\ CatalogTypeOK
  /\ mode \in Modes /\ sought \in Entries \cup {None}
  /\ file \in [Files -> Version \cup {None}]
  /\ locked \in Version
  /\ typed \in 1..MaxEdits /\ opened \in Nat
  /\ boot \in [1..2 -> Boot \cup {None}] /\ bootstrapped \in BOOLEAN
  /\ path \in Files \cup {None} /\ draft \in Version \cup {None}
  /\ dirty \in BOOLEAN /\ loaded \in BOOLEAN /\ replaced \in BOOLEAN
  /\ loads \subseteq Load
  /\ deps \in {"idle", "syncing", "error", "ok"}
  /\ html \in Version \cup {None}
  /\ running \subseteq Handler

Starter(p) == [of |-> p, n |-> 0]
Before(p) == [of |-> p, n |-> 1]

\* Only the page of a Template that is linked names an entry.
Init ==
  /\ mode \in Modes
  /\ file = [p \in Files |-> IF p = Own /\ mode \cap {"again", "catalog"} = {} THEN None ELSE Before(p)]
  /\ sought \in Entries \cup {None}
  /\ sought # None => "manage" \in mode /\ file[sought] # None
  /\ locked = Before(Manifest)
  /\ entry = [e \in Entries |-> IF file[e] = None THEN None
                ELSE [deleted |-> FALSE, artifact |-> IF e = Own THEN None ELSE Before(e)]]
  /\ template \in [Templates -> {[slug |-> s, archived |-> a] : s \in Slugs, a \in BOOLEAN} \cup {None}]
  /\ Active(Subject) /\ SlugsDiffer
  /\ template[Subject].slug[2] = 1
  /\ "catalog" \notin mode => \A t \in Templates \ {Subject} : template[t] = None
  /\ \E t \in Templates : ~Exists(t)
  /\ variant = [t \in Templates |-> None]
  /\ request = [r \in Requests |-> None] /\ disturbed = {}
  /\ typed = 1 /\ opened = 0
  /\ boot = [b \in 1..2 |-> None] /\ bootstrapped = FALSE
  /\ path = None /\ draft = None /\ dirty = FALSE /\ replaced = FALSE
  /\ loads = {} /\ loaded = FALSE
  /\ deps = "idle" /\ html = None
  /\ running = {}
-----------------------------------------------------------------------------
(* The builder, behind template.functions.ts.                              *)

WorkspaceChanged == disturbed' = disturbed \cup {q \in Requests : request[q] # None}

\* An operation that finds another at work is refused; a request may fail.
AtBuilder(h) == h.step \in {"commit", "sync", "preview", "publish"}
MayFail(others) ==
  \/ "failures" \in mode
  \/ \E h \in others : AtBuilder(h)
  \/ \E b \in 1..2 : boot[b] # None /\ boot[b].step = "commit"

\* commitFiles: the file, and the row of an entry minted, revived or deleted.
Commit(p, v) ==
  /\ file' = [file EXCEPT ![p] = v]
  /\ entry' = [e \in Entries |->
       IF e # p \/ (v = None /\ entry[e] = None) THEN entry[e]
       ELSE [deleted |-> v = None, artifact |-> IF entry[e] = None THEN None ELSE entry[e].artifact]]
  /\ WorkspaceChanged

Listed == {e \in Entries : entry[e] # None /\ ~entry[e].deleted}
First(entries) == {e \in entries : \A x \in entries : Position[e] <= Position[x]}

CanBuild == file[Manifest] = locked

\* Mutant: an entry that is live keeps its artifact.
PublishNew ==
  /\ CanBuild /\ Listed # {}
  /\ entry' = [e \in Entries |-> IF e \in Listed /\ entry[e].artifact = None
                                 THEN [entry[e] EXCEPT !.artifact = file[e]] ELSE entry[e]]
  /\ WorkspaceChanged

\* publish: needs the lockfile of the manifest and an entry, and seals all.
Publish ==
  /\ CanBuild /\ Listed # {}
  /\ entry' = [e \in Entries |-> IF e \in Listed THEN [entry[e] EXCEPT !.artifact = file[e]] ELSE entry[e]]
  /\ WorkspaceChanged

-----------------------------------------------------------------------------
(* Opening a file.                                                         *)

\* Mutant: the reads of the files that were open before are not cancelled.
OpenBesides(p) ==
  /\ path' = p
  /\ IF p = path THEN UNCHANGED <<loads, loaded, html, opened, replaced>>
     ELSE /\ loads' = loads \cup {[path |-> p, got |-> None, step |-> "asked"]}
          /\ loaded' = FALSE /\ html' = None /\ opened' = opened + 1 /\ replaced' = FALSE

\* setActivePath: the effects read the new file, cancel the read of the one
\* before, whose answer is dropped, and clear the preview.  What was typed
\* stays in the editor until the answer comes.
OpenFile(p) ==
  /\ path' = p
  /\ IF p = path THEN UNCHANGED <<loads, loaded, html, opened, replaced>>
     ELSE /\ loads' = {[path |-> p, got |-> None, step |-> "asked"]}
          /\ loaded' = FALSE /\ html' = None /\ opened' = opened + 1 /\ replaced' = FALSE

\* readWorkspaceFileFn.
ReadFile(l) ==
  /\ l.step = "asked"
  /\ \/ /\ file[l.path] # None
        /\ loads' = (loads \ {l}) \cup {[l EXCEPT !.step = "read", !.got = file[l.path]]}
     \/ /\ file[l.path] = None \/ "failures" \in mode
        /\ loads' = (loads \ {l}) \cup {[l EXCEPT !.step = "failed"]}
  /\ UNCHANGED <<path, loaded, html, opened, replaced, catalog, server, fixed, typed, boots, text, deps, running>>

\* The answer replaces the draft; a failure leaves it.
FileRead(l) ==
  /\ l.step \in {"read", "failed"}
  /\ loads' = loads \ {l}
  /\ IF l.step = "read"
     THEN /\ draft' = l.got /\ dirty' = FALSE /\ loaded' = TRUE
          /\ replaced' = (replaced /\ l.got # file[l.path])
     ELSE UNCHANGED <<loaded, replaced, text>>
  /\ UNCHANGED <<path, html, opened, catalog, server, fixed, typed, boots, deps, running>>

-----------------------------------------------------------------------------
(* The bootstrap effect.                                                   *)

SetBoot(b, step) == boot' = [boot EXCEPT ![b].step = step]

\* The effect runs, and runs again when a query it depends on is answered:
\* the first run is cancelled, which its requests do not know.
StartBoot(b) ==
  /\ "catalog" \notin mode /\ boot[b] = None /\ ~bootstrapped
  /\ IF b = 1 THEN TRUE ELSE "slow" \in mode /\ boot[1] # None
  /\ boot' = [c \in 1..2 |->
       IF c = b THEN [step |-> "start", missing |-> file[Own] = None, live |-> TRUE]
       ELSE IF boot[c] = None THEN None ELSE [boot[c] EXCEPT !.live = FALSE]]
  /\ UNCHANGED <<bootstrapped, catalog, server, fixed, typed, view, text, deps, running>>

\* A run that was not cancelled opens its file and is the last.
EndBoot(b, p) ==
  /\ SetBoot(b, "done")
  /\ IF boot[b].live THEN bootstrapped' = TRUE ELSE UNCHANGED bootstrapped
  /\ IF boot[b].live /\ p # None THEN OpenFile(p)
     ELSE UNCHANGED view

\* The file list may be the cached one: create-new adds the entry of the
\* Template's slug where the list lacks it, manage opens the entry it was
\* opened for, if the entries were there in time, or else the first one.
BootListed(b) ==
  /\ boot[b] # None /\ boot[b].step = "start"
  /\ \/ /\ intent = "create-new"
        /\ \E missing \in {boot[b].missing, file[Own] = None} :
             IF missing THEN SetBoot(b, "commit") /\ UNCHANGED <<bootstrapped, view>>
             ELSE EndBoot(b, Own)
     \/ /\ intent = "manage"
        /\ \E e \in ({sought} \ {None}) \cup First({x \in Entries : file[x] # None}) : EndBoot(b, e)
     \/ "failures" \in mode /\ EndBoot(b, None)
  /\ UNCHANGED <<catalog, server, fixed, typed, text, deps, running>>

BootCommitted(b) ==
  /\ boot[b] # None /\ boot[b].step = "commit"
  /\ \/ Commit(Own, Starter(Own)) /\ SetBoot(b, "committed")
     \/ /\ \/ "failures" \in mode
           \/ \E h \in running : AtBuilder(h)
           \/ \E c \in 1..2 \ {b} : boot[c] # None /\ boot[c].step = "commit"
        /\ SetBoot(b, "failed") /\ UNCHANGED <<file, entry, disturbed>>
  /\ UNCHANGED <<locked, bootstrapped, catalog, fixed, typed, view, text, deps, running>>

BootAnswered(b) ==
  /\ boot[b] # None /\ boot[b].step \in {"committed", "failed"}
  /\ EndBoot(b, IF boot[b].step = "committed" THEN Own ELSE None)
  /\ UNCHANGED <<catalog, server, fixed, typed, text, deps, running>>

BootStep(b) == StartBoot(b) \/ BootListed(b) \/ BootCommitted(b) \/ BootAnswered(b)

-----------------------------------------------------------------------------
(* The author.                                                             *)

\* After the link the editor is gone.
Left == path = None /\ opened > 0
Ready == ~Left /\ (bootstrapped \/ "loading" \in mode)
Waits == running = {} \/ "saving" \in mode
\* One edit fewer where the interleavings are the most.
MayType == typed < IF mode \cap {"loading", "saving"} = {} THEN MaxEdits ELSE MaxEdits - 1
Sees == path # None /\ draft # None /\ ((loaded /\ loads = {}) \/ "loading" \in mode)

Edit ==
  /\ Sees /\ Waits /\ MayType
  /\ typed' = typed + 1
  /\ draft' = [draft EXCEPT !.n = typed + 1] /\ dirty' = TRUE
  /\ UNCHANGED <<catalog, server, fixed, boots, view, deps, running>>

\* A click in the tree; nothing asks about unsaved edits.
Select(p) ==
  /\ Ready /\ p # path /\ file[p] # None /\ Waits /\ opened < MaxSwitches
  /\ OpenFile(p)
  /\ UNCHANGED <<catalog, server, fixed, typed, boots, text, deps, running>>

\* activeEntry: the first in the list that is open or that the editor was
\* opened for, which may be another one than what is open.
Click(kind) ==
  LET first == IF kind # "save" /\ ~dirty THEN kind ELSE "commit" IN
  /\ Sees /\ Waits /\ Cardinality(running) < MaxAtWork
  /\ kind = "preview" => ~ \E h \in running : h.step = "preview"
  /\ kind = "publish" => deps \notin {"syncing", "error"} /\ ~ \E h \in running : h.step = "publish"
  /\ \E e \in IF kind = "preview" THEN First(Listed \cap {path, sought}) ELSE {None} :
       running' = running \cup {[kind |-> kind, path |-> path, draft |-> draft, clean |-> ~dirty,
                                 entry |-> e, link |-> None, step |-> first, got |-> None]}
  /\ UNCHANGED <<catalog, server, fixed, typed, boots, view, text, deps>>

\* The new-file dialog commits the starter to any path, of a file that exists
\* and of the open one as well.
NewFile(p) ==
  /\ Ready /\ Waits /\ Cardinality(running) < MaxAtWork /\ opened < MaxSwitches
  /\ running' = running \cup {[kind |-> "new", path |-> p, draft |-> Starter(p), clean |-> TRUE,
                              entry |-> None, link |-> None, step |-> "commit", got |-> None]}
  /\ UNCHANGED <<catalog, server, fixed, typed, boots, view, text, deps>>
-----------------------------------------------------------------------------
(* What the handlers do with their answers.                                *)

Goes(h, x) == running' = (running \ {h}) \cup {x}
Ends(h) == running' = running \ {h}

\* After the save of a preview or a publish comes what was asked for.
Continues(h, clean) ==
  IF h.kind \in {"save", "new"} THEN Ends(h)
  ELSE Goes(h, [h EXCEPT !.step = h.kind, !.clean = clean])

BuilderCommits(h) ==
  /\ h.step = "commit"
  /\ Commit(h.path, h.draft)
  /\ replaced' = IF h.path = path THEN h.kind = "new" ELSE replaced
  /\ Goes(h, [h EXCEPT !.step = "committed"])
  /\ UNCHANGED <<catalog, locked, fixed, typed, boots, path, loads, loaded, html, opened, text, deps>>

BuilderSyncs(h) ==
  /\ h.step = "sync"
  /\ locked' = file[Manifest]
  /\ Goes(h, [h EXCEPT !.step = "synced"])
  /\ UNCHANGED <<catalog, file, entry, disturbed, fixed, typed, boots, view, text, deps>>

\* The preview renders dev; it needs the lockfile of the manifest.
BuilderPreviews(h) ==
  /\ h.step = "preview" /\ CanBuild /\ h.entry \in Listed
  /\ Goes(h, [h EXCEPT !.step = "rendered", !.got = file[h.entry]])
  /\ UNCHANGED <<catalog, server, fixed, typed, boots, view, text, deps>>

\* The answer lists the entries: the open one is linked, or else the first.
BuilderPublishes(h) ==
  /\ h.step = "publish" /\ Publish
  /\ \E e \in Listed :
       /\ h.path \in Listed => e = h.path
       /\ Goes(h, [h EXCEPT !.step = "published", !.link = e])
  /\ UNCHANGED <<catalog, file, locked, fixed, typed, boots, view, text, deps>>

\* What the builder refuses, and what fails.
BuilderRefuses(h) ==
  /\ AtBuilder(h)
  /\ \/ MayFail(running \ {h})
     \/ h.step \in {"preview", "publish"} /\ ~(CanBuild /\ Listed # {})
     \/ h.step = "preview" /\ h.entry \notin Listed
  /\ Goes(h, [h EXCEPT !.step = CASE h.step = "commit" -> "refused"
                                  [] h.step = "sync" -> "unsynced"
                                  [] OTHER -> "failed"])
  /\ UNCHANGED <<catalog, server, fixed, typed, boots, view, text, deps>>

\* Mutant: the editor is clean whatever became of the commit.
SavedAnyway(h) ==
  /\ h.step \in {"committed", "refused"} /\ h.kind # "new"
  /\ dirty' = FALSE
  /\ IF h.path = Manifest
     THEN deps' = "syncing" /\ Goes(h, [h EXCEPT !.step = "sync", !.clean = TRUE])
     ELSE Continues(h, TRUE) /\ UNCHANGED deps
  /\ UNCHANGED <<catalog, server, fixed, typed, boots, view, draft>>

\* handleSave: the editor is clean again, whatever is in it by now; a
\* manifest has its dependencies synced.  A save that failed is reported and
\* swallowed: what asked for it goes on.
Saved(h) ==
  /\ h.step \in {"committed", "refused"} /\ h.kind # "new"
  /\ IF h.step = "refused"
     THEN Continues(h, FALSE) /\ UNCHANGED <<dirty, deps>>
     ELSE /\ dirty' = FALSE
          /\ IF h.path = Manifest
             THEN deps' = "syncing" /\ Goes(h, [h EXCEPT !.step = "sync", !.clean = TRUE])
             ELSE Continues(h, TRUE) /\ UNCHANGED deps
  /\ UNCHANGED <<catalog, server, fixed, typed, boots, view, draft>>

DepsSynced(h) ==
  /\ h.step \in {"synced", "unsynced"}
  /\ deps' = IF h.step = "synced" THEN "ok" ELSE "error"
  /\ Continues(h, h.clean)
  /\ UNCHANGED <<catalog, server, fixed, typed, boots, view, text>>

\* The new file is opened, whatever is open by now.
FileCreated(h) ==
  /\ h.kind = "new" /\ h.step \in {"committed", "refused"}
  /\ IF h.step = "committed" /\ ~Left THEN OpenFile(h.path) ELSE UNCHANGED view
  /\ Ends(h)
  /\ UNCHANGED <<catalog, server, fixed, typed, boots, text, deps>>

\* The preview is shown, whatever is open by now.
Previewed(h) ==
  /\ h.kind = "preview" /\ h.step \in {"rendered", "failed"}
  /\ html' = IF h.step = "rendered" /\ path # None THEN h.got ELSE html
  /\ Ends(h)
  /\ UNCHANGED <<catalog, server, fixed, typed, boots, path, loads, loaded, opened, replaced, text, deps>>

\* create-new links what was published to its Template.
Published(h) ==
  /\ h.kind = "publish" /\ h.step \in {"published", "failed"}
  /\ IF h.step = "published" /\ intent = "create-new"
     THEN /\ request' = [request EXCEPT ![LinkRequest] =
                 [kind |-> "put", template |-> Subject, entry |-> h.link,
                  slug |-> template[Subject].slug, linked |-> None, step |-> "load"]]
          /\ Goes(h, [h EXCEPT !.step = "link"])
     ELSE Ends(h) /\ UNCHANGED request
  /\ UNCHANGED <<template, variant, server, fixed, typed, boots, view, text, deps>>

\* Linked: the editor is left for the page of the Template.
Linked(h) ==
  /\ h.step = "link" /\ request[LinkRequest].step \in Ended
  /\ Ends(h)
  /\ IF request[LinkRequest].step = "ok"
     THEN /\ path' = None /\ draft' = None /\ dirty' = FALSE
          /\ loads' = {} /\ loaded' = FALSE /\ html' = None /\ replaced' = FALSE /\ UNCHANGED opened
     ELSE UNCHANGED <<view, text>>
  /\ UNCHANGED <<catalog, server, fixed, typed, boots, deps>>

HandlerStep(h) ==
  \/ BuilderCommits(h) \/ BuilderSyncs(h) \/ BuilderPreviews(h) \/ BuilderPublishes(h)
  \/ BuilderRefuses(h) \/ Saved(h) \/ DepsSynced(h) \/ FileCreated(h)
  \/ Previewed(h) \/ Published(h) \/ Linked(h)

-----------------------------------------------------------------------------
(* Everybody else.                                                         *)

Elsewhere == mode \cap {"others", "catalog"} # {}

\* Another author commits an entry, whatever the tab shows of it by then.
OtherCommit ==
  /\ "others" \in mode /\ MayType
  /\ typed' = typed + 1
  /\ \E e \in Entries : Commit(e, [of |-> e, n |-> typed + 1])
  /\ UNCHANGED <<catalog, locked, fixed, boots, view, text, deps, running>>

\* No page deletes a file, but the server function does.
DeleteOrRestore ==
  /\ "catalog" \in mode
  /\ \E e \in Entries : Commit(e, IF file[e] = None THEN Before(e) ELSE None)
  /\ UNCHANGED <<catalog, locked, fixed, typed, boots, view, text, deps, running>>

OtherPublish ==
  /\ Elsewhere /\ Publish
  /\ UNCHANGED <<catalog, file, locked, fixed, typed, boots, view, text, deps, running>>

\* Anything may be asked where no editor is open; beside the editor its
\* Template is archived or linked.
OtherRequest(r) ==
  /\ \/ "catalog" \in mode /\ AskSomething(r)
     \/ /\ "templates" \in mode /\ r # LinkRequest /\ Active(Subject)
        /\ \/ Ask(r, "archive", Subject, None, template[Subject].slug)
           \/ \E e \in Listed : Ask(r, "put", Subject, e, template[Subject].slug)
  /\ UNCHANGED <<file, locked, fixed, typed, boots, view, text, deps, running>>

Next ==
  \/ \E b \in 1..2 : BootStep(b)
  \/ \E l \in loads : ReadFile(l) \/ FileRead(l)
  \/ Edit \/ \E p \in Files : Select(p) \/ NewFile(p)
  \/ \E kind \in Handlers \ {"new"} : Click(kind)
  \/ \E h \in running : HandlerStep(h)
  \/ OtherCommit \/ DeleteOrRestore \/ OtherPublish
  \/ \E r \in Requests : OtherRequest(r)
  \/ \E r \in Requests : RequestStep(r) /\ UNCHANGED <<file, locked, fixed, typed, boots, view, text, deps, running>>

Spec == Init /\ [][Next]_vars

-----------------------------------------------------------------------------
(* Correctness.                                                            *)

\* Work is never stored over another file: as long as the author waits for
\* the open file to load, every file holds what was typed for it, however
\* reads, saves, previews and switches cross (ide.tsx 314-351, 377-404).
SavedWhereTyped ==
  "loading" \notin mode => \A p \in Files : file[p] # None => file[p].of = p

\* An editor that does not say "Unsaved" has nothing to lose: what it shows,
\* or something newer, is in dev, also after saves that failed; where the
\* author does not act while an answer is awaited.  The one thing that makes
\* it untrue is New file with the path of the file that is open, which puts
\* the starter over it and reads nothing again (ide.tsx 377-404, 630-674).
CleanIsSaved ==
  (/\ mode \cap {"loading", "saving", "slow"} = {}
   /\ path # None /\ loaded /\ ~dirty /\ ~replaced /\ running = {} /\ file[path] # None)
    => file[path].n >= draft.n

\* "Published" means that what the author saw is live, unless its save had
\* been refused or New file had replaced it (ide.tsx 456-514, 630-674).
PublishedIsSaved ==
  mode \cap {"loading", "saving", "slow"} = {} =>
    \A h \in running :
      (h.step = "published" /\ h.clean /\ ~replaced /\ h.link = h.path) => entry[h.path].artifact.n >= h.draft.n

\* The preview is of the open file or of the entry that the editor was opened
\* for, never of another, unless the author switched while it was being
\* rendered (ide.tsx 138-142, 297-306, 412-454).
PreviewIsOfOpenOrLinked ==
  (mode \cap {"loading", "saving"} = {} /\ html # None) => html.of \in {path, sought}

Inv == TypeOK /\ SlugsDiffer /\ CreateFailsOnlyWhenRaced /\ PreviewIsOfOpenOrLinked
=============================================================================
