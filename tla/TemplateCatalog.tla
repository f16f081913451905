-------------------------- MODULE TemplateCatalog --------------------------
(***************************************************************************)
(* The Templates of a Project: apps/web lib/templating/catalog.server.ts,  *)
(* and how a Message finds its content (channels accept/content.ts).  A    *)
(* request is a sequence of queries without a transaction; between any two *)
(* of them the other requests and the author of the Workspace go on.       *)
(*                                                                         *)
(* A slug is <<base, n>>: the slugified name, or with n > 1 "base-n".  The *)
(* code reads the suffix as a floating-point number, exact up to MaxExact. *)
(***************************************************************************)
EXTENDS Naturals, FiniteSets, FiniteSetsExt

CONSTANTS
  Templates, Entries, Requests,
  Names,        \* slugified names
  MaxNumber,    \* the largest suffix of a slug
  MaxExact,     \* the largest number all of whose predecessors are exact: 2^53
  Versions,     \* versions of an artifact
  None

Slugs == Names \X (1..MaxNumber)

ASSUME CatalogAssumption ==
  /\ MaxNumber \in Nat /\ MaxExact \in 1..MaxNumber
  /\ None \notin Templates \cup Entries \cup Versions

VARIABLES
  template,   \* template rows
  variant,    \* template_channel_variant: the entry of the email channel
  entry,      \* templating_workspace_entry rows
  request,    \* the requests and what they have read
  disturbed   \* history: requests during or after which others wrote

catalog == <<template, variant, request>>

Kinds == {"create", "archive", "slug", "put", "send"}
\* unrendered: the link has no subject, or its artifact threw.
Ended == {"ok", "refused", "failed", "unrendered"}
Steps == {"idle", "load", "number", "insert", "archive", "taken", "rename",
          "entry", "link", "variant", "artifact"} \cup Ended

Row == [slug : Slugs, archived : BOOLEAN]
EntryRow == [deleted : BOOLEAN, artifact : Versions \cup {None}]
Request == [kind : Kinds, template : Templates \cup {None}, entry : Entries \cup {None},
            slug : Slugs, linked : Entries \cup {None}, step : Steps]

ASSUME RowsAssumption == None \notin Row \cup EntryRow \cup Request

CatalogTypeOK ==
  /\ template \in [Templates -> Row \cup {None}]
  /\ variant \in [Templates -> Entries \cup {None}]
  /\ entry \in [Entries -> EntryRow \cup {None}]
  /\ request \in [Requests -> Request \cup {None}]
  /\ disturbed \subseteq Requests

Exists(t) == template[t] # None
Active(t) == Exists(t) /\ ~template[t].archived
Taken(s) == \E t \in Templates : Active(t) /\ template[t].slug = s

\* Listed, not deleted, and with an artifact: what the picker offers, what a
\* link needs, and what a send renders.
Pickable(e) == entry[e] # None /\ ~entry[e].deleted /\ entry[e].artifact # None

At(r, kind, step) == request[r] # None /\ request[r].kind = kind /\ request[r].step = step
Go(r, step) == request' = [request EXCEPT ![r].step = step]

\* Whatever the other requests have read is from before this write.
Disturbs(r) == disturbed' = disturbed \cup {q \in Requests \ {r} : request[q] # None}

\* A person asks; the ids come from what their pages show.
Ask(r, kind, t, e, s) ==
  /\ request[r] = None
  /\ request' = [request EXCEPT ![r] =
       [kind |-> kind, template |-> t, entry |-> e, slug |-> s, linked |-> None, step |-> "load"]]
  /\ UNCHANGED <<template, variant, entry, disturbed>>

-----------------------------------------------------------------------------
(* createTemplateForProject.                                               *)

Numbers(name) == {template[t].slug[2] : t \in {u \in Templates : Active(u) /\ template[u].slug[1] = name}}

\* generateDbSlug: the base if no active Template has it.
TryBaseSlug(r) ==
  /\ At(r, "create", "load")
  /\ Go(r, IF Taken(request[r].slug) THEN "number" ELSE "insert")
  /\ UNCHANGED <<template, variant, entry, disturbed>>

\* One more than the largest suffix, as far as the arithmetic is exact; from
\* there on it rounds, and may give back a number that is there.
After(numbers) ==
  {n \in 1..MaxNumber : IF Max(numbers \cup {1}) < MaxExact THEN n = Max(numbers \cup {1}) + 1
                                                            ELSE n >= MaxExact}

\* Otherwise the next number, in a second query.
NumberSlug(r) ==
  /\ At(r, "create", "number")
  /\ \E n \in After(Numbers(request[r].slug[1])) :
       request' = [request EXCEPT ![r].step = "insert", ![r].slug = <<request[r].slug[1], n>>]
  /\ UNCHANGED <<template, variant, entry, disturbed>>

\* The unique index over the active slugs has the last word.
InsertTemplate(r) ==
  /\ At(r, "create", "insert")
  /\ IF Taken(request[r].slug)
     THEN Go(r, "failed") /\ UNCHANGED <<template, disturbed>>
     ELSE /\ Go(r, "ok") /\ Disturbs(r)
          /\ \E t \in Templates : /\ ~Exists(t)
               /\ template' = [template EXCEPT ![t] = [slug |-> request[r].slug, archived |-> FALSE]]
  /\ UNCHANGED <<variant, entry>>

-----------------------------------------------------------------------------
(* archiveTemplateForProject and updateTemplateSlugForProject.             *)

LoadForArchive(r) ==
  /\ At(r, "archive", "load")
  /\ Go(r, IF Active(request[r].template) THEN "archive" ELSE "ok")
  /\ UNCHANGED <<template, variant, entry, disturbed>>

\* The update asks again for an active row, and is acknowledged without one.
ArchiveTemplate(r) ==
  LET t == request[r].template IN
  /\ At(r, "archive", "archive")
  /\ template' = [template EXCEPT ![t].archived = TRUE]
  /\ Go(r, "ok") /\ Disturbs(r)
  /\ UNCHANGED <<variant, entry>>

LoadForSlug(r) ==
  LET t == request[r].template IN
  /\ At(r, "slug", "load")
  /\ Go(r, CASE ~Active(t) -> "refused"
             [] Active(t) /\ template[t].slug = request[r].slug -> "ok"
             [] OTHER -> "taken")
  /\ UNCHANGED <<template, variant, entry, disturbed>>

CheckSlug(r) ==
  /\ At(r, "slug", "taken")
  /\ Go(r, IF \E t \in Templates \ {request[r].template} : Active(t) /\ template[t].slug = request[r].slug
           THEN "refused" ELSE "rename")
  /\ UNCHANGED <<template, variant, entry, disturbed>>

\* Mutant: nothing but the query before keeps two Templates apart.
RenameUnchecked(r) ==
  LET t == request[r].template IN
  /\ At(r, "slug", "rename")
  /\ Go(r, "ok")
  /\ template' = IF Active(t) THEN [template EXCEPT ![t].slug = request[r].slug] ELSE template
  /\ Disturbs(r)
  /\ UNCHANGED <<variant, entry>>

\* A Template archived meanwhile is left as it is, with the same answer.
RenameTemplate(r) ==
  LET t == request[r].template
      others == \E u \in Templates \ {t} : Active(u) /\ template[u].slug = request[r].slug IN
  /\ At(r, "slug", "rename")
  /\ IF Active(t) /\ others THEN Go(r, "failed") /\ UNCHANGED <<template, disturbed>>
     ELSE /\ Go(r, "ok")
          /\ template' = IF Active(t) THEN [template EXCEPT ![t].slug = request[r].slug] ELSE template
          /\ Disturbs(r)
  /\ UNCHANGED <<variant, entry>>

-----------------------------------------------------------------------------
(* putReactEmailChannelForProject: pick an entry, change it, save a subject.*)

\* The variant is read with the Template.
LoadForPut(r) ==
  LET t == request[r].template IN
  /\ At(r, "put", "load")
  /\ request' = [request EXCEPT ![r].step = IF Active(t) THEN "entry" ELSE "refused",
                                ![r].linked = variant[t]]
  /\ UNCHANGED <<template, variant, entry, disturbed>>

CheckEntry(r) ==
  /\ At(r, "put", "entry")
  /\ Go(r, IF Pickable(request[r].entry) THEN "link" ELSE "refused")
  /\ UNCHANGED <<template, variant, entry, disturbed>>

\* An update by the id that was read, or an insert that the unique index of
\* Template and channel refuses the second time.
PutVariant(r) ==
  LET t == request[r].template IN
  /\ At(r, "put", "link")
  /\ IF request[r].linked = None /\ variant[t] # None
     THEN Go(r, "failed") /\ UNCHANGED <<variant, disturbed>>
     ELSE /\ variant' = [variant EXCEPT ![t] = request[r].entry]
          /\ Go(r, "ok") /\ Disturbs(r)
  /\ UNCHANGED <<template, entry>>

-----------------------------------------------------------------------------
(* prepareEmailContent, for a Message that names a Template.               *)

\* By id, or the active Template with the slug; an archived one is not found.
ResolveTemplate(r) ==
  LET found == {t \in Templates : /\ Active(t)
                  /\ IF request[r].template # None THEN t = request[r].template
                     ELSE template[t].slug = request[r].slug} IN
  /\ At(r, "send", "load")
  /\ \/ found = {} /\ Go(r, "refused")
     \/ \E t \in found :
          request' = [request EXCEPT ![r].step = "variant", ![r].template = t]
  /\ UNCHANGED <<template, variant, entry, disturbed>>

\* No variant, no Message.
LoadVariant(r) ==
  LET t == request[r].template IN
  /\ At(r, "send", "variant")
  /\ request' = [request EXCEPT ![r].step = IF variant[t] = None THEN "refused" ELSE "artifact",
                                ![r].linked = variant[t]]
  /\ UNCHANGED <<template, variant, entry, disturbed>>

\* Mutant: the link of a deleted entry still renders.
RenderAnyArtifact(r) ==
  LET e == request[r].linked IN
  /\ At(r, "send", "artifact")
  /\ Go(r, IF entry[e] # None /\ entry[e].artifact # None THEN "ok" ELSE "refused")
  /\ UNCHANGED <<template, variant, entry, disturbed>>

\* The sealed artifact of an entry that is not deleted is rendered, if the
\* link or the Message has a subject and the artifact does not throw.
RenderArtifact(r) ==
  /\ At(r, "send", "artifact")
  /\ IF Pickable(request[r].linked)
     THEN \E end \in {"ok", "unrendered"} : Go(r, end)
     ELSE Go(r, "refused")
  /\ UNCHANGED <<template, variant, entry, disturbed>>

RequestStep(r) ==
  \/ TryBaseSlug(r) \/ NumberSlug(r) \/ InsertTemplate(r)
  \/ LoadForArchive(r) \/ ArchiveTemplate(r)
  \/ LoadForSlug(r) \/ CheckSlug(r) \/ RenameTemplate(r)
  \/ LoadForPut(r) \/ CheckEntry(r) \/ PutVariant(r)
  \/ ResolveTemplate(r) \/ LoadVariant(r) \/ RenderArtifact(r)

-----------------------------------------------------------------------------
(* What the pages offer; they may be stale by the time it is done.         *)

Shown == {t \in Templates : Active(t)}
NoChange == CHOOSE s \in Slugs : TRUE

AskCreate(r) == \E n \in Names : Ask(r, "create", None, None, <<n, 1>>)
AskArchive(r) == \E t \in Shown : Ask(r, "archive", t, None, NoChange)
AskRename(r) == \E t \in Shown, s \in Slugs : Ask(r, "slug", t, None, s)

\* Pick an entry, change it, or save the subject of the one the page shows as
\* linked, which links it again.
AskLink(r) == \E t \in Shown, e \in {x \in Entries : entry[x] # None} : Ask(r, "put", t, e, NoChange)

\* A Message names a Template by id or by slug.
AskSend(r) ==
  \/ \E t \in {u \in Templates : Exists(u)} : Ask(r, "send", t, None, NoChange)
  \/ \E s \in Slugs : Ask(r, "send", None, None, s)

AskSomething(r) == AskCreate(r) \/ AskArchive(r) \/ AskRename(r) \/ AskLink(r) \/ AskSend(r)

-----------------------------------------------------------------------------
(* Correctness.                                                            *)

\* serializeTemplate: the "Broken link" badge.
Broken(t) == variant[t] # None /\ ~Pickable(variant[t])

\* Two active Templates of a Project never have one slug, whoever creates,
\* renames and archives beside (catalog.server.ts 133-330).
SlugsDiffer ==
  \A t, u \in Templates : (Active(t) /\ Active(u) /\ t # u) => template[t].slug # template[u].slug

\* A Template can be created under any name: as long as the suffixes people
\* typed are below MaxExact, the slug that is generated is free unless
\* another request wrote between its queries (slug.ts 23-73, "A unique slug
\* is generated automatically", create.tsx 98-101).
CreateFailsOnlyWhenRaced ==
  \A r \in Requests \ disturbed :
    At(r, "create", "failed") => request[r].slug[2] >= MaxExact

\* The badge tells the truth about links: a Message by the id of a Template
\* comes as far as its subject and its artifact exactly where the Template is
\* active, has an email channel and is not marked broken, if nobody wrote
\* meanwhile (catalog.server.ts 45-63, content.ts 72-236).  Two packages
\* compute the two; that the badge says nothing of a missing subject or of an
\* artifact that throws is so in the code.
SendsMatchTheBadge ==
  \A r \in Requests \ disturbed : \A t \in Templates :
    (request[r] # None /\ request[r].kind = "send" /\ request[r].template = t) =>
      /\ request[r].step \in {"ok", "unrendered"} => Active(t) /\ variant[t] # None /\ ~Broken(t)
      /\ request[r].step = "refused" => ~Active(t) \/ variant[t] = None \/ Broken(t)
=============================================================================
