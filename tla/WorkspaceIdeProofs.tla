------------------------- MODULE WorkspaceIdeProofs -------------------------
(***************************************************************************)
(* Proofs about the editor of the Email Workspace and the Template         *)
(* catalog, for any Templates, Entries, Names and Requests,                *)
(* any bounds and any Modes.                                               *)
(***************************************************************************)
EXTENDS WorkspaceIde, FiniteSetTheorems, WellFoundedInduction, TLAPS

-----------------------------------------------------------------------------
(* The inductive invariant: the catalog.                                   *)

\* The Template that a request works on.
Target(r) == request[r].template

\* Whoever archives, renames or links knows a Template by its id, and rows
\* never go away.
WellAsked ==
  /\ Exists(Subject)
  /\ \A r \in Requests : request[r] # None =>
       /\ request[r].kind \in {"archive", "slug", "put"} =>
            Target(r) \in Templates /\ Exists(Target(r))
       /\ (request[r].kind = "send" /\ request[r].step \in {"variant", "artifact"}) =>
            Target(r) \in Templates

\* A slug is free when it is generated, until somebody else writes, unless
\* its number was rounded.
FreeUnlessRaced ==
  \A r \in Requests \ disturbed :
    At(r, "create", "insert") => ~Taken(request[r].slug) \/ request[r].slug[2] >= MaxExact

\* What a send has read is as it was, until somebody else writes.
Informed(y) ==
  /\ y.step \in {"variant", "artifact", "ok", "unrendered"} => y.template \in Templates /\ Active(y.template)
  /\ y.step \in {"artifact", "ok", "unrendered"} =>
       y.linked = variant[y.template] /\ variant[y.template] # None
  /\ y.step \in {"ok", "unrendered"} => Pickable(variant[y.template])
  /\ (y.step = "refused" /\ y.template \in Templates) =>
       ~Active(y.template) \/ variant[y.template] = None \/ Broken(y.template)
SendsInformed ==
  \A r \in Requests \ disturbed :
    (request[r] # None /\ request[r].kind = "send") => Informed(request[r])

-----------------------------------------------------------------------------
(* The inductive invariant: the editor.                                    *)

\* Where requests of every kind are made, no editor is open.
EditorOrCatalog ==
  /\ "catalog" \in mode => /\ path = None /\ loads = {} /\ running = {} /\ ~bootstrapped
                           /\ \A b \in 1..2 : boot[b] = None
  /\ "catalog" \notin mode =>
       \A r \in Requests : request[r] # None => request[r].kind \in {"archive", "put"}

\* An entry is listed while its file exists, and what the editor has open, is
\* about to open or was opened for exists.
FilesExist ==
  /\ file[Manifest] # None
  /\ \A e \in Entries : (e \in Listed) <=> (file[e] # None)
  /\ path # None => file[path] # None
  /\ sought # None => file[sought] # None /\ "catalog" \notin mode
  /\ \A b \in 1..2 :
       (boot[b] # None /\ (~boot[b].missing \/ boot[b].step = "committed")) => file[Own] # None
  /\ \A h \in running : (h.kind = "new" /\ h.step = "committed") => file[h.path] # None

\* At most one run of the bootstrap may still open a file, and until one has,
\* there is no open file and nothing at work, if the author waits for it.
Boots ==
  /\ boot[2] # None => boot[1] # None /\ ~boot[1].live
  /\ \A b \in 1..2 : (boot[b] # None /\ boot[b].live /\ boot[b].step # "done") => ~bootstrapped
  /\ (~bootstrapped /\ "loading" \notin mode) => path = None /\ loads = {} /\ running = {} /\ ~loaded
  /\ "slow" \notin mode =>
       /\ boot[2] = None
       /\ boot[1] # None => boot[1].live

\* Nothing is read, shown, edited or saved for another file than its own; a
\* preview may be of the entry that the editor was opened for.
WhereTyped ==
  /\ \A l \in loads : loads = {l} /\ l.path = path /\ (l.step = "read" => l.got # None)
  /\ \A h \in running : h.entry # None => h.entry \in {h.path, sought}
  /\ "loading" \notin mode =>
       /\ \A p \in Files : file[p] # None => file[p].of = p
       /\ \A l \in loads : l.step = "read" => l.got.of = l.path
       /\ loaded => draft # None /\ draft.of = path
       /\ \A h \in running :
            h.draft.of = h.path /\ (h.got # None => h.got.of \in {h.path, sought})

\* A new file is created in one request.  An author who waits for every
\* answer has one handler at work, and the file it was started for stays open.
OneHandler ==
  /\ \A h \in running : h.kind = "new" => h.step \in {"commit", "committed", "refused"}
  /\ "saving" \notin mode => \A h \in running : running = {h}
  /\ mode \cap {"loading", "saving"} = {} => \A h \in running : h.kind # "new" => h.path = path

\* Numbers are given out in order.
Numbered ==
  /\ \A p \in Files : file[p] # None => file[p].n <= typed
  /\ draft # None => draft.n <= typed
  /\ \A l \in loads : l.got # None => l.got.n <= typed
  /\ \A h \in running : h.draft.n <= typed

\* What a patient author sees: dev is not behind an editor that is clean, nor
\* behind the draft of a handler that has saved it.
InDev == file[path].n >= draft.n
Live(h) == /\ entry[h.path] # None /\ entry[h.path].artifact # None
           /\ entry[h.path].artifact.n >= h.draft.n
Patient ==
  mode \cap {"loading", "saving", "slow"} = {} =>
    /\ \A l \in loads : ~loaded /\ ((l.step = "read" /\ ~replaced) => file[path].n >= l.got.n)
    /\ (path # None /\ loaded /\ ~dirty /\ ~replaced) => InDev
    /\ \A h \in running : h.kind # "new" =>
         /\ path # None /\ loaded /\ loads = {} /\ h.draft = draft
         /\ ((h.clean /\ ~replaced) \/ h.step = "committed") => InDev
         /\ (h.step = "published" /\ h.clean /\ ~replaced /\ h.link = h.path) => Live(h)

CatalogInv == CatalogTypeOK /\ WellAsked /\ SlugsDiffer /\ FreeUnlessRaced
              /\ CreateFailsOnlyWhenRaced /\ SendsInformed
EditorInv == /\ EditorOrCatalog /\ FilesExist /\ Boots /\ WhereTyped /\ OneHandler
             /\ PreviewIsOfOpenOrLinked /\ Numbered /\ Patient

IInv == TypeOK /\ CatalogInv /\ EditorInv

-----------------------------------------------------------------------------
(* The catalog: slugs and numbers.                                         *)

USE CatalogAssumption, RowsAssumption, IdeAssumption

\* A set of numbers that is not empty and does not exceed n has a largest one.
LEMMA Largest ==
  ASSUME NEW n \in Nat, NEW S \in SUBSET (0..n), S # {}
  PROVE  Max(S) \in S /\ \A i \in S : i <= Max(S)
<1>. DEFINE less == {ss \in Nat \X Nat : ss[1] < ss[2]}
            T == {n - i : i \in S}
<1>1. OpToRel(<, Nat) = less
  BY DEF OpToRel
<1>2. IsWellFoundedOn(OpToRel(<, Nat), Nat)
  BY NatLessThanWellFounded
<1>3. IsWellFoundedOn(less, Nat)
  BY <1>1, <1>2, Zenon
<1>4. T \in SUBSET Nat /\ T # {}
  <2>1. \A i \in S : i \in 0..n /\ n - i \in Nat
    OBVIOUS
  <2>2. T \in SUBSET Nat
    BY <2>1
  <2>3. PICK i \in S : TRUE
    OBVIOUS
  <2>4. n - i \in T
    BY <2>3
  <2>. QED
    BY <2>2, <2>4
<1>5. PICK k \in T : \A j \in T : <<j, k>> \notin less
  <2>. HIDE DEF T, less
  <2>. QED
    BY <1>3, <1>4, WFMin
<1>6. \A j \in T : ~(j < k)
  BY <1>4, <1>5
<1>7. PICK i \in S : k = n - i
  BY <1>5
<1>8. \A j \in S : j <= i
  <2>. TAKE j \in S
  <2>1. n - j \in T
    OBVIOUS
  <2>2. ~(n - j < n - i)
    BY <1>6, <1>7, <2>1
  <2>3. i \in 0..n /\ j \in 0..n
    OBVIOUS
  <2>. QED
    BY <2>2, <2>3
<1>. QED
  BY <1>8 DEF Max

\* What a request is, part by part.
LEMMA RequestTyped ==
  ASSUME CatalogTypeOK, NEW r \in Requests, request[r] # None
  PROVE  /\ request[r] \in Request
         /\ request[r].kind \in Kinds /\ request[r].step \in Steps
         /\ request[r].template \in Templates \cup {None}
         /\ request[r].entry \in Entries \cup {None} /\ request[r].linked \in Entries \cup {None}
         /\ request[r].slug \in Slugs /\ request[r].slug[1] \in Names
         /\ request[r].slug[2] \in 1..MaxNumber
<1>1. request[r] \in Request
  BY DEF CatalogTypeOK
<1>. QED
  BY <1>1 DEF Request, Slugs

\* What a row is, part by part.
LEMMA RowTyped ==
  ASSUME CatalogTypeOK, NEW t \in Templates, Exists(t)
  PROVE  /\ template[t] \in Row /\ template[t].slug \in Slugs /\ template[t].archived \in BOOLEAN
         /\ template[t].slug[1] \in Names /\ template[t].slug[2] \in 1..MaxNumber
<1>1. template[t] \in Row
  BY DEF CatalogTypeOK, Exists
<1>. QED
  BY <1>1 DEF Row, Slugs

-----------------------------------------------------------------------------
(* The catalog: how a request goes on.                                     *)

\* A request reads and goes on to y; what it read is so.
Reads(r, y) ==
  /\ y \in Request /\ request' = [request EXCEPT ![r] = y]
  /\ UNCHANGED <<template, variant, entry, disturbed>>
  /\ y.kind = request[r].kind
  /\ y.kind # "send" => y.template = request[r].template
  /\ (y.kind = "send" /\ y.step \in {"variant", "artifact"}) => y.template \in Templates
  /\ (y.kind = "create" /\ y.step = "insert") => ~Taken(y.slug) \/ y.slug[2] >= MaxExact
  /\ (y.kind = "create" /\ y.step = "failed") => r \in disturbed \/ y.slug[2] >= MaxExact
  /\ (y.kind = "send" /\ r \notin disturbed) => Informed(y)

\* A request writes and is done; no two active Templates get one slug.
Writes(r) ==
  /\ request[r].kind # "send"
  /\ \E y \in Request : /\ y = [request[r] EXCEPT !.step = "ok"]
                        /\ request' = [request EXCEPT ![r] = y]
  /\ Disturbs(r) /\ UNCHANGED entry
  /\ template' \in [Templates -> Row \cup {None}]
  /\ variant' \in [Templates -> Entries \cup {None}]
  /\ \A t \in Templates : Exists(t) => template'[t] # None
  /\ SlugsDiffer'

\* Going on to a step that is not one of a slug or of a send tells nothing.
LEMMA GoesOn ==
  ASSUME CatalogInv, NEW r \in Requests, NEW kind, NEW step, At(r, kind, step),
         NEW next \in Steps, Go(r, next),
         kind # "create", kind # "send",
         UNCHANGED <<template, variant, entry, disturbed>>
  PROVE  \E y : Reads(r, y)
<1>1. request[r] # None /\ request[r].kind = kind /\ request \in [Requests -> Request \cup {None}]
  BY DEF At, CatalogInv, CatalogTypeOK
<1>2. request[r] \in Request
  BY <1>1
<1>3. PICK y : y = [request[r] EXCEPT !.step = next]
  OBVIOUS
<1>4. /\ y \in Request /\ y.kind = kind /\ y.template = request[r].template
      /\ y.slug = request[r].slug
  BY <1>1, <1>2, <1>3 DEF Request
<1>5. request' = [request EXCEPT ![r] = y]
  BY <1>1, <1>3 DEF Go
<1>6. Reads(r, y)
  BY <1>1, <1>4, <1>5 DEF Reads
<1>. QED
  BY <1>6

\* generateDbSlug finds a free slug.
LEMMA BaseIsFree ==
  ASSUME CatalogInv, NEW r \in Requests, TryBaseSlug(r)
  PROVE  \E y : Reads(r, y)
<1>1. /\ request[r] # None /\ request[r].kind = "create" /\ request[r].step = "load"
      /\ request \in [Requests -> Request \cup {None}]
  BY DEF TryBaseSlug, At, CatalogInv, CatalogTypeOK
<1>2. request[r] \in Request
  BY <1>1
<1>3. PICK next \in {"number", "insert"} :
        next = IF Taken(request[r].slug) THEN "number" ELSE "insert"
  OBVIOUS
<1>4. PICK y : y = [request[r] EXCEPT !.step = next]
  OBVIOUS
<1>5. /\ y \in Request /\ y.kind = "create" /\ y.template = request[r].template
      /\ y.slug = request[r].slug /\ y.step = next
  BY <1>1, <1>2, <1>4 DEF Request, Steps
<1>6. request' = [request EXCEPT ![r] = y] /\ UNCHANGED <<template, variant, entry, disturbed>>
  BY <1>1, <1>3, <1>4 DEF TryBaseSlug, Go
<1>7. Reads(r, y)
  BY <1>1, <1>3, <1>5, <1>6 DEF Reads
<1>. QED
  BY <1>7

LEMMA NumberIsFree ==
  ASSUME CatalogInv, NEW r \in Requests, NumberSlug(r)
  PROVE  \E y : Reads(r, y)
<1>1. /\ request[r] # None /\ request[r].kind = "create" /\ request[r].step = "number"
      /\ CatalogTypeOK
  BY DEF NumberSlug, At, CatalogInv
<1>2. /\ request[r] \in Request /\ request[r].slug[1] \in Names
  BY <1>1, RequestTyped
<1>3. PICK name \in Names : name = request[r].slug[1]
  BY <1>2
<1>4. PICK S : S = Numbers(name) \cup {1}
  OBVIOUS
<1>5. \A t \in Templates : Active(t) => template[t].slug[2] \in 0..MaxNumber
  BY <1>1, RowTyped DEF Active
<1>6. S \in SUBSET (0..MaxNumber) /\ S # {}
  BY <1>4, <1>5 DEF Numbers
<1>7. PICK k : k = Max(S)
  OBVIOUS
<1>8. k \in S /\ \A i \in S : i <= k
  BY <1>6, <1>7, Largest
<1>9. k \in 0..MaxNumber
  BY <1>6, <1>8
<1>10. PICK n \in After(Numbers(name)) :
         /\ request' = [request EXCEPT ![r].step = "insert", ![r].slug = <<name, n>>]
         /\ UNCHANGED <<template, variant, entry, disturbed>>
  BY <1>3 DEF NumberSlug
<1>11. n \in 1..MaxNumber /\ IF k < MaxExact THEN n = k + 1 ELSE n >= MaxExact
  BY <1>4, <1>7, <1>10 DEF After
<1>12. PICK slug : slug = <<name, n>>
  OBVIOUS
<1>13. slug \in Slugs /\ slug[1] = name /\ slug[2] = n
  BY <1>11, <1>12 DEF Slugs
<1>14. ~Taken(slug) \/ slug[2] >= MaxExact
  <2>. SUFFICES ASSUME NEW t \in Templates, Active(t), template[t].slug = slug, k < MaxExact
                PROVE  FALSE
    BY <1>11, <1>13, <1>9 DEF Taken
  <2>1. n \in Numbers(name)
    BY <1>13 DEF Numbers
  <2>2. n \in S /\ n = k + 1
    BY <1>4, <1>11, <2>1
  <2>. QED
    BY <1>8, <1>9, <2>2
<1>15. PICK y : y = [request[r] EXCEPT !.step = "insert", !.slug = slug]
  OBVIOUS
<1>16. /\ y \in Request /\ y.kind = "create" /\ y.template = request[r].template
       /\ y.slug = slug /\ y.step = "insert"
  BY <1>1, <1>2, <1>13, <1>15 DEF Request, Steps
<1>17. request' = [request EXCEPT ![r] = y]
  BY <1>1, <1>10, <1>12, <1>15 DEF CatalogTypeOK
<1>18. Reads(r, y)
  BY <1>1, <1>10, <1>14, <1>16, <1>17 DEF Reads
<1>. QED
  BY <1>18

\* What a request is that writes, before and after.
LEMMA WrittenTyped ==
  ASSUME CatalogInv, NEW r \in Requests, NEW kind, NEW step, At(r, kind, step), Go(r, "ok")
  PROVE  /\ request[r] \in Request /\ request[r].kind = kind
         /\ \E y \in Request : /\ y = [request[r] EXCEPT !.step = "ok"]
                               /\ request' = [request EXCEPT ![r] = y]
<1>1. request[r] # None /\ request[r].kind = kind /\ request \in [Requests -> Request \cup {None}]
  BY DEF At, CatalogInv, CatalogTypeOK
<1>2. request[r] \in Request
  BY <1>1
<1>3. PICK y : y = [request[r] EXCEPT !.step = "ok"]
  OBVIOUS
<1>4. y \in Request
  BY <1>2, <1>3 DEF Request, Steps, Ended
<1>5. request' = [request EXCEPT ![r] = y]
  BY <1>1, <1>3 DEF Go
<1>. QED
  BY <1>1, <1>2, <1>3, <1>4, <1>5

\* The insert is refused only for a slug that was taken meanwhile.
LEMMA InsertWritesOrFails ==
  ASSUME CatalogInv, NEW r \in Requests, InsertTemplate(r)
  PROVE  Writes(r) \/ \E y : Reads(r, y)
<1>1. /\ request[r] # None /\ request[r].kind = "create" /\ request[r].step = "insert"
      /\ At(r, "create", "insert")
      /\ CatalogTypeOK /\ SlugsDiffer /\ FreeUnlessRaced
      /\ UNCHANGED <<variant, entry>>
  BY DEF InsertTemplate, At, CatalogInv
<1>2. /\ request[r] \in Request /\ request[r].slug \in Slugs
      /\ request \in [Requests -> Request \cup {None}]
  BY <1>1, RequestTyped DEF CatalogTypeOK
<1>3. CASE Taken(request[r].slug)
  <2>1. PICK y : y = [request[r] EXCEPT !.step = "failed"]
    OBVIOUS
  <2>2. /\ y \in Request /\ y.kind = "create" /\ y.template = request[r].template
        /\ y.slug = request[r].slug /\ y.step = "failed"
    BY <1>1, <1>2, <2>1 DEF Request, Steps, Ended
  <2>3. request' = [request EXCEPT ![r] = y] /\ UNCHANGED <<template, variant, entry, disturbed>>
    BY <1>1, <1>3, <2>1 DEF InsertTemplate, Go
  <2>4. r \in disturbed \/ y.slug[2] >= MaxExact
    BY <1>1, <1>3, <2>2 DEF FreeUnlessRaced
  <2>5. Reads(r, y)
    BY <1>1, <2>2, <2>3, <2>4 DEF Reads
  <2>. QED
    BY <2>5
<1>4. CASE ~Taken(request[r].slug)
  <2>1. Go(r, "ok") /\ Disturbs(r)
    BY <1>4 DEF InsertTemplate
  <2>2. PICK u \in Templates : /\ ~Exists(u)
           /\ template' = [template EXCEPT ![u] = [slug |-> request[r].slug, archived |-> FALSE]]
    BY <1>4 DEF InsertTemplate
  <2>3. PICK row : row = [slug |-> request[r].slug, archived |-> FALSE]
    OBVIOUS
  <2>4. row \in Row /\ row # None /\ row.slug = request[r].slug
    <3>1. row \in Row /\ row.slug = request[r].slug
      BY <1>2, <2>3 DEF Row
    <3>. QED
      BY <3>1
  <2>5. /\ template \in [Templates -> Row \cup {None}]
        /\ template' = [template EXCEPT ![u] = row]
    BY <1>1, <2>2, <2>3 DEF CatalogTypeOK
  <2>6. template'[u] = row /\ \A t \in Templates \ {u} : template'[t] = template[t]
    BY <2>5
  <2>8. \A t \in Templates \ {u} : Active(t) => template[t].slug # row.slug
    BY <1>4, <2>4 DEF Taken
  <2>9. SlugsDiffer'
    BY <1>1, <2>6, <2>8 DEF SlugsDiffer, Active, Exists
  <2>10. \A t \in Templates : Exists(t) => template'[t] # None
    BY <2>4, <2>6 DEF Exists
  <2>11. template' \in [Templates -> Row \cup {None}] /\ variant' \in [Templates -> Entries \cup {None}]
    BY <1>1, <2>4, <2>5 DEF CatalogTypeOK
  <2>12. \E y \in Request : /\ y = [request[r] EXCEPT !.step = "ok"]
                            /\ request' = [request EXCEPT ![r] = y]
    BY <1>1, <2>1, WrittenTyped
  <2>. QED
    BY <1>1, <2>1, <2>9, <2>10, <2>11, <2>12 DEF Writes
<1>. QED
  BY <1>3, <1>4

LEMMA ArchiveWrites ==
  ASSUME CatalogInv, NEW r \in Requests, ArchiveTemplate(r)
  PROVE  Writes(r)
<1>1. PICK u : u = request[r].template
  OBVIOUS
<1>2. /\ request[r] # None /\ request[r].kind = "archive" /\ At(r, "archive", "archive")
      /\ CatalogTypeOK /\ SlugsDiffer /\ WellAsked
      /\ template' = [template EXCEPT ![u].archived = TRUE]
      /\ Go(r, "ok") /\ Disturbs(r)
      /\ UNCHANGED <<variant, entry>>
  BY <1>1 DEF ArchiveTemplate, At, CatalogInv
<1>3. u \in Templates /\ Exists(u) /\ template \in [Templates -> Row \cup {None}]
  BY <1>1, <1>2 DEF WellAsked, Target, CatalogTypeOK
<1>4. PICK row : row = [template[u] EXCEPT !.archived = TRUE]
  OBVIOUS
<1>5. template[u] \in Row
  BY <1>3 DEF Exists
<1>6. row \in Row /\ row.slug = template[u].slug /\ row # None /\ row.archived = TRUE
  BY <1>4, <1>5 DEF Row
<1>7. template' = [template EXCEPT ![u] = row]
  BY <1>2, <1>3, <1>4
<1>8. template'[u] = row /\ \A t \in Templates \ {u} : template'[t] = template[t]
  BY <1>3, <1>7
<1>10. SlugsDiffer'
  BY <1>2, <1>6, <1>8 DEF SlugsDiffer, Active, Exists
<1>11. \A t \in Templates : Exists(t) => template'[t] # None
  BY <1>6, <1>8 DEF Exists
<1>12. template' \in [Templates -> Row \cup {None}] /\ variant' \in [Templates -> Entries \cup {None}]
  <2>1. template' \in [Templates -> Row \cup {None}]
    BY <1>3, <1>6, <1>7
  <2>2. variant' = variant /\ CatalogTypeOK
    BY <1>2
  <2>. QED
    BY <2>1, <2>2 DEF CatalogTypeOK
<1>13. \E y \in Request : /\ y = [request[r] EXCEPT !.step = "ok"]
                          /\ request' = [request EXCEPT ![r] = y]
  BY <1>2, WrittenTyped
<1>. QED
  BY <1>2, <1>10, <1>11, <1>12, <1>13 DEF Writes

LEMMA RenameWritesOrFails ==
  ASSUME CatalogInv, NEW r \in Requests, RenameTemplate(r)
  PROVE  Writes(r) \/ \E y : Reads(r, y)
<1>1. PICK u : u = request[r].template
  OBVIOUS
<1>2. /\ request[r] # None /\ request[r].kind = "slug" /\ At(r, "slug", "rename")
      /\ CatalogTypeOK /\ SlugsDiffer /\ WellAsked
      /\ UNCHANGED <<variant, entry>>
  BY DEF RenameTemplate, At, CatalogInv
<1>3. u \in Templates /\ Exists(u) /\ template \in [Templates -> Row \cup {None}]
  BY <1>1, <1>2 DEF WellAsked, Target, CatalogTypeOK
<1>4. PICK others \in BOOLEAN :
        others = \E t \in Templates \ {u} : Active(t) /\ template[t].slug = request[r].slug
  OBVIOUS
<1>5. CASE Active(u) /\ others
  <2>1. Go(r, "failed") /\ UNCHANGED <<template, variant, entry, disturbed>>
    BY <1>1, <1>2, <1>4, <1>5 DEF RenameTemplate
  <2>2. \E y : Reads(r, y)
    BY <1>2, <2>1, GoesOn DEF Steps, Ended
  <2>. QED
    BY <2>2
<1>6. CASE ~(Active(u) /\ others)
  <2>1. /\ Go(r, "ok") /\ Disturbs(r)
        /\ template' = IF Active(u) THEN [template EXCEPT ![u].slug = request[r].slug] ELSE template
    BY <1>1, <1>4, <1>6 DEF RenameTemplate
  <2>2. \E y \in Request : /\ y = [request[r] EXCEPT !.step = "ok"]
                           /\ request' = [request EXCEPT ![r] = y]
    BY <1>2, <2>1, WrittenTyped
  <2>3. CASE ~Active(u)
    <3>1. template' = template
      BY <2>1, <2>3
    <3>2. SlugsDiffer'
      BY <1>2, <3>1 DEF SlugsDiffer, Active, Exists
    <3>3. \A t \in Templates : Exists(t) => template'[t] # None
      BY <3>1 DEF Exists
    <3>. QED
      BY <1>2, <1>3, <2>1, <2>2, <3>1, <3>2, <3>3 DEF Writes, CatalogTypeOK
  <2>4. CASE Active(u)
    <3>1. PICK row : row = [template[u] EXCEPT !.slug = request[r].slug]
      OBVIOUS
    <3>2. template[u] \in Row /\ request[r].slug \in Slugs
      BY <1>2, <1>3, RequestTyped DEF Exists
    <3>3. row \in Row /\ row.slug = request[r].slug /\ row # None /\ row.archived = template[u].archived
      BY <3>1, <3>2 DEF Row
    <3>4. template' = [template EXCEPT ![u] = row]
      BY <1>3, <2>1, <2>4, <3>1
    <3>5. template'[u] = row /\ \A t \in Templates \ {u} : template'[t] = template[t]
      BY <1>3, <3>4
    <3>7. \A t \in Templates \ {u} : Active(t) => template[t].slug # row.slug
      BY <1>4, <1>6, <2>4, <3>3
    <3>8. SlugsDiffer'
      BY <1>2, <3>5, <3>7 DEF SlugsDiffer, Active, Exists
    <3>9. \A t \in Templates : Exists(t) => template'[t] # None
      BY <3>3, <3>5 DEF Exists
    <3>10. template' \in [Templates -> Row \cup {None}] /\ variant' \in [Templates -> Entries \cup {None}]
      BY <1>2, <1>3, <3>3, <3>4 DEF CatalogTypeOK
    <3>. QED
      BY <1>2, <2>1, <2>2, <3>8, <3>9, <3>10 DEF Writes
  <2>. QED
    BY <2>3, <2>4
<1>. QED
  BY <1>5, <1>6

LEMMA PutWritesOrFails ==
  ASSUME CatalogInv, NEW r \in Requests, PutVariant(r)
  PROVE  Writes(r) \/ \E y : Reads(r, y)
<1>1. PICK u : u = request[r].template
  OBVIOUS
<1>2. /\ request[r] # None /\ request[r].kind = "put" /\ At(r, "put", "link")
      /\ CatalogTypeOK /\ SlugsDiffer /\ WellAsked
      /\ UNCHANGED <<template, entry>>
  BY DEF PutVariant, At, CatalogInv
<1>3. request[r].entry \in Entries \cup {None} /\ u \in Templates
  BY <1>1, <1>2, RequestTyped DEF WellAsked, Target
<1>4. PICK fails \in BOOLEAN : fails = (request[r].linked = None /\ variant[u] # None)
  OBVIOUS
<1>5. CASE fails
  <2>1. Go(r, "failed") /\ UNCHANGED <<template, variant, entry, disturbed>>
    BY <1>1, <1>2, <1>4, <1>5 DEF PutVariant
  <2>2. \E y : Reads(r, y)
    BY <1>2, <2>1, GoesOn DEF Steps, Ended
  <2>. QED
    BY <2>2
<1>6. CASE ~fails
  <2>1. /\ variant' = [variant EXCEPT ![u] = request[r].entry]
        /\ Go(r, "ok") /\ Disturbs(r)
    BY <1>1, <1>4, <1>6 DEF PutVariant
  <2>2. \E y \in Request : /\ y = [request[r] EXCEPT !.step = "ok"]
                           /\ request' = [request EXCEPT ![r] = y]
    BY <1>2, <2>1, WrittenTyped
  <2>3. variant' \in [Templates -> Entries \cup {None}] /\ template' \in [Templates -> Row \cup {None}]
    BY <1>2, <1>3, <2>1 DEF CatalogTypeOK
  <2>4. SlugsDiffer' /\ \A t \in Templates : Exists(t) => template'[t] # None
    BY <1>2 DEF SlugsDiffer, Active, Exists
  <2>. QED
    BY <1>2, <2>1, <2>2, <2>3, <2>4 DEF Writes
<1>. QED
  BY <1>5, <1>6

\* What a send reads is what its answer says.
LEMMA SendReads ==
  ASSUME CatalogInv, NEW r \in Requests,
         ResolveTemplate(r) \/ LoadVariant(r) \/ RenderArtifact(r)
  PROVE  \E y : Reads(r, y)
<1>1. /\ request[r] # None /\ request[r].kind = "send"
      /\ CatalogTypeOK /\ SendsInformed /\ WellAsked
      /\ UNCHANGED <<template, variant, entry, disturbed>>
  BY DEF ResolveTemplate, LoadVariant, RenderArtifact, At, CatalogInv
<1>2. /\ request[r] \in Request /\ request \in [Requests -> Request \cup {None}]
      /\ variant \in [Templates -> Entries \cup {None}]
  BY <1>1 DEF CatalogTypeOK
<1>3. r \notin disturbed => Informed(request[r])
  BY <1>1 DEF SendsInformed
<1>4. PICK u : u = request[r].template
  OBVIOUS
<1>5. CASE ResolveTemplate(r)
  <2>1. PICK found : found = {t \in Templates : /\ Active(t)
                  /\ IF request[r].template # None THEN t = request[r].template
                     ELSE template[t].slug = request[r].slug}
    OBVIOUS
  <2>2. CASE found = {} /\ Go(r, "refused")
    <3>1. PICK y : y = [request[r] EXCEPT !.step = "refused"]
      OBVIOUS
    <3>2. /\ y \in Request /\ y.kind = "send" /\ y.template = u
          /\ y.slug = request[r].slug /\ y.step = "refused"
      BY <1>1, <1>2, <1>4, <3>1 DEF Request, Steps, Ended
    <3>3. request' = [request EXCEPT ![r] = y]
      BY <1>2, <2>2, <3>1 DEF Go
    <3>4. u \in Templates => ~Active(u)
      BY <1>4, <2>1, <2>2
    <3>5. Reads(r, y)
      BY <1>1, <3>2, <3>3, <3>4 DEF Reads, Informed
    <3>. QED
      BY <3>5
  <2>3. ASSUME NEW t \in found,
               request' = [request EXCEPT ![r].step = "variant", ![r].template = t]
        PROVE  \E y : Reads(r, y)
    <3>1. PICK y : y = [request[r] EXCEPT !.step = "variant", !.template = t]
      OBVIOUS
    <3>2. t \in Templates /\ Active(t)
      BY <2>1
    <3>3. /\ y \in Request /\ y.kind = "send" /\ y.template = t
          /\ y.slug = request[r].slug /\ y.step = "variant"
      BY <1>1, <1>2, <3>1, <3>2 DEF Request, Steps
    <3>4. request' = [request EXCEPT ![r] = y]
      BY <1>2, <2>3, <3>1
    <3>5. Reads(r, y)
      BY <1>1, <3>2, <3>3, <3>4 DEF Reads, Informed
    <3>. QED
      BY <3>5
  <2>4. \/ found = {} /\ Go(r, "refused")
        \/ \E t \in found : request' = [request EXCEPT ![r].step = "variant", ![r].template = t]
    BY <1>5, <2>1 DEF ResolveTemplate
  <2>. QED
    BY <2>2, <2>3, <2>4
<1>6. CASE LoadVariant(r)
  <2>1. request[r].step = "variant" /\ u \in Templates
    BY <1>1, <1>4, <1>6 DEF LoadVariant, At, WellAsked, Target
  <2>2. PICK next \in {"refused", "artifact"} :
          next = IF variant[u] = None THEN "refused" ELSE "artifact"
    OBVIOUS
  <2>3. PICK y : y = [request[r] EXCEPT !.step = next, !.linked = variant[u]]
    OBVIOUS
  <2>4. /\ y \in Request /\ y.kind = "send" /\ y.template = u
        /\ y.slug = request[r].slug /\ y.step = next /\ y.linked = variant[u]
    <3>1. /\ request[r] \in Request /\ request[r].kind = "send" /\ request[r].template = u
          /\ variant[u] \in Entries \cup {None}
      BY <1>1, <1>2, <1>4, <2>1
    <3>. QED
      BY <2>3, <3>1 DEF Request, Steps, Ended
  <2>5. request' = [request EXCEPT ![r] = y]
    <3>1. request' = [request EXCEPT ![r].step = next, ![r].linked = variant[u]]
      BY <1>4, <1>6, <2>2 DEF LoadVariant
    <3>. QED
      BY <1>2, <2>3, <3>1
  <2>6. r \notin disturbed => Active(u)
    BY <1>3, <1>4, <2>1 DEF Informed
  <2>7. r \notin disturbed => Informed(y)
    BY <2>1, <2>2, <2>4, <2>6 DEF Informed
  <2>8. Reads(r, y)
    BY <1>1, <2>1, <2>4, <2>5, <2>7 DEF Reads
  <2>. QED
    BY <2>8
<1>7. CASE RenderArtifact(r)
  <2>1. request[r].step = "artifact" /\ u \in Templates
    BY <1>1, <1>4, <1>7 DEF RenderArtifact, At, WellAsked, Target
  <2>2. PICK e : e = request[r].linked
    OBVIOUS
  <2>3. PICK next \in {"refused", "ok", "unrendered"} : Go(r, next) /\ (next = "refused" <=> ~Pickable(e))
    BY <1>7, <2>2 DEF RenderArtifact
  <2>4. PICK y : y = [request[r] EXCEPT !.step = next]
    OBVIOUS
  <2>5. /\ y \in Request /\ y.kind = "send" /\ y.template = u
        /\ y.slug = request[r].slug /\ y.step = next /\ y.linked = e
    BY <1>1, <1>2, <1>4, <2>2, <2>4 DEF Request, Steps, Ended
  <2>6. request' = [request EXCEPT ![r] = y]
    BY <1>2, <2>3, <2>4 DEF Go
  <2>7. r \notin disturbed => Active(u) /\ e = variant[u] /\ variant[u] # None
    BY <1>3, <1>4, <2>1, <2>2 DEF Informed
  <2>8. r \notin disturbed => Informed(y)
    BY <2>1, <2>3, <2>5, <2>7 DEF Informed, Broken
  <2>9. Reads(r, y)
    BY <1>1, <2>1, <2>3, <2>5, <2>6, <2>8 DEF Reads
  <2>. QED
    BY <2>9
<1>. QED
  BY <1>5, <1>6, <1>7

\* Every step of a request reads or writes.
LEMMA RequestEffect ==
  ASSUME CatalogInv, NEW r \in Requests, RequestStep(r)
  PROVE  request[r] # None /\ (Writes(r) \/ \E y : Reads(r, y))
<1>1. request[r] # None
  BY DEF RequestStep, At, TryBaseSlug, NumberSlug, InsertTemplate, LoadForArchive, ArchiveTemplate,
         LoadForSlug, CheckSlug, RenameTemplate, LoadForPut, CheckEntry, PutVariant,
         ResolveTemplate, LoadVariant, RenderArtifact
<1>2. ASSUME LoadForArchive(r) PROVE \E y : Reads(r, y)
  <2>1. PICK next \in {"archive", "ok"} :
          next = IF Active(request[r].template) THEN "archive" ELSE "ok"
    OBVIOUS
  <2>2. /\ At(r, "archive", "load") /\ Go(r, next)
        /\ UNCHANGED <<template, variant, entry, disturbed>>
    BY <1>2, <2>1 DEF LoadForArchive
  <2>. QED
    BY <2>2, GoesOn DEF Steps, Ended
<1>3. ASSUME LoadForSlug(r) PROVE \E y : Reads(r, y)
  <2>1. PICK t : t = request[r].template
    OBVIOUS
  <2>2. PICK next \in {"refused", "ok", "taken"} :
          next = CASE ~Active(t) -> "refused"
                   [] Active(t) /\ template[t].slug = request[r].slug -> "ok"
                   [] OTHER -> "taken"
    <3>1. CASE ~Active(t)
      BY <3>1
    <3>2. CASE Active(t) /\ template[t].slug = request[r].slug
      BY <3>2
    <3>3. CASE Active(t) /\ template[t].slug # request[r].slug
      BY <3>3
    <3>. QED
      BY <3>1, <3>2, <3>3
  <2>3. /\ At(r, "slug", "load") /\ Go(r, next)
        /\ UNCHANGED <<template, variant, entry, disturbed>>
    BY <1>3, <2>1, <2>2 DEF LoadForSlug
  <2>. QED
    BY <2>3, GoesOn DEF Steps, Ended
<1>4. ASSUME CheckSlug(r) PROVE \E y : Reads(r, y)
  <2>1. PICK next \in {"refused", "rename"} :
          next = IF \E t \in Templates \ {request[r].template} :
                      Active(t) /\ template[t].slug = request[r].slug
                 THEN "refused" ELSE "rename"
    OBVIOUS
  <2>2. /\ At(r, "slug", "taken") /\ Go(r, next)
        /\ UNCHANGED <<template, variant, entry, disturbed>>
    BY <1>4, <2>1 DEF CheckSlug
  <2>. QED
    BY <2>2, GoesOn DEF Steps, Ended
<1>5. ASSUME LoadForPut(r) PROVE \E y : Reads(r, y)
  <2>1. PICK t : t = request[r].template
    OBVIOUS
  <2>2. PICK next \in {"entry", "refused"} : next = IF Active(t) THEN "entry" ELSE "refused"
    OBVIOUS
  <2>3. /\ request[r] \in Request /\ request[r].kind = "put"
        /\ request \in [Requests -> Request \cup {None}]
        /\ t \in Templates /\ variant[t] \in Entries \cup {None}
    BY <1>1, <1>5, <2>1 DEF LoadForPut, At, CatalogInv, CatalogTypeOK, WellAsked, Target
  <2>4. PICK y : y = [request[r] EXCEPT !.step = next, !.linked = variant[t]]
    OBVIOUS
  <2>5. /\ y \in Request /\ y.kind = "put" /\ y.template = t /\ y.slug = request[r].slug
    BY <2>1, <2>3, <2>4 DEF Request, Steps, Ended
  <2>6. request' = [request EXCEPT ![r] = y] /\ UNCHANGED <<template, variant, entry, disturbed>>
    <3>1. /\ request' = [request EXCEPT ![r].step = next, ![r].linked = variant[t]]
          /\ UNCHANGED <<template, variant, entry, disturbed>>
      BY <1>5, <2>1, <2>2 DEF LoadForPut
    <3>. QED
      BY <2>3, <2>4, <3>1
  <2>7. Reads(r, y)
    BY <2>1, <2>3, <2>5, <2>6 DEF Reads
  <2>. QED
    BY <2>7
<1>6. ASSUME CheckEntry(r) PROVE \E y : Reads(r, y)
  <2>1. PICK next \in {"link", "refused"} :
          next = IF Pickable(request[r].entry) THEN "link" ELSE "refused"
    OBVIOUS
  <2>2. /\ At(r, "put", "entry") /\ Go(r, next)
        /\ UNCHANGED <<template, variant, entry, disturbed>>
    BY <1>6, <2>1 DEF CheckEntry
  <2>. QED
    BY <2>2, GoesOn DEF Steps, Ended
<1>. QED
  BY <1>1, <1>2, <1>3, <1>4, <1>5, <1>6, BaseIsFree, NumberIsFree, InsertWritesOrFails, ArchiveWrites,
     RenameWritesOrFails, PutWritesOrFails, SendReads DEF RequestStep

\* What is asked names what exists.
Asks(r, y) ==
  /\ request[r] = None /\ y \in Request /\ request' = [request EXCEPT ![r] = y]
  /\ UNCHANGED <<template, variant, entry, disturbed>>
  /\ y.step = "load"
  /\ y.kind \in {"archive", "slug", "put"} => y.template \in Templates /\ Exists(y.template)

LEMMA AskEffect ==
  ASSUME CatalogInv, NEW r \in Requests, OtherRequest(r)
  PROVE  \E y : Asks(r, y) /\ ("catalog" \notin mode => y.kind \in {"archive", "put"})
<1>1. CatalogTypeOK /\ WellAsked
  BY DEF CatalogInv
<1>2. request \in [Requests -> Request \cup {None}]
  BY <1>1 DEF CatalogTypeOK
<1>3. /\ template[Subject].slug \in Slugs /\ template[Subject].slug[1] \in Names
      /\ Exists(Subject)
  BY <1>1, RowTyped DEF WellAsked
<1>6. \A n \in Names : <<n, 1>> \in Slugs
  BY DEF Slugs
<1>7. NoChange \in Slugs
  BY <1>3, <1>6 DEF NoChange
<1>8. ASSUME NEW kind \in Kinds, NEW t \in Templates \cup {None}, NEW e \in Entries \cup {None},
             NEW s \in Slugs, Ask(r, kind, t, e, s),
             kind \in {"archive", "slug", "put"} => t \in Templates /\ Exists(t),
             "catalog" \notin mode => kind \in {"archive", "put"}
      PROVE  \E y : Asks(r, y) /\ ("catalog" \notin mode => y.kind \in {"archive", "put"})
  <2>1. PICK y : y = [kind |-> kind, template |-> t, entry |-> e, slug |-> s, linked |-> None,
                      step |-> "load"]
    OBVIOUS
  <2>2. /\ y \in Request /\ y.kind = kind /\ y.template = t /\ y.slug = s /\ y.step = "load"
    BY <2>1 DEF Request, Steps
  <2>3. /\ request[r] = None /\ request' = [request EXCEPT ![r] = y]
        /\ UNCHANGED <<template, variant, entry, disturbed>>
    BY <1>8, <2>1 DEF Ask
  <2>4. Asks(r, y)
    BY <1>8, <2>2, <2>3 DEF Asks
  <2>. QED
    BY <1>8, <2>2, <2>4
<1>9. \A t \in Shown : t \in Templates /\ Exists(t)
  BY DEF Shown, Active
<1>10. CASE "catalog" \in mode /\ AskSomething(r)
  <2>1. CASE AskCreate(r)
    <3>1. PICK n \in Names : Ask(r, "create", None, None, <<n, 1>>)
      BY <2>1 DEF AskCreate
    <3>2. PICK s \in Slugs : s = <<n, 1>>
      BY <1>6
    <3>. QED
      BY <1>8, <1>10, <3>1, <3>2 DEF Kinds
  <2>2. CASE AskArchive(r)
    BY <1>7, <1>8, <1>9, <1>10, <2>2 DEF AskArchive, Kinds
  <2>3. CASE AskRename(r)
    BY <1>8, <1>9, <1>10, <2>3 DEF AskRename, Kinds
  <2>4. CASE AskLink(r)
    BY <1>7, <1>8, <1>9, <1>10, <2>4 DEF AskLink, Kinds
  <2>5. CASE AskSend(r)
    BY <1>7, <1>8, <1>10, <2>5 DEF AskSend, Kinds
  <2>. QED
    BY <1>10, <2>1, <2>2, <2>3, <2>4, <2>5 DEF AskSomething
<1>11. CASE Ask(r, "archive", Subject, None, template[Subject].slug)
  BY <1>3, <1>8, <1>11 DEF Kinds
<1>12. CASE \E e \in Listed : Ask(r, "put", Subject, e, template[Subject].slug)
  BY <1>3, <1>8, <1>12 DEF Kinds, Listed
<1>. QED
  BY <1>10, <1>11, <1>12 DEF OtherRequest

-----------------------------------------------------------------------------
(* The catalog: what every step leaves true.                               *)

\* While the rows stay, only the request that goes on is to be looked at.
LEMMA ReadsKeep ==
  ASSUME CatalogInv, NEW r \in Requests, request[r] # None, NEW y, Reads(r, y)
  PROVE  CatalogInv'
<1>1. /\ CatalogTypeOK /\ WellAsked /\ SlugsDiffer /\ FreeUnlessRaced
      /\ CreateFailsOnlyWhenRaced /\ SendsInformed
  BY DEF CatalogInv
<1>2. /\ y \in Request /\ request' = [request EXCEPT ![r] = y] /\ y.kind = request[r].kind
      /\ UNCHANGED <<template, variant, entry, disturbed>>
      /\ request \in [Requests -> Request \cup {None}]
      /\ template \in [Templates -> Row \cup {None}]
  BY <1>1 DEF Reads, CatalogTypeOK
<1>3. request'[r] = y /\ \A q \in Requests \ {r} : request'[q] = request[q]
  BY <1>2
<1>4. CatalogTypeOK'
  <2>1. request' \in [Requests -> Request \cup {None}]
    BY <1>2
  <2>. QED
    BY <1>1, <1>2, <2>1 DEF CatalogTypeOK
<1>5. WellAsked'
  <2>1. y.kind \in {"archive", "slug", "put"} => y.template \in Templates /\ Exists(y.template)
    BY <1>1, <1>2 DEF Reads, WellAsked, Target
  <2>2. (y.kind = "send" /\ y.step \in {"variant", "artifact"}) => y.template \in Templates
    BY DEF Reads
  <2>. QED
    BY <1>1, <1>2, <1>3, <2>1, <2>2 DEF WellAsked, Target, Exists
<1>9. SlugsDiffer'
  BY <1>1, <1>2 DEF SlugsDiffer, Active, Exists
<1>10. (y.kind = "create" /\ y.step = "insert") => ~Taken(y.slug) \/ y.slug[2] >= MaxExact
  BY DEF Reads
<1>11. FreeUnlessRaced'
  BY <1>1, <1>2, <1>3, <1>10 DEF FreeUnlessRaced, At, Taken, Active, Exists
<1>12. (y.kind = "create" /\ y.step = "failed") => r \in disturbed \/ y.slug[2] >= MaxExact
  BY DEF Reads
<1>13. CreateFailsOnlyWhenRaced'
  BY <1>1, <1>2, <1>3, <1>12 DEF CreateFailsOnlyWhenRaced, At
<1>14. (y.kind = "send" /\ r \notin disturbed) => Informed(y)
  BY DEF Reads
<1>15. \A x : Informed(x) => Informed(x)'
  BY <1>2 DEF Informed, Active, Exists, Pickable, Broken
<1>16. SendsInformed'
  BY <1>1, <1>2, <1>3, <1>14, <1>15 DEF SendsInformed
<1>. QED
  BY <1>4, <1>5, <1>9, <1>11, <1>13, <1>16 DEF CatalogInv

\* Whoever writes disturbs all others.
LEMMA WritesKeep ==
  ASSUME CatalogInv, NEW r \in Requests, request[r] # None, Writes(r)
  PROVE  CatalogInv'
<1>1. /\ CatalogTypeOK /\ WellAsked /\ CreateFailsOnlyWhenRaced
  BY DEF CatalogInv
<1>2. /\ request \in [Requests -> Request \cup {None}] /\ request[r] \in Request
      /\ template \in [Templates -> Row \cup {None}]
  BY <1>1 DEF CatalogTypeOK
<1>3. PICK y \in Request : /\ y = [request[r] EXCEPT !.step = "ok"]
                           /\ request' = [request EXCEPT ![r] = y]
  BY DEF Writes
<1>4. /\ y.kind = request[r].kind /\ y.kind # "send" /\ y.template = request[r].template
      /\ y.slug = request[r].slug /\ y.step = "ok"
  BY <1>2, <1>3 DEF Request, Writes
<1>5. /\ disturbed' = disturbed \cup {q \in Requests \ {r} : request[q] # None}
      /\ UNCHANGED entry
      /\ template' \in [Templates -> Row \cup {None}]
      /\ variant' \in [Templates -> Entries \cup {None}]
      /\ \A t \in Templates : Exists(t) => template'[t] # None
      /\ SlugsDiffer'
  BY DEF Writes, Disturbs
<1>6. request'[r] = y /\ \A q \in Requests \ {r} : request'[q] = request[q]
  BY <1>2, <1>3
<1>7. CatalogTypeOK'
  <2>1. request' \in [Requests -> Request \cup {None}]
    BY <1>2, <1>3
  <2>. QED
    BY <1>1, <1>5, <2>1 DEF CatalogTypeOK
<1>8. WellAsked'
  BY <1>1, <1>4, <1>5, <1>6 DEF WellAsked, Target, Exists
<1>12. \A q \in Requests \ disturbed' : q # r => request'[q] = None
  BY <1>5, <1>6
<1>13. FreeUnlessRaced'
  BY <1>4, <1>6, <1>12 DEF FreeUnlessRaced, At
<1>14. CreateFailsOnlyWhenRaced'
  BY <1>4, <1>6, <1>12 DEF CreateFailsOnlyWhenRaced, At
<1>15. SendsInformed'
  BY <1>4, <1>6, <1>12 DEF SendsInformed
<1>. QED
  BY <1>5, <1>7, <1>8, <1>13, <1>14, <1>15 DEF CatalogInv

\* A new request has read nothing.  The same holds of one that starts again.
LEMMA StartsKeep ==
  ASSUME CatalogInv, NEW r \in Requests, NEW y \in Request, request' = [request EXCEPT ![r] = y],
         UNCHANGED <<template, variant, entry, disturbed>>,
         y.step = "load",
         y.kind \in {"archive", "slug", "put"} => y.template \in Templates /\ Exists(y.template)
  PROVE  CatalogInv'
<1>1. /\ CatalogTypeOK /\ WellAsked /\ SlugsDiffer /\ FreeUnlessRaced
      /\ CreateFailsOnlyWhenRaced /\ SendsInformed
      /\ request \in [Requests -> Request \cup {None}]
      /\ template \in [Templates -> Row \cup {None}]
  BY DEF CatalogInv, CatalogTypeOK
<1>2. request'[r] = y /\ \A q \in Requests \ {r} : request'[q] = request[q]
  BY <1>1
<1>3. CatalogTypeOK'
  <2>1. request' \in [Requests -> Request \cup {None}]
    BY <1>1
  <2>. QED
    BY <1>1, <2>1 DEF CatalogTypeOK
<1>4. WellAsked'
  BY <1>1, <1>2 DEF WellAsked, Target, Exists
<1>7. SlugsDiffer'
  BY <1>1 DEF SlugsDiffer, Active, Exists
<1>8. FreeUnlessRaced'
  BY <1>1, <1>2 DEF FreeUnlessRaced, At, Taken, Active, Exists
<1>9. CreateFailsOnlyWhenRaced'
  BY <1>1, <1>2 DEF CreateFailsOnlyWhenRaced, At
<1>10. Informed(y)'
  BY DEF Informed
<1>11. \A x : Informed(x) => Informed(x)'
  BY DEF Informed, Active, Exists, Pickable, Broken
<1>12. SendsInformed'
  BY <1>1, <1>2, <1>10, <1>11 DEF SendsInformed
<1>. QED
  BY <1>1, <1>3, <1>4, <1>7, <1>8, <1>9, <1>12 DEF CatalogInv

\* What the Workspace writes, it writes under the eyes of no request.
LEMMA WorkspaceKeeps ==
  ASSUME CatalogInv, UNCHANGED <<template, variant, request>>,
         UNCHANGED <<entry, disturbed>> \/
           (entry' \in [Entries -> EntryRow \cup {None}] /\ WorkspaceChanged)
  PROVE  CatalogInv'
<1>1. /\ CatalogTypeOK /\ WellAsked /\ SlugsDiffer /\ FreeUnlessRaced
      /\ CreateFailsOnlyWhenRaced /\ SendsInformed
  BY DEF CatalogInv
<1>3. /\ disturbed \subseteq disturbed' /\ disturbed' \subseteq Requests
      /\ entry' = entry \/ \A r \in Requests \ disturbed' : request[r] = None
      /\ entry' \in [Entries -> EntryRow \cup {None}]
  BY <1>1 DEF WorkspaceChanged, CatalogTypeOK
<1>4. CatalogTypeOK'
  BY <1>1, <1>3 DEF CatalogTypeOK
<1>5. WellAsked' /\ SlugsDiffer'
  BY <1>1 DEF WellAsked, Target, SlugsDiffer, Active, Exists
<1>7. FreeUnlessRaced' /\ CreateFailsOnlyWhenRaced'
  BY <1>1, <1>3 DEF FreeUnlessRaced, CreateFailsOnlyWhenRaced, At, Taken, Active, Exists
<1>8. SendsInformed'
  <2>1. CASE entry' = entry
    <3>1. \A x : Informed(x) => Informed(x)'
      BY <2>1 DEF Informed, Active, Exists, Pickable, Broken
    <3>. QED
      BY <1>1, <1>3, <3>1 DEF SendsInformed
  <2>2. CASE \A r \in Requests \ disturbed' : request[r] = None
    BY <2>2 DEF SendsInformed
  <2>. QED
    BY <1>3, <2>1, <2>2
<1>. QED
  BY <1>4, <1>5, <1>7, <1>8 DEF CatalogInv

-----------------------------------------------------------------------------
(* What the builder, the bootstrap and the handlers do.                    *)

USE BootAssumption

\* A commit changes one file and its entry, which keeps its artifact.
LEMMA CommitEffect ==
  ASSUME TypeOK, NEW p \in Files, NEW v \in Version \cup {None}, Commit(p, v)
  PROVE  /\ file' \in [Files -> Version \cup {None}]
         /\ file'[p] = v /\ \A q \in Files \ {p} : file'[q] = file[q]
         /\ entry' \in [Entries -> EntryRow \cup {None}] /\ WorkspaceChanged
         /\ \A e \in Entries \ {p} : entry'[e] = entry[e]
         /\ p \in Entries => ((p \in Listed') <=> (v # None))
         /\ \A e \in Entries : entry[e] # None =>
              entry'[e] # None /\ entry'[e].artifact = entry[e].artifact
<1>1. /\ file \in [Files -> Version \cup {None}] /\ entry \in [Entries -> EntryRow \cup {None}]
      /\ None \notin EntryRow
  BY DEF TypeOK, CatalogTypeOK
<1>2. /\ file' = [file EXCEPT ![p] = v] /\ WorkspaceChanged
      /\ \A e \in Entries \ {p} : entry'[e] = entry[e]
      /\ entry' = [e \in Entries |->
           IF e # p \/ (v = None /\ entry[e] = None) THEN entry[e]
           ELSE [deleted |-> v = None, artifact |-> IF entry[e] = None THEN None ELSE entry[e].artifact]]
  BY DEF Commit
<1>3. CASE p \in Entries
  <2>1. CASE v = None /\ entry[p] = None
    <3>1. entry' = entry
      BY <1>1, <1>2, <2>1
    <3>. QED
      BY <1>1, <1>2, <2>1, <3>1 DEF Listed
  <2>2. CASE ~(v = None /\ entry[p] = None)
    <3>1. PICK gone \in BOOLEAN : gone = (v = None)
      OBVIOUS
    <3>2. PICK art : art = IF entry[p] = None THEN None ELSE entry[p].artifact
      OBVIOUS
    <3>3. art \in Versions \cup {None}
      BY <1>1, <1>3, <3>2 DEF EntryRow
    <3>4. PICK row : row = [deleted |-> gone, artifact |-> art]
      OBVIOUS
    <3>5. row \in EntryRow /\ row.deleted = gone /\ row.artifact = art
      BY <3>3, <3>4 DEF EntryRow
    <3>6. entry'[p] = row
      BY <1>2, <1>3, <2>2, <3>1, <3>2, <3>4
    <3>7. row # None
      BY <1>1, <3>5
    <3>8. \A e \in Entries : entry'[e] \in EntryRow \cup {None}
      BY <1>1, <1>2, <3>5, <3>6
    <3>9. entry' \in [Entries -> EntryRow \cup {None}]
      BY <1>2, <3>8
    <3>10. (p \in Listed') <=> (v # None)
      BY <1>3, <3>1, <3>5, <3>6, <3>7 DEF Listed
    <3>11. file' \in [Files -> Version \cup {None}] /\ file'[p] = v
           /\ \A q \in Files \ {p} : file'[q] = file[q]
      BY <1>1, <1>2
    <3>12. entry[p] # None => entry'[p] # None /\ entry'[p].artifact = entry[p].artifact
      BY <3>2, <3>5, <3>6, <3>7
    <3>13. \A e \in Entries : entry[e] # None =>
             entry'[e] # None /\ entry'[e].artifact = entry[e].artifact
      BY <1>2, <3>12
    <3>. QED
      BY <1>2, <3>9, <3>10, <3>11, <3>13
  <2>. QED
    BY <2>1, <2>2
<1>4. CASE p \notin Entries
  <2>1. entry' = entry
    BY <1>1, <1>2, <1>4
  <2>. QED
    BY <1>1, <1>2, <1>4, <2>1
<1>. QED
  BY <1>3, <1>4

\* A publish seals every listed entry.
LEMMA PublishEffect ==
  ASSUME TypeOK, Publish
  PROVE  /\ entry' \in [Entries -> EntryRow \cup {None}] /\ WorkspaceChanged
         /\ Listed' = Listed
         /\ \A e \in Listed : entry'[e] # None /\ entry'[e].artifact = file[e]
         /\ \A e \in Entries \ Listed : entry'[e] = entry[e]
<1>1. /\ file \in [Files -> Version \cup {None}] /\ entry \in [Entries -> EntryRow \cup {None}]
      /\ None \notin EntryRow
  BY DEF TypeOK, CatalogTypeOK
<1>2. /\ WorkspaceChanged
      /\ entry' = [e \in Entries |-> IF e \in Listed THEN [entry[e] EXCEPT !.artifact = file[e]]
                                     ELSE entry[e]]
  BY DEF Publish
<1>3. \A e \in Entries \ Listed : entry'[e] = entry[e]
  BY <1>2
<1>4. \A e \in Listed : /\ entry'[e] \in EntryRow /\ entry'[e].deleted = FALSE
                        /\ entry'[e].artifact = file[e]
  <2>. SUFFICES ASSUME NEW e \in Listed
                PROVE  /\ entry'[e] \in EntryRow /\ entry'[e].deleted = FALSE
                       /\ entry'[e].artifact = file[e]
    OBVIOUS
  <2>1. e \in Entries /\ entry[e] \in EntryRow /\ entry[e].deleted = FALSE
    BY <1>1 DEF Listed, EntryRow
  <2>2. file[e] \in Versions \cup {None}
    BY <1>1, <2>1 DEF Files
  <2>3. PICK v \in Versions \cup {None} : v = file[e]
    BY <2>2
  <2>4. entry'[e] = [entry[e] EXCEPT !.artifact = v]
    BY <1>2, <2>1, <2>3
  <2>. QED
    BY <2>1, <2>3, <2>4 DEF EntryRow
<1>5. Listed' = Listed
  BY <1>1, <1>3, <1>4 DEF Listed
<1>6. \A e \in Entries : entry'[e] \in EntryRow \cup {None}
  BY <1>1, <1>3, <1>4
<1>7. entry' \in [Entries -> EntryRow \cup {None}]
  BY <1>2, <1>6
<1>. QED
  BY <1>1, <1>2, <1>3, <1>4, <1>5, <1>7

\* What a run of the bootstrap becomes, and what it does meanwhile.
BootGoes(b, x) ==
  /\ boot[b] # None /\ boot[b].step # "done"
  /\ x \in Boot /\ boot' = [boot EXCEPT ![b] = x]
  /\ x.missing = boot[b].missing /\ x.live = boot[b].live
  /\ \/ /\ x.step \in {"commit", "failed"}
        /\ UNCHANGED <<file, entry, disturbed, bootstrapped, view>>
     \/ /\ x.step = "committed" /\ boot[b].step = "commit" /\ Commit(Own, Starter(Own))
        /\ UNCHANGED <<bootstrapped, view>>
     \/ /\ x.step = "done" /\ ~x.live
        /\ UNCHANGED <<file, entry, disturbed, bootstrapped, view>>
     \/ /\ x.step = "done" /\ x.live /\ bootstrapped' = TRUE
        /\ UNCHANGED <<file, entry, disturbed>>
        /\ UNCHANGED view \/ \E p \in Files : file[p] # None /\ OpenFile(p)

LEMMA BootEnds ==
  ASSUME TypeOK, NEW b \in 1..2, boot[b] # None, boot[b].step # "done",
         NEW p \in Files \cup {None}, p # None => file[p] # None,
         EndBoot(b, p), UNCHANGED <<file, entry, disturbed>>
  PROVE  \E x : BootGoes(b, x)
<1>1. boot \in [1..2 -> Boot \cup {None}] /\ boot[b] \in Boot
  BY DEF TypeOK
<1>2. PICK x : x = [boot[b] EXCEPT !.step = "done"]
  OBVIOUS
<1>3. /\ x \in Boot /\ x.step = "done" /\ x.missing = boot[b].missing /\ x.live = boot[b].live
      /\ x.live \in BOOLEAN
  BY <1>1, <1>2 DEF Boot
<1>4. boot' = [boot EXCEPT ![b] = x]
  BY <1>1, <1>2 DEF EndBoot, SetBoot
<1>5. /\ IF boot[b].live THEN bootstrapped' = TRUE ELSE UNCHANGED bootstrapped
      /\ IF boot[b].live /\ p # None THEN OpenFile(p) ELSE UNCHANGED view
  BY DEF EndBoot
<1>6. CASE ~x.live
  <2>1. UNCHANGED <<bootstrapped, view>>
    BY <1>3, <1>5, <1>6
  <2>. QED
    BY <1>3, <1>4, <1>6, <2>1 DEF BootGoes
<1>7. CASE x.live
  <2>1. bootstrapped' = TRUE /\ (UNCHANGED view \/ \E q \in Files : file[q] # None /\ OpenFile(q))
    BY <1>3, <1>5, <1>7
  <2>. QED
    BY <1>3, <1>4, <1>7, <2>1 DEF BootGoes
<1>. QED
  BY <1>3, <1>6, <1>7

LEMMA BootEffect ==
  ASSUME TypeOK, FilesExist, NEW b \in 1..2, BootStep(b)
  PROVE  /\ UNCHANGED <<catalog, fixed, typed, text, running, locked, deps>>
         /\ StartBoot(b) \/ \E x : BootGoes(b, x)
<1>1. UNCHANGED <<catalog, fixed, typed, text, running, locked, deps>>
  BY DEF BootStep, StartBoot, BootListed, BootCommitted, BootAnswered, server
<1>2. /\ boot \in [1..2 -> Boot \cup {None}] /\ file \in [Files -> Version \cup {None}]
      /\ Own \in Files /\ Own # None /\ sought \in Entries \cup {None}
  BY DEF TypeOK, Files
<1>3. \A step \in {"commit", "committed", "failed"} : boot[b] # None /\ SetBoot(b, step) =>
        \E x \in Boot : /\ boot' = [boot EXCEPT ![b] = x] /\ x.step = step
                        /\ x.missing = boot[b].missing /\ x.live = boot[b].live
  <2>. SUFFICES ASSUME NEW step \in {"commit", "committed", "failed"}, boot[b] # None,
                       SetBoot(b, step)
                PROVE  \E x \in Boot : /\ boot' = [boot EXCEPT ![b] = x] /\ x.step = step
                                       /\ x.missing = boot[b].missing /\ x.live = boot[b].live
    OBVIOUS
  <2>1. PICK x : x = [boot[b] EXCEPT !.step = step]
    OBVIOUS
  <2>2. boot[b] \in Boot
    BY <1>2
  <2>3. x \in Boot /\ x.step = step /\ x.missing = boot[b].missing /\ x.live = boot[b].live
    BY <2>1, <2>2 DEF Boot
  <2>4. boot' = [boot EXCEPT ![b] = x]
    BY <1>2, <2>1 DEF SetBoot
  <2>. QED
    BY <2>3, <2>4
<1>4. ASSUME BootListed(b) PROVE \E x : BootGoes(b, x)
  <2>1. boot[b] # None /\ boot[b].step = "start" /\ UNCHANGED <<file, entry, disturbed>>
    BY <1>4 DEF BootListed, server
  <2>2. CASE SetBoot(b, "commit") /\ UNCHANGED <<bootstrapped, view>>
    <3>1. PICK x \in Boot : /\ boot' = [boot EXCEPT ![b] = x] /\ x.step = "commit"
                            /\ x.missing = boot[b].missing /\ x.live = boot[b].live
      BY <1>3, <2>1, <2>2
    <3>2. BootGoes(b, x)
      BY <2>1, <2>2, <3>1 DEF BootGoes
    <3>. QED
      BY <3>2
  <2>3. ASSUME NEW missing \in {boot[b].missing, file[Own] = None}, ~missing, EndBoot(b, Own)
        PROVE  \E x : BootGoes(b, x)
    <3>1. file[Own] # None
      BY <2>1, <2>3 DEF FilesExist
    <3>. QED
      BY <1>2, <2>1, <2>3, <3>1, BootEnds
  <2>4. ASSUME NEW e \in ({sought} \ {None}) \cup First({x \in Entries : file[x] # None}), EndBoot(b, e)
        PROVE  \E x : BootGoes(b, x)
    <3>1. e \in Files \cup {None} /\ file[e] # None
      BY <1>2 DEF Files, First, FilesExist
    <3>. QED
      BY <2>1, <2>4, <3>1, BootEnds
  <2>5. CASE EndBoot(b, None)
    BY <2>1, <2>5, BootEnds
  <2>. QED
    BY <1>4, <2>2, <2>3, <2>4, <2>5 DEF BootListed
<1>5. ASSUME BootCommitted(b) PROVE \E x : BootGoes(b, x)
  <2>1. boot[b] # None /\ boot[b].step = "commit" /\ UNCHANGED <<bootstrapped, view>>
    BY <1>5 DEF BootCommitted
  <2>2. CASE Commit(Own, Starter(Own)) /\ SetBoot(b, "committed")
    <3>1. PICK x \in Boot : /\ boot' = [boot EXCEPT ![b] = x] /\ x.step = "committed"
                            /\ x.missing = boot[b].missing /\ x.live = boot[b].live
      BY <1>3, <2>1, <2>2
    <3>2. BootGoes(b, x)
      BY <2>1, <2>2, <3>1 DEF BootGoes
    <3>. QED
      BY <3>2
  <2>3. CASE SetBoot(b, "failed") /\ UNCHANGED <<file, entry, disturbed>>
    <3>1. PICK x \in Boot : /\ boot' = [boot EXCEPT ![b] = x] /\ x.step = "failed"
                            /\ x.missing = boot[b].missing /\ x.live = boot[b].live
      BY <1>3, <2>1, <2>3
    <3>2. BootGoes(b, x)
      BY <2>1, <2>3, <3>1 DEF BootGoes
    <3>. QED
      BY <3>2
  <2>. QED
    BY <1>5, <2>2, <2>3 DEF BootCommitted
<1>6. ASSUME BootAnswered(b) PROVE \E x : BootGoes(b, x)
  <2>1. PICK p : p = IF boot[b].step = "committed" THEN Own ELSE None
    OBVIOUS
  <2>2. /\ boot[b] # None /\ boot[b].step \in {"committed", "failed"} /\ EndBoot(b, p)
        /\ UNCHANGED <<file, entry, disturbed>>
    BY <1>6, <2>1 DEF BootAnswered, server
  <2>3. p \in Files \cup {None} /\ (p # None => file[p] # None)
    BY <1>2, <2>1, <2>2 DEF FilesExist
  <2>. QED
    BY <2>2, <2>3, BootEnds
<1>. QED
  BY <1>1, <1>4, <1>5, <1>6 DEF BootStep

\* A handler at its end, and what its last answer does to the editor.
HandlerEnds(h) ==
  /\ Ends(h) /\ UNCHANGED <<file, entry>>
  /\ \/ UNCHANGED <<view, text>>
     \/ /\ h.step = "committed" /\ h.kind # "new"
        /\ dirty' = FALSE /\ UNCHANGED <<view, draft>>
     \/ /\ h.step = "committed" /\ h.kind = "new"
        /\ OpenFile(h.path) /\ UNCHANGED text
     \/ /\ h.kind = "preview" /\ path # None
        /\ html' = h.got /\ UNCHANGED <<path, loads, loaded, opened, replaced, text>>
     \/ /\ path' = None /\ draft' = None /\ dirty' = FALSE /\ loads' = {} /\ loaded' = FALSE
        /\ html' = None /\ opened' = opened /\ replaced' = FALSE

\* A handler that goes on to y.
HandlerGoes(h, y) ==
  /\ y \in Handler /\ Goes(h, y) /\ UNCHANGED <<path, loads, loaded, html, opened, draft>>
  /\ y.kind = h.kind /\ y.path = h.path /\ y.draft = h.draft /\ y.entry = h.entry
  /\ \/ /\ h.step = "commit" /\ y.step = "committed" /\ Commit(h.path, h.draft)
        /\ y.clean = h.clean /\ y.got = h.got /\ UNCHANGED dirty
        /\ h.path # path => replaced' = replaced
        /\ (h.path = path /\ h.kind = "new") => replaced' = TRUE
        /\ (h.path = path /\ h.kind # "new") => replaced' = FALSE
     \/ /\ h.step = "publish" /\ y.step = "published" /\ Publish
        /\ y.link \in Listed /\ y.clean = h.clean /\ y.got = h.got
        /\ UNCHANGED <<file, dirty, replaced>>
     \/ /\ h.step = "preview" /\ y.step = "rendered" /\ h.entry \in Listed
        /\ y.got = file[h.entry] /\ y.clean = h.clean /\ UNCHANGED <<file, entry, dirty, replaced>>
     \/ /\ h.step = "committed" /\ h.kind # "new" /\ y.step \in {"sync", "preview", "publish"}
        /\ y.got = h.got /\ dirty' = FALSE /\ UNCHANGED <<file, entry, replaced>>
     \/ /\ y.step \notin {"committed", "published"} /\ y.got = h.got /\ (y.clean => h.clean)
        /\ h.kind = "new" => y.step = "refused"
        /\ UNCHANGED <<file, entry, dirty, replaced>>

\* What a handler is, part by part.
LEMMA HandlerTyped ==
  ASSUME TypeOK, NEW h \in running
  PROVE  /\ h \in Handler /\ h.kind \in Handlers /\ h.path \in Files /\ h.draft \in Version
         /\ h.clean \in BOOLEAN /\ h.entry \in Entries \cup {None} /\ h.link \in Entries \cup {None} /\ h.got \in Version \cup {None}
<1>1. h \in Handler
  BY DEF TypeOK
<1>. QED
  BY <1>1 DEF Handler

\* A handler takes one step and keeps what it was started with.
LEMMA Stepped ==
  ASSUME NEW h \in Handler,
         NEW step \in {"commit", "committed", "refused", "sync", "synced", "unsynced",
                       "preview", "rendered", "publish", "published", "link", "failed"},
         NEW y, y = [h EXCEPT !.step = step]
  PROVE  /\ y \in Handler /\ y.step = step /\ y.kind = h.kind /\ y.path = h.path /\ y.draft = h.draft
         /\ y.clean = h.clean /\ y.entry = h.entry /\ y.link = h.link /\ y.got = h.got
  BY DEF Handler

LEMMA Continued ==
  ASSUME NEW h \in Handler, NEW clean \in BOOLEAN, Continues(h, clean)
  PROVE  \/ Ends(h)
         \/ \E y \in Handler : /\ Goes(h, y) /\ h.kind # "new" /\ y.step \in {"preview", "publish"}
                               /\ y.kind = h.kind /\ y.path = h.path /\ y.draft = h.draft
                               /\ y.clean = clean /\ y.got = h.got /\ y.entry = h.entry
<1>1. CASE h.kind \in {"save", "new"}
  BY <1>1 DEF Continues
<1>2. CASE h.kind \notin {"save", "new"}
  <2>1. h.kind \in {"preview", "publish"}
    BY <1>2 DEF Handler, Handlers
  <2>2. PICK y : y = [h EXCEPT !.step = h.kind, !.clean = clean]
    OBVIOUS
  <2>3. /\ y \in Handler /\ y.step = h.kind /\ y.clean = clean /\ y.kind = h.kind
        /\ y.path = h.path /\ y.draft = h.draft /\ y.got = h.got /\ y.entry = h.entry
    BY <2>1, <2>2 DEF Handler
  <2>4. Goes(h, y)
    BY <1>2, <2>2 DEF Continues
  <2>. QED
    BY <2>1, <2>3, <2>4
<1>. QED
  BY <1>1, <1>2

LEMMA BuilderEffect ==
  ASSUME TypeOK, OneHandler, NEW h \in running,
         \/ BuilderCommits(h) \/ BuilderSyncs(h) \/ BuilderPreviews(h)
         \/ BuilderPublishes(h) \/ BuilderRefuses(h)
  PROVE  \E y : HandlerGoes(h, y)
<1>1. h \in Handler
  BY HandlerTyped
<1>2. h.kind = "new" => h.step \in {"commit", "committed", "refused"}
  BY DEF OneHandler
<1>3. ASSUME BuilderCommits(h) PROVE \E y : HandlerGoes(h, y)
  <2>1. PICK y : y = [h EXCEPT !.step = "committed"]
    OBVIOUS
  <2>2. /\ y \in Handler /\ y.step = "committed" /\ y.kind = h.kind /\ y.path = h.path
        /\ y.draft = h.draft /\ y.clean = h.clean /\ y.got = h.got /\ y.entry = h.entry
    BY <1>1, <2>1, Stepped
  <2>3. /\ h.step = "commit" /\ Goes(h, y) /\ Commit(h.path, h.draft)
        /\ UNCHANGED <<path, loads, loaded, html, opened, draft, dirty>>
    BY <1>3, <2>1 DEF BuilderCommits, text
  <2>4. PICK new \in BOOLEAN : new = (h.kind = "new")
    OBVIOUS
  <2>5. replaced' = IF h.path = path THEN new ELSE replaced
    BY <1>3, <2>4 DEF BuilderCommits
  <2>6. /\ h.path # path => replaced' = replaced
        /\ (h.path = path /\ h.kind = "new") => replaced' = TRUE
        /\ (h.path = path /\ h.kind # "new") => replaced' = FALSE
    BY <2>4, <2>5
  <2>7. HandlerGoes(h, y)
    BY <2>2, <2>3, <2>6 DEF HandlerGoes, view
  <2>. QED
    BY <2>7
<1>4. ASSUME BuilderSyncs(h) PROVE \E y : HandlerGoes(h, y)
  <2>1. PICK y : y = [h EXCEPT !.step = "synced"]
    OBVIOUS
  <2>2. /\ y \in Handler /\ y.step = "synced" /\ y.kind = h.kind /\ y.path = h.path
        /\ y.draft = h.draft /\ y.clean = h.clean /\ y.got = h.got /\ y.entry = h.entry
    BY <1>1, <2>1, Stepped
  <2>3. h.step = "sync" /\ Goes(h, y) /\ UNCHANGED <<view, draft, dirty, file, entry>>
    BY <1>4, <2>1 DEF BuilderSyncs, text
  <2>4. HandlerGoes(h, y)
    BY <1>2, <2>2, <2>3 DEF HandlerGoes, view
  <2>. QED
    BY <2>4
<1>5. ASSUME BuilderPreviews(h) PROVE \E y : HandlerGoes(h, y)
  <2>1. PICK y : y = [h EXCEPT !.step = "rendered", !.got = file[h.entry]]
    OBVIOUS
  <2>2. h.entry \in Listed /\ file[h.entry] \in Version \cup {None}
    BY <1>5 DEF BuilderPreviews, TypeOK, Listed, Files
  <2>3. /\ y \in Handler /\ y.step = "rendered" /\ y.kind = h.kind /\ y.path = h.path
        /\ y.draft = h.draft /\ y.clean = h.clean /\ y.entry = h.entry /\ y.got = file[h.entry]
    BY <1>1, <2>1, <2>2 DEF Handler
  <2>4. /\ h.step = "preview" /\ Goes(h, y) /\ h.entry \in Listed
        /\ UNCHANGED <<view, draft, dirty, file, entry>>
    BY <1>5, <2>1 DEF BuilderPreviews, text, server
  <2>5. HandlerGoes(h, y)
    BY <2>3, <2>4 DEF HandlerGoes, view
  <2>. QED
    BY <2>5
<1>6. ASSUME BuilderPublishes(h) PROVE \E y : HandlerGoes(h, y)
  <2>1. /\ h.step = "publish" /\ Publish
        /\ UNCHANGED <<view, draft, dirty, file>>
    BY <1>6 DEF BuilderPublishes, text
  <2>2. PICK e \in Listed : Goes(h, [h EXCEPT !.step = "published", !.link = e])
    BY <1>6 DEF BuilderPublishes
  <2>3. PICK y : y = [h EXCEPT !.step = "published", !.link = e]
    OBVIOUS
  <2>4. e \in Entries
    BY DEF Listed
  <2>5. /\ y \in Handler /\ y.step = "published" /\ y.kind = h.kind /\ y.path = h.path
        /\ y.draft = h.draft /\ y.clean = h.clean /\ y.got = h.got /\ y.entry = h.entry /\ y.link = e
    BY <1>1, <2>3, <2>4 DEF Handler
  <2>6. Goes(h, y)
    BY <2>2, <2>3
  <2>7. HandlerGoes(h, y)
    BY <2>1, <2>5, <2>6 DEF HandlerGoes, view
  <2>. QED
    BY <2>7
<1>7. ASSUME BuilderRefuses(h) PROVE \E y : HandlerGoes(h, y)
  <2>1. h.step \in {"commit", "sync", "preview", "publish"}
    BY <1>7 DEF BuilderRefuses, AtBuilder
  <2>2. PICK next \in {"refused", "unsynced", "failed"} :
          /\ next = CASE h.step = "commit" -> "refused" [] h.step = "sync" -> "unsynced"
                      [] OTHER -> "failed"
          /\ h.step = "commit" => next = "refused"
    <3>1. CASE h.step = "commit"
      BY <3>1
    <3>2. CASE h.step = "sync"
      BY <3>2
    <3>3. CASE h.step \in {"preview", "publish"}
      BY <3>3
    <3>. QED
      BY <2>1, <3>1, <3>2, <3>3
  <2>3. PICK y : y = [h EXCEPT !.step = next]
    OBVIOUS
  <2>4. /\ y \in Handler /\ y.step = next /\ y.kind = h.kind /\ y.path = h.path
        /\ y.draft = h.draft /\ y.clean = h.clean /\ y.got = h.got /\ y.entry = h.entry
    BY <1>1, <2>3, Stepped
  <2>5. Goes(h, y) /\ UNCHANGED <<view, draft, dirty, file, entry>>
    BY <1>7, <2>2, <2>3 DEF BuilderRefuses, text, server
  <2>6. HandlerGoes(h, y)
    BY <1>2, <2>1, <2>2, <2>4, <2>5 DEF HandlerGoes, view
  <2>. QED
    BY <2>6
<1>. QED
  BY <1>3, <1>4, <1>5, <1>6, <1>7

LEMMA AnswerEffect ==
  ASSUME TypeOK, OneHandler, NEW h \in running,
         \/ Saved(h) \/ DepsSynced(h) \/ FileCreated(h) \/ Previewed(h) \/ Published(h) \/ Linked(h)
  PROVE  HandlerEnds(h) \/ \E y : HandlerGoes(h, y)
<1>1. h \in Handler /\ h.clean \in BOOLEAN
  BY HandlerTyped
<1>2. h.kind = "new" => h.step \in {"commit", "committed", "refused"}
  BY DEF OneHandler
<1>3. ASSUME Saved(h) PROVE HandlerEnds(h) \/ \E y : HandlerGoes(h, y)
  <2>1. /\ h.step \in {"committed", "refused"} /\ h.kind # "new"
        /\ UNCHANGED <<view, draft, file, entry>>
    BY <1>3 DEF Saved, server
  <2>2. ASSUME h.step = "refused" PROVE HandlerEnds(h) \/ \E y : HandlerGoes(h, y)
    <3>1. Continues(h, FALSE) /\ UNCHANGED dirty
      BY <1>3, <2>2 DEF Saved
    <3>2. CASE Ends(h)
      BY <2>1, <3>1, <3>2 DEF HandlerEnds, text
    <3>3. ASSUME NEW y \in Handler, Goes(h, y), y.step \in {"preview", "publish"},
                 y.kind = h.kind, y.path = h.path, y.draft = h.draft, y.clean = FALSE, y.got = h.got, y.entry = h.entry
          PROVE  HandlerEnds(h) \/ \E z : HandlerGoes(h, z)
      <4>1. HandlerGoes(h, y)
        BY <2>1, <3>1, <3>3 DEF HandlerGoes, view
      <4>. QED
        BY <4>1
    <3>. QED
      BY <1>1, <3>1, <3>2, <3>3, Continued
  <2>3. ASSUME h.step = "committed" PROVE HandlerEnds(h) \/ \E y : HandlerGoes(h, y)
    <3>1. dirty' = FALSE
      BY <1>3, <2>3 DEF Saved
    <3>2. CASE Ends(h)
      BY <2>1, <2>3, <3>1, <3>2 DEF HandlerEnds
    <3>3. ASSUME NEW y \in Handler, Goes(h, y), y.step \in {"sync", "preview", "publish"},
                 y.kind = h.kind, y.path = h.path, y.draft = h.draft, y.got = h.got, y.entry = h.entry
          PROVE  HandlerEnds(h) \/ \E z : HandlerGoes(h, z)
      <4>1. HandlerGoes(h, y)
        BY <2>1, <2>3, <3>1, <3>3 DEF HandlerGoes, view
      <4>. QED
        BY <4>1
    <3>4. CASE h.path = Manifest
      <4>1. PICK y : y = [h EXCEPT !.step = "sync", !.clean = TRUE]
        OBVIOUS
      <4>2. /\ y \in Handler /\ y.step = "sync" /\ y.kind = h.kind /\ y.path = h.path
            /\ y.draft = h.draft /\ y.got = h.got /\ y.entry = h.entry
        BY <1>1, <4>1 DEF Handler
      <4>3. Goes(h, y)
        BY <1>3, <2>3, <3>4, <4>1 DEF Saved
      <4>. QED
        BY <3>3, <4>2, <4>3
    <3>5. CASE h.path # Manifest
      <4>1. Continues(h, TRUE)
        BY <1>3, <2>3, <3>5 DEF Saved
      <4>. QED
        BY <1>1, <3>2, <3>3, <4>1, Continued
    <3>. QED
      BY <3>4, <3>5
  <2>. QED
    BY <2>1, <2>2, <2>3
<1>4. ASSUME DepsSynced(h) PROVE HandlerEnds(h) \/ \E y : HandlerGoes(h, y)
  <2>1. Continues(h, h.clean) /\ UNCHANGED <<view, text, file, entry>>
    BY <1>4 DEF DepsSynced, server
  <2>2. CASE Ends(h)
    BY <2>1, <2>2 DEF HandlerEnds
  <2>3. ASSUME NEW y \in Handler, Goes(h, y), h.kind # "new", y.step \in {"preview", "publish"},
               y.kind = h.kind, y.path = h.path, y.draft = h.draft, y.clean = h.clean, y.got = h.got, y.entry = h.entry
        PROVE  HandlerEnds(h) \/ \E z : HandlerGoes(h, z)
    <3>1. HandlerGoes(h, y)
      BY <2>1, <2>3 DEF HandlerGoes, view, text
    <3>. QED
      BY <3>1
  <2>. QED
    BY <1>1, <2>1, <2>2, <2>3, Continued
<1>5. ASSUME FileCreated(h) PROVE HandlerEnds(h)
  BY <1>5 DEF FileCreated, HandlerEnds, server
<1>6. ASSUME Previewed(h) PROVE HandlerEnds(h)
  <2>1. /\ Ends(h) /\ h.kind = "preview"
        /\ UNCHANGED <<file, entry, path, loads, loaded, opened, replaced, text>>
        /\ (html' = h.got /\ path # None) \/ html' = html
    BY <1>6 DEF Previewed, server
  <2>. QED
    BY <2>1 DEF HandlerEnds, view
<1>7. ASSUME Published(h) PROVE HandlerEnds(h) \/ \E y : HandlerGoes(h, y)
  <2>1. h.kind = "publish" /\ UNCHANGED <<view, text, file, entry>>
    BY <1>7 DEF Published, server
  <2>2. CASE Ends(h)
    BY <2>1, <2>2 DEF HandlerEnds
  <2>3. CASE Goes(h, [h EXCEPT !.step = "link"])
    <3>1. PICK y : y = [h EXCEPT !.step = "link"]
      OBVIOUS
    <3>2. /\ y \in Handler /\ y.step = "link" /\ y.kind = h.kind /\ y.path = h.path
          /\ y.draft = h.draft /\ y.clean = h.clean /\ y.got = h.got /\ y.entry = h.entry
      BY <1>1, <3>1, Stepped
    <3>3. HandlerGoes(h, y)
      BY <2>1, <2>3, <3>1, <3>2 DEF HandlerGoes, view, text
    <3>. QED
      BY <3>3
  <2>. QED
    BY <1>7, <2>2, <2>3 DEF Published
<1>8. ASSUME Linked(h) PROVE HandlerEnds(h)
  BY <1>8 DEF Linked, HandlerEnds, server, view, text
<1>. QED
  BY <1>3, <1>4, <1>5, <1>6, <1>7, <1>8

LEMMA HandlerEffect ==
  ASSUME TypeOK, FilesExist, OneHandler, NEW h \in running, HandlerStep(h)
  PROVE  /\ UNCHANGED <<fixed, typed, boots>> /\ locked' \in Version
         /\ deps' \in {"idle", "syncing", "error", "ok"}
         /\ HandlerEnds(h) \/ \E y : HandlerGoes(h, y)
<1>1. UNCHANGED <<fixed, typed, boots>>
  BY DEF HandlerStep, BuilderCommits, BuilderSyncs, BuilderPreviews, BuilderPublishes, BuilderRefuses,
         Saved, DepsSynced, FileCreated, Previewed, Published, Linked
<1>2. locked' = locked \/ locked' = file[Manifest]
  BY DEF HandlerStep, BuilderCommits, BuilderSyncs, BuilderPreviews, BuilderPublishes, BuilderRefuses,
         Saved, DepsSynced, FileCreated, Previewed, Published, Linked, server
<1>3. locked' \in Version
  BY <1>2 DEF TypeOK, FilesExist, Files
<1>4. deps' \in {deps, "syncing", "ok", "error"}
  BY DEF HandlerStep, BuilderCommits, BuilderSyncs, BuilderPreviews, BuilderPublishes, BuilderRefuses,
         Saved, DepsSynced, FileCreated, Previewed, Published, Linked
<1>5. deps' \in {"idle", "syncing", "error", "ok"}
  BY <1>4 DEF TypeOK
<1>6. HandlerEnds(h) \/ \E y : HandlerGoes(h, y)
  BY BuilderEffect, AnswerEffect DEF HandlerStep
<1>. QED
  BY <1>1, <1>3, <1>5, <1>6

-----------------------------------------------------------------------------
(* Every step keeps the catalog, and the two worlds apart.                 *)

\* An edit gets a number of its own.
LEMMA TypesOn ==
  ASSUME TypeOK, MayType
  PROVE  typed < MaxEdits /\ typed + 1 \in 1..MaxEdits
BY DEF TypeOK, MayType

\* Commits and publishes elsewhere.
Others ==
  \/ \E e \in Entries :
       /\ "others" \in mode /\ MayType /\ typed' = typed + 1
       /\ Commit(e, [of |-> e, n |-> typed + 1])
  \/ \E e \in Entries :
       /\ "catalog" \in mode /\ typed' = typed
       /\ Commit(e, IF file[e] = None THEN Before(e) ELSE None)
  \/ Publish /\ UNCHANGED <<file, typed>>

OthersStep ==
  /\ Others
  /\ UNCHANGED <<catalog, locked, fixed, boots, view, text, deps, running>>

LEMMA OthersEffect ==
  ASSUME OtherCommit \/ DeleteOrRestore \/ OtherPublish
  PROVE  OthersStep
BY DEF OtherCommit, DeleteOrRestore, OtherPublish, OthersStep, Others

\* A step of a request touches nothing of the editor.
RequestsStep ==
  /\ \E r \in Requests : OtherRequest(r) \/ RequestStep(r)
  /\ UNCHANGED <<file, locked, fixed, typed, boots, view, text, deps, running>>

\* Every step is one of these.
LEMMA EveryStep ==
  ASSUME Next
  PROVE  \/ \E b \in 1..2 : BootStep(b)
         \/ \E l \in loads : ReadFile(l) \/ FileRead(l)
         \/ Edit
         \/ \E p \in Files : Select(p) \/ NewFile(p)
         \/ \E kind \in Handlers \ {"new"} : Click(kind)
         \/ \E h \in running : HandlerStep(h)
         \/ OthersStep
         \/ RequestsStep
BY OthersEffect DEF Next, RequestsStep, OtherRequest

\* What a handler does to the catalog and the rows of the entries.
LEMMA HandlerWrites ==
  ASSUME IInv, NEW h \in running, HandlerStep(h)
  PROVE  \/ /\ UNCHANGED catalog
            /\ \/ UNCHANGED <<entry, disturbed>>
               \/ entry' \in [Entries -> EntryRow \cup {None}] /\ WorkspaceChanged
         \/ /\ UNCHANGED <<template, variant, entry, disturbed>>
            /\ \E y \in Request :
                 /\ request' = [request EXCEPT ![LinkRequest] = y]
                 /\ y.kind = "put" /\ y.template = Subject /\ y.slug = template[Subject].slug
                 /\ y.step = "load"
<1>1. TypeOK /\ CatalogTypeOK /\ WellAsked /\ h \in Handler /\ h.path \in Files /\ h.draft \in Version
      /\ h.link \in Entries \cup {None}
  BY HandlerTyped DEF IInv, CatalogInv
<1>2. CASE BuilderCommits(h)
  <2>1. Commit(h.path, h.draft) /\ UNCHANGED catalog
    BY <1>2 DEF BuilderCommits
  <2>2. entry' \in [Entries -> EntryRow \cup {None}] /\ WorkspaceChanged
    BY <1>1, <2>1, CommitEffect
  <2>. QED
    BY <2>1, <2>2
<1>3. CASE BuilderPublishes(h)
  <2>1. Publish /\ UNCHANGED catalog
    BY <1>3 DEF BuilderPublishes
  <2>2. entry' \in [Entries -> EntryRow \cup {None}] /\ WorkspaceChanged
    BY <1>1, <2>1, PublishEffect
  <2>. QED
    BY <2>1, <2>2
<1>4. CASE BuilderSyncs(h) \/ BuilderPreviews(h) \/ BuilderRefuses(h) \/ Saved(h) \/ DepsSynced(h)
           \/ FileCreated(h) \/ Previewed(h) \/ Linked(h)
  BY <1>4 DEF BuilderSyncs, BuilderPreviews, BuilderRefuses, Saved, DepsSynced, FileCreated,
              Previewed, Linked, server
<1>5. CASE Published(h)
  <2>1. UNCHANGED <<template, variant, entry, disturbed>>
    BY <1>5 DEF Published, server
  <2>2. PICK y : y = [kind |-> "put", template |-> Subject, entry |-> h.link,
                      slug |-> template[Subject].slug, linked |-> None, step |-> "load"]
    OBVIOUS
  <2>3. \/ UNCHANGED request
        \/ request' = [request EXCEPT ![LinkRequest] = y]
    BY <1>5, <2>2 DEF Published
  <2>4. template[Subject].slug \in Slugs
    BY <1>1, RowTyped DEF WellAsked
  <2>5. /\ y \in Request /\ y.kind = "put" /\ y.template = Subject
        /\ y.slug = template[Subject].slug /\ y.step = "load"
    BY <1>1, <2>2, <2>4 DEF Request, Kinds, Steps
  <2>. QED
    BY <2>1, <2>3, <2>5 DEF catalog
<1>. QED
  BY <1>2, <1>3, <1>4, <1>5 DEF HandlerStep

LEMMA CatalogKept ==
  ASSUME IInv, Next
  PROVE  CatalogInv'
<1>1. TypeOK /\ CatalogInv /\ EditorOrCatalog /\ FilesExist /\ WellAsked
      /\ CatalogTypeOK /\ typed \in 1..MaxEdits /\ MaxEdits \in Nat
  BY DEF IInv, EditorInv, CatalogInv, TypeOK
<1>2. ASSUME NEW b \in 1..2, BootStep(b) PROVE CatalogInv'
  <2>1. UNCHANGED <<template, variant, request>>
    BY <1>1, <1>2, BootEffect DEF catalog
  <2>2. CASE StartBoot(b)
    BY <1>1, <2>1, <2>2, WorkspaceKeeps DEF StartBoot, server
  <2>3. ASSUME NEW x, BootGoes(b, x) PROVE CatalogInv'
    <3>1. UNCHANGED <<entry, disturbed>> \/ Commit(Own, Starter(Own))
      BY <2>3 DEF BootGoes
    <3>2. Own \in Files /\ Starter(Own) \in Version
      BY DEF Files, Starter, Version
    <3>3. Commit(Own, Starter(Own)) => entry' \in [Entries -> EntryRow \cup {None}] /\ WorkspaceChanged
      BY <1>1, <3>2, CommitEffect
    <3>. QED
      BY <1>1, <2>1, <3>1, <3>3, WorkspaceKeeps
  <2>. QED
    BY <1>1, <1>2, <2>2, <2>3, BootEffect
<1>3. CASE \/ \E l \in loads : ReadFile(l) \/ FileRead(l)
           \/ Edit
           \/ \E p \in Files : Select(p) \/ NewFile(p)
           \/ \E kind \in Handlers \ {"new"} : Click(kind)
  <2>1. UNCHANGED <<template, variant, request, entry, disturbed>>
    BY <1>3 DEF ReadFile, FileRead, Edit, Select, NewFile, Click, catalog, server
  <2>. QED
    BY <1>1, <2>1, WorkspaceKeeps
<1>4. ASSUME NEW h \in running, HandlerStep(h) PROVE CatalogInv'
  <2>1. CASE /\ UNCHANGED catalog
             /\ \/ UNCHANGED <<entry, disturbed>>
                \/ entry' \in [Entries -> EntryRow \cup {None}] /\ WorkspaceChanged
    BY <1>1, <2>1, WorkspaceKeeps DEF catalog
  <2>2. ASSUME NEW y \in Request, UNCHANGED <<template, variant, entry, disturbed>>,
               request' = [request EXCEPT ![LinkRequest] = y],
               y.kind = "put", y.template = Subject, y.slug = template[Subject].slug, y.step = "load"
        PROVE  CatalogInv'
    <3>1. LinkRequest \in Requests /\ Exists(Subject) /\ Subject \in Templates
      BY <1>1, <2>2 DEF WellAsked
    <3>. QED
      BY <1>1, <2>2, <3>1, StartsKeep
  <2>. QED
    BY <1>4, <2>1, <2>2, HandlerWrites
<1>5. CASE OthersStep
  <2>1. UNCHANGED <<template, variant, request>>
    BY <1>5 DEF OthersStep, catalog
  <2>2. entry' \in [Entries -> EntryRow \cup {None}] /\ WorkspaceChanged
    <3>1. ASSUME NEW e \in Entries, MayType, Commit(e, [of |-> e, n |-> typed + 1])
          PROVE  entry' \in [Entries -> EntryRow \cup {None}] /\ WorkspaceChanged
      <4>1. PICK v : v = [of |-> e, n |-> typed + 1]
        OBVIOUS
      <4>2. v \in Version /\ e \in Files
        BY <1>1, <3>1, <4>1, TypesOn DEF Version, Files
      <4>. QED
        BY <1>1, <3>1, <4>1, <4>2, CommitEffect
    <3>2. ASSUME NEW e \in Entries, Commit(e, IF file[e] = None THEN Before(e) ELSE None)
          PROVE  entry' \in [Entries -> EntryRow \cup {None}] /\ WorkspaceChanged
      <4>0. Before(e) \in Version
        BY <1>1 DEF Version, Files, Before
      <4>1. PICK v \in Version \cup {None} : v = IF file[e] = None THEN Before(e) ELSE None
        BY <4>0
      <4>. QED
        BY <1>1, <3>2, <4>1, CommitEffect DEF Files
    <3>. QED
      BY <1>1, <1>5, <3>1, <3>2, PublishEffect DEF OthersStep, Others
  <2>. QED
    BY <1>1, <2>1, <2>2, WorkspaceKeeps
<1>6. ASSUME NEW r \in Requests, OtherRequest(r) PROVE CatalogInv'
  <2>1. PICK y : Asks(r, y)
    BY <1>1, <1>6, AskEffect
  <2>. QED
    BY <1>1, <2>1, StartsKeep DEF Asks
<1>7. ASSUME NEW r \in Requests, RequestStep(r) PROVE CatalogInv'
  BY <1>1, <1>7, RequestEffect, ReadsKeep, WritesKeep
<1>. QED
  BY <1>2, <1>3, <1>4, <1>5, <1>6, <1>7, EveryStep DEF RequestsStep

\* Nobody changes the mode, nor what the editor was opened for.
LEMMA ModeStays ==
  ASSUME TypeOK, FilesExist, Next
  PROVE  UNCHANGED mode /\ UNCHANGED sought
<1>1. ASSUME NEW b \in 1..2, BootStep(b) PROVE UNCHANGED fixed
  BY <1>1, BootEffect
<1>2. ASSUME NEW h \in running, HandlerStep(h) PROVE UNCHANGED fixed
  BY <1>2 DEF HandlerStep, BuilderCommits, BuilderSyncs, BuilderPreviews, BuilderPublishes,
              BuilderRefuses, Saved, DepsSynced, FileCreated, Previewed, Published, Linked
<1>3. CASE \/ \E l \in loads : ReadFile(l) \/ FileRead(l)
           \/ Edit
           \/ \E p \in Files : Select(p) \/ NewFile(p)
           \/ \E kind \in Handlers \ {"new"} : Click(kind)
  BY <1>3 DEF ReadFile, FileRead, Edit, Select, NewFile, Click, fixed
<1>. QED
  BY <1>1, <1>2, <1>3, EveryStep DEF OthersStep, RequestsStep, fixed

\* The requests beside an editor archive and link.
LEMMA RequestsKinds ==
  ASSUME IInv, Next, "catalog" \notin mode
  PROVE  \A r \in Requests : request'[r] # None => request'[r].kind \in {"archive", "put"}
<1>1. /\ TypeOK /\ CatalogInv /\ FilesExist
      /\ request \in [Requests -> Request \cup {None}]
      /\ \A r \in Requests : request[r] # None => request[r].kind \in {"archive", "put"}
  BY DEF IInv, EditorInv, CatalogInv, CatalogTypeOK, EditorOrCatalog
<1>2. CASE UNCHANGED request
  BY <1>1, <1>2
<1>3. ASSUME NEW r \in Requests, NEW y, request' = [request EXCEPT ![r] = y],
             y.kind \in {"archive", "put"}
      PROVE  \A q \in Requests : request'[q] # None => request'[q].kind \in {"archive", "put"}
  BY <1>1, <1>3
<1>4. ASSUME NEW b \in 1..2, BootStep(b) PROVE UNCHANGED request
  BY <1>1, <1>4, BootEffect DEF catalog
<1>5. CASE \/ \E l \in loads : ReadFile(l) \/ FileRead(l)
           \/ Edit
           \/ \E p \in Files : Select(p) \/ NewFile(p)
           \/ \E kind \in Handlers \ {"new"} : Click(kind)
           \/ OthersStep
  <2>1. UNCHANGED request
    BY <1>5 DEF ReadFile, FileRead, Edit, Select, NewFile, Click, OthersStep, catalog
  <2>. QED
    BY <1>2, <2>1
<1>6. ASSUME NEW h \in running, HandlerStep(h)
      PROVE  \/ UNCHANGED request
             \/ \E y : request' = [request EXCEPT ![LinkRequest] = y] /\ y.kind = "put"
  BY <1>6, HandlerWrites DEF catalog
<1>7. ASSUME NEW r \in Requests, OtherRequest(r) \/ RequestStep(r)
      PROVE  \E y : request' = [request EXCEPT ![r] = y] /\ y.kind \in {"archive", "put"}
  <2>1. CASE OtherRequest(r)
    BY <1>1, <2>1, AskEffect DEF Asks
  <2>2. CASE RequestStep(r)
    <3>1. request[r] # None /\ request[r].kind \in {"archive", "put"} /\ request[r] \in Request
      BY <1>1, <2>2, RequestEffect
    <3>2. ASSUME Writes(r)
          PROVE  \E y : request' = [request EXCEPT ![r] = y] /\ y.kind \in {"archive", "put"}
      <4>1. PICK y : /\ y = [request[r] EXCEPT !.step = "ok"]
                     /\ request' = [request EXCEPT ![r] = y]
        BY <3>2 DEF Writes
      <4>2. y.kind = request[r].kind
        BY <3>1, <4>1 DEF Request
      <4>. QED
        BY <3>1, <4>1, <4>2
    <3>3. ASSUME NEW y, Reads(r, y)
          PROVE  \E z : request' = [request EXCEPT ![r] = z] /\ z.kind \in {"archive", "put"}
      BY <3>1, <3>3 DEF Reads
    <3>. QED
      BY <1>1, <2>2, <3>2, <3>3, RequestEffect
  <2>. QED
    BY <1>7, <2>1, <2>2
<1>8. LinkRequest \in Requests
  OBVIOUS
<1>. QED
  BY <1>2, <1>3, <1>4, <1>5, <1>6, <1>7, <1>8, EveryStep DEF RequestsStep

LEMMA WorldsApart ==
  ASSUME IInv, Next
  PROVE  EditorOrCatalog'
<1>1. TypeOK /\ FilesExist /\ EditorOrCatalog /\ OneHandler
  BY DEF IInv, EditorInv
<1>2. UNCHANGED mode
  BY <1>1, ModeStays
<1>3. ASSUME "catalog" \in mode
      PROVE  UNCHANGED <<path, loads, running, boot, bootstrapped>>
  <2>1. /\ path = None /\ loads = {} /\ running = {} /\ \A b \in 1..2 : boot[b] = None
        /\ ~Ready
    BY <1>1, <1>3, ModesAssumption DEF EditorOrCatalog, Ready, TypeOK
  <2>2. ~(\E b \in 1..2 : BootStep(b))
    BY <1>3, <2>1 DEF BootStep, StartBoot, BootListed, BootCommitted, BootAnswered
  <2>3. ~Edit /\ ~(\E p \in Files : Select(p) \/ NewFile(p))
        /\ ~(\E kind \in Handlers \ {"new"} : Click(kind))
    BY <2>1 DEF Edit, Sees, Select, NewFile, Click
  <2>4. OthersStep \/ RequestsStep
    BY <2>1, <2>2, <2>3, EveryStep
  <2>. QED
    BY <2>4 DEF OthersStep, RequestsStep, view, boots
<1>4. "catalog" \in mode => EditorOrCatalog'
  <2>. SUFFICES ASSUME "catalog" \in mode PROVE EditorOrCatalog'
    OBVIOUS
  <2>1. UNCHANGED <<path, loads, running, boot, bootstrapped>>
    BY <1>3
  <2>. QED
    BY <1>1, <1>2, <2>1 DEF EditorOrCatalog
<1>5. "catalog" \notin mode => EditorOrCatalog'
  BY <1>2, RequestsKinds DEF EditorOrCatalog
<1>. QED
  BY <1>4, <1>5

-----------------------------------------------------------------------------
(* Every step keeps what the editor relies on.                             *)

\* What becomes of the dev tree in a step of another author, of the
\* bootstrap or of a handler.
LEMMA OthersFiles ==
  ASSUME TypeOK, OthersStep
  PROVE  /\ UNCHANGED <<mode, sought, boot, bootstrapped, path, loads, loaded, html, opened, replaced,
                        draft, dirty, locked, deps, running>>
         /\ typed' \in 1..MaxEdits /\ typed <= typed'
         /\ \/ \E e \in Entries, v \in Version \cup {None} :
                 /\ Commit(e, v)
                 /\ v # None => v.of = e /\ v.n <= typed'
                 /\ \/ "catalog" \in mode
                    \/ v # None /\ v.n = typed + 1 /\ typed' = typed + 1
            \/ Publish /\ file' = file
<1>1. /\ UNCHANGED <<mode, sought, boot, bootstrapped, path, loads, loaded, html, opened, replaced,
                     draft, dirty, locked, deps, running>>
      /\ Others
  BY DEF OthersStep, fixed, boots, view, text
<1>2. typed \in 1..MaxEdits /\ MaxEdits \in Nat
  BY DEF TypeOK
<1>3. ASSUME NEW e \in Entries, MayType, typed' = typed + 1,
             Commit(e, [of |-> e, n |-> typed + 1])
      PROVE  \E v \in Version \cup {None} :
               /\ Commit(e, v)
               /\ v # None => v.of = e /\ v.n <= typed'
               /\ v # None /\ v.n = typed + 1 /\ typed' = typed + 1
  <2>1. PICK v : v = [of |-> e, n |-> typed + 1]
    OBVIOUS
  <2>2. v \in Version /\ v.of = e /\ v.n = typed + 1
    BY <1>2, <1>3, <2>1, TypesOn DEF Version, Files
  <2>3. v # None
    BY <2>2
  <2>4. Commit(e, v)
    BY <1>3, <2>1
  <2>. QED
    BY <1>2, <1>3, <2>2, <2>3, <2>4
<1>4. ASSUME NEW e \in Entries, typed' = typed, Commit(e, IF file[e] = None THEN Before(e) ELSE None)
      PROVE  \E v \in Version \cup {None} : Commit(e, v) /\ (v # None => v.of = e /\ v.n <= typed')
  <2>1. Before(e) \in Version /\ Before(e).of = e /\ Before(e).n <= typed'
    BY <1>2, <1>4 DEF Version, Files, Before
  <2>2. PICK v \in Version \cup {None} :
          /\ v = IF file[e] = None THEN Before(e) ELSE None
          /\ v # None => v = Before(e)
    BY <2>1
  <2>3. Commit(e, v)
    BY <1>4, <2>2
  <2>. QED
    BY <2>1, <2>2, <2>3
<1>5. typed' \in 1..MaxEdits /\ typed <= typed'
  <2>1. typed' = typed \/ (typed < MaxEdits /\ typed' = typed + 1)
    BY <1>1, TypesOn DEF Others
  <2>. QED
    BY <1>2, <2>1
<1>6. \/ \E e \in Entries : MayType /\ typed' = typed + 1 /\ Commit(e, [of |-> e, n |-> typed + 1])
      \/ \E e \in Entries : /\ "catalog" \in mode /\ typed' = typed
                           /\ Commit(e, IF file[e] = None THEN Before(e) ELSE None)
      \/ Publish /\ file' = file
  BY <1>1 DEF Others
<1>. QED
  BY <1>1, <1>3, <1>4, <1>5, <1>6

\* A handler that is started.
Begins(y) ==
  /\ y \in Handler /\ running' = running \cup {y} /\ y.got = None
  /\ UNCHANGED <<file, entry, typed, boots, view, text>>
  /\ Waits /\ (y.entry # None => y.entry \in {y.path, sought})
  /\ \/ y.kind = "new" /\ y.step = "commit" /\ y.draft = Starter(y.path) /\ Ready
     \/ /\ y.kind # "new" /\ y.step \in {"commit", "preview", "publish"} /\ Sees
        /\ y.path = path /\ y.draft = draft /\ (y.clean <=> ~dirty)

LEMMA ClickBegins ==
  ASSUME TypeOK, NEW kind \in Handlers \ {"new"}, Click(kind)
  PROVE  \E y : Begins(y)
<1>1. PICK first \in {"commit", "preview", "publish"} :
        first = IF kind # "save" /\ ~dirty THEN kind ELSE "commit"
  <2>1. kind \in {"save", "preview", "publish"}
    BY DEF Handlers
  <2>. QED
    BY <2>1
<1>2. PICK saved \in BOOLEAN : saved = ~dirty
  OBVIOUS
<1>8. PICK e \in Entries \cup {None} :
        /\ e # None => e \in {path, sought}
        /\ running' = running \cup {[kind |-> kind, path |-> path, draft |-> draft, clean |-> saved,
                                     entry |-> e, link |-> None, step |-> first, got |-> None]}
  BY <1>1, <1>2 DEF Click, First, Listed
<1>3. PICK y : y = [kind |-> kind, path |-> path, draft |-> draft, clean |-> saved,
                    entry |-> e, link |-> None, step |-> first, got |-> None]
  OBVIOUS
<1>4. /\ Sees /\ Waits /\ running' = running \cup {y}
      /\ UNCHANGED <<file, entry, typed, boots, view, text>>
  BY <1>3, <1>8 DEF Click, server
<1>5. path \in Files /\ path # None /\ draft \in Version
  BY <1>4 DEF Sees, TypeOK
<1>6. /\ y \in Handler /\ y.kind = kind /\ y.path = path /\ y.draft = draft /\ y.clean = saved
      /\ y.entry = e /\ y.step = first /\ y.got = None
  BY <1>3, <1>5 DEF Handler
<1>7. Begins(y)
  BY <1>1, <1>2, <1>4, <1>5, <1>6, <1>8 DEF Begins
<1>. QED
  BY <1>7

LEMMA NewFileBegins ==
  ASSUME TypeOK, NEW p \in Files, NewFile(p)
  PROVE  \E y : Begins(y)
<1>1. PICK y : y = [kind |-> "new", path |-> p, draft |-> Starter(p), clean |-> TRUE,
                    entry |-> None, link |-> None, step |-> "commit", got |-> None]
  OBVIOUS
<1>2. /\ Waits /\ Ready /\ running' = running \cup {y}
      /\ UNCHANGED <<file, entry, typed, boots, view, text>>
  BY <1>1 DEF NewFile, server
<1>3. Starter(p) \in Version
  BY DEF Starter, Version, TypeOK
<1>4. /\ y \in Handler /\ y.kind = "new" /\ y.path = p /\ y.draft = Starter(p)
      /\ y.step = "commit" /\ y.got = None /\ y.entry = None
  BY <1>1, <1>3 DEF Handler, Handlers
<1>5. Begins(y)
  BY <1>2, <1>4 DEF Begins
<1>. QED
  BY <1>5

\* What a file that is opened leaves of the view.
LEMMA Opened ==
  ASSUME NEW p \in Files, OpenFile(p)
  PROVE  /\ path' = p
         /\ \/ UNCHANGED <<path, loads, loaded, html, opened, replaced>>
            \/ /\ \E k \in Load : loads' = {k} /\ k.path = p /\ k.step = "asked" /\ k.got = None
               /\ loaded' = FALSE /\ html' = None /\ opened' = opened + 1 /\ replaced' = FALSE
<1>1. PICK k : k = [path |-> p, got |-> None, step |-> "asked"]
  OBVIOUS
<1>2. k \in Load /\ k.path = p /\ k.step = "asked" /\ k.got = None
  BY <1>1 DEF Load
<1>. QED
  BY <1>1, <1>2 DEF OpenFile

\* What the reads of the open file do.
ReadGoes(l, k) ==
  /\ k \in Load /\ loads' = (loads \ {l}) \cup {k} /\ k.path = l.path
  /\ \/ k.step = "read" /\ k.got = file[l.path] /\ file[l.path] # None
     \/ k.step = "failed" /\ k.got = l.got
  /\ UNCHANGED <<file, entry, typed, boots, path, loaded, html, opened, replaced, text, running>>

LEMMA ReadEffect ==
  ASSUME TypeOK, NEW l \in loads, ReadFile(l)
  PROVE  \E k : ReadGoes(l, k)
<1>1. l \in Load /\ l.path \in Files /\ file[l.path] \in Version \cup {None}
  BY DEF TypeOK, Load
<1>2. UNCHANGED <<file, entry, typed, boots, path, loaded, html, opened, replaced, text, running>>
  BY DEF ReadFile, server
<1>3. CASE /\ file[l.path] # None
           /\ loads' = (loads \ {l}) \cup {[l EXCEPT !.step = "read", !.got = file[l.path]]}
  <2>1. PICK k : k = [l EXCEPT !.step = "read", !.got = file[l.path]]
    OBVIOUS
  <2>2. k \in Load /\ k.path = l.path /\ k.step = "read" /\ k.got = file[l.path]
    BY <1>1, <2>1 DEF Load
  <2>3. ReadGoes(l, k)
    BY <1>2, <1>3, <2>1, <2>2 DEF ReadGoes
  <2>. QED
    BY <2>3
<1>4. CASE loads' = (loads \ {l}) \cup {[l EXCEPT !.step = "failed"]}
  <2>1. PICK k : k = [l EXCEPT !.step = "failed"]
    OBVIOUS
  <2>2. k \in Load /\ k.path = l.path /\ k.step = "failed" /\ k.got = l.got
    BY <1>1, <2>1 DEF Load
  <2>3. ReadGoes(l, k)
    BY <1>2, <1>4, <2>1, <2>2 DEF ReadGoes
  <2>. QED
    BY <2>3
<1>. QED
  BY <1>3, <1>4 DEF ReadFile

Still == UNCHANGED <<file, entry, typed, boots, view, text, running>>

\* Every step, as far as the editor is concerned.
LEMMA EditorSteps ==
  ASSUME TypeOK, CatalogInv, FilesExist, OneHandler, Next
  PROVE  \/ Still
         \/ OthersStep
         \/ \E b \in 1..2 : StartBoot(b)
         \/ \E b \in 1..2, x \in Boot : BootGoes(b, x) /\ UNCHANGED <<typed, text, running>>
         \/ \E l \in loads, k \in Load : ReadGoes(l, k)
         \/ \E l \in loads : FileRead(l)
         \/ Edit
         \/ \E p \in Files : Select(p)
         \/ \E y \in Handler : Begins(y)
         \/ \E h \in running : HandlerEnds(h) /\ UNCHANGED <<typed, boots>>
         \/ \E h \in running, y \in Handler : HandlerGoes(h, y) /\ UNCHANGED <<typed, boots>>
<1>1. ASSUME NEW b \in 1..2, BootStep(b)
      PROVE  StartBoot(b) \/ \E x \in Boot : BootGoes(b, x) /\ UNCHANGED <<typed, text, running>>
  <2>1. /\ UNCHANGED <<typed, text, running>>
        /\ StartBoot(b) \/ \E x : BootGoes(b, x)
    BY <1>1, BootEffect
  <2>2. \A x : BootGoes(b, x) => x \in Boot
    BY DEF BootGoes
  <2>. QED
    BY <2>1, <2>2
<1>2. ASSUME NEW l \in loads, ReadFile(l) PROVE \E k \in Load : ReadGoes(l, k)
  BY <1>2, ReadEffect DEF ReadGoes
<1>3. ASSUME NEW p \in Files, NewFile(p) PROVE \E y \in Handler : Begins(y)
  BY <1>3, NewFileBegins DEF Begins
<1>4. ASSUME NEW kind \in Handlers \ {"new"}, Click(kind) PROVE \E y \in Handler : Begins(y)
  BY <1>4, ClickBegins DEF Begins
<1>5. ASSUME NEW h \in running, HandlerStep(h)
      PROVE  \/ HandlerEnds(h) /\ UNCHANGED <<typed, boots>>
             \/ \E y \in Handler : HandlerGoes(h, y) /\ UNCHANGED <<typed, boots>>
  BY <1>5, HandlerEffect DEF HandlerGoes
<1>6. ASSUME RequestsStep PROVE Still
  <2>1. PICK r \in Requests : OtherRequest(r) \/ RequestStep(r)
    BY <1>6 DEF RequestsStep
  <2>2. UNCHANGED entry
    BY <2>1, AskEffect, RequestEffect DEF Asks, Reads, Writes
  <2>. QED
    BY <1>6, <2>2 DEF RequestsStep, Still
<1>. QED
  BY <1>1, <1>2, <1>3, <1>4, <1>5, <1>6, EveryStep

\* The path of an open file, and the version of a file.
LEMMA ViewTyped ==
  ASSUME TypeOK
  PROVE  /\ file \in [Files -> Version \cup {None}] /\ entry \in [Entries -> EntryRow \cup {None}]
         /\ path \in Files \cup {None} /\ draft \in Version \cup {None}
         /\ loads \in SUBSET Load /\ running \in SUBSET Handler /\ html \in Version \cup {None}
         /\ boot \in [1..2 -> Boot \cup {None}] /\ typed \in 1..MaxEdits /\ opened \in Nat
         /\ bootstrapped \in BOOLEAN /\ dirty \in BOOLEAN /\ loaded \in BOOLEAN
         /\ replaced \in BOOLEAN /\ sought \in Entries \cup {None}
         /\ None \notin Version /\ None \notin Files /\ Entries \subseteq Files
         /\ MaxEdits \in Nat
BY DEF TypeOK, CatalogTypeOK, Files

\* Files and rows.
LEMMA FilesKept ==
  ASSUME IInv, Next
  PROVE  FilesExist'
<1>1. /\ TypeOK /\ CatalogInv /\ EditorOrCatalog /\ FilesExist /\ Boots /\ WhereTyped /\ OneHandler
      /\ UNCHANGED mode /\ UNCHANGED sought
  BY ModeStays DEF IInv, EditorInv
<1>2. /\ file[Manifest] # None /\ Manifest \in Files
      /\ \A e \in Entries : (e \in Listed) <=> (file[e] # None)
      /\ path # None => file[path] # None
      /\ sought # None => file[sought] # None /\ "catalog" \notin mode
      /\ sought \in Files \cup {None}
      /\ \A b \in 1..2 :
           (boot[b] # None /\ (~boot[b].missing \/ boot[b].step = "committed")) => file[Own] # None
      /\ \A h \in running : (h.kind = "new" /\ h.step = "committed") => file[h.path] # None
  BY <1>1, ViewTyped DEF FilesExist, Files
<1>3. CASE Still
  <2>1. UNCHANGED <<file, entry, path, boot, running>>
    BY <1>3 DEF Still, view, boots
  <2>. QED
    BY <1>1, <1>2, <2>1 DEF FilesExist, Listed
<1>4. ASSUME NEW p \in Files, NEW v \in Version, Commit(p, v)
      PROVE  /\ file'[Manifest] # None
             /\ \A e \in Entries : (e \in Listed') <=> (file'[e] # None)
             /\ \A q \in Files : file[q] # None => file'[q] # None
             /\ file'[p] # None
  <2>1. /\ file'[p] = v /\ \A q \in Files \ {p} : file'[q] = file[q]
        /\ \A e \in Entries \ {p} : entry'[e] = entry[e]
        /\ p \in Entries => p \in Listed'
    BY <1>1, <1>4, CommitEffect, ViewTyped
  <2>2. v # None
    BY <1>1, ViewTyped
  <2>3. \A e \in Entries \ {p} : (e \in Listed') <=> (e \in Listed)
    BY <2>1 DEF Listed
  <2>. QED
    BY <1>1, <1>2, <2>1, <2>2, <2>3, ViewTyped
<1>5. CASE OthersStep
  <2>1. UNCHANGED <<mode, boot, path, loads, running>>
    BY <1>1, <1>5, OthersFiles
  <2>2. CASE Publish /\ file' = file
    <3>1. Listed' = Listed
      BY <1>1, <2>2, PublishEffect
    <3>. QED
      BY <1>1, <1>2, <2>1, <2>2, <3>1 DEF FilesExist
  <2>3. ASSUME NEW e \in Entries, NEW v \in Version, Commit(e, v) PROVE FilesExist'
    <3>1. e \in Files /\ path \in Files \cup {None} /\ Own \in Files /\ \A h \in running : h.path \in Files
      BY <1>1, ViewTyped, HandlerTyped
    <3>. QED
      BY <1>1, <1>2, <1>4, <2>1, <2>3, <3>1 DEF FilesExist
  <2>4. ASSUME NEW e \in Entries, Commit(e, None), "catalog" \in mode PROVE FilesExist'
    <3>1. /\ path = None /\ running = {} /\ \A b \in 1..2 : boot[b] = None
      BY <1>1, <2>4 DEF EditorOrCatalog
    <3>2. e \in Files
      BY DEF Files
    <3>3. /\ file'[e] = None /\ \A q \in Files \ {e} : file'[q] = file[q]
          /\ \A f \in Entries \ {e} : entry'[f] = entry[f]
          /\ e \notin Listed'
      BY <1>1, <2>4, <3>2, CommitEffect
    <3>4. \A f \in Entries \ {e} : (f \in Listed') <=> (f \in Listed)
      BY <3>3 DEF Listed
    <3>5. file'[Manifest] # None
      BY <1>2, <3>3
    <3>6. \A f \in Entries : (f \in Listed') <=> (file'[f] # None)
      BY <1>2, <3>3, <3>4 DEF Files
    <3>7. sought' = None
      BY <1>1, <1>2, <2>4
    <3>. QED
      BY <2>1, <3>1, <3>5, <3>6, <3>7 DEF FilesExist
  <2>5. \/ \E e \in Entries, v \in Version \cup {None} :
             Commit(e, v) /\ ("catalog" \in mode \/ v # None)
        \/ Publish /\ file' = file
    BY <1>1, <1>5, OthersFiles
  <2>. QED
    BY <2>2, <2>3, <2>4, <2>5
<1>6. ASSUME NEW b \in 1..2, StartBoot(b) PROVE FilesExist'
  <2>1. UNCHANGED <<file, entry, path, running>>
    BY <1>6 DEF StartBoot, server, view
  <2>2. PICK none \in BOOLEAN : none = (file[Own] = None)
    OBVIOUS
  <2>3. boot' = [c \in 1..2 |->
          IF c = b THEN [step |-> "start", missing |-> none, live |-> TRUE]
          ELSE IF boot[c] = None THEN None ELSE [boot[c] EXCEPT !.live = FALSE]]
    BY <1>6, <2>2 DEF StartBoot
  <2>4. \A c \in 1..2 \ {b} : boot'[c] # None =>
          boot[c] # None /\ boot'[c].missing = boot[c].missing /\ boot'[c].step = boot[c].step
    <3>. SUFFICES ASSUME NEW c \in 1..2 \ {b}, boot'[c] # None
                  PROVE  boot[c] # None /\ boot'[c].missing = boot[c].missing
                         /\ boot'[c].step = boot[c].step
      OBVIOUS
    <3>1. boot[c] # None /\ boot'[c] = [boot[c] EXCEPT !.live = FALSE]
      BY <2>3
    <3>2. boot[c] \in Boot
      BY <1>1, <3>1, ViewTyped
    <3>. QED
      BY <3>1, <3>2 DEF Boot
  <2>5. boot'[b].missing = none /\ boot'[b].step = "start"
    BY <2>3
  <2>6. \A c \in 1..2 :
          (boot'[c] # None /\ (~boot'[c].missing \/ boot'[c].step = "committed")) => file[Own] # None
    <3>. SUFFICES ASSUME NEW c \in 1..2, boot'[c] # None,
                         ~boot'[c].missing \/ boot'[c].step = "committed"
                  PROVE  file[Own] # None
      OBVIOUS
    <3>1. CASE c = b
      BY <2>2, <2>5, <3>1
    <3>2. CASE c # b
      BY <1>2, <2>4, <3>2
    <3>. QED
      BY <3>1, <3>2
  <2>. QED
    BY <1>1, <1>2, <2>1, <2>6 DEF FilesExist, Listed
<1>7. ASSUME NEW b \in 1..2, NEW x \in Boot, BootGoes(b, x), UNCHANGED <<typed, text, running>>
      PROVE  FilesExist'
  <2>1. /\ boot[b] # None /\ boot' = [boot EXCEPT ![b] = x] /\ x.missing = boot[b].missing
        /\ boot \in [1..2 -> Boot \cup {None}] /\ path \in Files \cup {None}
        /\ \A h \in running : h.path \in Files
    BY <1>1, <1>7, ViewTyped, HandlerTyped DEF BootGoes
  <2>2. boot'[b] = x /\ \A c \in 1..2 \ {b} : boot'[c] = boot[c]
    BY <2>1
  <2>3. CASE x.step \in {"commit", "failed", "done"} /\ UNCHANGED <<file, entry>>
    <3>1. path' # None => file[path'] # None
      <4>1. UNCHANGED path \/ \E p \in Files : file[p] # None /\ OpenFile(p)
        BY <1>7, <2>3 DEF BootGoes, view
      <4>. QED
        BY <1>2, <4>1, Opened
    <3>2. \A c \in 1..2 :
            (boot'[c] # None /\ (~boot'[c].missing \/ boot'[c].step = "committed")) => file[Own] # None
      BY <1>2, <2>1, <2>2, <2>3
    <3>. QED
      BY <1>1, <1>2, <1>7, <2>3, <3>1, <3>2 DEF FilesExist, Listed
  <2>4. CASE Commit(Own, Starter(Own)) /\ UNCHANGED view
    <3>1. Own \in Files /\ Starter(Own) \in Version
      BY DEF Files, Version, Starter
    <3>2. path' = path
      BY <2>4 DEF view
    <3>. QED
      BY <1>1, <1>2, <1>4, <1>7, <2>1, <2>4, <3>1, <3>2 DEF FilesExist
  <2>. QED
    BY <1>7, <2>3, <2>4 DEF BootGoes
<1>8. CASE \/ \E l \in loads, k \in Load : ReadGoes(l, k)
           \/ \E l \in loads : FileRead(l)
           \/ Edit
  <2>1. UNCHANGED <<file, entry, path, boot, running>>
    BY <1>8 DEF ReadGoes, FileRead, Edit, server, boots, view
  <2>. QED
    BY <1>1, <1>2, <2>1 DEF FilesExist, Listed
<1>9. ASSUME NEW p \in Files, Select(p) PROVE FilesExist'
  <2>1. UNCHANGED <<file, entry, boot, running>> /\ path' = p /\ file[p] # None
    BY <1>9, Opened DEF Select, server, boots
  <2>. QED
    BY <1>1, <1>2, <2>1 DEF FilesExist, Listed
<1>10. ASSUME NEW y \in Handler, Begins(y) PROVE FilesExist'
  <2>1. /\ UNCHANGED <<file, entry, path, boot>> /\ running' = running \cup {y}
        /\ y.step # "committed"
    BY <1>10 DEF Begins, boots, view
  <2>. QED
    BY <1>1, <1>2, <2>1 DEF FilesExist, Listed
<1>11. ASSUME NEW h \in running, HandlerEnds(h), UNCHANGED <<typed, boots>> PROVE FilesExist'
  <2>1. UNCHANGED <<file, entry, boot>> /\ running' = running \ {h} /\ h.path \in Files
    BY <1>1, <1>11, HandlerTyped DEF HandlerEnds, Ends, boots
  <2>2. path' = path \/ path' = None \/ (path' = h.path /\ h.kind = "new" /\ h.step = "committed")
    BY <1>11, <2>1, Opened DEF HandlerEnds, view
  <2>3. path' # None => file[path'] # None
    BY <1>2, <2>2
  <2>. QED
    BY <1>1, <1>2, <2>1, <2>3 DEF FilesExist, Listed
<1>12. ASSUME NEW h \in running, NEW y \in Handler, HandlerGoes(h, y), UNCHANGED <<typed, boots>>
       PROVE  FilesExist'
  <2>1. /\ UNCHANGED <<path, boot>> /\ running' = (running \ {h}) \cup {y}
        /\ y.kind = h.kind /\ y.path = h.path
        /\ h.path \in Files /\ h.draft \in Version /\ path \in Files \cup {None} /\ Own \in Files
        /\ \A g \in running : g.path \in Files
    BY <1>1, <1>12, HandlerTyped, ViewTyped DEF HandlerGoes, Goes, view, boots
  <2>2. CASE Commit(h.path, h.draft)
    <3>1. /\ file'[Manifest] # None /\ file'[h.path] # None
          /\ \A e \in Entries : (e \in Listed') <=> (file'[e] # None)
          /\ \A q \in Files : file[q] # None => file'[q] # None
      BY <1>4, <2>1, <2>2
    <3>. QED
      BY <1>1, <1>2, <2>1, <3>1 DEF FilesExist
  <2>3. CASE Publish /\ UNCHANGED file /\ y.step = "published"
    <3>1. Listed' = Listed
      BY <1>1, <2>3, PublishEffect
    <3>. QED
      BY <1>1, <1>2, <2>1, <2>3, <3>1 DEF FilesExist
  <2>4. CASE UNCHANGED <<file, entry>> /\ y.step # "committed"
    BY <1>1, <1>2, <2>1, <2>4 DEF FilesExist, Listed
  <2>. QED
    BY <1>12, <2>2, <2>3, <2>4 DEF HandlerGoes
<1>. QED
  BY <1>1, <1>3, <1>5, <1>6, <1>7, <1>8, <1>9, <1>10, <1>11, <1>12, EditorSteps

\* A run of the bootstrap that is not cancelled finds the editor empty.
LEMMA BootFresh ==
  ASSUME IInv, NEW b \in 1..2, NEW x, BootGoes(b, x), x.live, "loading" \notin mode
  PROVE  path = None /\ loads = {} /\ running = {} /\ ~loaded
BY DEF IInv, EditorInv, Boots, BootGoes

LEMMA BootsKept ==
  ASSUME IInv, Next
  PROVE  Boots'
<1>1. /\ TypeOK /\ CatalogInv /\ FilesExist /\ Boots /\ OneHandler
  BY DEF IInv, EditorInv
<1>2. /\ boot[2] # None => boot[1] # None /\ ~boot[1].live
      /\ \A b \in 1..2 : (boot[b] # None /\ boot[b].live /\ boot[b].step # "done") => ~bootstrapped
      /\ (~bootstrapped /\ "loading" \notin mode) => path = None /\ loads = {} /\ running = {} /\ ~loaded
      /\ "slow" \notin mode =>
           /\ boot[2] = None
           /\ boot[1] # None => boot[1].live
  BY <1>1 DEF Boots
<1>3. UNCHANGED mode
  BY <1>1, ModeStays
<1>4. boot \in [1..2 -> Boot \cup {None}]
  BY <1>1, ViewTyped
<1>5. CASE Still \/ OthersStep
  <2>1. UNCHANGED <<boot, bootstrapped, path, loads, running, loaded>>
    BY <1>1, <1>5, OthersFiles DEF Still, boots, view
  <2>. QED
    BY <1>2, <1>3, <2>1 DEF Boots
<1>6. ASSUME NEW b \in 1..2, StartBoot(b) PROVE Boots'
  <2>1. /\ boot[b] = None /\ ~bootstrapped /\ UNCHANGED <<bootstrapped, path, loads, running, loaded>>
        /\ b = 1 \/ ("slow" \in mode /\ boot[1] # None)
    BY <1>6 DEF StartBoot, view
  <2>2. PICK none \in BOOLEAN : none = (file[Own] = None)
    OBVIOUS
  <2>3. boot' = [c \in 1..2 |->
          IF c = b THEN [step |-> "start", missing |-> none, live |-> TRUE]
          ELSE IF boot[c] = None THEN None ELSE [boot[c] EXCEPT !.live = FALSE]]
    BY <1>6, <2>2 DEF StartBoot
  <2>4. PICK x : x = [step |-> "start", missing |-> none, live |-> TRUE]
    OBVIOUS
  <2>5. boot'[b] = x /\ x.live = TRUE /\ x.step = "start"
    BY <2>3, <2>4
  <2>6. CASE b = 1
    <3>1. boot[2] = None
      BY <1>2, <2>1, <2>6
    <3>2. boot'[2] = None /\ boot'[1] = x
      BY <2>3, <2>5, <2>6, <3>1
    <3>. QED
      BY <1>2, <1>3, <2>1, <2>5, <3>2 DEF Boots
  <2>7. CASE b = 2
    <3>1. boot[1] # None /\ boot[1] \in Boot /\ "slow" \in mode
      BY <1>4, <2>1, <2>7
    <3>2. PICK y : y = [boot[1] EXCEPT !.live = FALSE]
      OBVIOUS
    <3>3. y \in Boot /\ y.live = FALSE
      BY <3>1, <3>2 DEF Boot
    <3>4. boot'[1] = y /\ boot'[2] = x
      BY <2>3, <2>5, <2>7, <3>1, <3>2
    <3>5. y # None
      BY <3>3
    <3>. QED
      BY <1>2, <1>3, <2>1, <2>5, <3>1, <3>3, <3>4, <3>5 DEF Boots
  <2>. QED
    BY <2>6, <2>7
<1>7. ASSUME NEW b \in 1..2, NEW x \in Boot, BootGoes(b, x), UNCHANGED <<typed, text, running>>
      PROVE  Boots'
  <2>1. /\ boot[b] # None /\ boot[b].step # "done" /\ boot' = [boot EXCEPT ![b] = x]
        /\ x.live = boot[b].live /\ x # None /\ x.live \in BOOLEAN
    BY <1>7 DEF BootGoes, Boot
  <2>2. boot'[b] = x /\ \A c \in 1..2 \ {b} : boot'[c] = boot[c]
    BY <1>4, <2>1
  <2>3. CASE ~(x.step = "done" /\ x.live)
    <3>1. UNCHANGED <<bootstrapped, path, loads, running, loaded>>
      BY <1>7, <2>3 DEF BootGoes, view
    <3>. QED
      BY <1>2, <1>3, <2>1, <2>2, <2>3, <3>1 DEF Boots
  <2>4. CASE x.step = "done" /\ x.live
    <3>1. bootstrapped' = TRUE
      BY <1>7, <2>4 DEF BootGoes
    <3>2. boot[b].live /\ x # None
      BY <2>1, <2>4
    <3>3. CASE b = 1
      <4>1. boot[2] = None
        BY <1>2, <3>2, <3>3
      <4>2. boot'[1] = x /\ boot'[2] = None
        BY <2>2, <3>3, <4>1
      <4>. QED
        BY <1>3, <2>4, <3>1, <4>2 DEF Boots
    <3>4. CASE b = 2
      <4>1. boot[1] # None /\ ~boot[1].live /\ "slow" \in mode
        BY <1>2, <2>1, <3>4
      <4>2. boot'[2] = x /\ boot'[1] = boot[1]
        BY <2>2, <3>4
      <4>. QED
        BY <1>3, <2>4, <3>1, <4>1, <4>2 DEF Boots
    <3>. QED
      BY <3>3, <3>4
  <2>. QED
    BY <2>3, <2>4
<1>8. CASE (bootstrapped \/ "loading" \in mode) /\ UNCHANGED boots
  BY <1>2, <1>3, <1>8 DEF Boots, boots
<1>9. ASSUME NEW l \in loads, NEW k \in Load, ReadGoes(l, k) PROVE Boots'
  BY <1>2, <1>8, <1>9 DEF ReadGoes
<1>10. ASSUME NEW l \in loads, FileRead(l) PROVE Boots'
  BY <1>2, <1>8, <1>10 DEF FileRead
<1>11. ASSUME Edit PROVE Boots'
  BY <1>2, <1>8, <1>11 DEF Edit, Sees
<1>12. ASSUME NEW p \in Files, Select(p) PROVE Boots'
  BY <1>2, <1>8, <1>12 DEF Select, Ready
<1>13. ASSUME NEW y \in Handler, Begins(y) PROVE Boots'
  BY <1>2, <1>8, <1>13 DEF Begins, Ready, Sees
<1>14. ASSUME NEW h \in running, UNCHANGED boots PROVE Boots'
  BY <1>2, <1>8, <1>14
<1>. QED
  BY <1>1, <1>5, <1>6, <1>7, <1>9, <1>10, <1>11, <1>12, <1>13, <1>14, EditorSteps

\* What is read, shown, edited or saved is of its own file.
LEMMA OwnFiles ==
  ASSUME IInv, Next
  PROVE  WhereTyped'
<1>1. /\ TypeOK /\ CatalogInv /\ EditorOrCatalog /\ FilesExist /\ Boots /\ WhereTyped /\ OneHandler
  BY DEF IInv, EditorInv
<1>2. /\ \A l \in loads : loads = {l} /\ l.path = path /\ (l.step = "read" => l.got # None)
      /\ "loading" \notin mode =>
           /\ \A p \in Files : file[p] # None => file[p].of = p
           /\ \A l \in loads : l.step = "read" => l.got.of = l.path
           /\ loaded => draft # None /\ draft.of = path
           /\ \A h \in running :
                h.draft.of = h.path /\ (h.got # None => h.got.of \in {h.path, sought})
      /\ \A h \in running : h.entry # None => h.entry \in {h.path, sought}
  BY <1>1 DEF WhereTyped
<1>3. UNCHANGED mode /\ UNCHANGED sought
  BY <1>1, ModeStays
<1>4. CASE UNCHANGED <<file, path, loads, loaded, draft, running>>
  BY <1>2, <1>3, <1>4 DEF WhereTyped
<1>5. ASSUME Still PROVE WhereTyped'
  <2>1. UNCHANGED <<file, path, loads, loaded, draft, running>>
    BY <1>5 DEF Still, view, text
  <2>. QED
    BY <1>4, <2>1
<1>6. ASSUME NEW p \in Files, NEW v \in Version \cup {None}, Commit(p, v), v # None => v.of = p,
             "loading" \notin mode
      PROVE  \A q \in Files : file'[q] # None => file'[q].of = q
  BY <1>1, <1>2, <1>6, CommitEffect
<1>7. ASSUME OthersStep PROVE WhereTyped'
  <2>1. UNCHANGED <<path, loads, loaded, draft, running>>
    BY <1>1, <1>7, OthersFiles
  <2>2. CASE file' = file
    BY <1>4, <2>1, <2>2
  <2>3. ASSUME NEW e \in Entries, NEW v \in Version \cup {None}, Commit(e, v), v # None => v.of = e
        PROVE  WhereTyped'
    <3>1. "loading" \notin mode => \A q \in Files : file'[q] # None => file'[q].of = q
      BY <1>6, <2>3 DEF Files
    <3>. QED
      BY <1>2, <1>3, <2>1, <3>1 DEF WhereTyped
  <2>. QED
    BY <1>1, <1>7, <2>2, <2>3, OthersFiles
<1>8. ASSUME NEW b \in 1..2, StartBoot(b) PROVE WhereTyped'
  <2>1. UNCHANGED <<file, path, loads, loaded, draft, running>>
    BY <1>8 DEF StartBoot, server, view, text
  <2>. QED
    BY <1>4, <2>1
<1>9. ASSUME NEW p \in Files, OpenFile(p), UNCHANGED <<file, draft>>,
             NEW S \in SUBSET running, running' = S
      PROVE  WhereTyped'
  <2>1. CASE UNCHANGED <<path, loads, loaded>>
    BY <1>2, <1>3, <1>9, <2>1 DEF WhereTyped
  <2>2. ASSUME NEW k \in Load, loads' = {k}, k.path = p, k.step = "asked", path' = p, loaded' = FALSE
        PROVE  WhereTyped'
    BY <1>2, <1>3, <1>9, <2>2 DEF WhereTyped
  <2>. QED
    BY <1>9, <2>1, <2>2, Opened
<1>10. ASSUME NEW b \in 1..2, NEW x \in Boot, BootGoes(b, x), UNCHANGED <<typed, text, running>>
       PROVE  WhereTyped'
  <2>1. draft' = draft /\ running' = running
    BY <1>10 DEF text
  <2>2. CASE UNCHANGED <<file, view>>
    BY <1>4, <2>1, <2>2 DEF view
  <2>3. CASE Commit(Own, Starter(Own)) /\ UNCHANGED view
    <3>1. Own \in Files /\ Starter(Own) \in Version /\ Starter(Own).of = Own
      BY DEF Files, Version, Starter
    <3>2. "loading" \notin mode => \A q \in Files : file'[q] # None => file'[q].of = q
      BY <1>6, <2>3, <3>1
    <3>3. UNCHANGED <<path, loads, loaded>>
      BY <2>3 DEF view
    <3>. QED
      BY <1>2, <1>3, <2>1, <3>2, <3>3 DEF WhereTyped
  <2>4. CASE UNCHANGED file /\ \E p \in Files : OpenFile(p)
    BY <1>9, <2>1, <2>4
  <2>. QED
    BY <1>10, <2>2, <2>3, <2>4 DEF BootGoes
<1>11. ASSUME NEW l \in loads, NEW k \in Load, ReadGoes(l, k) PROVE WhereTyped'
  <2>1. /\ UNCHANGED <<file, path, loaded, draft, running>> /\ loads = {l} /\ l.path = path
        /\ loads' = {k} /\ k.path = path /\ l.path \in Files
        /\ \/ k.step = "read" /\ k.got = file[path] /\ file[path] # None
           \/ k.step = "failed"
    BY <1>2, <1>11, <1>1, ViewTyped DEF ReadGoes, text, Load
  <2>. QED
    BY <1>2, <1>3, <2>1 DEF WhereTyped
<1>12. ASSUME NEW l \in loads, FileRead(l) PROVE WhereTyped'
  <2>1. /\ UNCHANGED <<file, path, running>> /\ loads = {l} /\ loads' = {} /\ l.path = path
        /\ \/ l.step = "read" /\ l.got # None /\ draft' = l.got
           \/ UNCHANGED <<draft, loaded>>
    BY <1>2, <1>12 DEF FileRead, text, server
  <2>. QED
    BY <1>2, <1>3, <2>1 DEF WhereTyped
<1>13. ASSUME Edit PROVE WhereTyped'
  <2>1. /\ UNCHANGED <<file, path, loads, loaded, running>> /\ draft \in Version
        /\ draft' = [draft EXCEPT !.n = typed + 1]
    BY <1>1, <1>13, ViewTyped DEF Edit, Sees, server, view
  <2>2. draft'.of = draft.of
    BY <2>1 DEF Version
  <2>3. draft' # None
    <3>1. typed + 1 \in 0..MaxEdits
      BY <1>1, <1>13, TypesOn DEF Edit
    <3>2. PICK n \in 0..MaxEdits : n = typed + 1
      BY <3>1
    <3>3. draft' \in Version
      BY <2>1, <3>2 DEF Version
    <3>. QED
      BY <1>1, <3>3, ViewTyped
  <2>. QED
    BY <1>2, <1>3, <2>1, <2>2, <2>3 DEF WhereTyped
<1>14. ASSUME NEW p \in Files, Select(p) PROVE WhereTyped'
  BY <1>9, <1>14 DEF Select, server, text
<1>15. ASSUME NEW y \in Handler, Begins(y) PROVE WhereTyped'
  <2>1. /\ UNCHANGED <<file, path, loads, loaded, draft>> /\ running' = running \cup {y}
        /\ y.got = None /\ (y.entry # None => y.entry \in {y.path, sought})
    BY <1>15 DEF Begins, view, text
  <2>2. "loading" \notin mode => y.draft.of = y.path
    BY <1>2, <1>15 DEF Begins, Sees, Starter
  <2>. QED
    BY <1>2, <1>3, <2>1, <2>2 DEF WhereTyped
<1>16. ASSUME NEW h \in running, HandlerEnds(h), UNCHANGED <<typed, boots>> PROVE WhereTyped'
  <2>1. file' = file /\ running' = running \ {h} /\ h.path \in Files
    BY <1>1, <1>16, HandlerTyped DEF HandlerEnds, Ends
  <2>2. CASE UNCHANGED <<path, loads, loaded, draft>>
    BY <1>2, <1>3, <2>1, <2>2 DEF WhereTyped
  <2>3. CASE OpenFile(h.path) /\ UNCHANGED text
    BY <1>9, <2>1, <2>3 DEF text
  <2>4. CASE path' = None /\ loads' = {} /\ loaded' = FALSE
    BY <1>2, <1>3, <2>1, <2>4 DEF WhereTyped
  <2>. QED
    BY <1>16, <2>2, <2>3, <2>4 DEF HandlerEnds, view, text
<1>17. ASSUME NEW h \in running, NEW y \in Handler, HandlerGoes(h, y), UNCHANGED <<typed, boots>>
       PROVE  WhereTyped'
  <2>1. /\ UNCHANGED <<path, loads, loaded, draft>> /\ running' = (running \ {h}) \cup {y}
        /\ y.path = h.path /\ y.draft = h.draft /\ y.entry = h.entry
        /\ h.path \in Files /\ h.draft \in Version
    BY <1>1, <1>17, HandlerTyped DEF HandlerGoes, Goes
  <2>2. CASE UNCHANGED file
    <3>1. y.got = h.got \/ (h.entry \in Entries /\ y.got = file[h.entry])
      BY <1>17 DEF HandlerGoes, Listed
    <3>2. ASSUME "loading" \notin mode, y.got # None PROVE y.got.of \in {h.path, sought}
      <4>1. CASE y.got = h.got
        BY <1>2, <3>2, <4>1
      <4>2. CASE h.entry \in Entries /\ y.got = file[h.entry]
        <5>1. h.entry \in Files /\ h.entry # None /\ file[h.entry].of = h.entry
          BY <1>1, <1>2, <3>2, <4>2, ViewTyped
        <5>. QED
          BY <1>2, <4>2, <5>1
      <4>. QED
        BY <3>1, <4>1, <4>2
    <3>. QED
      BY <1>2, <1>3, <2>1, <2>2, <3>2 DEF WhereTyped
  <2>3. CASE Commit(h.path, h.draft) /\ y.got = h.got
    <3>1. "loading" \notin mode => \A q \in Files : file'[q] # None => file'[q].of = q
      BY <1>2, <1>6, <2>1, <2>3
    <3>. QED
      BY <1>2, <1>3, <2>1, <2>3, <3>1 DEF WhereTyped
  <2>. QED
    BY <1>17, <2>2, <2>3 DEF HandlerGoes
<1>. QED
  BY <1>1, <1>5, <1>7, <1>8, <1>10, <1>11, <1>12, <1>13, <1>14, <1>15, <1>16, <1>17, EditorSteps

\* An author who waits has one handler, at work on the open file.
LEMMA HandlersKept ==
  ASSUME IInv, Next
  PROVE  OneHandler'
<1>1. /\ TypeOK /\ CatalogInv /\ FilesExist /\ Boots /\ OneHandler
  BY DEF IInv, EditorInv
<1>2. /\ \A h \in running : h.kind = "new" => h.step \in {"commit", "committed", "refused"}
      /\ "saving" \notin mode => \A h \in running : running = {h}
      /\ mode \cap {"loading", "saving"} = {} =>
           \A h \in running : h.kind # "new" => h.path = path
  BY <1>1 DEF OneHandler
<1>3. UNCHANGED mode
  BY <1>1, ModeStays
<1>4. CASE UNCHANGED <<running, path>>
  BY <1>2, <1>3, <1>4 DEF OneHandler
<1>5. CASE running' = {}
  BY <1>5 DEF OneHandler
<1>6. CASE Still \/ OthersStep
  <2>1. UNCHANGED <<running, path>>
    BY <1>1, <1>6, OthersFiles DEF Still, view
  <2>. QED
    BY <1>4, <2>1
<1>7. ASSUME NEW b \in 1..2, StartBoot(b) PROVE OneHandler'
  <2>1. UNCHANGED <<running, path>>
    BY <1>7 DEF StartBoot, view
  <2>. QED
    BY <1>4, <2>1
<1>8. ASSUME NEW b \in 1..2, NEW x \in Boot, BootGoes(b, x), UNCHANGED <<typed, text, running>>
      PROVE  OneHandler'
  <2>1. CASE UNCHANGED view
    BY <1>4, <1>8, <2>1 DEF view
  <2>2. CASE ~UNCHANGED view /\ "loading" \notin mode
    <3>1. x.live
      BY <1>8, <2>2 DEF BootGoes
    <3>. QED
      BY <1>5, <1>8, <2>2, <3>1, BootFresh
  <2>3. CASE "loading" \in mode
    BY <1>2, <1>3, <1>8, <2>3 DEF OneHandler
  <2>. QED
    BY <2>1, <2>2, <2>3
<1>9. ASSUME NEW l \in loads, NEW k \in Load, ReadGoes(l, k) PROVE OneHandler'
  BY <1>4, <1>9 DEF ReadGoes
<1>10. ASSUME NEW l \in loads, FileRead(l) PROVE OneHandler'
  BY <1>4, <1>10 DEF FileRead
<1>11. ASSUME Edit PROVE OneHandler'
  BY <1>4, <1>11 DEF Edit, view
<1>12. ASSUME NEW p \in Files, Select(p) PROVE OneHandler'
  <2>1. running' = running /\ (running = {} \/ "saving" \in mode)
    BY <1>12 DEF Select, Waits
  <2>. QED
    BY <1>2, <1>3, <2>1 DEF OneHandler
<1>13. ASSUME NEW y \in Handler, Begins(y) PROVE OneHandler'
  <2>1. /\ running' = running \cup {y} /\ (running = {} \/ "saving" \in mode) /\ path' = path
        /\ y.kind = "new" => y.step = "commit"
        /\ y.kind # "new" => y.path = path
    BY <1>13 DEF Begins, Waits, view
  <2>. QED
    BY <1>2, <1>3, <2>1 DEF OneHandler
<1>14. ASSUME NEW h \in running, HandlerEnds(h), UNCHANGED <<typed, boots>> PROVE OneHandler'
  <2>1. running' = running \ {h}
    BY <1>14 DEF HandlerEnds, Ends
  <2>. QED
    BY <1>2, <1>3, <2>1 DEF OneHandler
<1>15. ASSUME NEW h \in running, NEW y \in Handler, HandlerGoes(h, y), UNCHANGED <<typed, boots>>
       PROVE  OneHandler'
  <2>1. running' = (running \ {h}) \cup {y} /\ y.kind = h.kind /\ y.path = h.path /\ path' = path
    BY <1>15 DEF HandlerGoes, Goes
  <2>2. y.kind = "new" => y.step \in {"commit", "committed", "refused"}
    BY <1>2, <1>15 DEF HandlerGoes
  <2>. QED
    BY <1>2, <1>3, <2>1, <2>2 DEF OneHandler
<1>. QED
  BY <1>1, <1>6, <1>7, <1>8, <1>9, <1>10, <1>11, <1>12, <1>13, <1>14, <1>15, EditorSteps

\* A preview is of the file that is open or of the entry the editor was opened
\* for, where the author waits for it.
LEMMA PreviewKept ==
  ASSUME IInv, Next
  PROVE  PreviewIsOfOpenOrLinked'
<1>1. /\ TypeOK /\ CatalogInv /\ FilesExist /\ WhereTyped /\ OneHandler /\ PreviewIsOfOpenOrLinked
  BY DEF IInv, EditorInv
<1>2. UNCHANGED mode /\ UNCHANGED sought
  BY <1>1, ModeStays
<1>3. CASE UNCHANGED <<html, path>>
  BY <1>1, <1>2, <1>3 DEF PreviewIsOfOpenOrLinked
<1>4. CASE html' = None
  BY <1>4 DEF PreviewIsOfOpenOrLinked
<1>5. ASSUME NEW p \in Files, OpenFile(p) PROVE PreviewIsOfOpenOrLinked'
  BY <1>3, <1>4, <1>5, Opened
<1>6. CASE Still \/ OthersStep
  <2>1. UNCHANGED <<html, path>>
    BY <1>1, <1>6, OthersFiles DEF Still, view
  <2>. QED
    BY <1>3, <2>1
<1>7. ASSUME NEW b \in 1..2, StartBoot(b) PROVE PreviewIsOfOpenOrLinked'
  <2>1. UNCHANGED <<html, path>>
    BY <1>7 DEF StartBoot, view
  <2>. QED
    BY <1>3, <2>1
<1>8. ASSUME NEW b \in 1..2, NEW x \in Boot, BootGoes(b, x), UNCHANGED <<typed, text, running>>
      PROVE  PreviewIsOfOpenOrLinked'
  BY <1>3, <1>5, <1>8 DEF BootGoes, view
<1>9. ASSUME NEW l \in loads, NEW k \in Load, ReadGoes(l, k) PROVE PreviewIsOfOpenOrLinked'
  BY <1>3, <1>9 DEF ReadGoes
<1>10. ASSUME NEW l \in loads, FileRead(l) PROVE PreviewIsOfOpenOrLinked'
  BY <1>3, <1>10 DEF FileRead
<1>11. ASSUME Edit PROVE PreviewIsOfOpenOrLinked'
  BY <1>3, <1>11 DEF Edit, view
<1>12. ASSUME NEW p \in Files, Select(p) PROVE PreviewIsOfOpenOrLinked'
  BY <1>5, <1>12 DEF Select
<1>13. ASSUME NEW y \in Handler, Begins(y) PROVE PreviewIsOfOpenOrLinked'
  BY <1>3, <1>13 DEF Begins, view
<1>14. ASSUME NEW h \in running, HandlerEnds(h), UNCHANGED <<typed, boots>> PROVE PreviewIsOfOpenOrLinked'
  <2>1. CASE h.kind = "preview" /\ html' = h.got /\ path' = path
    <3>1. ASSUME mode \cap {"loading", "saving"} = {}, h.got # None
          PROVE  h.got.of \in {path, sought}
      <4>1. "loading" \notin mode
        BY <3>1
      <4>2. h.got.of \in {h.path, sought}
        BY <1>1, <3>1, <4>1 DEF WhereTyped
      <4>3. h.path = path
        BY <1>1, <2>1, <3>1 DEF OneHandler
      <4>. QED
        BY <4>2, <4>3
    <3>. QED
      BY <1>2, <2>1, <3>1 DEF PreviewIsOfOpenOrLinked
  <2>2. h.path \in Files
    BY <1>1, HandlerTyped
  <2>. QED
    BY <1>3, <1>4, <1>5, <1>14, <2>1, <2>2 DEF HandlerEnds, view
<1>15. ASSUME NEW h \in running, NEW y \in Handler, HandlerGoes(h, y), UNCHANGED <<typed, boots>>
       PROVE  PreviewIsOfOpenOrLinked'
  BY <1>3, <1>15 DEF HandlerGoes
<1>. QED
  BY <1>1, <1>6, <1>7, <1>8, <1>9, <1>10, <1>11, <1>12, <1>13, <1>14, <1>15, EditorSteps

\* No version has a number that was not given out.
LEMMA NumbersKept ==
  ASSUME IInv, Next
  PROVE  Numbered'
<1>1. /\ TypeOK /\ CatalogInv /\ FilesExist /\ WhereTyped /\ OneHandler /\ Numbered
  BY DEF IInv, EditorInv
<1>2. /\ \A p \in Files : file[p] # None => file[p].n <= typed
      /\ draft # None => draft.n <= typed
      /\ \A l \in loads : l.got # None => l.got.n <= typed
      /\ \A h \in running : h.draft.n <= typed
  BY <1>1 DEF Numbered
<1>3. /\ typed \in Nat /\ \A v \in Version : v.n \in Nat
      /\ \A p \in Files : Starter(p) \in Version /\ Starter(p).n = 0
      /\ Own \in Files
  <2>1. typed \in Nat
    BY <1>1, ViewTyped
  <2>2. \A v \in Version : v.n \in Nat
    BY DEF Version
  <2>3. \A p \in Files : Starter(p) \in Version /\ Starter(p).n = 0
    BY DEF Starter, Version
  <2>. QED
    BY <2>1, <2>2, <2>3 DEF Files
<1>4. CASE UNCHANGED <<file, draft, loads, running, typed>>
  BY <1>2, <1>4 DEF Numbered
<1>5. ASSUME NEW p \in Files, NEW v \in Version \cup {None}, Commit(p, v), NEW n \in Nat, typed <= n,
             v # None => v.n <= n
      PROVE  \A q \in Files : file'[q] # None => file'[q].n <= n
  <2>. SUFFICES ASSUME NEW q \in Files, file'[q] # None PROVE file'[q].n <= n
    OBVIOUS
  <2>1. file'[p] = v /\ (q # p => file'[q] = file[q])
    BY <1>1, <1>5, CommitEffect
  <2>2. file[q] # None => file[q].n <= typed /\ file[q] \in Version
    BY <1>1, <1>2, ViewTyped
  <2>. QED
    BY <1>3, <1>5, <2>1, <2>2
<1>6. ASSUME Still PROVE Numbered'
  BY <1>4, <1>6 DEF Still, view, text
<1>7. ASSUME OthersStep PROVE Numbered'
  <2>1. UNCHANGED <<draft, loads, running>> /\ typed' \in Nat /\ typed <= typed'
    BY <1>1, <1>7, OthersFiles, ViewTyped
  <2>2. \A p \in Files : file'[p] # None => file'[p].n <= typed'
    <3>1. CASE file' = file
      <4>1. \A p \in Files : file[p] # None => file[p] \in Version
        BY <1>1, ViewTyped
      <4>. QED
        BY <1>2, <1>3, <2>1, <3>1, <4>1
    <3>2. ASSUME NEW e \in Entries, NEW v \in Version \cup {None}, Commit(e, v),
                 v # None => v.of = e /\ v.n <= typed'
          PROVE  \A p \in Files : file'[p] # None => file'[p].n <= typed'
      BY <1>5, <2>1, <3>2 DEF Files
    <3>. QED
      BY <1>1, <1>7, <3>1, <3>2, OthersFiles
  <2>3. /\ draft # None => draft \in Version
        /\ \A l \in loads : l.got # None => l.got \in Version
        /\ \A h \in running : h.draft \in Version
    BY <1>1, ViewTyped, HandlerTyped DEF Load
  <2>. QED
    BY <1>2, <1>3, <2>1, <2>2, <2>3 DEF Numbered
<1>8. ASSUME NEW b \in 1..2, StartBoot(b) PROVE Numbered'
  BY <1>4, <1>8 DEF StartBoot, server, view, text
<1>9. ASSUME NEW p \in Files, OpenFile(p), UNCHANGED <<file, draft, typed>>,
             NEW S \in SUBSET running, running' = S
      PROVE  Numbered'
  <2>1. loads' = loads \/ \E k : loads' = {k} /\ k.got = None
    BY <1>9, Opened
  <2>. QED
    BY <1>2, <1>9, <2>1 DEF Numbered
<1>10. ASSUME NEW b \in 1..2, NEW x \in Boot, BootGoes(b, x), UNCHANGED <<typed, text, running>>
       PROVE  Numbered'
  <2>1. CASE Commit(Own, Starter(Own)) /\ UNCHANGED view
    <3>1. \A q \in Files : file'[q] # None => file'[q].n <= typed
      BY <1>3, <1>5, <2>1
    <3>. QED
      BY <1>2, <1>10, <2>1, <3>1 DEF Numbered, view, text
  <2>2. CASE UNCHANGED <<file, view>>
    BY <1>4, <1>10, <2>2 DEF view, text
  <2>3. CASE UNCHANGED file /\ \E p \in Files : OpenFile(p)
    BY <1>9, <1>10, <2>3 DEF text
  <2>. QED
    BY <1>10, <2>1, <2>2, <2>3 DEF BootGoes
<1>11. ASSUME NEW l \in loads, NEW k \in Load, ReadGoes(l, k) PROVE Numbered'
  <2>1. /\ loads' = (loads \ {l}) \cup {k}
        /\ k.got = l.got \/ k.got = file[l.path]
        /\ UNCHANGED <<file, draft, running, typed>> /\ l.path \in Files
    BY <1>1, <1>11, ViewTyped DEF ReadGoes, text, Load
  <2>. QED
    BY <1>2, <2>1 DEF Numbered
<1>12. ASSUME NEW l \in loads, FileRead(l) PROVE Numbered'
  <2>1. /\ loads' = loads \ {l}
        /\ draft' = draft \/ draft' = l.got
        /\ UNCHANGED <<file, running, typed>>
    BY <1>12 DEF FileRead, server, text
  <2>. QED
    BY <1>2, <2>1 DEF Numbered
<1>13. ASSUME Edit PROVE Numbered'
  <2>1. /\ typed' = typed + 1 /\ draft' = [draft EXCEPT !.n = typed + 1] /\ draft \in Version
        /\ UNCHANGED <<file, loads, running>>
    BY <1>1, <1>13, ViewTyped DEF Edit, Sees, server, view
  <2>2. draft'.n = typed + 1
    BY <2>1 DEF Version
  <2>3. /\ \A p \in Files : file[p] # None => file[p] \in Version
        /\ \A l \in loads : l.got # None => l.got \in Version
        /\ \A h \in running : h.draft \in Version
    BY <1>1, ViewTyped, HandlerTyped DEF Load
  <2>4. \A n \in Nat : n <= typed => n <= typed'
    BY <1>3, <2>1
  <2>5. draft'.n <= typed'
    BY <1>3, <2>1, <2>2
  <2>. QED
    BY <1>2, <1>3, <2>1, <2>3, <2>4, <2>5 DEF Numbered
<1>14. ASSUME NEW p \in Files, Select(p) PROVE Numbered'
  BY <1>9, <1>14 DEF Select, server, text
<1>15. ASSUME NEW y \in Handler, Begins(y) PROVE Numbered'
  <2>1. /\ UNCHANGED <<file, loads, draft, typed>> /\ running' = running \cup {y}
    BY <1>15 DEF Begins, view, text
  <2>2. y.draft.n <= typed
    <3>1. y.path \in Files
      BY DEF Handler
    <3>2. y.draft = Starter(y.path) \/ (y.draft = draft /\ draft # None)
      BY <1>15 DEF Begins, Sees
    <3>. QED
      BY <1>2, <1>3, <3>1, <3>2
  <2>. QED
    BY <1>2, <2>1, <2>2 DEF Numbered
<1>16. ASSUME NEW h \in running, HandlerEnds(h), UNCHANGED <<typed, boots>> PROVE Numbered'
  <2>1. file' = file /\ running' = running \ {h} /\ h.path \in Files
    BY <1>1, <1>16, HandlerTyped DEF HandlerEnds, Ends
  <2>2. CASE UNCHANGED <<loads, draft>>
    BY <1>2, <1>16, <2>1, <2>2 DEF Numbered
  <2>3. CASE OpenFile(h.path) /\ UNCHANGED text
    BY <1>9, <1>16, <2>1, <2>3 DEF text
  <2>4. CASE draft' = None /\ loads' = {}
    BY <1>2, <1>16, <2>1, <2>4 DEF Numbered
  <2>. QED
    BY <1>16, <2>2, <2>3, <2>4 DEF HandlerEnds, view, text
<1>17. ASSUME NEW h \in running, NEW y \in Handler, HandlerGoes(h, y), UNCHANGED <<typed, boots>>
       PROVE  Numbered'
  <2>1. /\ UNCHANGED <<loads, draft>> /\ running' = (running \ {h}) \cup {y}
        /\ y.draft = h.draft /\ h.path \in Files /\ h.draft \in Version
    BY <1>1, <1>17, HandlerTyped DEF HandlerGoes, Goes
  <2>2. \A q \in Files : file'[q] # None => file'[q].n <= typed
    <3>1. file' = file \/ Commit(h.path, h.draft)
      BY <1>17 DEF HandlerGoes
    <3>. QED
      BY <1>2, <1>3, <1>5, <2>1, <3>1
  <2>. QED
    BY <1>2, <1>17, <2>1, <2>2 DEF Numbered
<1>. QED
  BY <1>1, <1>6, <1>7, <1>8, <1>10, <1>11, <1>12, <1>13, <1>14, <1>15, <1>16, <1>17, EditorSteps

\* Where the author is patient, what is in dev is never behind.
LEMMA PatientKept ==
  ASSUME IInv, Next
  PROVE  Patient'
<1>1. /\ TypeOK /\ CatalogInv /\ EditorOrCatalog /\ FilesExist /\ Boots /\ WhereTyped /\ OneHandler
      /\ Numbered
  BY DEF IInv, EditorInv
<1>. SUFFICES ASSUME mode \cap {"loading", "saving", "slow"} = {} PROVE Patient'
  <2>1. UNCHANGED mode
    BY <1>1, ModeStays
  <2>. QED
    BY <2>1 DEF Patient
<1>2. /\ "saving" \notin mode /\ "slow" \notin mode /\ "loading" \notin mode
      /\ \A l \in loads : loads = {l} /\ l.path = path /\ ~loaded
                          /\ (l.step = "read" => l.got # None)
                          /\ ((l.step = "read" /\ ~replaced) => file[path].n >= l.got.n)
      /\ (path # None /\ loaded /\ ~dirty /\ ~replaced) => InDev
      /\ \A h \in running :
           /\ running = {h}
           /\ h.kind # "new" =>
                /\ path # None /\ loaded /\ loads = {} /\ h.path = path /\ h.draft = draft
                /\ ((h.clean /\ ~replaced) \/ h.step = "committed") => InDev
                /\ (h.step = "published" /\ h.clean /\ ~replaced /\ h.link = h.path) => Live(h)
  BY <1>1 DEF IInv, EditorInv, WhereTyped, OneHandler, Patient
<1>3. /\ path # None => path \in Files /\ file[path] # None /\ file[path] \in Version
                        /\ file[path].n \in Nat
      /\ \A v \in Version : v.n \in Nat
  <2>1. \A v \in Version : v.n \in Nat
    BY DEF Version
  <2>. QED
    BY <1>1, <2>1, ViewTyped DEF FilesExist
\* Nothing is at work, and nothing is loaded.
<1>4. CASE running' = {} /\ loads' = {} /\ (loaded' = FALSE \/ path' = None)
  BY <1>4 DEF Patient
<1>5. ASSUME NEW p \in Files, OpenFile(p), ~UNCHANGED view, running' = {} PROVE Patient'
  <2>1. PICK k : loads' = {k} /\ k.step = "asked" /\ loaded' = FALSE
    BY <1>5, Opened DEF view
  <2>. QED
    BY <1>5, <2>1 DEF Patient
\* Only the file and its row change, and they do not go back.
<1>6. ASSUME UNCHANGED <<view, text, running>>,
             path # None =>
               /\ \/ file'[path] = file[path]
                  \/ file'[path] \in Version /\ file'[path].n >= file[path].n
               /\ path \in Entries =>
                    \/ /\ entry[path] # None => /\ entry'[path] # None
                                                /\ entry'[path].artifact = entry[path].artifact
                    \/ entry'[path] # None /\ entry'[path].artifact = file[path]
      PROVE  Patient'
  <2>1. UNCHANGED <<path, loads, loaded, replaced, draft, dirty, running>>
    BY <1>6 DEF view, text
  <2>2. CASE path = None
    <3>1. \A h \in running : h.kind = "new"
      BY <1>2, <2>2
    <3>2. loads = {}
      BY <1>1, <1>2, <2>2, ViewTyped DEF Load
    <3>. QED
      BY <1>2, <2>1, <2>2, <3>1, <3>2 DEF Patient
  <2>3. CASE path # None
    <3>1. file[path] \in Version /\ file'[path] \in Version /\ file'[path].n >= file[path].n
      <4>1. \A n \in Nat : n >= n
        OBVIOUS
      <4>. QED
        BY <1>3, <1>6, <2>3, <4>1
    <3>2. \A n \in Nat : file[path].n >= n => file'[path].n >= n
      BY <1>3, <3>1
    <3>3. loaded => draft \in Version
      BY <1>1, ViewTyped DEF WhereTyped
    <3>4. (loaded /\ InDev) => InDev'
      BY <1>3, <2>1, <3>2, <3>3 DEF InDev
    <3>5. \A l \in loads : (l.step = "read" /\ ~replaced) => file'[path].n >= l.got.n
      BY <1>1, <1>2, <1>3, <3>2, ViewTyped DEF Load
    <3>6. ASSUME NEW h \in running, h.kind # "new", h.step = "published", h.clean, ~replaced,
                 h.link = h.path
          PROVE  Live(h)'
      <4>1. /\ h.path = path /\ path \in Entries /\ h.draft = draft /\ InDev /\ Live(h)
        BY <1>1, <1>2, <2>3, <3>6, HandlerTyped, ViewTyped
      <4>2. file[path].n >= draft.n
        BY <4>1 DEF InDev
      <4>. QED
        BY <1>1, <1>6, <2>3, <3>1, <4>1, <4>2, ViewTyped DEF Live
    <3>7. ASSUME NEW h \in running, h.kind # "new"
          PROVE  /\ path' # None /\ loaded' /\ loads' = {} /\ h.draft = draft'
                 /\ ((h.clean /\ ~replaced') \/ h.step = "committed") => InDev'
                 /\ (h.step = "published" /\ h.clean /\ ~replaced' /\ h.link = h.path) => Live(h)'
      BY <1>2, <2>1, <3>4, <3>6, <3>7
    <3>8. \A l \in loads' :
            ~loaded' /\ ((l.step = "read" /\ ~replaced') => file'[path'].n >= l.got.n)
      BY <1>2, <2>1, <3>5
    <3>9. (path' # None /\ loaded' /\ ~dirty' /\ ~replaced') => InDev'
      BY <1>2, <2>1, <3>4
    <3>. QED
      BY <1>2, <2>1, <3>7, <3>8, <3>9 DEF Patient
  <2>. QED
    BY <2>2, <2>3
<1>7. ASSUME Still PROVE Patient'
  BY <1>6, <1>7 DEF Still
<1>8. ASSUME OthersStep PROVE Patient'
  <2>1. UNCHANGED <<view, text, running>>
    BY <1>1, <1>8, OthersFiles DEF view, text
  <2>2. CASE "catalog" \in mode
    <3>1. path = None
      BY <1>1, <2>2 DEF EditorOrCatalog
    <3>. QED
      BY <1>6, <2>1, <3>1
  <2>3. ASSUME NEW e \in Entries, NEW v \in Version, Commit(e, v), v.n = typed + 1
        PROVE  Patient'
    <3>1. /\ file'[e] = v /\ \A p \in Files \ {e} : file'[p] = file[p]
          /\ \A d \in Entries : entry[d] # None =>
               entry'[d] # None /\ entry'[d].artifact = entry[d].artifact
      BY <1>1, <2>3, CommitEffect DEF Files
    <3>2. path # None => file[path].n <= typed /\ typed \in Nat
      BY <1>1, <1>3, ViewTyped DEF Numbered
    <3>3. (path # None /\ path = e) => v.n >= file[path].n
      BY <1>3, <2>3, <3>2
    <3>. QED
      BY <1>3, <1>6, <2>1, <3>1, <3>3
  <2>4. CASE Publish /\ file' = file
    BY <1>1, <1>6, <2>1, <2>4, PublishEffect
  <2>. QED
    BY <1>1, <1>8, <2>2, <2>3, <2>4, OthersFiles
<1>9. ASSUME NEW b \in 1..2, StartBoot(b) PROVE Patient'
  BY <1>6, <1>9 DEF StartBoot, server
<1>10. ASSUME NEW b \in 1..2, NEW x \in Boot, BootGoes(b, x), UNCHANGED <<typed, text, running>>
       PROVE  Patient'
  <2>1. x.live
    BY <1>1, <1>2, <1>10, ViewTyped DEF Boots, BootGoes
  <2>2. path = None /\ loads = {} /\ running = {} /\ ~loaded
    BY <1>2, <1>10, <2>1, BootFresh
  <2>. QED
    BY <1>4, <1>5, <1>10, <2>2 DEF BootGoes, view
<1>11. ASSUME NEW l \in loads, NEW k \in Load, ReadGoes(l, k) PROVE Patient'
  <2>1. /\ loads' = (loads \ {l}) \cup {k}
        /\ UNCHANGED <<file, entry, path, loaded, replaced, draft, dirty, running>>
        /\ k.step = "read" => k.got = file[l.path] /\ file[l.path] # None
    BY <1>11 DEF ReadGoes, text
  <2>2. loads = {l} /\ l.path = path /\ ~loaded /\ l.path \in Files /\ \A h \in running : h.kind = "new"
    BY <1>1, <1>2, ViewTyped DEF Load
  <2>3. \A n \in Nat : n >= n
    OBVIOUS
  <2>4. k.step = "read" => file[path].n >= k.got.n
    BY <1>3, <2>1, <2>2, <2>3, ViewTyped
  <2>. QED
    BY <1>2, <2>1, <2>2, <2>4 DEF Patient
<1>12. ASSUME NEW l \in loads, FileRead(l) PROVE Patient'
  <2>1. /\ loads' = loads \ {l} /\ UNCHANGED <<file, entry, path, running>>
    BY <1>12 DEF FileRead, server
  <2>2. loads = {l} /\ l.path = path /\ ~loaded /\ \A h \in running : h.kind = "new"
    BY <1>2
  <2>3. CASE l.step = "read"
    <3>1. draft' = l.got /\ l.got # None
      BY <1>2, <1>12, <2>2, <2>3 DEF FileRead
    <3>2. replaced' \/ InDev'
      <4>1. PICK other \in BOOLEAN : other = (l.got # file[l.path])
        OBVIOUS
      <4>2. replaced' = (replaced /\ other)
        BY <1>12, <2>3, <4>1 DEF FileRead
      <4>3. CASE ~replaced
        BY <1>2, <2>1, <2>2, <2>3, <3>1, <4>3 DEF InDev
      <4>4. CASE l.got = file[path]
        <5>1. l.got \in Version
          BY <1>1, <3>1, ViewTyped DEF Load
        <5>2. \A n \in Nat : n >= n
          OBVIOUS
        <5>. QED
          BY <1>3, <2>1, <3>1, <4>4, <5>1, <5>2 DEF InDev
      <4>. QED
        BY <1>1, <2>2, <4>1, <4>2, <4>3, <4>4, ViewTyped
    <3>. QED
      BY <1>2, <2>1, <2>2, <3>2 DEF Patient
  <2>4. CASE l.step # "read"
    <3>1. UNCHANGED <<loaded, replaced, draft, dirty>>
      BY <1>12, <2>4 DEF FileRead, text
    <3>. QED
      BY <1>2, <2>1, <2>2, <3>1 DEF Patient
  <2>. QED
    BY <2>3, <2>4
<1>13. ASSUME Edit PROVE Patient'
  <2>1. running = {} /\ loads = {} /\ dirty' = TRUE /\ UNCHANGED <<running, loads>>
    BY <1>2, <1>13 DEF Edit, Waits, Sees, view
  <2>. QED
    BY <2>1 DEF Patient
<1>14. ASSUME NEW p \in Files, Select(p) PROVE Patient'
  <2>1. running = {} /\ running' = {} /\ OpenFile(p) /\ p # path
    BY <1>2, <1>14 DEF Select, Waits
  <2>2. path' = p
    BY <2>1, Opened
  <2>. QED
    BY <1>5, <2>1, <2>2 DEF view
<1>15. ASSUME NEW y \in Handler, Begins(y) PROVE Patient'
  <2>1. /\ running = {} /\ running' = {y}
        /\ UNCHANGED <<file, entry, path, loads, loaded, replaced, draft, dirty>>
    BY <1>2, <1>15 DEF Begins, Waits, view, text
  <2>2. CASE y.kind = "new"
    BY <1>2, <2>1, <2>2 DEF Patient, InDev
  <2>3. CASE y.kind # "new"
    <3>1. /\ Sees /\ y.draft = draft /\ y.step \notin {"committed", "published"} /\ (y.clean <=> ~dirty)
      BY <1>15, <2>3 DEF Begins
    <3>2. loaded /\ loads = {} /\ path # None
      BY <1>2, <3>1 DEF Sees
    <3>3. (y.clean /\ ~replaced) => InDev'
      BY <1>2, <2>1, <3>1, <3>2 DEF InDev
    <3>. QED
      BY <1>2, <2>1, <2>3, <3>1, <3>2, <3>3 DEF Patient, InDev
  <2>. QED
    BY <2>2, <2>3
<1>16. ASSUME NEW h \in running, HandlerEnds(h), UNCHANGED <<typed, boots>> PROVE Patient'
  <2>1. running' = {} /\ file' = file /\ h.path \in Files
    BY <1>1, <1>2, <1>16, HandlerTyped DEF HandlerEnds, Ends
  <2>2. CASE UNCHANGED <<path, loads, loaded, replaced, draft, dirty>>
    BY <1>2, <2>1, <2>2 DEF Patient, InDev
  <2>3. CASE h.step = "committed" /\ h.kind # "new" /\ UNCHANGED <<path, loads, loaded, draft>>
    <3>1. InDev /\ loads = {}
      BY <1>2, <2>3
    <3>2. InDev' /\ loads' = {}
      BY <2>1, <2>3, <3>1 DEF InDev
    <3>. QED
      BY <2>1, <3>2 DEF Patient
  <2>4. CASE OpenFile(h.path) /\ UNCHANGED text
    BY <1>5, <2>1, <2>2, <2>4 DEF view, text
  <2>5. CASE path' = None /\ loads' = {}
    BY <1>4, <2>1, <2>5
  <2>. QED
    BY <1>16, <2>2, <2>3, <2>4, <2>5 DEF HandlerEnds, view, text
<1>17. ASSUME NEW h \in running, NEW y \in Handler, HandlerGoes(h, y), UNCHANGED <<typed, boots>>
       PROVE  Patient'
  <2>1. /\ running' = {y} /\ UNCHANGED <<path, loads, loaded, draft>>
        /\ y.kind = h.kind /\ y.path = h.path /\ y.draft = h.draft
        /\ h.path \in Files /\ h.draft \in Version
    BY <1>1, <1>2, <1>17, HandlerTyped DEF HandlerGoes, Goes
  <2>2. CASE h.kind = "new"
    <3>1. h.step \in {"commit", "committed", "refused"}
      BY <1>1, <2>2 DEF OneHandler
    <3>2. /\ dirty' = dirty
          /\ \/ file' = file /\ replaced' = replaced
             \/ Commit(h.path, h.draft) /\ (IF h.path = path THEN replaced' = TRUE ELSE replaced' = replaced)
      BY <1>17, <2>2, <3>1 DEF HandlerGoes
    <3>3. path # None => replaced' = TRUE \/ (replaced' = replaced /\ file'[path] = file[path])
      BY <1>1, <1>3, <2>1, <3>1, <3>2, CommitEffect
    <3>4. (path # None /\ loaded /\ ~dirty /\ ~replaced') => InDev'
      BY <1>2, <2>1, <3>3 DEF InDev
    <3>5. \A l \in loads : ~loaded /\ ((l.step = "read" /\ ~replaced') => file'[path].n >= l.got.n)
      BY <1>1, <1>2, <3>3, ViewTyped DEF Load
    <3>. QED
      BY <2>1, <2>2, <3>1, <3>2, <3>4, <3>5 DEF Patient
  <2>3. CASE h.kind # "new"
    <3>1. /\ path # None /\ loaded /\ loads = {} /\ h.path = path /\ h.draft = draft
          /\ ((h.clean /\ ~replaced) \/ h.step = "committed") => InDev
          /\ (~dirty /\ ~replaced) => InDev
      BY <1>2, <2>3
    <3>. SUFFICES /\ (((~dirty' \/ y.clean) /\ ~replaced') \/ y.step = "committed") => InDev'
                  /\ (y.step = "published" /\ y.clean /\ ~replaced' /\ y.link = y.path) => Live(y)'
      BY <2>1, <2>3, <3>1 DEF Patient
    <3>2. CASE y.step = "committed" /\ Commit(h.path, h.draft)
      <4>1. file'[path] = draft
        BY <1>1, <2>1, <3>1, <3>2, CommitEffect
      <4>2. \A n \in Nat : n >= n
        OBVIOUS
      <4>3. InDev'
        BY <1>3, <2>1, <3>1, <4>1, <4>2 DEF InDev
      <4>. QED
        BY <3>2, <4>3
    <3>3. CASE y.step = "published" /\ Publish /\ y.link \in Listed /\ y.clean = h.clean
               /\ UNCHANGED <<file, dirty, replaced>>
      <4>1. InDev => InDev'
        BY <2>1, <3>3 DEF InDev
      <4>2. ASSUME y.clean, ~replaced, y.link = y.path PROVE Live(y)'
        <5>1. path \in Listed /\ InDev
          BY <2>1, <3>1, <3>3, <4>2
        <5>2. entry'[path] # None /\ entry'[path].artifact = file[path]
          BY <1>1, <3>3, <5>1, PublishEffect
        <5>3. file[path] # None /\ file[path].n >= draft.n
          BY <1>3, <3>1, <5>1 DEF InDev
        <5>. QED
          BY <2>1, <3>1, <5>2, <5>3 DEF Live
      <4>. QED
        BY <3>1, <3>3, <4>1, <4>2
    <3>4. CASE /\ y.step \notin {"committed", "published"} /\ file' = file /\ replaced' = replaced
               /\ \/ dirty' = dirty /\ (y.clean => h.clean)
                  \/ h.step = "committed"
      <4>1. InDev => InDev'
        BY <2>1, <3>4 DEF InDev
      <4>. QED
        BY <3>1, <3>4, <4>1
    <3>. QED
      BY <1>17, <3>2, <3>3, <3>4 DEF HandlerGoes
  <2>. QED
    BY <2>2, <2>3
<1>. QED
  BY <1>1, <1>7, <1>8, <1>9, <1>10, <1>11, <1>12, <1>13, <1>14, <1>15, <1>16, <1>17, EditorSteps

-----------------------------------------------------------------------------
(* Types, and the invariant.                                               *)

LEMMA LockTyped ==
  ASSUME IInv, Next
  PROVE  locked' \in Version /\ deps' \in {"idle", "syncing", "error", "ok"}
<1>1. /\ TypeOK /\ CatalogInv /\ FilesExist /\ OneHandler
      /\ locked \in Version /\ deps \in {"idle", "syncing", "error", "ok"}
  BY DEF IInv, EditorInv, TypeOK
<1>2. ASSUME NEW b \in 1..2, BootStep(b) PROVE UNCHANGED <<locked, deps>>
  BY <1>1, <1>2, BootEffect
<1>3. CASE \/ \E l \in loads : ReadFile(l) \/ FileRead(l)
           \/ Edit
           \/ \E p \in Files : Select(p) \/ NewFile(p)
           \/ \E kind \in Handlers \ {"new"} : Click(kind)
           \/ OthersStep
           \/ RequestsStep
  BY <1>1, <1>3 DEF ReadFile, FileRead, Edit, Select, NewFile, Click, OthersStep, RequestsStep, server
<1>. QED
  BY <1>1, <1>2, <1>3, HandlerEffect, EveryStep

\* The part of the type invariant about the editor.
ViewOK ==
  /\ file \in [Files -> Version \cup {None}] /\ typed \in 1..MaxEdits /\ opened \in Nat
  /\ boot \in [1..2 -> Boot \cup {None}] /\ bootstrapped \in BOOLEAN
  /\ path \in Files \cup {None} /\ draft \in Version \cup {None}
  /\ dirty \in BOOLEAN /\ loaded \in BOOLEAN /\ replaced \in BOOLEAN
  /\ loads \in SUBSET Load /\ html \in Version \cup {None} /\ running \in SUBSET Handler

LEMMA ViewKept ==
  ASSUME IInv, Next
  PROVE  ViewOK'
<1>1. /\ TypeOK /\ CatalogInv /\ FilesExist /\ WhereTyped /\ OneHandler
  BY DEF IInv, EditorInv
<1>2. ViewOK
  BY <1>1, ViewTyped DEF ViewOK
<1>3. ASSUME UNCHANGED <<boots, view, text, running>>, typed' \in 1..MaxEdits,
             file' \in [Files -> Version \cup {None}]
      PROVE  ViewOK'
  BY <1>2, <1>3 DEF ViewOK, boots, view, text
<1>4. ASSUME NEW p \in Files, NEW v \in Version \cup {None}, Commit(p, v)
      PROVE  file' \in [Files -> Version \cup {None}]
  BY <1>1, <1>4, CommitEffect
<1>5. ASSUME NEW p \in Files, OpenFile(p)
      PROVE  path' \in Files /\ loads' \in SUBSET Load /\ loaded' \in BOOLEAN
             /\ html' \in Version \cup {None} /\ opened' \in Nat /\ replaced' \in BOOLEAN
  <2>1. opened + 1 \in Nat
    BY <1>2 DEF ViewOK
  <2>2. path' = p
    BY <1>5, Opened
  <2>3. CASE UNCHANGED <<path, loads, loaded, html, opened, replaced>>
    BY <1>2, <2>2, <2>3 DEF ViewOK
  <2>4. ASSUME NEW k \in Load, loads' = {k}, loaded' = FALSE, html' = None, opened' = opened + 1,
               replaced' = FALSE
        PROVE  /\ loads' \in SUBSET Load /\ loaded' \in BOOLEAN
               /\ html' \in Version \cup {None} /\ opened' \in Nat /\ replaced' \in BOOLEAN
    BY <2>1, <2>4
  <2>. QED
    BY <1>5, <2>2, <2>3, <2>4, Opened
<1>6. ASSUME Still PROVE ViewOK'
  BY <1>2, <1>3, <1>6 DEF Still, ViewOK
<1>7. ASSUME OthersStep PROVE ViewOK'
  <2>1. UNCHANGED <<boots, view, text, running>> /\ typed' \in 1..MaxEdits
    BY <1>1, <1>7, OthersFiles DEF boots, view, text
  <2>2. file' \in [Files -> Version \cup {None}]
    BY <1>1, <1>2, <1>4, <1>7, OthersFiles DEF ViewOK, Files
  <2>. QED
    BY <1>3, <2>1, <2>2
<1>8. ASSUME NEW b \in 1..2, StartBoot(b) PROVE ViewOK'
  <2>1. PICK none \in BOOLEAN : none = (file[Own] = None)
    OBVIOUS
  <2>2. boot' = [c \in 1..2 |->
          IF c = b THEN [step |-> "start", missing |-> none, live |-> TRUE]
          ELSE IF boot[c] = None THEN None ELSE [boot[c] EXCEPT !.live = FALSE]]
    BY <1>8, <2>1 DEF StartBoot
  <2>3. [step |-> "start", missing |-> none, live |-> TRUE] \in Boot
    BY DEF Boot
  <2>4. \A c \in 1..2 : boot[c] # None => [boot[c] EXCEPT !.live = FALSE] \in Boot
    <3>. SUFFICES ASSUME NEW c \in 1..2, NEW x \in Boot, x = boot[c]
                  PROVE  [x EXCEPT !.live = FALSE] \in Boot
      BY <1>2 DEF ViewOK
    <3>. QED
      BY DEF Boot
  <2>5. boot' \in [1..2 -> Boot \cup {None}]
    BY <2>2, <2>3, <2>4
  <2>6. UNCHANGED <<bootstrapped, file, typed, view, text, running>>
    BY <1>8 DEF StartBoot, server
  <2>. QED
    BY <1>2, <2>5, <2>6 DEF ViewOK, view, text
<1>9. ASSUME NEW b \in 1..2, NEW x \in Boot, BootGoes(b, x), UNCHANGED <<typed, text, running>>
      PROVE  ViewOK'
  <2>1. /\ boot' \in [1..2 -> Boot \cup {None}] /\ bootstrapped' \in BOOLEAN
    BY <1>2, <1>9 DEF ViewOK, BootGoes
  <2>2. file' \in [Files -> Version \cup {None}]
    <3>1. file' = file \/ Commit(Own, Starter(Own))
      BY <1>9 DEF BootGoes
    <3>2. Own \in Files /\ Starter(Own) \in Version
      BY DEF Files, Starter, Version
    <3>. QED
      BY <1>2, <1>4, <3>1, <3>2 DEF ViewOK
  <2>3. /\ path' \in Files \cup {None} /\ loads' \in SUBSET Load /\ loaded' \in BOOLEAN
        /\ html' \in Version \cup {None} /\ opened' \in Nat /\ replaced' \in BOOLEAN
    <3>1. UNCHANGED view \/ \E p \in Files : OpenFile(p)
      BY <1>9 DEF BootGoes
    <3>2. CASE UNCHANGED view
      BY <1>2, <3>2 DEF ViewOK, view
    <3>. QED
      BY <1>5, <3>1, <3>2
  <2>. QED
    BY <1>2, <1>9, <2>1, <2>2, <2>3 DEF ViewOK, text
<1>10. ASSUME NEW l \in loads, NEW k \in Load, ReadGoes(l, k) PROVE ViewOK'
  BY <1>2, <1>10 DEF ReadGoes, ViewOK, boots, text
<1>11. ASSUME NEW l \in loads, FileRead(l) PROVE ViewOK'
  <2>1. /\ loads' = loads \ {l} /\ UNCHANGED <<file, typed, boots, path, html, opened, running>>
        /\ \/ draft' = l.got /\ dirty' = FALSE /\ loaded' = TRUE
           \/ UNCHANGED <<draft, dirty, loaded>>
    BY <1>11 DEF FileRead, server, text
  <2>5. replaced' \in BOOLEAN
    <3>1. PICK other \in BOOLEAN : other = (l.got # file[l.path])
      OBVIOUS
    <3>2. replaced' = (replaced /\ other) \/ replaced' = replaced
      BY <1>11, <3>1 DEF FileRead
    <3>3. replaced \in BOOLEAN /\ (replaced /\ other) \in BOOLEAN
      BY <1>2 DEF ViewOK
    <3>. QED
      BY <3>2, <3>3
  <2>2. l.got \in Version \cup {None} /\ loads' \in SUBSET Load
    BY <1>2, <2>1 DEF ViewOK, Load
  <2>3. draft' \in Version \cup {None} /\ dirty' \in BOOLEAN /\ loaded' \in BOOLEAN
    <3>1. draft \in Version \cup {None} /\ dirty \in BOOLEAN /\ loaded \in BOOLEAN
      BY <1>2 DEF ViewOK
    <3>. QED
      BY <2>1, <2>2, <3>1
  <2>4. /\ file' = file /\ typed' = typed /\ opened' = opened /\ path' = path /\ html' = html
        /\ running' = running /\ boot' = boot /\ bootstrapped' = bootstrapped
    BY <2>1 DEF boots
  <2>. QED
    BY <1>2, <2>2, <2>3, <2>4, <2>5 DEF ViewOK
<1>12. ASSUME Edit PROVE ViewOK'
  <2>1. /\ typed < MaxEdits /\ typed' = typed + 1 /\ draft' = [draft EXCEPT !.n = typed + 1]
        /\ draft \in Version /\ dirty' = TRUE /\ UNCHANGED <<file, boots, view, running>>
    BY <1>1, <1>2, <1>12, TypesOn DEF Edit, Sees, server, ViewOK
  <2>2. typed' \in 1..MaxEdits
    BY <1>1, <1>12, TypesOn DEF Edit
  <2>3. PICK n \in 0..MaxEdits : n = typed + 1
    BY <2>1, <2>2
  <2>4. draft' \in Version
    BY <2>1, <2>3 DEF Version
  <2>. QED
    BY <1>2, <2>1, <2>2, <2>4 DEF ViewOK, boots, view
<1>13. ASSUME NEW p \in Files, Select(p) PROVE ViewOK'
  BY <1>2, <1>5, <1>13 DEF Select, server, boots, text, ViewOK
<1>14. ASSUME NEW y \in Handler, Begins(y) PROVE ViewOK'
  BY <1>2, <1>14 DEF Begins, boots, view, text, ViewOK
<1>15. ASSUME NEW h \in running, HandlerEnds(h), UNCHANGED <<typed, boots>> PROVE ViewOK'
  <2>1. /\ running' = running \ {h} /\ UNCHANGED <<file, typed, boots>>
        /\ h.path \in Files /\ h.got \in Version \cup {None}
    BY <1>1, <1>15, HandlerTyped DEF HandlerEnds, Ends
  <2>2. /\ path' \in Files \cup {None} /\ loads' \in SUBSET Load /\ loaded' \in BOOLEAN
        /\ html' \in Version \cup {None} /\ opened' \in Nat
        /\ draft' \in Version \cup {None} /\ dirty' \in BOOLEAN /\ replaced' \in BOOLEAN
    <3>1. CASE OpenFile(h.path) /\ UNCHANGED text
      BY <1>2, <1>5, <2>1, <3>1 DEF ViewOK, text
    <3>2. CASE UNCHANGED <<path, loads, loaded, opened, replaced>> /\ html' \in {html, h.got}
               /\ draft' = draft /\ dirty' \in {dirty, FALSE}
      <4>1. path' = path /\ loads' = loads /\ loaded' = loaded /\ opened' = opened /\ draft' = draft
            /\ replaced' = replaced
        BY <3>2
      <4>2. html' \in Version \cup {None}
        BY <1>2, <2>1, <3>2 DEF ViewOK
      <4>3. dirty' \in BOOLEAN
        BY <1>2, <3>2 DEF ViewOK
      <4>. QED
        BY <1>2, <4>1, <4>2, <4>3 DEF ViewOK
    <3>3. CASE path' = None /\ draft' = None /\ dirty' = FALSE /\ loads' = {} /\ loaded' = FALSE
               /\ html' = None /\ opened' = opened /\ replaced' = FALSE
      BY <1>2, <3>3 DEF ViewOK
    <3>4. \/ OpenFile(h.path) /\ UNCHANGED text
          \/ /\ UNCHANGED <<path, loads, loaded, opened, replaced>> /\ html' \in {html, h.got}
             /\ draft' = draft /\ dirty' \in {dirty, FALSE}
          \/ /\ path' = None /\ draft' = None /\ dirty' = FALSE /\ loads' = {} /\ loaded' = FALSE
             /\ html' = None /\ opened' = opened /\ replaced' = FALSE
      BY <1>15 DEF HandlerEnds, view, text
    <3>. QED
      BY <3>1, <3>2, <3>3, <3>4
  <2>. QED
    BY <1>2, <2>1, <2>2 DEF ViewOK, boots
<1>16. ASSUME NEW h \in running, NEW y \in Handler, HandlerGoes(h, y), UNCHANGED <<typed, boots>>
       PROVE  ViewOK'
  <2>1. /\ running' = (running \ {h}) \cup {y} /\ UNCHANGED <<path, loads, loaded, html, opened>>
        /\ UNCHANGED <<draft, typed, boots>>
        /\ h.path \in Files /\ h.draft \in Version
    BY <1>1, <1>16, HandlerTyped DEF HandlerGoes, Goes
  <2>2. file' \in [Files -> Version \cup {None}]
    <3>1. file' = file \/ Commit(h.path, h.draft)
      BY <1>16 DEF HandlerGoes
    <3>. QED
      BY <1>2, <1>4, <2>1, <3>1 DEF ViewOK
  <2>3. dirty' \in BOOLEAN
    BY <1>2, <1>16 DEF HandlerGoes, ViewOK
  <2>4. replaced' \in BOOLEAN
    <3>1. replaced' = replaced \/ replaced' = TRUE \/ replaced' = FALSE
      BY <1>16 DEF HandlerGoes
    <3>. QED
      BY <1>2, <3>1 DEF ViewOK
  <2>. QED
    BY <1>2, <2>1, <2>2, <2>3, <2>4 DEF ViewOK, boots
<1>. QED
  BY <1>1, <1>6, <1>7, <1>8, <1>9, <1>10, <1>11, <1>12, <1>13, <1>14, <1>15, <1>16, EditorSteps

LEMMA TypeKept ==
  ASSUME IInv, Next
  PROVE  TypeOK'
<1>1. TypeOK /\ FilesExist
  BY DEF IInv, EditorInv
<1>2. CatalogTypeOK'
  BY CatalogKept DEF CatalogInv
<1>3. mode' \in Modes /\ sought' \in Entries \cup {None}
  BY <1>1, ModeStays DEF TypeOK
<1>4. locked' \in Version /\ deps' \in {"idle", "syncing", "error", "ok"} /\ ViewOK'
  BY LockTyped, ViewKept
<1>. QED
  BY <1>2, <1>3, <1>4 DEF TypeOK, ViewOK

LEMMA Kept ==
  ASSUME IInv, [Next]_vars
  PROVE  IInv'
<1>1. CASE Next
  BY <1>1, TypeKept, CatalogKept, WorldsApart, FilesKept, BootsKept, OwnFiles, HandlersKept,
     PreviewKept, NumbersKept, PatientKept DEF IInv, EditorInv
<1>2. CASE UNCHANGED vars
  <2>1. /\ UNCHANGED <<template, variant, request, file, locked, entry, disturbed, mode, sought, typed>>
        /\ UNCHANGED <<boot, bootstrapped, path, loads, loaded, html, opened, replaced, draft, dirty,
                     deps, running>>
    BY <1>2 DEF vars, catalog, server, fixed, boots, view, text
  <2>2. CatalogInv'
    BY <2>1, WorkspaceKeeps DEF IInv
  <2>3. TypeOK'
    BY <2>1, <2>2 DEF IInv, TypeOK, CatalogInv
  <2>4. Boots'
    BY <2>1 DEF IInv, EditorInv, Boots
  <2>5. (EditorOrCatalog /\ FilesExist)'
    BY <2>1 DEF IInv, EditorInv, EditorOrCatalog, FilesExist, Listed
  <2>6. (WhereTyped /\ OneHandler /\ PreviewIsOfOpenOrLinked /\ Numbered)'
    BY <2>1 DEF IInv, EditorInv, WhereTyped, OneHandler, PreviewIsOfOpenOrLinked, Numbered
  <2>7. Patient'
    BY <2>1 DEF IInv, EditorInv, Patient, InDev, Live
  <2>. QED
    BY <2>2, <2>3, <2>4, <2>5, <2>6, <2>7 DEF IInv, EditorInv
<1>. QED
  BY <1>1, <1>2

LEMMA Starts ==
  ASSUME Init
  PROVE  IInv
<1>1. /\ mode \in Modes
      /\ locked = Before(Manifest)
      /\ sought \in Entries \cup {None}
      /\ sought # None => "manage" \in mode /\ file[sought] # None
      /\ template \in
           [Templates -> {[slug |-> s, archived |-> a] : s \in Slugs, a \in BOOLEAN} \cup {None}]
      /\ Active(Subject) /\ SlugsDiffer
      /\ variant = [t \in Templates |-> None]
      /\ request = [r \in Requests |-> None] /\ disturbed = {}
      /\ typed = 1 /\ opened = 0
      /\ boot = [b \in 1..2 |-> None] /\ bootstrapped = FALSE
      /\ path = None /\ draft = None /\ dirty = FALSE /\ replaced = FALSE
      /\ loads = {} /\ loaded = FALSE
      /\ deps = "idle" /\ html = None
      /\ running = {}
  BY DEF Init
<1>2. PICK without \in BOOLEAN : without = (mode \cap {"again", "catalog"} = {})
  OBVIOUS
<1>3. /\ file = [p \in Files |-> IF p = Own /\ without THEN None ELSE Before(p)]
      /\ entry = [e \in Entries |-> IF file[e] = None THEN None
                    ELSE [deleted |-> FALSE, artifact |-> IF e = Own THEN None ELSE Before(e)]]
  BY <1>2 DEF Init
<1>4. /\ \A p \in Files : Before(p) \in Version /\ Before(p).of = p /\ Before(p).n = 1
      /\ Manifest \in Files /\ Manifest # Own /\ None \notin Version /\ Entries \subseteq Files
      /\ Versions = Version
  BY DEF Before, Version, Files
<1>5. /\ file \in [Files -> Version \cup {None}]
      /\ \A p \in Files : file[p] # None => file[p] = Before(p)
      /\ file[Manifest] # None
  <2>1. \A p \in Files : (IF p = Own /\ without THEN None ELSE Before(p)) \in {None, Before(p)}
    OBVIOUS
  <2>2. \A p \in Files : file[p] \in {None, Before(p)}
    BY <1>3, <2>1
  <2>3. \A p \in Files : file[p] \in Version \cup {None}
    BY <1>4, <2>2
  <2>4. file[Manifest] = Before(Manifest)
    BY <1>3, <1>4
  <2>. QED
    BY <1>3, <1>4, <2>2, <2>3, <2>4
<1>6. /\ entry \in [Entries -> EntryRow \cup {None}]
      /\ \A e \in Entries : (e \in Listed) <=> (file[e] # None)
  <2>1. ASSUME NEW e \in Entries, NEW v, v = IF e = Own THEN None ELSE Before(e)
        PROVE  /\ [deleted |-> FALSE, artifact |-> v] \in EntryRow
               /\ [deleted |-> FALSE, artifact |-> v].deleted = FALSE
    <3>1. v \in Version \cup {None}
      BY <1>4, <2>1
    <3>. QED
      BY <1>4, <3>1 DEF EntryRow
  <2>2. \A e \in Entries :
          [deleted |-> FALSE, artifact |-> IF e = Own THEN None ELSE Before(e)] \in EntryRow
    BY <2>1
  <2>3. ASSUME NEW e \in Entries
        PROVE  /\ entry[e] \in EntryRow \cup {None}
               /\ file[e] = None => entry[e] = None
               /\ file[e] # None => entry[e] \in EntryRow /\ entry[e].deleted = FALSE
    <3>1. CASE file[e] = None
      BY <1>3, <3>1
    <3>2. CASE file[e] # None
      <4>1. entry[e] = [deleted |-> FALSE, artifact |-> IF e = Own THEN None ELSE Before(e)]
        BY <1>3, <3>2
      <4>. QED
        BY <2>2, <3>2, <4>1
    <3>. QED
      BY <3>1, <3>2
  <2>. QED
    BY <1>3, <2>3 DEF Listed
<1>7. template \in [Templates -> Row \cup {None}]
  BY <1>1 DEF Row
<1>8. CatalogTypeOK
  BY <1>1, <1>6, <1>7 DEF CatalogTypeOK
<1>9. TypeOK
  <2>1. /\ typed \in 1..MaxEdits /\ opened \in Nat /\ locked \in Version
        /\ boot \in [1..2 -> Boot \cup {None}]
    BY <1>1, <1>4
  <2>2. /\ path \in Files \cup {None} /\ draft \in Version \cup {None} /\ html \in Version \cup {None}
        /\ bootstrapped \in BOOLEAN /\ dirty \in BOOLEAN /\ loaded \in BOOLEAN /\ replaced \in BOOLEAN
        /\ loads \subseteq Load /\ running \subseteq Handler
        /\ deps \in {"idle", "syncing", "error", "ok"}
    BY <1>1
  <2>3. mode \in Modes /\ sought \in Entries \cup {None}
    BY <1>1
  <2>. QED
    BY <1>5, <1>8, <2>1, <2>2, <2>3 DEF TypeOK
<1>10. CatalogInv
  <2>1. \A r \in Requests : request[r] = None
    BY <1>1
  <2>2. WellAsked
    BY <1>1, <2>1 DEF WellAsked, Active
  <2>4. FreeUnlessRaced /\ CreateFailsOnlyWhenRaced /\ SendsInformed
    BY <2>1 DEF FreeUnlessRaced, CreateFailsOnlyWhenRaced, SendsInformed, At
  <2>. QED
    BY <1>1, <1>8, <2>2, <2>4 DEF CatalogInv
<1>11. \A b \in 1..2 : boot[b] = None
  BY <1>1
<1>12. EditorInv
  <2>1. EditorOrCatalog
    BY <1>1, <1>11 DEF EditorOrCatalog
  <2>2. FilesExist
    <3>1. "manage" \in mode => "catalog" \notin mode
      BY <1>1, ModesAssumption
    <3>. QED
      BY <1>1, <1>5, <1>6, <1>11, <3>1 DEF FilesExist
  <2>3. Boots
    BY <1>1, <1>11 DEF Boots
  <2>4. WhereTyped /\ OneHandler /\ PreviewIsOfOpenOrLinked /\ Patient
    BY <1>1, <1>4, <1>5 DEF WhereTyped, OneHandler, PreviewIsOfOpenOrLinked, Patient
  <2>5. Numbered
    BY <1>1, <1>4, <1>5 DEF Numbered
  <2>. QED
    BY <2>1, <2>2, <2>3, <2>4, <2>5 DEF EditorInv
<1>. QED
  BY <1>9, <1>10, <1>12 DEF IInv

LEMMA Invariant == Spec => []IInv
<1>. QED
  BY Starts, Kept, PTL DEF Spec

-----------------------------------------------------------------------------
(* The theorems.                                                           *)

\* Everything is of its type; two active Templates of a Project never have
\* one slug; a Template can be created under any name unless another request
\* wrote between its queries, or the suffixes that people typed are beyond what
\* the arithmetic of the code is exact for; and a preview is of the open file
\* or of the entry that the editor was opened for, where the author waits:
\* however many Templates, entries and requests there are, and whoever else
\* writes (catalog.server.ts 133-330, slug.ts 23-73, ide.tsx 138-142, 412-454).
THEOREM TypesSlugsAndPreviews == Spec => []Inv
<1>1. IInv => Inv
  BY DEF IInv, CatalogInv, EditorInv, Inv
<1>. QED
  BY <1>1, Invariant, PTL

\* A Message by the id of a Template comes as far as its subject and its
\* artifact exactly where the Template is active, linked and not marked broken
\* on its page, unless somebody wrote meanwhile; what it is then refused for,
\* no subject or an artifact that throws, the badge does not know
\* (catalog.server.ts 45-63, content.ts 72-236).
THEOREM BadgeIsTrue == Spec => []SendsMatchTheBadge
<1>1. ASSUME IInv PROVE SendsMatchTheBadge
  <2>. SUFFICES ASSUME NEW r \in Requests \ disturbed, NEW t \in Templates,
                       request[r] # None, request[r].kind = "send", request[r].template = t
                PROVE  /\ request[r].step \in {"ok", "unrendered"} =>
                            Active(t) /\ variant[t] # None /\ ~Broken(t)
                       /\ request[r].step = "refused" => ~Active(t) \/ variant[t] = None \/ Broken(t)
    BY DEF SendsMatchTheBadge
  <2>1. Informed(request[r])
    BY <1>1 DEF IInv, CatalogInv, SendsInformed
  <2>. QED
    BY <2>1 DEF Informed, Broken
<1>. QED
  BY <1>1, Invariant, PTL

\* Every file of dev holds what was typed for it, as long as the author waits
\* for the open file to load before typing: whichever reads, saves, previews,
\* switches and runs of the bootstrap cross, and whatever fails.  An author who
\* does not wait may save one file over another (ide.tsx 314-351, 377-404).
THEOREM WorkIsStoredWhereTyped == Spec => []SavedWhereTyped
<1>1. IInv => SavedWhereTyped
  BY DEF IInv, EditorInv, WhereTyped, SavedWhereTyped
<1>. QED
  BY <1>1, Invariant, PTL

\* An editor that does not say "Unsaved" shows nothing that dev does not
\* have, or have newer, also after saves that failed, where the author waits
\* for every answer and did not put a new file over the open one
\* (ide.tsx 377-404, 630-674).
THEOREM NothingUnsavedIsHidden == Spec => []CleanIsSaved
<1>1. IInv => CleanIsSaved
  BY DEF IInv, EditorInv, Patient, InDev, CleanIsSaved
<1>. QED
  BY <1>1, Invariant, PTL

\* When the editor says "Published", what the author saw at the click is
\* live, unless its save had been refused or a new file had been put over it,
\* where the author waits for every answer (ide.tsx 456-514, 630-674).
THEOREM WhatIsPublishedIsLive == Spec => []PublishedIsSaved
<1>1. ASSUME IInv PROVE PublishedIsSaved
  <2>. SUFFICES ASSUME mode \cap {"loading", "saving", "slow"} = {}, NEW h \in running,
                       h.step = "published", h.clean, ~replaced, h.link = h.path
                PROVE  entry[h.path].artifact.n >= h.draft.n
    BY DEF PublishedIsSaved
  <2>1. Patient /\ OneHandler
    BY <1>1 DEF IInv, EditorInv
  <2>2. h.kind # "new"
    BY <2>1 DEF OneHandler
  <2>3. Live(h)
    BY <2>1, <2>2 DEF Patient
  <2>. QED
    BY <2>3 DEF Live
<1>. QED
  BY <1>1, Invariant, PTL
=============================================================================
