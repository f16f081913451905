--------------------------- MODULE SandboxDomain ---------------------------
(***************************************************************************)
(* The platform's managed Providers and the one Sandbox Domain they share: *)
(* Providers are created and deleted by operators, each with delivery      *)
(* infrastructure and an identity at its vendor, and their DNS records are *)
(* reconciled into a Cloudflare zone that a table of rows mirrors.  Jobs   *)
(* verify the sandbox, and Projects are allocated to it.                   *)
(*                                                                         *)
(* Nothing is transactional: every query and every call is a step, and an  *)
(* operation may end between any two of them.  Any Provider is verified at *)
(* any time, whatever its job's schedule (DomainVerification has that).    *)
(***************************************************************************)
EXTENDS Naturals, FiniteSets

CONSTANTS
  Providers,    \* each is created once and deleted once at most
  Account,      \* the vendor account and region of a Provider
  Projects,
  MaxSerial,    \* bound: DNS rows and Cloudflare records ever made
  MaxOverlaps,  \* bound: operations started while another is at work
  Few,          \* bound: Providers used where operations overlap or fail or records vanish
  Modes,        \* what a behaviour may meet
  None

Keys     == {"root", "mailFrom"}
Accounts == {Account[p] : p \in Providers}
Serials  == 1..MaxSerial

\* overlap:  operations interleave.
\* failures: calls fail and processes die.
\* pairing:  Custom Domains are paired with Providers.
\* drift:    records vanish from the zone, deleted by hand.
VARIABLES
  mode,         \* one of Modes
  provider,     \* the provider rows
  default,      \* the default Provider: a unique index admits one
  paired,       \* Providers that a Custom Domain is paired with
  destination,  \* accounts with the event destination and its topic
  vendor,       \* accounts that hold an identity of the sandbox root
  sandbox,      \* the sandbox_domain row: isActive and verified
  identity,     \* the sandbox's provider identities
  rows,         \* email_dns_record, by role and purpose
  zone,         \* the Cloudflare records
  serial,       \* rows and records ever made
  assigned,     \* Projects allocated to the sandbox
  running,      \* operations at work
  overlaps      \* operations started while another was at work

fleet == <<provider, default, destination>>
dns   == <<rows, zone, serial>>
world == <<mode, fleet, paired, vendor, sandbox, identity, dns, assigned>>
vars  == <<world, running, overlaps>>

\* The root's records are owned by the sandbox, a Provider's by its identity.
Owners == Providers \cup {"root"}
Row    == [id : Serials, owner : Owners, record : Serials]
Record == [key : Keys, value : Accounts \cup {"root"}]
Ranks  == 0..Cardinality(Providers)
Identity == [active : BOOLEAN, verified : BOOLEAN, priority : Ranks]

ASSUME SandboxAssumption ==
  /\ MaxSerial \in Nat
  /\ MaxOverlaps \in Nat
  /\ Few \subseteq Providers
  /\ Modes \subseteq SUBSET {"overlap", "failures", "drift", "pairing"}
  /\ IsFiniteSet(Providers) /\ "root" \notin Providers
  /\ None \notin Providers \cup Accounts \cup Identity \cup Row \cup Record
                  \cup [active : BOOLEAN, verified : BOOLEAN]

Kinds == {"create", "update", "delete", "ensure", "verify", "sweep", "allocate"}
Steps == {"clear", "check", "insert", "set", "ensure", "lookUp", "insertSandbox",
          "find", "publish", "writeRow", "createIdentity", "listIdentities",
          "insertIdentity", "deleteVendor", "listRows", "deleteRecords",
          "deleteRows", "deleteIdentity", "promote", "teardown", "drop",
          "status", "compare", "rollup", "record", "sweep", "pick", "assign"}

\* provider: the Provider, or the one whose identity is in hand.
\* flag:     what was asked, or read for a later step.
\* rank:     failoverPriority of the identity to insert, 0 for the active one.
\* key:      the DNS record being reconciled, found the rows read for it.
\* servable: the isActive that a verification is going to write.
\* todo:     identities or Projects still to be handled.
Operation == [kind : Kinds, step : Steps, provider : Providers \cup {None},
              flag : BOOLEAN, rank : Ranks, key : Keys, found : SUBSET Row,
              servable : BOOLEAN, todo : SUBSET (Providers \cup Projects),
              turn : 0..MaxOverlaps]

TypeOK ==
  /\ mode \in Modes
  /\ provider \in [Providers -> {"absent", "present", "deleted"}]
  /\ default \in Providers \cup {None} /\ paired \subseteq Providers
  /\ destination \subseteq Accounts /\ vendor \subseteq Accounts
  /\ sandbox \in [active : BOOLEAN, verified : BOOLEAN] \cup {None}
  /\ identity \in [Providers -> Identity \cup {None}]
  /\ rows \in [Keys -> Row \cup {None}]
  /\ zone \in [Serials -> Record \cup {None}]
  /\ serial \in 0..MaxSerial
  /\ assigned \subseteq Projects
  /\ running \subseteq Operation /\ overlaps \in 0..MaxOverlaps

Init ==
  /\ mode \in Modes
  /\ provider = [p \in Providers |-> "absent"] /\ default = None /\ paired = {}
  /\ destination = {} /\ vendor = {} /\ sandbox = None
  /\ identity = [p \in Providers |-> None]
  /\ rows = [k \in Keys |-> None] /\ zone = [r \in Serials |-> None] /\ serial = 0
  /\ assigned = {} /\ running = {} /\ overlaps = 0

-----------------------------------------------------------------------------
Present    == {p \in Providers : provider[p] = "present"}
Identities == {p \in Providers : identity[p] # None}
Active     == {p \in Identities : identity[p].active}
Verified   == {p \in Identities : identity[p].verified}

MayStart == running = {} \/ ("overlap" \in mode /\ overlaps < MaxOverlaps)

Start(kind, p, step, flag, todo) ==
  /\ MayStart
  /\ overlaps' = IF running = {} THEN overlaps ELSE overlaps + 1
  /\ running' = running \cup
       {[kind |-> kind, step |-> step, provider |-> p, flag |-> flag,
         rank |-> 0, key |-> "root", found |-> {}, servable |-> FALSE,
         todo |-> todo, turn |-> overlaps']}

Become(x, y)     == running' = (running \ {x}) \cup {y}
Advance(x, step) == Become(x, [x EXCEPT !.step = step])
End(x)           == running' = running \ {x}

-----------------------------------------------------------------------------
(* createPlatformProvider, updatePlatformProvider, setDefaultPlatform-     *)
(* Provider and the start-up of the API.                                   *)

StartCreate(p, makeDefault) ==
  /\ provider[p] = "absent"
  /\ mode \cap {"overlap", "failures", "drift"} # {} => p \in Few
  /\ \A x \in running : x.kind = "create" => x.provider # p
  /\ Start("create", p, IF makeDefault THEN "clear" ELSE "check", makeDefault, {})
  /\ UNCHANGED world

\* The default, the credentials or both are changed; the flag says whether the
\* credentials are, so that the infrastructure is ensured again.  The default
\* alone is also what setDefaultPlatformProvider changes, by the same writes.
StartUpdate(p, makeDefault, credentials) ==
  /\ p \in Present /\ (makeDefault \/ credentials)
  /\ Start("update", p, IF makeDefault THEN "clear" ELSE "ensure", credentials, {})
  /\ UNCHANGED world

StartEnsure(p) ==
  /\ p \in Present
  /\ Start("ensure", p, "ensure", FALSE, {})
  /\ UNCHANGED world

ClearEmailDefaults(x) ==
  /\ x.step = "clear"
  /\ default' = None
  /\ Advance(x, IF x.kind = "create" THEN "insert" ELSE "set")
  /\ UNCHANGED <<provider, destination, mode, paired, vendor, sandbox,
                 identity, dns, assigned>>

\* Without a default the new Provider becomes it.
CheckDefault(x) ==
  /\ x.step = "check"
  /\ Become(x, [x EXCEPT !.step = "insert", !.flag = default = None])
  /\ UNCHANGED world

\* The index on the default refuses a second one.
InsertProvider(x) ==
  /\ x.step = "insert"
  /\ IF x.flag /\ default # None
     THEN End(x) /\ UNCHANGED <<provider, default>>
     ELSE /\ provider' = [provider EXCEPT ![x.provider] = "present"]
          /\ default' = IF x.flag THEN x.provider ELSE default
          /\ Advance(x, "ensure")
  /\ UNCHANGED <<mode, paired, destination, vendor, sandbox, identity, dns, assigned>>

\* A Provider that is gone, or an index that refuses a second default, ends it.
SetDefault(x) ==
  /\ x.step = "set"
  /\ IF x.provider \in Present /\ default \in {None, x.provider}
     THEN default' = x.provider /\ IF x.flag THEN Advance(x, "ensure") ELSE End(x)
     ELSE default' = default /\ End(x)
  /\ UNCHANGED <<provider, destination, mode, paired, vendor, sandbox,
                 identity, dns, assigned>>

\* Mutant: the infrastructure is left to the next start of the API.
EnsureLater(x) ==
  /\ x.step = "ensure"
  /\ IF x.kind = "create"
     THEN destination' = destination /\ Advance(x, "lookUp")
     ELSE destination' = destination \cup {Account[x.provider]} /\ End(x)
  /\ UNCHANGED <<provider, default, mode, paired, vendor, sandbox,
                 identity, dns, assigned>>

\* Topic, subscription and event destination are named after the webhook URL,
\* so the Providers of an account share them.
EnsureInfrastructure(x) ==
  /\ x.step = "ensure"
  /\ destination' = destination \cup {Account[x.provider]}
  /\ IF x.kind = "create" THEN Advance(x, "lookUp") ELSE End(x)
  /\ UNCHANGED <<provider, default, mode, paired, vendor, sandbox,
                 identity, dns, assigned>>

-----------------------------------------------------------------------------
(* ensureSandboxForProvider, with the reconcile of managed-dns.ts.         *)

LookUpSandbox(x) ==
  /\ x.step = "lookUp"
  /\ Advance(x, CASE sandbox = None               -> "insertSandbox"
                  [] x.provider \in Identities    -> "sweep"
                  [] OTHER                        -> "createIdentity")
  /\ UNCHANGED world

\* The index on the root domain refuses a second sandbox.
InsertSandbox(x) ==
  /\ x.step = "insertSandbox"
  /\ IF sandbox = None
     THEN /\ sandbox' = [active |-> FALSE, verified |-> FALSE]
          /\ Become(x, [x EXCEPT !.step = "find", !.key = "root"])
     ELSE sandbox' = sandbox /\ End(x)
  /\ UNCHANGED <<mode, fleet, paired, vendor, identity, dns, assigned>>

CreateIdentity(x) ==
  /\ x.step = "createIdentity"
  /\ vendor' = vendor \cup {Account[x.provider]}
  /\ Become(x, [x EXCEPT !.step = "find", !.key = "mailFrom"])
  /\ UNCHANGED <<mode, fleet, paired, sandbox, identity, dns, assigned>>

\* MAIL FROM is one host below the root, its value the region's.
Value(x) == IF x.key = "root" THEN "root" ELSE Account[x.provider]
Owner(x) == IF x.key = "root" THEN "root" ELSE x.provider

\* findExistingForRecord goes by sandbox, role and purpose, not by owner.
FindRow(x) ==
  /\ x.step = "find"
  /\ Become(x, [x EXCEPT !.step = "publish",
                         !.found = IF rows[x.key] = None THEN {} ELSE {rows[x.key]}])
  /\ UNCHANGED world

Wanted(x)  == [key |-> x.key, value |-> Value(x)]
Known(x)   == {w \in x.found : zone[w.record] # None}
Same(x)    == {r \in Serials : zone[r] = Wanted(x)}

\* The record the row names is overwritten; when it is missing, one is created,
\* and where Cloudflare has the same record already, that one is taken over.
\* `found` then holds the row to write.
PublishRecord(x) ==
  /\ x.step = "publish"
  /\ \E r \in Serials :
       /\ IF Known(x) # {} THEN \E w \in Known(x) : r = w.record
          ELSE IF Same(x) # {} THEN r \in Same(x) ELSE r = serial + 1
       /\ zone' = [zone EXCEPT ![r] = Wanted(x)]
       /\ serial' = IF Known(x) = {} /\ Same(x) = {} THEN r ELSE serial
       /\ Become(x, [x EXCEPT !.step = "writeRow", !.flag = x.found # {},
                              !.found = {[id     |-> IF x.found = {} THEN r
                                                     ELSE (CHOOSE w \in x.found : TRUE).id,
                                          owner  |-> Owner(x),
                                          record |-> r]}])
  /\ UNCHANGED <<mode, fleet, paired, vendor, sandbox, identity, rows, assigned>>

\* An update reaches the row that was found, an insert meets the index on
\* sandbox, role and purpose.  The owner's other records: it never has any.
WriteRow(x) ==
  /\ x.step = "writeRow"
  /\ \E w \in x.found :
       LET old == rows[x.key]
           updates == x.flag /\ old # None /\ old.id = w.id
       IN /\ rows' = IF updates \/ (~x.flag /\ old = None)
                     THEN [rows EXCEPT ![x.key] = w] ELSE rows
          /\ IF ~x.flag /\ old # None
             THEN End(x)
             ELSE Become(x, [x EXCEPT !.found = {}, !.flag = FALSE,
                              !.step = IF x.key = "root" THEN "createIdentity"
                                                         ELSE "listIdentities"])
  /\ UNCHANGED <<mode, fleet, paired, vendor, sandbox, identity, zone, serial, assigned>>

\* The first identity is active, the others queue behind it.
ListIdentities(x) ==
  /\ x.step = "listIdentities"
  /\ \E top \in Ranks :
       /\ \A p \in Identities : identity[p].priority <= top
       /\ top = 0 \/ \E p \in Identities : identity[p].priority = top
       /\ Become(x, [x EXCEPT !.step = "insertIdentity",
                              !.rank = IF Active = {} THEN 0 ELSE top + 1])
  /\ UNCHANGED world

\* The Provider's row must still be there.
InsertIdentity(x) ==
  /\ x.step = "insertIdentity"
  /\ IF x.provider \in Present
     THEN /\ identity' = [identity EXCEPT ![x.provider] =
               [active |-> x.rank = 0, verified |-> FALSE, priority |-> x.rank]]
          /\ Become(x, [x EXCEPT !.step = "sweep", !.rank = 0])
     ELSE identity' = identity /\ End(x)
  /\ UNCHANGED <<mode, fleet, paired, vendor, sandbox, dns, assigned>>

-----------------------------------------------------------------------------
(* deletePlatformProvider, with removeSandboxProviderIdentity.             *)

\* Refused while a Custom Domain is paired; whether the identity is the active
\* one is read here.
StartDelete(p) ==
  /\ p \in Present \ paired
  /\ IF p \in Identities THEN Start("delete", p, "deleteVendor", p \in Active, {})
                         ELSE Start("delete", p, "teardown", FALSE, {})
  /\ UNCHANGED world

DeleteAtVendor(x) ==
  /\ x.step = "deleteVendor"
  /\ vendor' = vendor \ {Account[x.provider]}
  /\ Advance(x, "listRows")
  /\ UNCHANGED <<mode, fleet, paired, sandbox, identity, dns, assigned>>

OwnedBy(o) == {k \in Keys : rows[k] # None /\ rows[k].owner = o}

\* Mutant: the sandbox's rows are listed instead of the identity's.
ListEveryRow(x) ==
  /\ x.step = "listRows"
  /\ Become(x, [x EXCEPT !.step = "deleteRecords",
                         !.found = {rows[k] : k \in {k \in Keys : rows[k] # None}}])
  /\ UNCHANGED world

ListRows(x) ==
  /\ x.step = "listRows"
  /\ IF OwnedBy(x.provider) = {} THEN Advance(x, "deleteIdentity")
     ELSE Become(x, [x EXCEPT !.step = "deleteRecords",
                              !.found = {rows[k] : k \in OwnedBy(x.provider)}])
  /\ UNCHANGED world

\* A record that is missing already is no error.
DeleteRecords(x) ==
  /\ x.step = "deleteRecords"
  /\ zone' = [r \in Serials |->
                IF \E w \in x.found : w.record = r THEN None ELSE zone[r]]
  /\ Become(x, [x EXCEPT !.step = "deleteRows", !.found = {}])
  /\ UNCHANGED <<mode, fleet, paired, vendor, sandbox, identity, rows, serial, assigned>>

\* By owner, whatever was listed.
DeleteRows(x) ==
  /\ x.step = "deleteRows"
  /\ rows' = [k \in Keys |-> IF k \in OwnedBy(x.provider) THEN None ELSE rows[k]]
  /\ Advance(x, "deleteIdentity")
  /\ UNCHANGED <<mode, fleet, paired, vendor, sandbox, identity, zone, serial, assigned>>

DeleteIdentity(x) ==
  /\ x.step = "deleteIdentity"
  /\ identity' = [identity EXCEPT ![x.provider] = None]
  /\ Advance(x, "promote")
  /\ UNCHANGED <<mode, fleet, paired, vendor, sandbox, dns, assigned>>

\* The remaining identity that is next in the failover order.
NextInOrder == {p \in Identities : \A q \in Identities :
                                identity[p].priority <= identity[q].priority}

\* Mutant: the sandbox is left active without an identity.
PromoteOnly(x) ==
  /\ x.step = "promote"
  /\ IF x.flag /\ Active = {} /\ Identities # {}
     THEN \E p \in NextInOrder : identity' = [identity EXCEPT ![p].active = TRUE]
     ELSE identity' = identity
  /\ Advance(x, "teardown")
  /\ UNCHANGED <<mode, fleet, paired, vendor, sandbox, dns, assigned>>

Promote(x) ==
  /\ x.step = "promote"
  /\ IF Identities = {}
     THEN sandbox' = [sandbox EXCEPT !.active = FALSE] /\ identity' = identity
     ELSE /\ sandbox' = sandbox
          /\ IF x.flag /\ Active = {}
             THEN \E p \in NextInOrder : identity' = [identity EXCEPT ![p].active = TRUE]
             ELSE identity' = identity
  /\ Advance(x, "teardown")
  /\ UNCHANGED <<mode, fleet, paired, vendor, dns, assigned>>

TeardownInfrastructure(x) ==
  /\ x.step = "teardown"
  /\ destination' = destination \ {Account[x.provider]}
  /\ Advance(x, "drop")
  /\ UNCHANGED <<provider, default, mode, paired, vendor, sandbox,
                 identity, dns, assigned>>

\* A pairing that was made meanwhile refuses the last delete.
DropProvider(x) ==
  /\ x.step = "drop"
  /\ IF x.provider \in Present \ (paired \cup Identities)
     THEN /\ provider' = [provider EXCEPT ![x.provider] = "deleted"]
          /\ default' = IF default = x.provider THEN None ELSE default
     ELSE UNCHANGED <<provider, default>>
  /\ End(x)
  /\ UNCHANGED <<mode, paired, destination, vendor, sandbox, identity, dns, assigned>>

-----------------------------------------------------------------------------
(* The verification jobs of the sandbox and of one of its identities.      *)

StartVerify(p) ==
  /\ p \in Identities
  /\ Start("verify", p, "status", FALSE, {})
  /\ UNCHANGED world

\* The job of the sandbox verifies every identity it loaded, then sweeps.
StartVerifySandbox ==
  /\ sandbox # None
  /\ IF Identities = {}
     THEN Start("sweep", None, "sweep", FALSE, {})
     ELSE \E p \in Identities : Start("sweep", p, "status", FALSE, Identities \ {p})
  /\ UNCHANGED world

InZone(k, v) == \E r \in Serials : zone[r] = [key |-> k, value |-> v]

\* The vendor says whether it has verified the identity, in its own time; one
\* it does not hold is an error.
ReadStatus(x) ==
  /\ x.step = "status"
  /\ IF Account[x.provider] \in vendor
     THEN /\ \E verdict \in BOOLEAN :
               /\ verdict => InZone("root", "root")
               /\ identity' = IF x.provider \in Identities
                              THEN [identity EXCEPT ![x.provider].verified = verdict]
                              ELSE identity
          /\ Advance(x, "compare")
     ELSE identity' = identity /\ End(x)
  /\ UNCHANGED <<mode, fleet, paired, vendor, sandbox, dns, assigned>>

\* The value a row holds is the one its record was last given.
Matches(k) == zone[rows[k].record] # None

\* Some row, and every row, is found in the live DNS.
CompareDns(x) ==
  /\ x.step = "compare"
  /\ Become(x, [x EXCEPT !.step = "rollup",
       !.flag = LET kept == {k \in Keys : rows[k] # None}
                IN kept # {} /\ \A k \in kept : Matches(k)])
  /\ UNCHANGED world

\* The records decide whether the sandbox is verified; the identities only
\* whether it is active as well.
Rollup(x) ==
  /\ x.step = "rollup"
  /\ Become(x, [x EXCEPT !.step = "record",
                         !.servable = x.flag /\ Active \cap Verified # {}])
  /\ UNCHANGED world

RecordStatus(x) ==
  /\ x.step = "record"
  /\ sandbox' = [active |-> x.servable, verified |-> x.flag]
  /\ LET y == [x EXCEPT !.flag = FALSE, !.servable = FALSE]
     IN IF x.kind = "verify" THEN End(x)
        ELSE IF x.todo = {}  THEN Become(x, [y EXCEPT !.step = "sweep"])
        ELSE \E p \in x.todo : Become(x, [y EXCEPT !.step = "status", !.provider = p,
                                                    !.todo = @ \ {p}])
  /\ UNCHANGED <<mode, fleet, paired, vendor, identity, dns, assigned>>

-----------------------------------------------------------------------------
(* sweepIfSandboxAllocatable and allocateSandboxDomain.                    *)

Sweep(x) ==
  /\ x.step = "sweep"
  /\ IF sandbox.active /\ sandbox.verified /\ assigned # Projects
     THEN Become(x, [x EXCEPT !.step = "pick", !.todo = Projects \ assigned])
     ELSE End(x)
  /\ UNCHANGED world

\* A Project that is created, or whose member signs in.
StartAllocate(o) ==
  /\ o \notin assigned
  /\ Start("allocate", None, "pick", FALSE, {o})
  /\ UNCHANGED world

Allocatable == sandbox # None /\ sandbox.active /\ sandbox.verified /\ Verified # {}

Pick(x) ==
  /\ x.step = "pick"
  /\ IF Allocatable THEN Advance(x, "assign") ELSE End(x)
  /\ UNCHANGED world

Assign(x) ==
  /\ x.step = "assign"
  /\ \E o \in x.todo :
       /\ assigned' = assigned \cup {o}
       /\ IF x.todo = {o} THEN End(x)
          ELSE Become(x, [x EXCEPT !.step = "pick", !.todo = @ \ {o}])
  /\ UNCHANGED <<mode, fleet, paired, vendor, sandbox, identity, dns>>

-----------------------------------------------------------------------------
Fail(x) ==
  /\ "failures" \in mode
  /\ End(x)
  /\ UNCHANGED world

\* A record is deleted in the zone by hand.
Drift(r) ==
  /\ "drift" \in mode /\ zone[r] # None
  /\ zone' = [zone EXCEPT ![r] = None]
  /\ UNCHANGED <<mode, fleet, paired, vendor, sandbox, identity, rows, serial,
                 assigned, running>>

\* A Custom Domain is paired with a Provider, or its pairing is removed.
Pair(p) ==
  /\ "pairing" \in mode /\ p \in Present \cup paired
  /\ running = {} \/ "overlap" \in mode
  /\ paired' = IF p \in paired THEN paired \ {p} ELSE paired \cup {p}
  /\ UNCHANGED <<mode, fleet, vendor, sandbox, identity, dns, assigned, running>>

CreateStep(x) ==
  \/ ClearEmailDefaults(x) \/ CheckDefault(x) \/ InsertProvider(x) \/ SetDefault(x)
  \/ EnsureInfrastructure(x) \/ LookUpSandbox(x) \/ InsertSandbox(x)
  \/ CreateIdentity(x) \/ FindRow(x) \/ PublishRecord(x) \/ WriteRow(x)
  \/ ListIdentities(x) \/ InsertIdentity(x)

DeleteStep(x) ==
  \/ DeleteAtVendor(x) \/ ListRows(x) \/ DeleteRecords(x) \/ DeleteRows(x)
  \/ DeleteIdentity(x) \/ Promote(x) \/ TeardownInfrastructure(x) \/ DropProvider(x)

VerifyStep(x) ==
  \/ ReadStatus(x) \/ CompareDns(x) \/ Rollup(x) \/ RecordStatus(x)
  \/ Sweep(x) \/ Pick(x) \/ Assign(x)

Next ==
  \/ \E p \in Providers : \/ \E d, c \in BOOLEAN : StartCreate(p, d) \/ StartUpdate(p, d, c)
                          \/ StartEnsure(p) \/ StartDelete(p) \/ StartVerify(p)
  \/ StartVerifySandbox
  \/ \E o \in Projects : StartAllocate(o)
  \/ /\ \/ \E x \in running : CreateStep(x) \/ DeleteStep(x) \/ VerifyStep(x) \/ Fail(x)
        \/ \E r \in Serials : Drift(r)
        \/ \E p \in Providers : Pair(p)
     /\ UNCHANGED overlaps

Spec == Init /\ [][Next]_vars

-----------------------------------------------------------------------------
(* Correctness.                                                            *)

Idle       == running = {}
Sequential == mode \cap {"overlap", "failures"} = {}

\* The sandbox root's own records stay in the zone whatever happens to the
\* Providers, however operations overlap and fail (provision.ts 613: "The
\* singleton sandbox root (BYODKIM + DKIM/DMARC) stays").
RootStays ==
  [][("drift" \notin mode /\ InZone("root", "root")) => InZone("root", "root")']_vars

\* After any sequence of operations the sandbox has exactly one active
\* identity if it has any, and is not active itself without one, so what is
\* allocated to it has a Provider to send with (provision.ts 212 and 745).
OneActiveIdentity ==
  (Idle /\ Sequential) =>
    /\ Cardinality(Active) = IF Identities = {} THEN 0 ELSE 1
    /\ (sandbox # None /\ sandbox.active) => Identities # {}

\* After any sequence of operations the zone holds the records the rows name
\* and no other, each with its row's purpose, and every row belongs to the
\* root or to an identity that is there (managed-dns.ts 314-619).
ZoneMirrorsRows ==
  (Idle /\ Sequential) =>
    /\ \A k \in Keys : rows[k] # None => rows[k].owner \in Identities \cup {"root"}
    /\ \A r \in Serials : zone[r] # None =>
         rows[zone[r].key] # None /\ rows[zone[r].key].record = r
    /\ "drift" \notin mode =>
         \A k \in Keys : rows[k] # None => zone[rows[k].record] # None

\* After any sequence of operations every Provider has its sandbox identity; one
\* alone in its account has the identity at the vendor and the destination its
\* delivery events need from its creation to its deletion, and leaves neither
\* behind; without a default one was deleted (providers.server.ts 135-490).
Alone(p) == \A q \in Providers \ {p} : Account[q] # Account[p]
ProvidersProvisioned ==
  (Idle /\ Sequential) =>
    /\ Identities = Present
    /\ \A p \in Providers : Alone(p) =>
         /\ Account[p] \in vendor <=> p \in Identities
         /\ Account[p] \in destination <=> p \in Present
    /\ default = None => (Present = {} \/ \E p \in Providers : provider[p] = "deleted")

\* The rows of the sandbox between operations: types, and one active identity.
Inv == TypeOK /\ OneActiveIdentity /\ ZoneMirrorsRows
=============================================================================
