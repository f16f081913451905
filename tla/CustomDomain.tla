---------------------------- MODULE CustomDomain ----------------------------
(***************************************************************************)
(* One FQDN through the Custom Domain lifecycle of packages/channels: a    *)
(* Project creates the Domain or claims one that is held, proves ownership *)
(* with a DNS challenge, takes the Domain over, and removes it.            *)
(*                                                                         *)
(* Every operation is a sequence of queries and provider calls outside any *)
(* transaction, so each is its own step here: operations interleave        *)
(* between any two of them, and may end there when a call fails or the     *)
(* process dies.                                                           *)
(***************************************************************************)
EXTENDS Naturals, FiniteSets

CONSTANTS
  Projects,
  Providers,
  MaxDomains,   \* bound: custom_domain rows ever inserted for the FQDN
  MaxOverlaps,  \* bound: operations started while another is at work
  Modes,        \* what a behaviour may meet
  None

ASSUME CustomDomainAssumption ==
  /\ MaxDomains \in Nat
  /\ MaxOverlaps \in Nat
  /\ Modes \subseteq SUBSET {"overlap", "failures", "deliveries", "retraction"}
  /\ None \notin Projects \cup Providers \cup Nat \cup BOOLEAN

\* overlap:    operations interleave.
\* failures:   calls fail and processes die.
\* deliveries: the Domain gets Deliveries, whose foreign key restricts it.
\* retraction: a challenge record may disappear again.
VARIABLES
  mode,       \* one of Modes
  domain,     \* id of the custom_domain row of the FQDN
  inserted,   \* rows ever inserted
  used,       \* ids of the rows that have Deliveries
  link,       \* organization_domain: ownership and the Provider of a claim
  active,     \* email_domain_provider_identity: its isActive
  vendor,     \* Providers that hold an identity of the FQDN
  published,  \* Projects whose ownership challenge is in DNS
  shown,      \* history: Projects whose challenge has been in DNS
  overlaps,   \* operations started while another was at work
  demoted,    \* history: an owner was found without its challenge
  scheduled,  \* Projects whose ownership job is scheduled
  running     \* operations at work

vars == <<mode, domain, inserted, used, link, active, vendor, published, shown,
          demoted, scheduled, running, overlaps>>

\* What few steps change.
ledger == <<mode, inserted, used, shown, demoted>>

Ids  == 1..MaxDomains
Link == [verified : BOOLEAN, pending : Providers \cup {None}]

Kinds == {"create", "claim", "delete", "job", "refresh"}
Steps == {"insertDomain", "linkOwner", "linkClaim", "createIdentity",
          "listIdentities", "insertIdentity", "schedule",
          "challenge", "record", "unlinkOthers", "listTransfer",
          "unlink", "remove", "removeRow", "dropDomain"}

\* provider: the one asked for, or the pendingProviderId that was loaded.
\* flag:     what was read for a later step: a pairing that exists, an active
\*           identity, a challenge found, or other Projects linked.
\* todo:     identities read and not yet handled, current the one in hand.
Operation == [project : Projects, kind : Kinds, step : Steps, id : Ids \cup {None},
              provider : Providers \cup {None}, flag : BOOLEAN,
              todo : SUBSET Providers, current : Providers \cup {None},
              turn : 0..MaxOverlaps]

ASSUME LinkAssumption == None \notin Link

TypeOK ==
  /\ mode \in Modes
  /\ domain \in Ids \cup {None} /\ inserted \in 0..MaxDomains /\ used \subseteq Ids
  /\ link \in [Projects -> Link \cup {None}]
  /\ active \in [Providers -> BOOLEAN \cup {None}]
  /\ vendor \subseteq Providers
  /\ published \subseteq Projects /\ shown \subseteq Projects /\ demoted \in BOOLEAN
  /\ scheduled \subseteq Projects
  /\ running \subseteq Operation /\ overlaps \in 0..MaxOverlaps

Init ==
  /\ mode \in Modes
  /\ domain = None /\ inserted = 0 /\ used = {}
  /\ link = [o \in Projects |-> None] /\ active = [p \in Providers |-> None]
  /\ vendor = {} /\ published = {} /\ shown = {} /\ demoted = FALSE
  /\ scheduled = {} /\ running = {} /\ overlaps = 0

-----------------------------------------------------------------------------
Linked     == {o \in Projects : link[o] # None}
Owners     == {o \in Linked : link[o].verified}
Identities == {p \in Providers : active[p] # None}

MayStart == running = {} \/ ("overlap" \in mode /\ overlaps < MaxOverlaps)

\* The next operation; its turn tells it from another of its Project.
Start(o, kind, step, provider, flag, todo) ==
  /\ overlaps' = IF running = {} THEN overlaps ELSE overlaps + 1
  /\ running' = running \cup
       {[project |-> o, kind |-> kind, step |-> step, id |-> domain,
         provider |-> provider, flag |-> flag, todo |-> todo, current |-> None,
         turn |-> overlaps']}

Become(x, y)     == running' = (running \ {x}) \cup {y}
Advance(x, step) == Become(x, [x EXCEPT !.step = step])
End(x)           == running' = running \ {x}

\* The row the operation works on is still the Domain's.
Current(x) == domain = x.id /\ domain # None

SetLink(o, l) == link' = [link EXCEPT ![o] = l]

-----------------------------------------------------------------------------
(* createCustomDomain.                                                     *)

\* The look-up by FQDN and what it decides.
StartCreate(o, p) ==
  /\ MayStart /\ o \notin Linked
  /\ \/ /\ domain = None
        /\ Start(o, "create", "insertDomain", p, FALSE, {})
     \/ /\ domain # None /\ Owners = {}
        /\ Start(o, "create", "linkOwner", p, FALSE, {})
     \/ /\ domain # None /\ Owners # {} /\ Linked \ Owners = {}
        /\ Start(o, "claim", "linkClaim", p, p \in Identities, {})
  /\ UNCHANGED <<ledger, domain, link, active, vendor, published, scheduled>>

\* The unique index on the FQDN refuses a second row, and so does the bound.
InsertDomain(x) ==
  /\ x.step = "insertDomain"
  /\ \/ /\ domain # None \/ inserted = MaxDomains
        /\ End(x) /\ UNCHANGED <<domain, inserted>>
     \/ /\ domain = None /\ inserted < MaxDomains
        /\ inserted' = inserted + 1 /\ domain' = inserted + 1
        /\ Become(x, [x EXCEPT !.step = "createIdentity", !.id = inserted + 1])
  /\ UNCHANGED <<mode, used, shown, demoted, link, active, vendor, published,
                 scheduled>>

CreateIdentity(x) ==
  /\ x.step = "createIdentity"
  /\ vendor' = vendor \cup {x.provider}
  /\ Advance(x, "listIdentities")
  /\ UNCHANGED <<ledger, domain, link, active, published, scheduled>>

\* DNS rows of a Domain that is gone cannot be written.
ListIdentities(x) ==
  /\ x.step = "listIdentities"
  /\ IF Current(x)
     THEN Become(x, [x EXCEPT !.step = "insertIdentity",
                              !.flag = \E p \in Providers : active[p] = TRUE])
     ELSE End(x)
  /\ UNCHANGED <<ledger, domain, link, active, vendor, published, scheduled>>

\* Mutant: every identity is inserted as the active one.
InsertActive(x) ==
  /\ x.step = "insertIdentity"
  /\ active' = [active EXCEPT ![x.provider] = TRUE]
  /\ Advance(x, IF x.kind = "claim" THEN "schedule" ELSE "linkOwner")
  /\ UNCHANGED <<ledger, domain, link, vendor, published, scheduled>>

\* The first identity is active; one per Domain and Provider.
InsertIdentity(x) ==
  /\ x.step = "insertIdentity"
  /\ IF Current(x) /\ x.provider \notin Identities
     THEN /\ active' = [active EXCEPT ![x.provider] = ~x.flag]
          /\ Advance(x, IF x.kind = "claim" THEN "schedule" ELSE "linkOwner")
     ELSE End(x) /\ UNCHANGED active
  /\ UNCHANGED <<ledger, domain, link, vendor, published, scheduled>>

\* A new or unowned Domain is owned at once.
LinkOwner(x) ==
  /\ x.step = "linkOwner"
  /\ IF Current(x) /\ x.project \notin Linked
     THEN SetLink(x.project, [verified |-> TRUE, pending |-> None])
     ELSE UNCHANGED link
  /\ End(x)
  /\ UNCHANGED <<ledger, domain, active, vendor, published, scheduled>>

LinkClaim(x) ==
  /\ x.step = "linkClaim"
  /\ IF Current(x) /\ x.project \notin Linked
     THEN /\ SetLink(x.project, [verified |-> FALSE, pending |-> x.provider])
          /\ Advance(x, IF x.flag THEN "schedule" ELSE "createIdentity")
     ELSE End(x) /\ UNCHANGED link
  /\ UNCHANGED <<ledger, domain, active, vendor, published, scheduled>>

\* scheduleCustomDomainVerification, with the ownership job of a claim.
Schedule(x) ==
  /\ x.step = "schedule"
  /\ scheduled' = IF Current(x) THEN scheduled \cup {x.project} ELSE scheduled
  /\ End(x)
  /\ UNCHANGED <<ledger, domain, link, active, vendor, published>>

-----------------------------------------------------------------------------
(* verifyCustomDomainOwnership and completeDomainClaimTransfer.            *)

\* The job, with the Domain and the link it loads; without them it is over.
StartJob(o) ==
  /\ MayStart /\ o \in scheduled
  /\ IF domain # None /\ o \in Linked
     THEN /\ Start(o, "job", "challenge", link[o].pending, FALSE, {})
          /\ UNCHANGED scheduled
     ELSE scheduled' = scheduled \ {o} /\ UNCHANGED <<running, overlaps>>
  /\ UNCHANGED <<ledger, domain, link, active, vendor, published>>

\* The refresh of the Domain's page, while a claim is pending.
StartRefresh(o) ==
  /\ MayStart /\ o \in Linked /\ Identities # {}
  /\ ~link[o].verified \/ link[o].pending # None
  /\ Start(o, "refresh", "challenge", link[o].pending, FALSE, {})
  /\ UNCHANGED <<ledger, domain, link, active, vendor, published, scheduled>>

\* Mutant: the records are looked up but not compared with the token.
AnyChallenge(x) ==
  /\ x.step = "challenge"
  /\ Become(x, [x EXCEPT !.step = "record", !.flag = TRUE])
  /\ UNCHANGED <<ledger, domain, link, active, vendor, published, scheduled>>

Challenge(x) ==
  /\ x.step = "challenge"
  /\ Become(x, [x EXCEPT !.step = "record", !.flag = x.project \in published])
  /\ UNCHANGED <<ledger, domain, link, active, vendor, published, scheduled>>

\* A job that found the challenge is cancelled, any other comes again.
Settle(x) ==
  /\ End(x)
  /\ scheduled' = IF x.kind = "job" /\ x.flag THEN scheduled \ {x.project}
                                              ELSE scheduled

\* The status is written over whatever it was, and a claim that is proved
\* forgets its Provider before the transfer begins.
RecordOwnership(x) ==
  /\ x.step = "record"
  /\ IF Current(x) /\ x.project \in Linked
     THEN SetLink(x.project, [verified |-> x.flag,
                              pending |-> IF x.flag THEN None ELSE x.provider])
     ELSE UNCHANGED link
  /\ IF x.flag /\ x.provider # None
     THEN Advance(x, "unlinkOthers") /\ UNCHANGED scheduled
     ELSE Settle(x)
  /\ demoted' = (demoted \/ (Current(x) /\ x.project \in Owners /\ ~x.flag))
  /\ UNCHANGED <<mode, domain, inserted, used, active, vendor, published, shown>>

UnlinkOthers(x) ==
  /\ x.step = "unlinkOthers"
  /\ IF Current(x)
     THEN /\ link' = [o \in Projects |-> IF o = x.project THEN link[o] ELSE None]
          /\ published' = published \cap {x.project}
     ELSE UNCHANGED <<link, published>>
  /\ Advance(x, "listTransfer")
  /\ UNCHANGED <<ledger, domain, active, vendor, scheduled>>

ListTransfer(x) ==
  /\ x.step = "listTransfer"
  /\ Become(x, [x EXCEPT !.step = "remove",
                          !.todo = IF Current(x) THEN Identities ELSE {}])
  /\ UNCHANGED <<ledger, domain, link, active, vendor, published, scheduled>>

-----------------------------------------------------------------------------
(* deleteCustomDomain, and the loop over identities it shares with the     *)
(* transfer.                                                               *)

StartDelete(o) ==
  /\ MayStart /\ o \in Linked
  /\ Start(o, "delete", "unlink", None, Linked # {o}, Identities)
  /\ UNCHANGED <<ledger, domain, link, active, vendor, published, scheduled>>

\* Whether other Projects remain was read before.
Unlink(x) ==
  /\ x.step = "unlink"
  /\ IF Current(x)
     THEN SetLink(x.project, None) /\ published' = published \ {x.project}
     ELSE UNCHANGED <<link, published>>
  /\ IF x.flag THEN End(x) ELSE Advance(x, "remove")
  /\ UNCHANGED <<ledger, domain, active, vendor, scheduled>>

\* A transfer keeps the identity of the Provider that was chosen.
ActivateKept(x) ==
  /\ x.step = "remove" /\ x.kind # "delete" /\ x.provider \in x.todo
  /\ active' = IF Current(x) /\ x.provider \in Identities
               THEN [active EXCEPT ![x.provider] = TRUE] ELSE active
  /\ Become(x, [x EXCEPT !.todo = @ \ {x.provider}])
  /\ UNCHANGED <<ledger, domain, link, vendor, published, scheduled>>

RemoveAtVendor(x, p) ==
  /\ x.step = "remove" /\ p \in x.todo
  /\ x.kind = "delete" \/ p # x.provider
  /\ vendor' = vendor \ {p}
  /\ Become(x, [x EXCEPT !.step = "removeRow", !.current = p, !.todo = @ \ {p}])
  /\ UNCHANGED <<ledger, domain, link, active, published, scheduled>>

RemoveRow(x) ==
  /\ x.step = "removeRow"
  /\ active' = IF Current(x) THEN [active EXCEPT ![x.current] = None] ELSE active
  /\ Become(x, [x EXCEPT !.step = "remove", !.current = None])
  /\ UNCHANGED <<ledger, domain, link, vendor, published, scheduled>>

Removed(x) ==
  /\ x.step = "remove" /\ x.todo = {}
  /\ IF x.kind = "delete" THEN Advance(x, "dropDomain") /\ UNCHANGED scheduled
                          ELSE Settle(x)
  /\ UNCHANGED <<ledger, domain, link, active, vendor, published>>

\* The delete cascades to links and identities, and Deliveries refuse it.
\* The jobs of a Domain that is gone do nothing.
DropDomain(x) ==
  /\ x.step = "dropDomain"
  /\ IF Current(x) /\ domain \notin used
     THEN /\ domain' = None
          /\ link' = [o \in Projects |-> None]
          /\ active' = [p \in Providers |-> None]
          /\ published' = {} /\ shown' = {} /\ scheduled' = {}
     ELSE UNCHANGED <<domain, link, active, published, shown, scheduled>>
  /\ End(x)
  /\ UNCHANGED <<mode, inserted, used, vendor, demoted>>

-----------------------------------------------------------------------------
\* A call fails or the process dies; a job may have spent its attempts.
Fail(x) ==
  /\ "failures" \in mode
  /\ End(x)
  /\ \/ UNCHANGED scheduled
     \/ x.kind = "job" /\ scheduled' = scheduled \ {x.project}
  /\ UNCHANGED <<ledger, domain, link, active, vendor, published>>

Publish(o) ==
  /\ o \in Linked
  /\ published' = published \cup {o} /\ shown' = shown \cup {o}
  /\ UNCHANGED <<mode, inserted, used, demoted, domain, link, active, vendor,
                 scheduled, running>>

Retract(o) ==
  /\ "retraction" \in mode
  /\ published' = published \ {o}
  /\ UNCHANGED <<ledger, domain, link, active, vendor, scheduled, running>>

\* A linked Project sends from the Domain.
AcceptDelivery ==
  /\ "deliveries" \in mode /\ Linked # {} /\ \E p \in Providers : active[p] = TRUE
  /\ used' = used \cup {domain}
  /\ UNCHANGED <<mode, inserted, shown, demoted, domain, link, active, vendor,
                 published, scheduled, running>>

Step(x) ==
  \/ InsertDomain(x) \/ CreateIdentity(x) \/ ListIdentities(x) \/ InsertIdentity(x)
  \/ LinkOwner(x) \/ LinkClaim(x) \/ Schedule(x)
  \/ Challenge(x) \/ RecordOwnership(x) \/ UnlinkOthers(x) \/ ListTransfer(x)
  \/ Unlink(x) \/ ActivateKept(x) \/ (\E p \in Providers : RemoveAtVendor(x, p))
  \/ RemoveRow(x) \/ Removed(x) \/ DropDomain(x)

Starts(o) ==
  \/ \E p \in Providers : StartCreate(o, p)
  \/ StartJob(o) \/ StartRefresh(o) \/ StartDelete(o)

Next ==
  \/ \E o \in Projects : Starts(o)
  \/ /\ \/ \E x \in running : Step(x) \/ Fail(x)
        \/ \E o \in Projects : Publish(o) \/ Retract(o)
        \/ AcceptDelivery
     /\ UNCHANGED overlaps

Spec == Init /\ [][Next]_vars

-----------------------------------------------------------------------------
(* Correctness.                                                            *)

Idle       == running = {}
Sequential == mode \cap {"overlap", "failures"} = {}

\* Exactly one identity of a held Domain is active, the providers hold exactly
\* the identities of its rows, and a removed Domain leaves nothing behind: after any sequence of creations, claims, transfers and removals
\* without Deliveries (provider-identity.ts: "Exactly one identity is
\* `isActive`").
OneActiveIdentity ==
  (Idle /\ Sequential /\ "deliveries" \notin mode) =>
    /\ vendor = Identities /\ (domain = None <=> Linked = {})
    /\ Cardinality({p \in Identities : active[p]}) = IF domain = None THEN 0 ELSE 1

\* The owner of a Domain loses it only by removing it, with the Domain, or to
\* a Project whose challenge for this row has been in DNS, however operations
\* overlap and fail (custom-identity.ts 391-460).
LostOnlyToProof ==
  [][\A o \in Owners :
       (link'[o] = None /\ domain' # None) =>
         \/ \E x \in running : x.project = o /\ x.kind = "delete"
         \/ shown \ {o} # {}]_vars

\* When nothing is at work at most one Project owns the Domain, unless
\* operations overlapped or failed, or an owner was ever demoted: one that
\* owns the Domain again is no claim, and takes it from nobody.
SoleOwner == (Idle /\ Sequential /\ ~demoted) => Cardinality(Owners) <= 1

\* The rows of a Domain between operations: types, and one active identity.
Inv == TypeOK /\ OneActiveIdentity /\ SoleOwner
=============================================================================
