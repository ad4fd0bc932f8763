------------------------------ MODULE RootZone ------------------------------
(***************************************************************************)
(* The signed root zone and the rules by which one signed mutation may     *)
(* change it: the record types of federate-naming and federate-root, the   *)
(* blocklist check, and every arm of RegistryStore::apply_action           *)
(* (federate-mutation/src/store.rs).                                       *)
(*                                                                         *)
(* Cryptography is abstracted to what it establishes.  A mutation id is    *)
(* the hash of the whole envelope, so the envelope stands for its id; a    *)
(* state hash is the hash of the whole zone, so the zone stands for it; a  *)
(* content address stands for the bytes it names.  "signer" fields name    *)
(* the key whose signature verifies.                                       *)
(***************************************************************************)
EXTENDS Integers, Sequences, FiniteSets

CONSTANTS
    TldNames,           \* spellings of TLD names, the canonical ones included
    DomainNames,        \* spellings of domain names, the canonical ones included
    Parse,              \* validate_tld_name / FederateDomain::parse(..).fqdn()
    Lower,              \* to_ascii_lowercase
    TldOf,              \* the TLD of a canonical domain name
    Keys,               \* Ed25519 public keys
    RootKey,            \* the Federate Root Key
    OfficialOperator,   \* the operator key this node holds
    Nonces,             \* challenge nonces the server can draw
    SeedNonce,          \* the nonce text an offline seed writes ("seed:<name>")
    Iana, ReservedNames, PolicyNames,   \* the blocklist files
    AuditTail,          \* ZONE_AUDIT_TAIL
    RootInit,           \* the "root.init" entry of a fresh zone's audit trail
    None                \* an absent record

ASSUME NameAssumption ==
    /\ TldNames \cap DomainNames = {}
    /\ Parse \in [TldNames \cup DomainNames -> TldNames \cup DomainNames]
    /\ Lower \in [TldNames \cup DomainNames -> TldNames \cup DomainNames]
    /\ \A n \in TldNames : Parse[n] \in TldNames /\ Lower[n] \in TldNames
    /\ \A n \in DomainNames : Parse[n] \in DomainNames /\ Lower[n] \in DomainNames
    /\ TldOf \in [DomainNames -> TldNames]

ASSUME KeyAssumption ==
    /\ RootKey \in Keys
    /\ OfficialOperator \in Keys
    /\ SeedNonce \notin Nonces

ASSUME TailAssumption == AuditTail \in Nat \ {0}

-----------------------------------------------------------------------------
(* Record types.                                                           *)

TldStatus == {"official", "delegated", "reserved", "blocked", "disabled",
              "pending", "expired", "revoked"}

DomainStatus == {"active", "reserved", "pending", "suspended", "expired",
                 "revoked", "transferred"}

RegistryType == {"root_managed", "delegated_manifest", "delegated_native",
                 "delegated_http", "offline_manual"}

\* expires_at: a time, or NoExpiry when the field is absent.  A timestamp that
\* does not parse counts as expired, which is what time 0 does.
NoExpiry == -1
Expiry == Nat \cup {NoExpiry}

\* UpdateTld leaves expires_at alone when the request omits it.
Omitted == -2

\* The content-addressed documents of the manifests/ store.
Manifest == [domain : DomainNames, owner : Keys, rev : Nat]
TldRegistry == [tld : TldNames, signer : Keys, version : Nat]

TldRecord == [status : TldStatus, operator : Keys, registry_type : RegistryType,
              pinned : TldRegistry \cup {None}, expires_at : Expiry]

DomainRecord == [owner : Keys, manifest : Manifest, status : DomainStatus,
                 expires_at : Expiry, signer : Keys]

\* An absent TLD or domain is not a record.
ASSUME AbsenceAssumption == None \notin TldRecord /\ None \notin DomainRecord

\* MutationAction, one set per arm.
Action ==
    [kind : {"publish_site", "update_domain_manifest"},
     name : DomainNames, manifest : Manifest]
    \cup [kind : {"set_domain_status"}, name : DomainNames, status : DomainStatus]
    \cup [kind : {"issue_domain"}, name : DomainNames, record : DomainRecord]
    \cup [kind : {"delegate_tld"}, name : TldNames, operator : Keys,
          registry_type : RegistryType, expires_at : Expiry]
    \cup [kind : {"create_tld", "reserve_tld", "block_tld"}, name : TldNames]
    \cup [kind : {"update_tld"}, name : TldNames, expires_at : Expiry \cup {Omitted}]
    \cup [kind : {"set_tld_status"}, name : TldNames, status : TldStatus]
    \cup [kind : {"update_registry_pointer"}, name : TldNames, registry : TldRegistry]

\* The signed envelope.  "genuine" says that mutation_id matches the content
\* and that the signature verifies under the actor's key.
MutationRequest ==
    [nonce : Nonces \cup {SeedNonce}, actor : Keys, version : Nat, issued_at : Int,
     genuine : BOOLEAN, action : Action]

Zone == [version : Nat,
         tlds : [TldNames -> TldRecord \cup {None}],
         domains : [DomainNames -> DomainRecord \cup {None}],
         audit : Seq(MutationRequest \cup {RootInit})]

\* init_empty_registry: a signed zone without TLDs, versioned by the clock.
EmptyZone(now) ==
    [version |-> now,
     tlds |-> [n \in TldNames |-> None],
     domains |-> [n \in DomainNames |-> None],
     audit |-> <<RootInit>>]

-----------------------------------------------------------------------------
(* Rules of federate-naming and federate-root.                             *)

tld_is_resolvable(status) == status \in {"official", "delegated"}

expired_at(expires_at, now) == expires_at # NoExpiry /\ expires_at <= now

\* Blocklists::check asks the lists in order, so a reserved name that is also
\* on the policy list counts as reserved.
validate_new_tld(name, allow_reserved) ==
    /\ name \notin Iana
    /\ IF name \in ReservedNames THEN allow_reserved ELSE name \notin PolicyNames

allowed_domain_transition(from, to, actor_is_root) ==
    /\ from # to
    /\ \/ to = "suspended" /\ from = "active"
       \/ to = "active" /\ (from \in {"suspended", "pending"}
                            \/ (actor_is_root /\ from = "revoked"))
       \/ to = "revoked"

\* Per-target versions are kept under the lowercased spelling of the request.
target_key(action) == Lower[action.name]

-----------------------------------------------------------------------------
(* apply_action: for each arm, when it is authorised and what it writes.   *)
(* "z" is the current zone, "t" the wall clock of the expiry checks.       *)

\* Mutant: the operator key of the TLD is not compared with the node's own.
PublishAllowed_AnyOperator(z, content, req, t) ==
    LET a == req.action
        fqdn == Parse[a.name]
        tld == z.tlds[TldOf[fqdn]]
        rec == z.domains[fqdn]
    IN /\ tld # None
       /\ tld_is_resolvable(tld.status)
       /\ ~expired_at(tld.expires_at, t)
       /\ rec # None => rec.owner = req.actor /\ rec.status \in {"active", "pending"}
       /\ a.manifest \in content
       /\ a.manifest.domain = fqdn
       /\ a.manifest.owner = req.actor

\* Mutant: an existing record's owner is not compared with the actor.
PublishAllowed_AnyOwner(z, content, req, t) ==
    LET a == req.action
        fqdn == Parse[a.name]
        tld == z.tlds[TldOf[fqdn]]
        rec == z.domains[fqdn]
    IN /\ tld # None
       /\ tld.registry_type = "root_managed"
       /\ tld_is_resolvable(tld.status)
       /\ tld.operator = OfficialOperator
       /\ rec # None => rec.status \in {"active", "pending"}
       /\ a.manifest \in content
       /\ a.manifest.domain = fqdn
       /\ a.manifest.owner = req.actor

PublishAllowed(z, content, req, t) ==
    LET a == req.action
        fqdn == Parse[a.name]
        tld == z.tlds[TldOf[fqdn]]
        rec == z.domains[fqdn]
    IN /\ tld # None
       /\ tld.registry_type = "root_managed"
       /\ tld_is_resolvable(tld.status)
       /\ ~expired_at(tld.expires_at, t)
       /\ tld.operator = OfficialOperator
       /\ IF rec = None THEN a.kind = "publish_site"
                        ELSE rec.owner = req.actor /\ rec.status \in {"active", "pending"}
       /\ a.manifest \in content
       /\ a.manifest.domain = fqdn
       /\ a.manifest.owner = req.actor

PublishEffect(z, req) ==
    LET fqdn == Parse[req.action.name]
        rec == z.domains[fqdn]
    IN [z EXCEPT !.domains[fqdn] =
            [owner |-> req.actor, manifest |-> req.action.manifest, status |-> "active",
             expires_at |-> IF rec = None THEN NoExpiry ELSE rec.expires_at,
             signer |-> OfficialOperator]]

SetDomainStatusAllowed(z, req) ==
    LET fqdn == Lower[req.action.name]
        rec == z.domains[fqdn]
        tld == z.tlds[TldOf[fqdn]]
    IN /\ rec # None
       /\ tld # None
       /\ req.actor \in {RootKey, tld.operator}
       /\ allowed_domain_transition(rec.status, req.action.status, req.actor = RootKey)
       /\ tld.operator = OfficialOperator

SetDomainStatusEffect(z, req) ==
    LET fqdn == Lower[req.action.name]
    IN [z EXCEPT !.domains[fqdn] =
            [@ EXCEPT !.status = req.action.status, !.signer = OfficialOperator]]

\* Mutant: a revoked domain can be issued again by its operator.
IssueDomainAllowed_Revives(z, req, t) ==
    LET a == req.action
        tld == z.tlds[TldOf[a.name]]
    IN /\ tld # None
       /\ tld.registry_type = "root_managed"
       /\ req.actor = tld.operator
       /\ a.record.signer = req.actor
       /\ ~expired_at(a.record.expires_at, t)

IssueDomainAllowed(z, req, t) ==
    LET a == req.action
        tld == z.tlds[TldOf[a.name]]
        rec == z.domains[a.name]
    IN /\ tld # None
       /\ tld.registry_type = "root_managed"
       /\ req.actor = tld.operator
       /\ a.record.signer = req.actor
       /\ ~expired_at(a.record.expires_at, t)
       /\ rec # None /\ rec.status = "revoked" => req.actor = RootKey

IssueDomainEffect(z, req) == [z EXCEPT !.domains[req.action.name] = req.action.record]

NewTldRecord(status, operator, registry_type, expires_at) ==
    [status |-> status, operator |-> operator, registry_type |-> registry_type,
     pinned |-> None, expires_at |-> expires_at]

\* Mutant: delegating does not ask whether the TLD exists.
DelegateTldAllowed_Again(z, req) ==
    /\ req.actor = RootKey
    /\ validate_new_tld(Parse[req.action.name], FALSE)
    /\ req.action.registry_type # "root_managed"

DelegateTldAllowed(z, req) ==
    LET name == Parse[req.action.name]
    IN /\ req.actor = RootKey
       /\ validate_new_tld(name, FALSE)
       /\ z.tlds[name] = None
       /\ req.action.registry_type # "root_managed"

DelegateTldEffect(z, req) ==
    LET a == req.action
    IN [z EXCEPT !.tlds[Parse[a.name]] =
            NewTldRecord("delegated", a.operator, a.registry_type, a.expires_at)]

CreateTldAllowed(z, req) ==
    LET name == Parse[req.action.name]
    IN /\ req.actor = RootKey
       /\ validate_new_tld(name, TRUE)
       /\ z.tlds[name] = None

CreateTldEffect(z, req) ==
    [z EXCEPT !.tlds[Parse[req.action.name]] =
        NewTldRecord("official", OfficialOperator, "root_managed", NoExpiry)]

\* Reserving and blocking check the naming rules only, never the blocklists.
RestrictTldAllowed(z, req) ==
    /\ req.actor = RootKey
    /\ z.tlds[Parse[req.action.name]] = None

RestrictTldEffect(z, req) ==
    LET status == IF req.action.kind = "reserve_tld" THEN "reserved" ELSE "blocked"
    IN [z EXCEPT !.tlds[Parse[req.action.name]] =
            NewTldRecord(status, RootKey, "root_managed", NoExpiry)]

UpdateTldAllowed(z, req) ==
    /\ req.actor = RootKey
    /\ z.tlds[Lower[req.action.name]] # None

UpdateTldEffect(z, req) ==
    IF req.action.expires_at = Omitted THEN z
    ELSE [z EXCEPT !.tlds[Lower[req.action.name]].expires_at = req.action.expires_at]

SetTldStatusAllowed(z, req) ==
    LET rec == z.tlds[Lower[req.action.name]]
    IN req.actor = RootKey /\ rec # None /\ rec.status # req.action.status

SetTldStatusEffect(z, req) ==
    [z EXCEPT !.tlds[Lower[req.action.name]].status = req.action.status]

\* registries holds the parsed delegated registries the node distributes; a
\* TLD without one counts as version 0.
UpdateRegistryPointerAllowed(z, registries, req) ==
    LET name == Lower[req.action.name]
        rec == z.tlds[name]
        registry == req.action.registry
    IN /\ rec # None
       /\ req.actor = rec.operator
       /\ rec.registry_type = "delegated_manifest"
       /\ registry.tld = name
       /\ registry.signer = req.actor
       /\ registry.version > (IF registries[name] = None THEN 0
                                                         ELSE registries[name].version)

UpdateRegistryPointerEffect(z, req) ==
    [z EXCEPT !.tlds[Lower[req.action.name]].pinned = req.action.registry]

ActionAllowed(z, registries, content, req, t) ==
    CASE req.action.kind \in {"publish_site", "update_domain_manifest"} ->
            PublishAllowed(z, content, req, t)
      [] req.action.kind = "set_domain_status" -> SetDomainStatusAllowed(z, req)
      [] req.action.kind = "issue_domain" -> IssueDomainAllowed(z, req, t)
      [] req.action.kind = "delegate_tld" -> DelegateTldAllowed(z, req)
      [] req.action.kind = "create_tld" -> CreateTldAllowed(z, req)
      [] req.action.kind \in {"reserve_tld", "block_tld"} -> RestrictTldAllowed(z, req)
      [] req.action.kind = "update_tld" -> UpdateTldAllowed(z, req)
      [] req.action.kind = "set_tld_status" -> SetTldStatusAllowed(z, req)
      [] req.action.kind = "update_registry_pointer" ->
            UpdateRegistryPointerAllowed(z, registries, req)

ActionEffect(z, req) ==
    CASE req.action.kind \in {"publish_site", "update_domain_manifest"} ->
            PublishEffect(z, req)
      [] req.action.kind = "set_domain_status" -> SetDomainStatusEffect(z, req)
      [] req.action.kind = "issue_domain" -> IssueDomainEffect(z, req)
      [] req.action.kind = "delegate_tld" -> DelegateTldEffect(z, req)
      [] req.action.kind = "create_tld" -> CreateTldEffect(z, req)
      [] req.action.kind \in {"reserve_tld", "block_tld"} -> RestrictTldEffect(z, req)
      [] req.action.kind = "update_tld" -> UpdateTldEffect(z, req)
      [] req.action.kind = "set_tld_status" -> SetTldStatusEffect(z, req)
      [] req.action.kind = "update_registry_pointer" -> UpdateRegistryPointerEffect(z, req)

\* A delegated registry travels with the batch only when its pointer moves.
RegistriesAfter(registries, req) ==
    IF req.action.kind = "update_registry_pointer"
    THEN [registries EXCEPT ![Lower[req.action.name]] = req.action.registry]
    ELSE registries

-----------------------------------------------------------------------------
(* Re-signing: the version strictly advances and the zone's own audit      *)
(* trail keeps its last AuditTail entries.                                 *)

PushTail(trail, entry) ==
    LET long == Append(trail, entry)
    IN IF Len(long) > AuditTail
       THEN SubSeq(long, Len(long) - AuditTail + 1, Len(long))
       ELSE long

\* Mutant: the wall clock alone versions the zone.
NextVersion_Clock(version, now) == now

NextVersion(version, now) == IF version + 1 > now THEN version + 1 ELSE now

SignedZone(z, req, now) ==
    LET edited == ActionEffect(z, req)
    IN [edited EXCEPT !.version = NextVersion(z.version, now),
                      !.audit = PushTail(z.audit, req)]
=============================================================================
