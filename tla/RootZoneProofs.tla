--------------------------- MODULE RootZoneProofs ---------------------------
(***************************************************************************)
(* Lemmas about the rules of RootZone, for every zone and every request:   *)
(* an accepted action writes a zone, takes no TLD away and gives none to   *)
(* another operator, and changes a domain only as its owner, its operator  *)
(* or root may.                                                            *)
(***************************************************************************)
EXTENDS RootZone, SequenceTheorems, TLAPS

-----------------------------------------------------------------------------
(* The operators of RootZone stay within the record types.                 *)

\* Which fields an action of each kind has.
LEMMA ActionFields ==
    ASSUME NEW a \in Action
    PROVE  /\ a.kind \in {"publish_site", "update_domain_manifest"} =>
                  a.name \in DomainNames /\ a.manifest \in Manifest
           /\ a.kind = "set_domain_status" =>
                  a.name \in DomainNames /\ a.status \in DomainStatus
           /\ a.kind = "issue_domain" =>
                  a.name \in DomainNames /\ a.record \in DomainRecord
           /\ a.kind = "delegate_tld" =>
                  /\ a.name \in TldNames
                  /\ a.operator \in Keys
                  /\ a.registry_type \in RegistryType
                  /\ a.expires_at \in Expiry
           /\ a.kind \in {"create_tld", "reserve_tld", "block_tld"} => a.name \in TldNames
           /\ a.kind = "update_tld" =>
                  a.name \in TldNames /\ a.expires_at \in Expiry \cup {Omitted}
           /\ a.kind = "set_tld_status" => a.name \in TldNames /\ a.status \in TldStatus
           /\ a.kind = "update_registry_pointer" =>
                  a.name \in TldNames /\ a.registry \in TldRegistry
           /\ a.kind \in {"publish_site", "update_domain_manifest", "set_domain_status",
                          "issue_domain", "delegate_tld", "create_tld", "reserve_tld",
                          "block_tld", "update_tld", "set_tld_status",
                          "update_registry_pointer"}
           /\ a.name \in TldNames \cup DomainNames
  BY DEF Action

\* Replacing one domain record keeps a zone a zone.
LEMMA ZoneWithDomain ==
    ASSUME NEW z \in Zone, NEW d \in DomainNames, NEW rec \in DomainRecord
    PROVE  [z EXCEPT !.domains[d] = rec] \in Zone
  BY DEF Zone

\* Replacing one TLD record keeps a zone a zone.
LEMMA ZoneWithTld ==
    ASSUME NEW z \in Zone, NEW n \in TldNames, NEW rec \in TldRecord
    PROVE  [z EXCEPT !.tlds[n] = rec] \in Zone
  BY DEF Zone

\* What an accepted action writes is a zone again.
LEMMA ActionEffectIsZone ==
    ASSUME NEW z \in Zone, NEW registries, NEW docs, NEW t, NEW req \in MutationRequest,
           ActionAllowed(z, registries, docs, req, t)
    PROVE  ActionEffect(z, req) \in Zone
  <1>. DEFINE a == req.action
  <1>a. a \in Action
    BY DEF MutationRequest
  <1>k. /\ req.actor \in Keys
        /\ z.tlds \in [TldNames -> TldRecord \cup {None}]
        /\ z.domains \in [DomainNames -> DomainRecord \cup {None}]
    BY DEF MutationRequest, Zone
  <1>1. CASE a.kind \in {"publish_site", "update_domain_manifest"}
    <2>1. ActionEffect(z, req) = PublishEffect(z, req) /\ PublishAllowed(z, docs, req, t)
      BY <1>1 DEF ActionEffect, ActionAllowed
    <2>2. a.name \in DomainNames /\ a.manifest \in Manifest /\ Parse[a.name] \in DomainNames
      BY <1>1, <1>a, ActionFields, NameAssumption
    <2>. DEFINE rec == z.domains[Parse[a.name]]
                new == [owner |-> req.actor, manifest |-> a.manifest, status |-> "active",
                        expires_at |-> IF rec = None THEN NoExpiry ELSE rec.expires_at,
                        signer |-> OfficialOperator]
    <2>3. new \in DomainRecord
      BY <1>k, <2>2, KeyAssumption DEF DomainRecord, DomainStatus, Expiry
    <2>. QED
      BY <2>1, <2>2, <2>3, ZoneWithDomain DEF PublishEffect
  <1>2. CASE a.kind = "set_domain_status"
    <2>1. ActionEffect(z, req) = SetDomainStatusEffect(z, req) /\ SetDomainStatusAllowed(z, req)
      BY <1>2 DEF ActionEffect, ActionAllowed
    <2>2. Lower[a.name] \in DomainNames /\ a.status \in DomainStatus
      BY <1>2, <1>a, ActionFields, NameAssumption
    <2>. DEFINE rec == z.domains[Lower[a.name]]
                new == [rec EXCEPT !.status = a.status, !.signer = OfficialOperator]
    <2>3. rec \in DomainRecord
      BY <1>k, <2>1, <2>2 DEF SetDomainStatusAllowed
    <2>4. new \in DomainRecord
      BY <2>2, <2>3, KeyAssumption DEF DomainRecord
    <2>5. SetDomainStatusEffect(z, req) = [z EXCEPT !.domains[Lower[a.name]] = new]
      BY <1>k, <2>2 DEF SetDomainStatusEffect, Zone
    <2>. QED
      BY <2>1, <2>2, <2>4, <2>5, ZoneWithDomain
  <1>3. CASE a.kind = "issue_domain"
    <2>1. ActionEffect(z, req) = IssueDomainEffect(z, req)
      BY <1>3 DEF ActionEffect
    <2>. QED
      BY <1>3, <1>a, <2>1, ActionFields, ZoneWithDomain DEF IssueDomainEffect
  <1>4. CASE a.kind = "delegate_tld"
    <2>1. ActionEffect(z, req) = DelegateTldEffect(z, req)
      BY <1>4 DEF ActionEffect
    <2>2. Parse[a.name] \in TldNames
      BY <1>4, <1>a, ActionFields, NameAssumption
    <2>3. NewTldRecord("delegated", a.operator, a.registry_type, a.expires_at) \in TldRecord
      BY <1>4, <1>a, ActionFields DEF NewTldRecord, TldRecord, TldStatus
    <2>. QED
      BY <2>1, <2>2, <2>3, ZoneWithTld DEF DelegateTldEffect
  <1>5. CASE a.kind = "create_tld"
    <2>1. ActionEffect(z, req) = CreateTldEffect(z, req)
      BY <1>5 DEF ActionEffect
    <2>2. Parse[a.name] \in TldNames
      BY <1>5, <1>a, ActionFields, NameAssumption
    <2>3. NewTldRecord("official", OfficialOperator, "root_managed", NoExpiry) \in TldRecord
      BY KeyAssumption DEF NewTldRecord, TldRecord, TldStatus, RegistryType, Expiry
    <2>. QED
      BY <2>1, <2>2, <2>3, ZoneWithTld DEF CreateTldEffect
  <1>6. CASE a.kind \in {"reserve_tld", "block_tld"}
    <2>1. ActionEffect(z, req) = RestrictTldEffect(z, req)
      BY <1>6 DEF ActionEffect
    <2>2. Parse[a.name] \in TldNames
      BY <1>6, <1>a, ActionFields, NameAssumption
    <2>3. \A s \in {"reserved", "blocked"} :
              NewTldRecord(s, RootKey, "root_managed", NoExpiry) \in TldRecord
      BY KeyAssumption DEF NewTldRecord, TldRecord, TldStatus, RegistryType, Expiry
    <2>. QED
      BY <2>1, <2>2, <2>3, ZoneWithTld DEF RestrictTldEffect
  <1>7. CASE a.kind = "update_tld"
    <2>1. ActionEffect(z, req) = UpdateTldEffect(z, req) /\ UpdateTldAllowed(z, req)
      BY <1>7 DEF ActionEffect, ActionAllowed
    <2>2. Lower[a.name] \in TldNames /\ a.expires_at \in Expiry \cup {Omitted}
      BY <1>7, <1>a, ActionFields, NameAssumption
    <2>. DEFINE new == [z.tlds[Lower[a.name]] EXCEPT !.expires_at = a.expires_at]
    <2>3. CASE a.expires_at = Omitted
      BY <2>1, <2>3 DEF UpdateTldEffect
    <2>4. CASE a.expires_at # Omitted
      <3>1. z.tlds[Lower[a.name]] \in TldRecord
        BY <1>k, <2>1, <2>2 DEF UpdateTldAllowed
      <3>2. new \in TldRecord
        BY <2>2, <2>4, <3>1 DEF TldRecord
      <3>3. UpdateTldEffect(z, req) = [z EXCEPT !.tlds[Lower[a.name]] = new]
        BY <1>k, <2>2, <2>4 DEF UpdateTldEffect, Zone
      <3>. QED
        BY <2>1, <2>2, <3>2, <3>3, ZoneWithTld
    <2>. QED
      BY <2>3, <2>4
  <1>8. CASE a.kind = "set_tld_status"
    <2>1. ActionEffect(z, req) = SetTldStatusEffect(z, req) /\ SetTldStatusAllowed(z, req)
      BY <1>8 DEF ActionEffect, ActionAllowed
    <2>2. Lower[a.name] \in TldNames /\ a.status \in TldStatus
      BY <1>8, <1>a, ActionFields, NameAssumption
    <2>. DEFINE new == [z.tlds[Lower[a.name]] EXCEPT !.status = a.status]
    <2>3. z.tlds[Lower[a.name]] \in TldRecord
      BY <1>k, <2>1, <2>2 DEF SetTldStatusAllowed
    <2>4. new \in TldRecord
      BY <2>2, <2>3 DEF TldRecord
    <2>5. SetTldStatusEffect(z, req) = [z EXCEPT !.tlds[Lower[a.name]] = new]
      BY <1>k, <2>2 DEF SetTldStatusEffect, Zone
    <2>. QED
      BY <2>1, <2>2, <2>4, <2>5, ZoneWithTld
  <1>9. CASE a.kind = "update_registry_pointer"
    <2>1. /\ ActionEffect(z, req) = UpdateRegistryPointerEffect(z, req)
          /\ UpdateRegistryPointerAllowed(z, registries, req)
      BY <1>9 DEF ActionEffect, ActionAllowed
    <2>2. Lower[a.name] \in TldNames /\ a.registry \in TldRegistry
      BY <1>9, <1>a, ActionFields, NameAssumption
    <2>. DEFINE new == [z.tlds[Lower[a.name]] EXCEPT !.pinned = a.registry]
    <2>3. z.tlds[Lower[a.name]] \in TldRecord
      BY <1>k, <2>1, <2>2 DEF UpdateRegistryPointerAllowed
    <2>4. new \in TldRecord
      BY <2>2, <2>3 DEF TldRecord
    <2>5. UpdateRegistryPointerEffect(z, req) = [z EXCEPT !.tlds[Lower[a.name]] = new]
      BY <1>k, <2>2 DEF UpdateRegistryPointerEffect, Zone
    <2>. QED
      BY <2>1, <2>2, <2>4, <2>5, ZoneWithTld
  <1>. QED
    BY <1>1, <1>2, <1>3, <1>4, <1>5, <1>6, <1>7, <1>8, <1>9, <1>a, ActionFields

\* The trail stays a trail.
LEMMA PushTailIsSeq ==
    ASSUME NEW S, NEW trail \in Seq(S), NEW entry \in S
    PROVE  PushTail(trail, entry) \in Seq(S)
  <1>. DEFINE long == Append(trail, entry)
              first == Len(long) - AuditTail + 1
  <1>1. long \in Seq(S)
    OBVIOUS
  <1>2. Len(long) \in Nat /\ AuditTail \in Nat
    BY <1>1, TailAssumption
  <1>3. ASSUME Len(long) > AuditTail
        PROVE  SubSeq(long, first, Len(long)) \in Seq(S)
    <2>1. \A i \in first .. Len(long) : long[i] \in S
      <3>. SUFFICES ASSUME NEW i \in first .. Len(long) PROVE long[i] \in S
        OBVIOUS
      <3>. QED
        BY <1>1, <1>2, <1>3, ElementOfSeq
    <2>2. first \in Int /\ Len(long) \in Int
      BY <1>2
    <2>. HIDE DEF long, first
    <2>. QED
      BY <2>1, <2>2, SubSeqProperties
  <1>. QED
    BY <1>1, <1>3 DEF PushTail

LEMMA SignedZoneIsZone ==
    ASSUME NEW z \in Zone, NEW registries, NEW docs, NEW t, NEW req \in MutationRequest,
           NEW now \in Nat, ActionAllowed(z, registries, docs, req, t)
    PROVE  /\ SignedZone(z, req, now) \in Zone
           /\ SignedZone(z, req, now).version > z.version
           /\ SignedZone(z, req, now).version \in Nat
           /\ SignedZone(z, req, now).audit = PushTail(z.audit, req)
  <1>1. ActionEffect(z, req) \in Zone
    BY ActionEffectIsZone
  <1>2. z.version \in Nat /\ z.audit \in Seq(MutationRequest \cup {RootInit})
    BY DEF Zone
  <1>3. NextVersion(z.version, now) \in Nat /\ NextVersion(z.version, now) > z.version
    BY <1>2 DEF NextVersion
  <1>4. PushTail(z.audit, req) \in Seq(MutationRequest \cup {RootInit})
    BY <1>2, PushTailIsSeq
  <1>. QED
    BY <1>1, <1>3, <1>4 DEF SignedZone, Zone

\* The key of a target is a name.
LEMMA TargetKeyIsName ==
    ASSUME NEW req \in MutationRequest
    PROVE  target_key(req.action) \in TldNames \cup DomainNames
  <1>1. req.action \in Action
    BY DEF MutationRequest
  <1>. QED
    BY <1>1, ActionFields, NameAssumption DEF target_key

-----------------------------------------------------------------------------
(* TLDs and the signatures below them.                                     *)

\* Every domain is under a root-managed TLD, signed by its operator.
DomainsVerify(z) ==
    \A d \in DomainNames : z.domains[d] # None =>
        LET tld == z.tlds[TldOf[d]]
        IN /\ tld # None
           /\ tld.registry_type = "root_managed"
           /\ z.domains[d].signer = tld.operator

\* Every TLD of z is in y, of the type and under the operator it has in z.
KeepsTlds(z, y) ==
    \A n \in TldNames : z.tlds[n] # None =>
        /\ y.tlds[n] # None
        /\ y.tlds[n].operator = z.tlds[n].operator
        /\ y.tlds[n].registry_type = z.tlds[n].registry_type

\* The registry a request pins is that of its TLD, signed by its operator.
PinVerifies(z, req) ==
    req.action.kind = "update_registry_pointer" =>
        LET name == Lower[req.action.name]
        IN /\ z.tlds[name] # None
           /\ req.action.registry.tld = name
           /\ req.action.registry.signer = z.tlds[name].operator

LEMMA DomainKeepsTlds ==
    ASSUME NEW z \in Zone, NEW d \in DomainNames, NEW rec,
           DomainsVerify(z), z.tlds[TldOf[d]] # None,
           z.tlds[TldOf[d]].registry_type = "root_managed",
           rec.signer = z.tlds[TldOf[d]].operator
    PROVE  LET y == [z EXCEPT !.domains[d] = rec]
           IN DomainsVerify(y) /\ KeepsTlds(z, y)
  BY DEF DomainsVerify, KeepsTlds, Zone

LEMMA TldKeepsTlds ==
    ASSUME NEW z \in Zone, NEW n \in TldNames, NEW rec \in TldRecord,
           DomainsVerify(z),
           z.tlds[n] # None => /\ rec.operator = z.tlds[n].operator
                               /\ rec.registry_type = z.tlds[n].registry_type
    PROVE  LET y == [z EXCEPT !.tlds[n] = rec]
           IN DomainsVerify(y) /\ KeepsTlds(z, y)
  <1>. DEFINE y == [z EXCEPT !.tlds[n] = rec]
  <1>1. /\ y.domains = z.domains
        /\ y.tlds = [z.tlds EXCEPT ![n] = rec]
        /\ z.tlds \in [TldNames -> TldRecord \cup {None}]
    BY DEF Zone
  <1>2. rec # None
    BY AbsenceAssumption
  <1>. HIDE DEF y
  <1>3. \A m \in TldNames : m # n => y.tlds[m] = z.tlds[m]
    BY <1>1
  <1>4. y.tlds[n] = rec
    BY <1>1
  <1>5. KeepsTlds(z, y)
    BY <1>2, <1>3, <1>4 DEF KeepsTlds
  <1>6. DomainsVerify(y)
    BY <1>1, <1>5, NameAssumption DEF KeepsTlds, DomainsVerify
  <1>. QED
    BY <1>5, <1>6 DEF y

\* An accepted action adds TLDs and edits them, and adds domains below them.
LEMMA ActionKeepsTlds ==
    ASSUME NEW z \in Zone, NEW registries, NEW docs, NEW t, NEW req \in MutationRequest,
           ActionAllowed(z, registries, docs, req, t), DomainsVerify(z)
    PROVE  DomainsVerify(ActionEffect(z, req)) /\ KeepsTlds(z, ActionEffect(z, req))
  <1>. DEFINE a == req.action
  <1>a. a \in Action
    BY DEF MutationRequest
  <1>k. z.tlds \in [TldNames -> TldRecord \cup {None}]
    BY DEF Zone
  <1>1. CASE a.kind \in {"publish_site", "update_domain_manifest"}
    <2>1. ActionEffect(z, req) = PublishEffect(z, req) /\ PublishAllowed(z, docs, req, t)
      BY <1>1 DEF ActionEffect, ActionAllowed
    <2>2. Parse[a.name] \in DomainNames
      BY <1>1, <1>a, ActionFields, NameAssumption
    <2>. DEFINE rec == z.domains[Parse[a.name]]
                new == [owner |-> req.actor, manifest |-> a.manifest, status |-> "active",
                        expires_at |-> IF rec = None THEN NoExpiry ELSE rec.expires_at,
                        signer |-> OfficialOperator]
    <2>3. /\ z.tlds[TldOf[Parse[a.name]]] # None
          /\ z.tlds[TldOf[Parse[a.name]]].registry_type = "root_managed"
          /\ new.signer = z.tlds[TldOf[Parse[a.name]]].operator
      BY <2>1 DEF PublishAllowed
    <2>4. PublishEffect(z, req) = [z EXCEPT !.domains[Parse[a.name]] = new]
      BY DEF PublishEffect
    <2>. DEFINE y == [z EXCEPT !.domains[Parse[a.name]] = new]
    <2>. HIDE DEF rec, new
    <2>5. DomainsVerify(y) /\ KeepsTlds(z, y)
      BY <2>2, <2>3, DomainKeepsTlds
    <2>. HIDE DEF y
    <2>6. ActionEffect(z, req) = y
      BY <2>1, <2>4 DEF y
    <2>. QED
      BY <2>5, <2>6
  <1>2. CASE a.kind = "set_domain_status"
    <2>1. ActionEffect(z, req) = SetDomainStatusEffect(z, req) /\ SetDomainStatusAllowed(z, req)
      BY <1>2 DEF ActionEffect, ActionAllowed
    <2>2. Lower[a.name] \in DomainNames
      BY <1>2, <1>a, ActionFields, NameAssumption
    <2>3. /\ z.tlds[TldOf[Lower[a.name]]] # None
          /\ z.tlds[TldOf[Lower[a.name]]].registry_type = "root_managed"
          /\ z.tlds[TldOf[Lower[a.name]]].operator = OfficialOperator
          /\ z.domains[Lower[a.name]] \in DomainRecord
      BY <2>1, <2>2 DEF SetDomainStatusAllowed, DomainsVerify, Zone
    <2>. DEFINE new == [z.domains[Lower[a.name]] EXCEPT !.status = a.status,
                                                        !.signer = OfficialOperator]
    <2>4. SetDomainStatusEffect(z, req) = [z EXCEPT !.domains[Lower[a.name]] = new]
      BY <2>2 DEF SetDomainStatusEffect, Zone
    <2>5. new.signer = OfficialOperator
      BY <2>3 DEF DomainRecord
    <2>. HIDE DEF new
    <2>. QED
      BY <2>1, <2>2, <2>3, <2>4, <2>5, DomainKeepsTlds
  <1>3. CASE a.kind = "issue_domain"
    <2>1. ActionEffect(z, req) = IssueDomainEffect(z, req) /\ IssueDomainAllowed(z, req, t)
      BY <1>3 DEF ActionEffect, ActionAllowed
    <2>2. /\ a.name \in DomainNames /\ z.tlds[TldOf[a.name]] # None
          /\ z.tlds[TldOf[a.name]].registry_type = "root_managed"
          /\ a.record.signer = z.tlds[TldOf[a.name]].operator
      BY <1>3, <1>a, <2>1, ActionFields DEF IssueDomainAllowed
    <2>. QED
      BY <2>1, <2>2, DomainKeepsTlds DEF IssueDomainEffect
  <1>4. CASE a.kind = "delegate_tld"
    <2>1. ActionEffect(z, req) = DelegateTldEffect(z, req) /\ DelegateTldAllowed(z, req)
      BY <1>4 DEF ActionEffect, ActionAllowed
    <2>2. Parse[a.name] \in TldNames /\ z.tlds[Parse[a.name]] = None
      BY <1>4, <1>a, <2>1, ActionFields, NameAssumption DEF DelegateTldAllowed
    <2>3. NewTldRecord("delegated", a.operator, a.registry_type, a.expires_at) \in TldRecord
      BY <1>4, <1>a, ActionFields DEF NewTldRecord, TldRecord, TldStatus
    <2>. QED
      BY <2>1, <2>2, <2>3, TldKeepsTlds DEF DelegateTldEffect
  <1>5. CASE a.kind = "create_tld"
    <2>1. ActionEffect(z, req) = CreateTldEffect(z, req) /\ CreateTldAllowed(z, req)
      BY <1>5 DEF ActionEffect, ActionAllowed
    <2>2. Parse[a.name] \in TldNames /\ z.tlds[Parse[a.name]] = None
      BY <1>5, <1>a, <2>1, ActionFields, NameAssumption DEF CreateTldAllowed
    <2>3. NewTldRecord("official", OfficialOperator, "root_managed", NoExpiry) \in TldRecord
      BY KeyAssumption DEF NewTldRecord, TldRecord, TldStatus, RegistryType, Expiry
    <2>. QED
      BY <2>1, <2>2, <2>3, TldKeepsTlds DEF CreateTldEffect
  <1>6. CASE a.kind \in {"reserve_tld", "block_tld"}
    <2>1. ActionEffect(z, req) = RestrictTldEffect(z, req) /\ RestrictTldAllowed(z, req)
      BY <1>6 DEF ActionEffect, ActionAllowed
    <2>2. Parse[a.name] \in TldNames /\ z.tlds[Parse[a.name]] = None
      BY <1>6, <1>a, <2>1, ActionFields, NameAssumption DEF RestrictTldAllowed
    <2>3. \A s \in {"reserved", "blocked"} :
              NewTldRecord(s, RootKey, "root_managed", NoExpiry) \in TldRecord
      BY KeyAssumption DEF NewTldRecord, TldRecord, TldStatus, RegistryType, Expiry
    <2>. QED
      BY <2>1, <2>2, <2>3, TldKeepsTlds DEF RestrictTldEffect
  <1>7. CASE a.kind = "update_tld"
    <2>1. ActionEffect(z, req) = UpdateTldEffect(z, req) /\ UpdateTldAllowed(z, req)
      BY <1>7 DEF ActionEffect, ActionAllowed
    <2>2. /\ Lower[a.name] \in TldNames /\ a.expires_at \in Expiry \cup {Omitted}
          /\ z.tlds[Lower[a.name]] \in TldRecord
      BY <1>7, <1>a, <1>k, <2>1, ActionFields, NameAssumption DEF UpdateTldAllowed
    <2>. DEFINE new == [z.tlds[Lower[a.name]] EXCEPT !.expires_at = a.expires_at]
    <2>3. CASE a.expires_at = Omitted
      BY <2>1, <2>3 DEF UpdateTldEffect, KeepsTlds
    <2>4. CASE a.expires_at # Omitted
      <3>1. /\ new \in TldRecord /\ new.operator = z.tlds[Lower[a.name]].operator
            /\ new.registry_type = z.tlds[Lower[a.name]].registry_type
        BY <2>2, <2>4 DEF TldRecord
      <3>2. UpdateTldEffect(z, req) = [z EXCEPT !.tlds[Lower[a.name]] = new]
        BY <1>k, <2>2, <2>4 DEF UpdateTldEffect, Zone
      <3>. HIDE DEF new
      <3>. QED
        BY <2>1, <2>2, <3>1, <3>2, TldKeepsTlds
    <2>. QED
      BY <2>3, <2>4
  <1>8. CASE a.kind = "set_tld_status"
    <2>1. ActionEffect(z, req) = SetTldStatusEffect(z, req) /\ SetTldStatusAllowed(z, req)
      BY <1>8 DEF ActionEffect, ActionAllowed
    <2>2. /\ Lower[a.name] \in TldNames /\ a.status \in TldStatus
          /\ z.tlds[Lower[a.name]] \in TldRecord
      BY <1>8, <1>a, <1>k, <2>1, ActionFields, NameAssumption DEF SetTldStatusAllowed
    <2>. DEFINE new == [z.tlds[Lower[a.name]] EXCEPT !.status = a.status]
    <2>3. /\ new \in TldRecord /\ new.operator = z.tlds[Lower[a.name]].operator
          /\ new.registry_type = z.tlds[Lower[a.name]].registry_type
      BY <2>2 DEF TldRecord
    <2>4. SetTldStatusEffect(z, req) = [z EXCEPT !.tlds[Lower[a.name]] = new]
      BY <1>k, <2>2 DEF SetTldStatusEffect, Zone
    <2>. HIDE DEF new
    <2>. QED
      BY <2>1, <2>2, <2>3, <2>4, TldKeepsTlds
  <1>9. CASE a.kind = "update_registry_pointer"
    <2>1. /\ ActionEffect(z, req) = UpdateRegistryPointerEffect(z, req)
          /\ UpdateRegistryPointerAllowed(z, registries, req)
      BY <1>9 DEF ActionEffect, ActionAllowed
    <2>2. /\ Lower[a.name] \in TldNames /\ a.registry \in TldRegistry
          /\ z.tlds[Lower[a.name]] \in TldRecord
      BY <1>9, <1>a, <1>k, <2>1, ActionFields, NameAssumption DEF UpdateRegistryPointerAllowed
    <2>. DEFINE new == [z.tlds[Lower[a.name]] EXCEPT !.pinned = a.registry]
    <2>3. /\ new \in TldRecord /\ new.operator = z.tlds[Lower[a.name]].operator
          /\ new.registry_type = z.tlds[Lower[a.name]].registry_type
      BY <2>2 DEF TldRecord
    <2>4. UpdateRegistryPointerEffect(z, req) = [z EXCEPT !.tlds[Lower[a.name]] = new]
      BY <1>k, <2>2 DEF UpdateRegistryPointerEffect, Zone
    <2>. HIDE DEF new
    <2>. QED
      BY <2>1, <2>2, <2>3, <2>4, TldKeepsTlds
  <1>. QED
    BY <1>1, <1>2, <1>3, <1>4, <1>5, <1>6, <1>7, <1>8, <1>9, <1>a, ActionFields

\* The same of the re-signed zone, with what it pins.
LEMMA SigningKeepsTlds ==
    ASSUME NEW z \in Zone, NEW registries, NEW docs, NEW t, NEW now \in Nat,
           NEW req \in MutationRequest,
           ActionAllowed(z, registries, docs, req, t), DomainsVerify(z)
    PROVE  LET y == SignedZone(z, req, now)
           IN DomainsVerify(y) /\ KeepsTlds(z, y) /\ PinVerifies(y, req)
  <1>. DEFINE e == ActionEffect(z, req)
              y == SignedZone(z, req, now)
  <1>1. e \in Zone /\ DomainsVerify(e) /\ KeepsTlds(z, e)
    BY ActionEffectIsZone, ActionKeepsTlds
  <1>. HIDE DEF e
  <1>2. y = [e EXCEPT !.version = NextVersion(z.version, now), !.audit = PushTail(z.audit, req)]
    BY DEF SignedZone, e
  <1>3. y.tlds = e.tlds /\ y.domains = e.domains
    BY <1>1, <1>2 DEF Zone
  <1>. HIDE DEF y
  <1>4. DomainsVerify(y) /\ KeepsTlds(z, y)
    BY <1>1, <1>3 DEF DomainsVerify, KeepsTlds
  <1>5. ASSUME req.action.kind = "update_registry_pointer"
        PROVE  PinVerifies(y, req)
    <2>1. UpdateRegistryPointerAllowed(z, registries, req)
      BY <1>5 DEF ActionAllowed
    <2>2. Lower[req.action.name] \in TldNames
      BY <1>5, ActionFields, NameAssumption DEF MutationRequest
    <2>. QED
      BY <1>4, <2>1, <2>2 DEF UpdateRegistryPointerAllowed, KeepsTlds, PinVerifies
  <1>6. PinVerifies(y, req)
    BY <1>5 DEF PinVerifies
  <1>. QED
    BY <1>4, <1>6 DEF y

-----------------------------------------------------------------------------
(* What else a step changes.                                               *)

\* More stored documents allow no less.
LEMMA DocumentsOnlyHelp ==
    ASSUME NEW z, NEW regs, NEW docs, NEW more, NEW req \in MutationRequest, NEW t,
           docs \subseteq more, ActionAllowed(z, regs, docs, req, t)
    PROVE  ActionAllowed(z, regs, more, req, t)
  <1>1. CASE req.action.kind \in {"publish_site", "update_domain_manifest"}
    <2>1. PublishAllowed(z, docs, req, t)
      BY <1>1 DEF ActionAllowed
    <2>2. PublishAllowed(z, more, req, t)
      BY <2>1 DEF PublishAllowed
    <2>. QED
      BY <1>1, <2>2 DEF ActionAllowed
  <1>2. CASE req.action.kind = "set_domain_status"
    BY <1>2 DEF ActionAllowed
  <1>3. CASE req.action.kind = "issue_domain"
    BY <1>3 DEF ActionAllowed
  <1>4. CASE req.action.kind = "delegate_tld"
    BY <1>4 DEF ActionAllowed
  <1>5. CASE req.action.kind = "create_tld"
    BY <1>5 DEF ActionAllowed
  <1>6. CASE req.action.kind \in {"reserve_tld", "block_tld"}
    BY <1>6 DEF ActionAllowed
  <1>7. CASE req.action.kind = "update_tld"
    BY <1>7 DEF ActionAllowed
  <1>8. CASE req.action.kind = "set_tld_status"
    BY <1>8 DEF ActionAllowed
  <1>9. CASE req.action.kind = "update_registry_pointer"
    BY <1>9 DEF ActionAllowed
  <1>10. req.action \in Action
    BY DEF MutationRequest
  <1>. QED
    BY <1>1, <1>2, <1>3, <1>4, <1>5, <1>6, <1>7, <1>8, <1>9, <1>10, ActionFields

-----------------------------------------------------------------------------
(* Who may change a domain.                                                *)

\* What becomes of the record old of a domain d of z when req is accepted.
Governed(z, req, d, new) ==
    LET old == z.domains[d]
        operator == z.tlds[TldOf[d]].operator
    IN old # None =>
           /\ new # None
           /\ new.owner # old.owner =>
                  req.action.kind = "issue_domain" /\ req.actor = operator
           /\ /\ old.status \in {"suspended", "revoked"}
              /\ new.status # old.status
              /\ new.status # "revoked"
              => /\ req.actor \in {RootKey, operator}
                 /\ old.status = "revoked" => req.actor = RootKey

LEMMA UntouchedIsGoverned ==
    ASSUME NEW z, NEW req, NEW d, NEW new, new = z.domains[d]
    PROVE  Governed(z, req, d, new)
  BY DEF Governed

LEMMA ActionIsGoverned ==
    ASSUME NEW z \in Zone, NEW registries, NEW docs, NEW t, NEW req \in MutationRequest,
           ActionAllowed(z, registries, docs, req, t), NEW d \in DomainNames
    PROVE  Governed(z, req, d, ActionEffect(z, req).domains[d])
  <1>. DEFINE a == req.action
  <1>a. a \in Action
    BY DEF MutationRequest
  <1>k. z.domains \in [DomainNames -> DomainRecord \cup {None}]
    BY DEF Zone
  <1>0. ASSUME ActionEffect(z, req).domains = z.domains
        PROVE  Governed(z, req, d, ActionEffect(z, req).domains[d])
    BY <1>0, UntouchedIsGoverned
  <1>1. CASE a.kind \in {"publish_site", "update_domain_manifest"}
    <2>1. ActionEffect(z, req) = PublishEffect(z, req) /\ PublishAllowed(z, docs, req, t)
      BY <1>1 DEF ActionEffect, ActionAllowed
    <2>2. Parse[a.name] \in DomainNames /\ a.manifest \in Manifest /\ req.actor \in Keys
      BY <1>1, <1>a, ActionFields, NameAssumption DEF MutationRequest
    <2>. DEFINE rec == z.domains[Parse[a.name]]
                new == [owner |-> req.actor, manifest |-> a.manifest, status |-> "active",
                        expires_at |-> IF rec = None THEN NoExpiry ELSE rec.expires_at,
                        signer |-> OfficialOperator]
    <2>3. PublishEffect(z, req).domains = [z.domains EXCEPT ![Parse[a.name]] = new]
      BY DEF PublishEffect, Zone
    <2>4. new \in DomainRecord /\ new.owner = req.actor
      BY <1>k, <2>2, KeyAssumption DEF DomainRecord, DomainStatus, Expiry
    <2>5. rec # None => rec.owner = req.actor /\ rec.status \in {"active", "pending"}
      BY <2>1 DEF PublishAllowed
    <2>. HIDE DEF new
    <2>6. CASE d = Parse[a.name]
      <3>1. ActionEffect(z, req).domains[d] = new
        BY <1>k, <2>1, <2>3, <2>6
      <3>2. new # None
        BY <2>4, AbsenceAssumption
      <3>3. z.domains[d] # None =>
                /\ z.domains[d].owner = new.owner
                /\ z.domains[d].status \notin {"suspended", "revoked"}
        BY <2>4, <2>5, <2>6
      <3>. QED
        BY <3>1, <3>2, <3>3 DEF Governed
    <2>7. CASE d # Parse[a.name]
      BY <1>k, <2>1, <2>3, <2>7, UntouchedIsGoverned
    <2>. QED
      BY <2>6, <2>7
  <1>2. CASE a.kind = "set_domain_status"
    <2>1. ActionEffect(z, req) = SetDomainStatusEffect(z, req) /\ SetDomainStatusAllowed(z, req)
      BY <1>2 DEF ActionEffect, ActionAllowed
    <2>2. Lower[a.name] \in DomainNames /\ a.status \in DomainStatus
      BY <1>2, <1>a, ActionFields, NameAssumption
    <2>. DEFINE rec == z.domains[Lower[a.name]]
                new == [rec EXCEPT !.status = a.status, !.signer = OfficialOperator]
    <2>3. rec \in DomainRecord
      BY <1>k, <2>1, <2>2 DEF SetDomainStatusAllowed
    <2>4. new \in DomainRecord /\ new.owner = rec.owner /\ new.status = a.status
      BY <2>2, <2>3, KeyAssumption DEF DomainRecord
    <2>5. SetDomainStatusEffect(z, req).domains = [z.domains EXCEPT ![Lower[a.name]] = new]
      BY <1>k, <2>2 DEF SetDomainStatusEffect, Zone
    <2>6. /\ req.actor \in {RootKey, z.tlds[TldOf[Lower[a.name]]].operator}
          /\ allowed_domain_transition(rec.status, a.status, req.actor = RootKey)
      BY <2>1 DEF SetDomainStatusAllowed
    <2>7. rec.status = "revoked" /\ a.status # "revoked" => req.actor = RootKey
      BY <2>6 DEF allowed_domain_transition
    <2>. HIDE DEF new
    <2>8. CASE d = Lower[a.name]
      <3>1. ActionEffect(z, req).domains[d] = new
        BY <1>k, <2>1, <2>5, <2>8
      <3>2. new # None
        BY <2>4, AbsenceAssumption
      <3>3. /\ new.owner = z.domains[d].owner
            /\ new.status = a.status
            /\ req.actor \in {RootKey, z.tlds[TldOf[d]].operator}
            /\ z.domains[d].status = "revoked" /\ a.status # "revoked" => req.actor = RootKey
        BY <2>4, <2>6, <2>7, <2>8
      <3>. QED
        BY <3>1, <3>2, <3>3 DEF Governed
    <2>9. CASE d # Lower[a.name]
      BY <1>k, <2>1, <2>5, <2>9, UntouchedIsGoverned
    <2>. QED
      BY <2>8, <2>9
  <1>3. CASE a.kind = "issue_domain"
    <2>1. ActionEffect(z, req) = IssueDomainEffect(z, req) /\ IssueDomainAllowed(z, req, t)
      BY <1>3 DEF ActionEffect, ActionAllowed
    <2>2. a.name \in DomainNames /\ a.record \in DomainRecord
      BY <1>3, <1>a, ActionFields
    <2>3. IssueDomainEffect(z, req).domains = [z.domains EXCEPT ![a.name] = a.record]
      BY DEF IssueDomainEffect, Zone
    <2>4. /\ req.actor = z.tlds[TldOf[a.name]].operator
          /\ z.domains[a.name] # None /\ z.domains[a.name].status = "revoked"
                 => req.actor = RootKey
      BY <2>1 DEF IssueDomainAllowed
    <2>5. CASE d = a.name
      <3>1. ActionEffect(z, req).domains[d] = a.record
        BY <1>k, <2>1, <2>3, <2>5
      <3>2. a.record # None
        BY <2>2, AbsenceAssumption
      <3>3. /\ req.actor = z.tlds[TldOf[d]].operator
            /\ z.domains[d] # None /\ z.domains[d].status = "revoked" => req.actor = RootKey
        BY <2>4, <2>5
      <3>. QED
        BY <1>3, <3>1, <3>2, <3>3 DEF Governed
    <2>6. CASE d # a.name
      BY <1>k, <2>1, <2>3, <2>6, UntouchedIsGoverned
    <2>. QED
      BY <2>5, <2>6
  <1>4. CASE a.kind = "delegate_tld"
    <2>1. ActionEffect(z, req) = DelegateTldEffect(z, req)
      BY <1>4 DEF ActionEffect
    <2>. QED
      BY <1>0, <2>1 DEF DelegateTldEffect, Zone
  <1>5. CASE a.kind = "create_tld"
    <2>1. ActionEffect(z, req) = CreateTldEffect(z, req)
      BY <1>5 DEF ActionEffect
    <2>. QED
      BY <1>0, <2>1 DEF CreateTldEffect, Zone
  <1>6. CASE a.kind \in {"reserve_tld", "block_tld"}
    <2>1. ActionEffect(z, req) = RestrictTldEffect(z, req)
      BY <1>6 DEF ActionEffect
    <2>. QED
      BY <1>0, <2>1 DEF RestrictTldEffect, Zone
  <1>7. CASE a.kind = "update_tld"
    <2>1. ActionEffect(z, req) = UpdateTldEffect(z, req)
      BY <1>7 DEF ActionEffect
    <2>. QED
      BY <1>0, <2>1 DEF UpdateTldEffect, Zone
  <1>8. CASE a.kind = "set_tld_status"
    <2>1. ActionEffect(z, req) = SetTldStatusEffect(z, req)
      BY <1>8 DEF ActionEffect
    <2>. QED
      BY <1>0, <2>1 DEF SetTldStatusEffect, Zone
  <1>9. CASE a.kind = "update_registry_pointer"
    <2>1. ActionEffect(z, req) = UpdateRegistryPointerEffect(z, req)
      BY <1>9 DEF ActionEffect
    <2>. QED
      BY <1>0, <2>1 DEF UpdateRegistryPointerEffect, Zone
  <1>. QED
    BY <1>1, <1>2, <1>3, <1>4, <1>5, <1>6, <1>7, <1>8, <1>9, <1>a, ActionFields
=============================================================================
