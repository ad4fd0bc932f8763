------------------------ MODULE SignedRegistryProofs ------------------------
(***************************************************************************)
(* Theorems about the abstract registry for every value of its constants:  *)
(* what every accepted mutation keeps, and who may change a domain.        *)
(***************************************************************************)
EXTENDS SignedRegistry, RootZoneProofs, SequenceTheorems, TLAPS

\* The store stays a store: what the other two properties are read from.
StoreInv == st \in Store

LEMMA StartsEmpty == Init => StoreInv /\ RecordsVerify
  <1>. SUFFICES ASSUME Init PROVE StoreInv /\ RecordsVerify
    OBVIOUS
  <1>1. EmptyZone(0) \in Zone
    BY DEF EmptyZone, Zone
  <1>2. StoreInv
    BY <1>1 DEF Init, Store, StoreInv
  <1>3. \A d \in DomainNames : st.zone.domains[d] = None
    BY DEF Init, EmptyZone
  <1>. QED
    BY <1>2, <1>3 DEF RecordsVerify

\* A delegated registry that travels with a mutation is filed under a TLD.
LEMMA RegistriesAfterType ==
    ASSUME NEW registries \in [TldNames -> TldRegistry \cup {None}],
           NEW req \in MutationRequest
    PROVE  RegistriesAfter(registries, req) \in [TldNames -> TldRegistry \cup {None}]
  <1>1. req.action \in Action
    BY DEF MutationRequest
  <1>. QED
    BY <1>1, ActionFields, NameAssumption DEF RegistriesAfter

\* What one accepted mutation does to the store.
LEMMA AcceptEffect ==
    ASSUME StoreInv, NEW req \in MutationRequest, NEW t, NEW version \in Nat,
           Accept(req, t, version)
    PROVE  /\ StoreInv'
           /\ LastRequest' = req
           /\ ActionAllowed(st.zone, st.registries, content, req, t)
           /\ st.zone \in Zone
           /\ ActionEffect(st.zone, req) \in Zone
           /\ st'.zone.tlds = ActionEffect(st.zone, req).tlds
           /\ st'.zone.domains = ActionEffect(st.zone, req).domains
  <1>. DEFINE edited == ActionEffect(st.zone, req)
              trail == PushTail(st.zone.audit, req)
              zone == [edited EXCEPT !.version = version, !.audit = trail]
              event == [req |-> req, prev |-> st.zone, new |-> zone]
              registries == RegistriesAfter(st.registries, req)
              versions == [st.versions EXCEPT ![target_key(req.action)] = req.version]
  <1>1. /\ st.zone \in Zone /\ st.audit \in Seq(AuditRecord)
        /\ st.registries \in [TldNames -> TldRegistry \cup {None}]
        /\ st.versions \in [TldNames \cup DomainNames -> Nat]
        /\ st.applied \subseteq MutationRequest
    BY DEF StoreInv, Store
  <1>2. /\ ActionAllowed(st.zone, st.registries, content, req, t)
        /\ st' = [zone |-> zone, registries |-> registries, versions |-> versions,
                  applied |-> st.applied \cup {req}, audit |-> Append(st.audit, event)]
    BY DEF Accept
  <1>3. edited \in Zone
    BY <1>1, <1>2, ActionEffectIsZone
  <1>4. trail \in Seq(MutationRequest \cup {RootInit})
    BY <1>1, PushTailIsSeq DEF Zone
  <1>5. registries \in [TldNames -> TldRegistry \cup {None}]
    BY <1>1, RegistriesAfterType
  <1>6. versions \in [TldNames \cup DomainNames -> Nat]
    <2>1. target_key(req.action) \in TldNames \cup DomainNames /\ req.version \in Nat
      BY TargetKeyIsName DEF MutationRequest
    <2>. QED
      BY <1>1, <2>1
  <1>. HIDE DEF edited, trail, registries, versions
  <1>7. zone \in Zone /\ zone.tlds = edited.tlds /\ zone.domains = edited.domains
    BY <1>3, <1>4 DEF Zone
  <1>8. event \in AuditRecord /\ event.req = req
    BY <1>1, <1>7 DEF AuditRecord
  <1>. HIDE DEF zone, event
  <1>9. /\ Append(st.audit, event) \in Seq(AuditRecord)
        /\ Append(st.audit, event)[Len(Append(st.audit, event))] = event
    BY <1>1, <1>8
  <1>10. st' \in Store
    BY <1>1, <1>2, <1>5, <1>6, <1>7, <1>9 DEF Store
  <1>11. st'.zone = zone /\ st'.audit = Append(st.audit, event)
    BY <1>2
  <1>12. LastRequest' = req
    BY <1>8, <1>9, <1>11 DEF LastRequest
  <1>. QED
    BY <1>1, <1>2, <1>3, <1>7, <1>10, <1>11, <1>12 DEF StoreInv, edited

\* A step that changes the store accepts one mutation.
LEMMA ChangeIsAccept ==
    ASSUME [Next]_vars, st' # st
    PROVE  \E req \in MutationRequest, t \in Nat, version \in Nat : Accept(req, t, version)
  BY EnvelopeAssumption DEF Next, StoreDocument, vars

LEMMA StoreStep ==
    ASSUME StoreInv, RecordsVerify, [Next]_vars
    PROVE  StoreInv' /\ RecordsVerify'
  <1>1. CASE st' = st
    BY <1>1 DEF StoreInv, RecordsVerify
  <1>2. CASE st' # st
    <2>1. PICK req \in MutationRequest, t \in Nat, version \in Nat : Accept(req, t, version)
      BY <1>2, ChangeIsAccept
    <2>2. /\ StoreInv'
          /\ ActionAllowed(st.zone, st.registries, content, req, t)
          /\ st.zone \in Zone
          /\ st'.zone.tlds = ActionEffect(st.zone, req).tlds
          /\ st'.zone.domains = ActionEffect(st.zone, req).domains
      BY <2>1, AcceptEffect
    <2>3. DomainsVerify(st.zone)
      BY DEF RecordsVerify, DomainsVerify
    <2>4. DomainsVerify(ActionEffect(st.zone, req))
      BY <2>2, <2>3, ActionKeepsTlds
    <2>. QED
      BY <2>2, <2>4 DEF RecordsVerify, DomainsVerify
  <1>. QED
    BY <1>1, <1>2

LEMMA StoreAlways == Spec => [](StoreInv /\ RecordsVerify)
  <1>1. StoreInv /\ RecordsVerify /\ [Next]_vars => (StoreInv /\ RecordsVerify)'
    BY StoreStep
  <1>. QED
    BY <1>1, StartsEmpty, PTL DEF Spec

\* Whatever is accepted, by whomever and in whatever order: every domain record of the
\* zone sits under a root-managed TLD and is signed by the operator that TLD names.
THEOREM RecordsAlwaysVerify == Spec => []RecordsVerify
  BY StoreAlways, PTL

-----------------------------------------------------------------------------
(* Who may change a domain.                                                *)

LEMMA StepGoverns ==
    ASSUME StoreInv, [Next]_vars, st' # st
    PROVE  \A d \in DomainNames :
               Governed(st.zone, LastRequest', d, st'.zone.domains[d])
  <1>1. PICK req \in MutationRequest, t \in Nat, version \in Nat : Accept(req, t, version)
    BY ChangeIsAccept
  <1>2. /\ LastRequest' = req
        /\ ActionAllowed(st.zone, st.registries, content, req, t)
        /\ st.zone \in Zone
        /\ st'.zone.domains = ActionEffect(st.zone, req).domains
    BY <1>1, AcceptEffect
  <1>3. \A d \in DomainNames :
            Governed(st.zone, req, d, ActionEffect(st.zone, req).domains[d])
    BY <1>2, ActionIsGoverned
  <1>. QED
    BY <1>2, <1>3

\* A domain never changes hands behind its owner's back: only the operator of its TLD,
\* by issuing a record it signed, can name another owner.
THEOREM OwnershipIsGoverned == Spec => OwnershipIsTheOperators
  <1>1. StoreInv /\ [Next]_vars =>
            [\A d \in DomainNames :
                 LET old == st.zone.domains[d]
                     new == st'.zone.domains[d]
                 IN old # None /\ new # old /\ (new = None \/ new.owner # old.owner) =>
                      /\ new # None
                      /\ LastRequest'.action.kind = "issue_domain"
                      /\ LastRequest'.actor = st.zone.tlds[TldOf[d]].operator]_vars
    <2>. SUFFICES ASSUME StoreInv, [Next]_vars, st' # st
                  PROVE  \A d \in DomainNames :
                             Governed(st.zone, LastRequest', d, st'.zone.domains[d])
      BY DEF Governed
    <2>. QED
      BY StepGoverns
  <1>. QED
    BY <1>1, StoreAlways, PTL DEF Spec, OwnershipIsTheOperators

\* Enforcement sticks: a suspended or revoked domain leaves that status only by the
\* operator of its TLD or by root, and a revoked one only by root.
THEOREM EnforcementIsGoverned == Spec => EnforcementSticks
  <1>1. StoreInv /\ [Next]_vars =>
            [\A d \in DomainNames :
                 LET old == st.zone.domains[d]
                     new == st'.zone.domains[d]
                 IN old # None /\ old.status \in {"suspended", "revoked"}
                        /\ new.status # old.status /\ new.status # "revoked" =>
                      /\ LastRequest'.actor \in {RootKey, st.zone.tlds[TldOf[d]].operator}
                      /\ old.status = "revoked" => LastRequest'.actor = RootKey]_vars
    <2>. SUFFICES ASSUME StoreInv, [Next]_vars, st' # st
                  PROVE  \A d \in DomainNames :
                             Governed(st.zone, LastRequest', d, st'.zone.domains[d])
      BY DEF Governed
    <2>. QED
      BY StepGoverns
  <1>. QED
    BY <1>1, StoreAlways, PTL DEF Spec, EnforcementSticks
=============================================================================
