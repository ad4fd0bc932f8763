--------------------------- MODULE SignedRegistry ---------------------------
(***************************************************************************)
(* What the root registry promises: one durable store that changes only by *)
(* accepting a signed mutation, in one step that re-signs the zone under a *)
(* higher version, records the mutation and appends its audit event.  No   *)
(* nonces, no memory copy, no crashes: RegistryStore is shown to implement *)
(* this, and the rules of who may change what are stated here.             *)
(***************************************************************************)
EXTENDS RootZone

CONSTANTS
    Envelope,       \* the signed requests that may ever be accepted
    Document,       \* the content-addressed documents that may be stored
    Version,        \* zone versions
    Time            \* wall clock readings

ASSUME EnvelopeAssumption ==
    /\ Envelope \subseteq MutationRequest
    /\ Document \subseteq Manifest \cup TldRegistry
    /\ Version \subseteq Nat
    /\ Time \subseteq Nat
    /\ 0 \in Version

VARIABLES
    st,         \* the durable store
    content     \* the content store

vars == <<st, content>>

AuditRecord == [req : MutationRequest, prev : Zone, new : Zone]

Store == [zone : Zone,
          registries : [TldNames -> TldRegistry \cup {None}],
          versions : [TldNames \cup DomainNames -> Nat],
          applied : SUBSET MutationRequest,
          audit : Seq(AuditRecord)]

Init ==
    /\ st = [zone |-> EmptyZone(0),
             registries |-> [n \in TldNames |-> None],
             versions |-> [n \in TldNames \cup DomainNames |-> 0],
             applied |-> {},
             audit |-> <<>>]
    /\ content = {}

\* Content addressing makes storing bytes harmless at any time.
StoreDocument(doc) ==
    /\ content' = content \cup {doc}
    /\ UNCHANGED st

\* One accepted mutation, whole.
Accept(req, t, version) ==
    LET zone == [ActionEffect(st.zone, req) EXCEPT !.version = version,
                                                   !.audit = PushTail(st.zone.audit, req)]
    IN /\ req.genuine
       /\ req \notin st.applied
       /\ req.version > st.versions[target_key(req.action)]
       /\ ActionAllowed(st.zone, st.registries, content, req, t)
       /\ version > st.zone.version
       /\ st' = [zone |-> zone,
                 registries |-> RegistriesAfter(st.registries, req),
                 versions |-> [st.versions EXCEPT ![target_key(req.action)] = req.version],
                 applied |-> st.applied \cup {req},
                 audit |-> Append(st.audit, [req |-> req, prev |-> st.zone, new |-> zone])]
       /\ UNCHANGED content

Next ==
    \/ \E doc \in Document : StoreDocument(doc)
    \/ \E req \in Envelope, t \in Time, version \in Version : Accept(req, t, version)

Spec == Init /\ [][Next]_vars

-----------------------------------------------------------------------------
(* Properties: who may change what.                                        *)

LastRequest == st.audit[Len(st.audit)].req

\* Every domain record of the zone sits under a root-managed TLD and carries
\* the signature of the operator key that TLD names, so that resolution, which
\* checks exactly this, never refuses a record the root itself published.
RecordsVerify ==
    \A d \in DomainNames : st.zone.domains[d] # None =>
        LET tld == st.zone.tlds[TldOf[d]]
        IN /\ tld # None
           /\ tld.registry_type = "root_managed"
           /\ st.zone.domains[d].signer = tld.operator

\* A domain never changes hands behind its owner's back: only the operator of
\* its TLD, by issuing a record it signed, can name another owner.
OwnershipIsTheOperators ==
    [][\A d \in DomainNames :
           LET old == st.zone.domains[d]
               new == st'.zone.domains[d]
           IN old # None /\ new # old /\ (new = None \/ new.owner # old.owner) =>
                /\ new # None
                /\ LastRequest'.action.kind = "issue_domain"
                /\ LastRequest'.actor = st.zone.tlds[TldOf[d]].operator]_vars

\* Enforcement sticks: a suspended or revoked domain leaves that status only
\* by the operator of its TLD or by root, and a revoked one only by root.
EnforcementSticks ==
    [][\A d \in DomainNames :
           LET old == st.zone.domains[d]
               new == st'.zone.domains[d]
           IN old # None /\ old.status \in {"suspended", "revoked"}
                  /\ new.status # old.status /\ new.status # "revoked" =>
                /\ LastRequest'.actor \in {RootKey, st.zone.tlds[TldOf[d]].operator}
                /\ old.status = "revoked" => LastRequest'.actor = RootKey]_vars
=============================================================================
