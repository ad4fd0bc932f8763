-------------------------- MODULE RegistryPromise --------------------------
(***************************************************************************)
(* What the registry server promises: its database, seen from outside, is  *)
(* the abstract registry of SignedRegistry.  The content store is shared.  *)
(***************************************************************************)
EXTENDS RegistryStore

CONSTANT Versions   \* bound: the versions of the zone and of seeded targets

ASSUME VersionAssumption == Versions \subseteq Nat /\ 0 \in Versions

\* What `federate root seed` signs.
SeedEnvelopes ==
    [nonce : {SeedNonce}, actor : {RootKey}, version : Versions,
     issued_at : 0 .. MaxClock, genuine : {TRUE}, action : SeedFile]

\* What a submission can store: the manifest of its package, or a registry.
Documents ==
    Packages
    \cup {r.action.registry :
             r \in {q \in Requests : q.action.kind = "update_registry_pointer"}}

\* The abstract registry, with its theorems, on the state of the database.
Promise == INSTANCE SignedRegistryProofs WITH
    st <- db,
    Envelope <- Requests \cup SeedEnvelopes,
    Document <- Documents,
    Version <- Versions,
    Time <- 0 .. MaxClock

\* The database, seen from outside, behaves as the abstract registry: nonces,
\* memory, lock, crashes and restarts are invisible in it.
DatabaseKeepsThePromise == Promise!Spec
=============================================================================
