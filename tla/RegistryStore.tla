--------------------------- MODULE RegistryStore ---------------------------
(***************************************************************************)
(* The mutation path of Node 1: federate-server's run_mutation and         *)
(* mutation_nonce handlers over federate-mutation's RegistryStore.         *)
(*                                                                         *)
(* The registry lives twice: in memory (what readers are served) and in    *)
(* the redb database (what a restart loads).  A submission reads the clock *)
(* when it arrives, waits for the write lock, consumes its nonce in a      *)
(* transaction of its own, stores the package content, edits memory,       *)
(* commits the database transaction, writes a snapshot and only then       *)
(* answers.  The process may crash between any two of these steps, and     *)
(* every I/O step may fail ("Faults" says which kinds the environment is   *)
(* allowed to produce).                                                    *)
(***************************************************************************)
EXTENDS RootZone

CONSTANTS
    Handlers,       \* concurrent HTTP submissions
    Requests,       \* envelopes that reach the server, any number of times
    SeedFile,       \* the entries of the seed file the operator applies
    Packages,       \* manifests that reach it in site packages
    NonceTTL,       \* NONCE_TTL_SECS
    MaxAge,         \* MUTATION_MAX_AGE_SECS
    MaxSkew,        \* how far in the future issued_at may lie (30 s)
    Faults,         \* subset of FaultKinds: the I/O errors that may happen
    MaxClock        \* bound: the clock stops here

FaultKinds == {"nonce", "content", "commit", "snapshot"}

ASSUME RequestAssumption ==
    /\ Requests \subseteq {r \in MutationRequest : r.nonce \in Nonces}
    /\ Packages \subseteq Manifest
    /\ SeedFile \subseteq [name : {n \in TldNames : Parse[n] = n},
                          kind : {"create_tld", "reserve_tld", "block_tld"}]
    /\ None \notin Requests
    /\ None \notin Packages

ASSUME BoundAssumption ==
    /\ NonceTTL \in Nat /\ MaxAge \in Nat /\ MaxSkew \in Nat /\ MaxClock \in Nat
    /\ Faults \subseteq FaultKinds

VARIABLES
    clock,      \* wall clock
    up,         \* the server process runs
    handler,    \* handler[h]: where submission h stands
    mem,        \* the RegistryStore in memory
    db,         \* the registry.redb tables
    nonces,     \* the nonces table of registry.redb
    issued,     \* nonces drawn so far (32 random bytes never repeat)
    content,    \* the manifests/ directory
    served,     \* history: every zone a reader was given
    accepted    \* history: every request answered "accepted"

vars == <<clock, up, handler, mem, db, nonces, issued, content, served, accepted>>

-----------------------------------------------------------------------------
(* State.                                                                  *)

AuditRecord == [req : MutationRequest, prev : Zone, new : Zone]

\* What memory and the database both hold.
Store == [zone : Zone,
          registries : [TldNames -> TldRegistry \cup {None}],
          versions : [TldNames \cup DomainNames -> Nat],
          applied : SUBSET MutationRequest,
          audit : Seq(AuditRecord)]

EmptyStore ==
    [zone |-> EmptyZone(0),
     registries |-> [n \in TldNames |-> None],
     versions |-> [n \in TldNames \cup DomainNames |-> 0],
     applied |-> {},
     audit |-> <<>>]

Idle == [pc |-> "idle", req |-> None, now |-> 0, package |-> None]

Handler == [pc : {"wait", "consumed", "stored", "memory", "committed"},
            req : Requests, now : Nat, package : Packages \cup {None}]

NonceRow == [nonce : Nonces, expires : Nat]

\* Mutant: the lock is dropped while the database transaction runs.
Holding_NotOverCommit(h) == handler[h].pc \in {"consumed", "stored", "committed"}

\* The write lock is held from the nonce check to the reply.
Holding(h) == handler[h].pc \in {"consumed", "stored", "memory", "committed"}
WriteLocked == \E h \in Handlers : Holding(h)

Init ==
    /\ clock = 0
    /\ up = FALSE
    /\ handler = [h \in Handlers |-> Idle]
    /\ mem = EmptyStore
    /\ db = EmptyStore
    /\ nonces = {}
    /\ issued = {}
    /\ content = {}
    /\ served = {}
    /\ accepted = {}

-----------------------------------------------------------------------------
(* RegistryStore::apply, as a predicate and a function of the store.       *)

check_age(req, now) == (-MaxSkew <= now - req.issued_at) /\ (now - req.issued_at <= MaxAge)

\* Mutant: a version equal to the stored one passes.
Accepts_SameVersion(st, req, now, t) ==
    /\ req.genuine
    /\ check_age(req, now)
    /\ req \notin st.applied
    /\ req.version >= st.versions[target_key(req.action)]
    /\ ActionAllowed(st.zone, st.registries, content, req, t)

Accepts(st, req, now, t) ==
    /\ req.genuine
    /\ check_age(req, now)
    /\ req \notin st.applied
    /\ req.version > st.versions[target_key(req.action)]
    /\ ActionAllowed(st.zone, st.registries, content, req, t)

\* The tables one commit_mutation transaction rewrites, given the zone to
\* store and the audit event: memory and database go through the same edit.
Record(st, req, zone, event) ==
    [zone |-> zone,
     registries |-> RegistriesAfter(st.registries, req),
     versions |-> [st.versions EXCEPT ![target_key(req.action)] = req.version],
     applied |-> st.applied \cup {req},
     audit |-> Append(st.audit, event)]

\* Mutant: the previous state hash is taken after the zone was replaced.
Apply_LateHash(st, req, now) ==
    LET zone == SignedZone(st.zone, req, now)
    IN Record(st, req, zone, [req |-> req, prev |-> zone, new |-> zone])

Apply(st, req, now) ==
    LET zone == SignedZone(st.zone, req, now)
    IN Record(st, req, zone, [req |-> req, prev |-> st.zone, new |-> zone])

-----------------------------------------------------------------------------
(* Actions.                                                                *)

\* submit_mutation / ingest_package: the clock is read before the write lock
\* is awaited.
Receive(h, req, package) ==
    /\ up
    /\ handler[h] = Idle
    /\ handler' = [handler EXCEPT
           ![h] = [pc |-> "wait", req |-> req, now |-> clock, package |-> package]]
    /\ UNCHANGED <<clock, up, mem, db, nonces, issued, content, served, accepted>>

\* consume_nonce removes the row whether or not it is still valid.
RowsOf(nonce) == {row \in nonces : row.nonce = nonce}
Consumable(h) == \E row \in RowsOf(handler[h].req.nonce) : row.expires > handler[h].now

\* Mutant: the nonce is looked up and never removed.
ConsumeNonce_Keeps(h) ==
    /\ up
    /\ handler[h].pc = "wait"
    /\ ~WriteLocked
    /\ handler' = [handler EXCEPT
           ![h] = IF Consumable(h) THEN [@ EXCEPT !.pc = "consumed"] ELSE Idle]
    /\ UNCHANGED <<clock, up, mem, db, nonces, issued, content, served, accepted>>

ConsumeNonce(h) ==
    /\ up
    /\ handler[h].pc = "wait"
    /\ ~WriteLocked
    /\ nonces' = nonces \ RowsOf(handler[h].req.nonce)
    /\ handler' = [handler EXCEPT
           ![h] = IF Consumable(h) THEN [@ EXCEPT !.pc = "consumed"] ELSE Idle]
    /\ UNCHANGED <<clock, up, mem, db, issued, content, served, accepted>>

ConsumeNonceFails(h) ==
    /\ "nonce" \in Faults
    /\ up
    /\ handler[h].pc = "wait"
    /\ ~WriteLocked
    /\ handler' = [handler EXCEPT ![h] = Idle]
    /\ UNCHANGED <<clock, up, mem, db, nonces, issued, content, served, accepted>>

\* The client hangs up: the handler is dropped at its only await, the lock.
Disconnect(h) ==
    /\ up
    /\ handler[h].pc = "wait"
    /\ handler' = [handler EXCEPT ![h] = Idle]
    /\ UNCHANGED <<clock, up, mem, db, nonces, issued, content, served, accepted>>

\* store_blocks and store_manifest of a package ingest.
StoreContent(h) ==
    /\ up
    /\ handler[h].pc = "consumed"
    /\ handler[h].package # None
    /\ content' = content \cup {handler[h].package}
    /\ handler' = [handler EXCEPT ![h].pc = "stored"]
    /\ UNCHANGED <<clock, up, mem, db, nonces, issued, served, accepted>>

StoreContentFails(h) ==
    /\ "content" \in Faults
    /\ up
    /\ handler[h].pc = "consumed"
    /\ handler[h].package # None
    /\ handler' = [handler EXCEPT ![h] = Idle]
    /\ UNCHANGED <<clock, up, mem, db, nonces, issued, content, served, accepted>>

ReadyToApply(h) ==
    \/ handler[h].pc = "stored"
    \/ handler[h].pc = "consumed" /\ handler[h].package = None

\* Mutant: the refused submission is not let go of.
Reject_KeepsRequest(h) ==
    /\ up
    /\ ReadyToApply(h)
    /\ ~Accepts(mem, handler[h].req, handler[h].now, clock)
    /\ handler' = [handler EXCEPT ![h].pc = "idle"]
    /\ UNCHANGED <<clock, up, mem, db, nonces, issued, content, served, accepted>>

\* The checks of apply fail: an error answer, nothing touched.
Reject(h) ==
    /\ up
    /\ ReadyToApply(h)
    /\ ~Accepts(mem, handler[h].req, handler[h].now, clock)
    /\ handler' = [handler EXCEPT ![h] = Idle]
    /\ UNCHANGED <<clock, up, mem, db, nonces, issued, content, served, accepted>>

\* The checks pass: the whole edit lands in memory first.  Registry bytes are
\* also written to the manifests/ directory.
ApplyInMemory(h) ==
    LET req == handler[h].req
    IN /\ up
       /\ ReadyToApply(h)
       /\ Accepts(mem, req, handler[h].now, clock)
       /\ mem' = Apply(mem, req, handler[h].now)
       /\ content' = IF req.action.kind = "update_registry_pointer"
                     THEN content \cup {req.action.registry} ELSE content
       /\ handler' = [handler EXCEPT ![h].pc = "memory"]
       /\ UNCHANGED <<clock, up, db, nonces, issued, served, accepted>>

\* Writing the registry bytes fails after self.zone was already replaced: the
\* new zone stays in memory, nothing else does.
ApplyWriteFails(h) ==
    LET req == handler[h].req
    IN /\ "content" \in Faults
       /\ up
       /\ ReadyToApply(h)
       /\ Accepts(mem, req, handler[h].now, clock)
       /\ req.action.kind = "update_registry_pointer"
       /\ mem' = [mem EXCEPT !.zone = SignedZone(mem.zone, req, handler[h].now)]
       /\ handler' = [handler EXCEPT ![h] = Idle]
       /\ UNCHANGED <<clock, up, db, nonces, issued, content, served, accepted>>

\* Mutant: the transaction leaves the version table out.
Commit_NoVersion(h) ==
    /\ up
    /\ handler[h].pc = "memory"
    /\ db' = [Record(db, handler[h].req, mem.zone, mem.audit[Len(mem.audit)])
                 EXCEPT !.versions = db.versions]
    /\ handler' = [handler EXCEPT ![h].pc = "committed"]
    /\ UNCHANGED <<clock, up, mem, nonces, issued, content, served, accepted>>

\* Mutant: the transaction leaves the audit event out.
Commit_NoEvent(h) ==
    /\ up
    /\ handler[h].pc = "memory"
    /\ db' = [Record(db, handler[h].req, mem.zone, mem.audit[Len(mem.audit)])
                 EXCEPT !.audit = db.audit]
    /\ handler' = [handler EXCEPT ![h].pc = "committed"]
    /\ UNCHANGED <<clock, up, mem, nonces, issued, content, served, accepted>>

\* commit_mutation: one transaction that stores the zone in memory and adds
\* this mutation's rows to the tables.
Commit(h) ==
    /\ up
    /\ handler[h].pc = "memory"
    /\ db' = Record(db, handler[h].req, mem.zone, mem.audit[Len(mem.audit)])
    /\ handler' = [handler EXCEPT ![h].pc = "committed"]
    /\ UNCHANGED <<clock, up, mem, nonces, issued, content, served, accepted>>

CommitFails(h) ==
    /\ "commit" \in Faults
    /\ up
    /\ handler[h].pc = "memory"
    /\ handler' = [handler EXCEPT ![h] = Idle]
    /\ UNCHANGED <<clock, up, mem, db, nonces, issued, content, served, accepted>>

\* Mutant: the answer does not wait for the transaction.
Answer_BeforeCommit(h) ==
    /\ up
    /\ handler[h].pc \in {"memory", "committed"}
    /\ accepted' = accepted \cup {handler[h].req}
    /\ handler' = [handler EXCEPT ![h] = Idle]
    /\ UNCHANGED <<clock, up, mem, db, nonces, issued, content, served>>

\* write_snapshot, then the "accepted" answer.
Answer(h) ==
    /\ up
    /\ handler[h].pc = "committed"
    /\ accepted' = accepted \cup {handler[h].req}
    /\ handler' = [handler EXCEPT ![h] = Idle]
    /\ UNCHANGED <<clock, up, mem, db, nonces, issued, content, served>>

SnapshotFails(h) ==
    /\ "snapshot" \in Faults
    /\ up
    /\ handler[h].pc = "committed"
    /\ handler' = [handler EXCEPT ![h] = Idle]
    /\ UNCHANGED <<clock, up, mem, db, nonces, issued, content, served, accepted>>

\* mutation_nonce: draw a nonce, prune rows that expired more than a TTL ago.
IssueNonce(n) ==
    /\ up
    /\ ~WriteLocked
    /\ n \notin issued
    /\ issued' = issued \cup {n}
    /\ nonces' = {row \in nonces : row.expires >= clock + NonceTTL - 2 * NonceTTL}
                 \cup {[nonce |-> n, expires |-> clock + NonceTTL]}
    /\ UNCHANGED <<clock, up, handler, mem, db, content, served, accepted>>

\* GET /v1/root and GetRoot serve the zone in memory under the read lock.
ServeRoot ==
    /\ up
    /\ ~WriteLocked
    /\ served' = served \cup {mem.zone}
    /\ UNCHANGED <<clock, up, handler, mem, db, nonces, issued, content, accepted>>

\* The process stops at an arbitrary point; the submissions in flight get no
\* answer and memory is gone.
Crash ==
    /\ up
    /\ up' = FALSE
    /\ handler' = [h \in Handlers |-> Idle]
    /\ mem' = EmptyStore
    /\ UNCHANGED <<clock, db, nonces, issued, content, served, accepted>>

\* RegistryStore::open verifies what it loads.  Every domain names a TLD of
\* the zone, every delegated registry verifies under its TLD's operator key.
Opens(st) ==
    /\ \A d \in DomainNames : st.zone.domains[d] # None => st.zone.tlds[TldOf[d]] # None
    /\ \A n \in TldNames : st.registries[n] # None =>
           /\ st.zone.tlds[n] # None
           /\ st.registries[n].tld = n
           /\ st.registries[n].signer = st.zone.tlds[n].operator

Start ==
    /\ ~up
    /\ Opens(db)
    /\ up' = TRUE
    /\ mem' = db
    /\ UNCHANGED <<clock, handler, db, nonces, issued, content, served, accepted>>

\* `federate root seed --force` on a stopped server: each missing entry goes
\* through apply with a nonce nobody issued and the next target version.
SeedRequest(entry) ==
    [nonce |-> SeedNonce, actor |-> RootKey, version |-> db.versions[Lower[entry.name]] + 1,
     issued_at |-> clock, genuine |-> TRUE,
     action |-> [kind |-> entry.kind, name |-> entry.name]]

\* root_seed opens the registry as the server does, and needs its lock.
RootSeed == ~up /\ Opens(db)

SeedEntry(entry) ==
    LET req == SeedRequest(entry)
    IN /\ RootSeed
       /\ db.zone.tlds[entry.name] = None
       /\ Accepts(db, req, clock, clock)
       /\ db' = Apply(db, req, clock)
       /\ UNCHANGED <<clock, up, handler, mem, nonces, issued, content, served, accepted>>

Tick ==
    /\ clock < MaxClock
    /\ clock' = clock + 1
    /\ UNCHANGED <<up, handler, mem, db, nonces, issued, content, served, accepted>>

\* The steps that the server's own execution takes for submission h.
Progress(h) ==
    \/ ConsumeNonce(h)
    \/ StoreContent(h)
    \/ Reject(h)
    \/ ApplyInMemory(h)
    \/ Commit(h)
    \/ Answer(h)

Failure(h) ==
    \/ Disconnect(h)
    \/ ConsumeNonceFails(h)
    \/ StoreContentFails(h)
    \/ ApplyWriteFails(h)
    \/ CommitFails(h)
    \/ SnapshotFails(h)

Next ==
    \/ \E h \in Handlers :
           \/ \E req \in Requests, package \in Packages \cup {None} : Receive(h, req, package)
           \/ Progress(h)
           \/ Failure(h)
    \/ \E n \in Nonces : IssueNonce(n)
    \/ ServeRoot
    \/ Crash
    \/ Start
    \/ \E entry \in SeedFile : SeedEntry(entry)
    \/ Tick

Spec == Init /\ [][Next]_vars

-----------------------------------------------------------------------------
(* Properties.                                                             *)

\* Every variable stays within its type.
TypeOK ==
    /\ clock \in Nat
    /\ up \in BOOLEAN
    /\ handler \in [Handlers -> Handler \cup {Idle}]
    /\ mem \in Store
    /\ db \in Store
    /\ nonces \subseteq NonceRow
    /\ issued \subseteq Nonces
    /\ content \subseteq Manifest \cup TldRegistry
    /\ served \subseteq Zone
    /\ accepted \subseteq MutationRequest

\* "It either fully applies or does not apply at all": whenever the lock is
\* free, what readers are served is exactly what a restart would load.
AllOrNothing == up /\ ~WriteLocked => mem = db

\* The durable audit log chains the state history: each event starts from the
\* zone the previous one produced, and the last one produced the stored zone.
AuditChains ==
    /\ \A i \in 1 .. Len(db.audit) - 1 : db.audit[i].new = db.audit[i + 1].prev
    /\ db.audit # <<>> => db.audit[Len(db.audit)].new = db.zone

\* What the server serves never goes back: not to a lower version, and not to
\* another zone under a version it already served, restarts included.  Clients
\* keep the highest version they verified and would otherwise be stuck or split.
ServedNeverRollsBack ==
    up /\ ~WriteLocked =>
        \A z \in served :
            /\ z.version <= mem.zone.version
            /\ z.version = mem.zone.version => z = mem.zone

\* A challenge authorises at most one durable mutation, across crashes,
\* duplicated submissions and retries; only offline seeding goes without.
OneMutationPerChallenge ==
    \A i, j \in DOMAIN db.audit :
        i # j /\ db.audit[i].req.nonce # SeedNonce
            => db.audit[i].req.nonce # db.audit[j].req.nonce

\* Along the durable log the versions of one target strictly increase, so a
\* captured, delayed or reordered request never undoes a later one.
TargetVersionsAdvance ==
    \A i, j \in DOMAIN db.audit :
        i < j /\ target_key(db.audit[i].req.action) = target_key(db.audit[j].req.action)
            => db.audit[i].req.version < db.audit[j].req.version

\* A client that was told "accepted" finds its mutation in the database after
\* any crash.
AcceptedIsDurable == accepted \subseteq db.applied

\* Whatever was committed when the process stopped, the next boot's fail-closed
\* verification admits it: the node can always start again.
Bootable == Opens(db)

\* A step that changes the durable zone gives it a strictly higher version.
ZoneVersionAdvances ==
    [][db'.zone # db.zone => db'.zone.version > db.zone.version]_vars
=============================================================================
