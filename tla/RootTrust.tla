----------------------------- MODULE RootTrust -----------------------------
(***************************************************************************)
(* How one node of federate-resolution comes by the root zone it resolves  *)
(* with: Resolver::new, verify_zone, last_verified_zone, refresh_root and  *)
(* the RootCache on disk, run by several tasks at once (refresh loops and  *)
(* the requests that find no zone in memory).                              *)
(*                                                                         *)
(* Zones come from providers nobody trusts.  A zone is reduced to the root *)
(* key it advertises, its version, and whether that key's signature over   *)
(* it verifies.  A provider may answer with any zone a key has published   *)
(* so far (a lagging or replaying mirror), or with one that does not       *)
(* verify, until the network settles and serves the newest zone only.      *)
(***************************************************************************)
EXTENDS Naturals

CONSTANTS
    Keys,          \* root keys; more than one when a foreign root is offered
    RootKey,       \* the key of the Federate root
    Configured,    \* the --root-key a node may be given, and NoKey for none
    NoKey,
    NoZone,
    Tasks,         \* tasks that may call refresh_root
    Loops,         \* those that call it for ever (federated, dnsd, mirrors)
    MaxVersion,    \* bound on published versions
    MaxRestarts,   \* bound on restarts of the node
    Faults         \* which of "fetch" and "store" may fail before settling

ASSUME RootTrustAssumption ==
    /\ RootKey \in Keys
    /\ NoKey \notin Keys
    /\ Configured \subseteq Keys \cup {NoKey}
    /\ Loops \subseteq Tasks
    /\ MaxVersion \in Nat \ {0}
    /\ MaxRestarts \in Nat
    /\ Faults \subseteq {"fetch", "store"}

Zones == [key : Keys, version : 1 .. MaxVersion, signed : BOOLEAN]

ASSUME NoZoneAssumption == NoZone \notin Zones

VARIABLES
    configured, \* the --root-key of this node
    latest,     \* latest[k]: newest version key k has published
    settled,    \* the network answers, and only with the newest root zone
    pinned,     \* Resolver.trusted_root_key
    pinFile,    \* the file trusted-root-key
    root,       \* Resolver.root, the zone names are resolved with
    cache,      \* the file root-zone.json
    tmp,        \* the file root-zone.json.tmp, one for all tasks
    task,       \* the refresh_root call of each task
    restarts,
    high,       \* history: highest version ever resolved with
    overlapped  \* history: two refreshes have run at the same time

vars == << configured, latest, settled, pinned, pinFile, root, cache, tmp, task,
           restarts, high, overlapped >>

files == << pinFile, cache, tmp >>

env == << configured, latest, settled, restarts, overlapped >>

Steps == {"idle", "verify", "pin", "known", "write", "rename", "install",
          "rejected", "offline"}

Idle == [pc |-> "idle", zone |-> NoZone]

TypeOK ==
    /\ configured \in Configured
    /\ overlapped \in BOOLEAN
    /\ latest \in [Keys -> 1 .. MaxVersion]
    /\ settled \in BOOLEAN
    /\ pinned \in Keys \cup {NoKey}
    /\ pinFile \in Keys \cup {NoKey}
    /\ root \in Zones \cup {NoZone}
    /\ cache \in Zones \cup {NoZone}
    /\ tmp \in Zones \cup {NoZone}
    /\ task \in [Tasks -> [pc : Steps, zone : Zones \cup {NoZone}]]
    /\ restarts \in 0 .. MaxRestarts
    /\ high \in 0 .. MaxVersion

Init ==
    /\ configured \in Configured
    /\ overlapped = FALSE
    /\ latest = [k \in Keys |-> 1]
    /\ settled = FALSE
    /\ pinned = configured
    /\ pinFile = NoKey
    /\ root = NoZone
    /\ cache = NoZone
    /\ tmp = NoZone
    /\ task = [t \in Tasks |-> Idle]
    /\ restarts = 0
    /\ high = 0

At(t, pc) == task[t].pc = pc

Goto(t, pc) == task' = [task EXCEPT ![t].pc = pc]

GotoWith(t, pc, z) == task' = [task EXCEPT ![t] = [pc |-> pc, zone |-> z]]

Finish(t) == task' = [task EXCEPT ![t] = Idle]

-----------------------------------------------------------------------------
(***************************************************************************)
(* The root and the network.                                               *)
(***************************************************************************)
Newest == [key |-> RootKey, version |-> latest[RootKey], signed |-> TRUE]

Offers ==
    IF settled THEN {Newest}
    ELSE { z \in Zones : z.signed => z.version <= latest[z.key] }

Publish(k) ==
    /\ ~settled
    /\ latest[k] < MaxVersion
    /\ latest' = [latest EXCEPT ![k] = @ + 1]
    /\ UNCHANGED << configured, settled, pinned, root, files, task, restarts,
                    high, overlapped >>

Settle ==
    /\ ~settled
    /\ settled' = TRUE
    /\ UNCHANGED << configured, latest, pinned, root, files, task, restarts,
                    high, overlapped >>

MayFail(f) == f \in Faults /\ ~settled

-----------------------------------------------------------------------------
(***************************************************************************)
(* RootZone::verify against a key, and what the disk cache has to offer    *)
(* under the pin: last_verified_zone and both fallbacks of refresh_root    *)
(* use it.  A cached zone with no key pinned would be pinned in turn; that *)
(* state is not reachable: pins come first.                                  *)
(***************************************************************************)
Verifies(z, k) == z # NoZone /\ z.key = k /\ z.signed

Cached == IF Verifies(cache, pinned) THEN cache ELSE NoZone

\* last_verified_zone: memory first, then the disk cache.
Known == IF root # NoZone THEN root ELSE Cached

(***************************************************************************)
(* refresh_root, and root() for a task without a loop: it refreshes only   *)
(* when there is no zone in memory.                                        *)
(***************************************************************************)
Wants(t) == t \in Loops \/ root = NoZone

Begins(t) ==
    /\ At(t, "idle") /\ Wants(t)
    /\ overlapped' = (overlapped \/ \E u \in Tasks : ~At(u, "idle"))
    /\ UNCHANGED << configured, latest, settled, restarts, pinned, root, files,
                    high >>

Fetch(t) == Begins(t) /\ \E z \in Offers : GotoWith(t, "verify", z)

FetchFails(t) == Begins(t) /\ MayFail("fetch") /\ Goto(t, "offline")

\* verify_zone with a key pinned.
VerifyPinned(t) ==
    /\ At(t, "verify")
    /\ pinned # NoKey
    /\ Goto(t, IF Verifies(task[t].zone, pinned) THEN "known" ELSE "rejected")
    /\ UNCHANGED << env, pinned, root, files, high >>

VerifyFirst_AnyTime(t) ==
    LET z == task[t].zone
    IN  /\ At(t, "verify")
        /\ IF Verifies(z, z.key)
           THEN pinFile' = z.key /\ Goto(t, "pin")
           ELSE UNCHANGED pinFile /\ Goto(t, "rejected")
        /\ UNCHANGED << env, pinned, root, cache, tmp, high >>

\* verify_zone on first use: write the file, then take the lock and pin.
VerifyFirst(t) ==
    LET z == task[t].zone
    IN  /\ At(t, "verify")
        /\ pinned = NoKey
        /\ IF Verifies(z, z.key)
           THEN pinFile' = z.key /\ Goto(t, "pin")
           ELSE UNCHANGED pinFile /\ Goto(t, "rejected")
        /\ UNCHANGED << env, pinned, root, cache, tmp, high >>

PinFileFails(t) ==
    /\ At(t, "verify")
    /\ pinned = NoKey
    /\ MayFail("store")
    /\ Goto(t, "rejected")
    /\ UNCHANGED << env, pinned, root, files, high >>

Pin(t) ==
    /\ At(t, "pin")
    /\ pinned' = task[t].zone.key
    /\ Goto(t, "known")
    /\ UNCHANGED << env, root, files, high >>

\* The rollback check: an older zone gives way to the known one.
IsOlder_Swapped(z, known) == known # NoZone /\ z.version > known.version

IsOlder(z, known) == known # NoZone /\ z.version < known.version

CheckKnown(t) ==
    /\ At(t, "known")
    /\ IF IsOlder(task[t].zone, Known)
       THEN GotoWith(t, "install", Known)
       ELSE Goto(t, "write")
    /\ UNCHANGED << env, pinned, root, files, high >>

\* RootCache::store: write the temporary file, then rename it.
WriteTmp(t) ==
    /\ At(t, "write")
    /\ tmp' = task[t].zone
    /\ Goto(t, "rename")
    /\ UNCHANGED << env, pinned, root, pinFile, cache, high >>

StoreFails_UsesIt(t) ==
    /\ At(t, "write")
    /\ MayFail("store")
    /\ Goto(t, "install")
    /\ UNCHANGED << env, pinned, root, files, high >>

StoreFails(t) ==
    /\ At(t, "write")
    /\ MayFail("store")
    /\ Finish(t)
    /\ UNCHANGED << env, pinned, root, files, high >>

Rename(t) ==
    /\ At(t, "rename")
    /\ IF tmp # NoZone
       THEN cache' = tmp /\ tmp' = NoZone /\ Goto(t, "install")
       ELSE UNCHANGED << cache, tmp >> /\ Finish(t)
    /\ UNCHANGED << env, pinned, root, pinFile, high >>

Install(t) ==
    /\ At(t, "install")
    /\ root' = task[t].zone
    /\ high' = IF high < task[t].zone.version THEN task[t].zone.version
               ELSE high
    /\ Finish(t)
    /\ UNCHANGED << env, pinned, files >>

FallBack_UsesFetched(t) ==
    /\ At(t, "rejected") \/ At(t, "offline")
    /\ IF Cached # NoZone THEN GotoWith(t, "install", Cached)
       ELSE IF At(t, "rejected") THEN Goto(t, "install") ELSE Finish(t)
    /\ UNCHANGED << env, pinned, root, files, high >>

\* The fetched zone did not verify, or nothing was fetched: use the cache.
FallBack(t) ==
    /\ At(t, "rejected") \/ At(t, "offline")
    /\ IF Cached # NoZone THEN GotoWith(t, "install", Cached) ELSE Finish(t)
    /\ UNCHANGED << env, pinned, root, files, high >>

Refresh(t) ==
    \/ Fetch(t) \/ FetchFails(t)
    \/ VerifyPinned(t) \/ VerifyFirst(t) \/ PinFileFails(t) \/ Pin(t)
    \/ CheckKnown(t)
    \/ WriteTmp(t) \/ StoreFails(t) \/ Rename(t)
    \/ Install(t)
    \/ FallBack(t)

\* The process ends anywhere; Resolver::new reads the pin back.
Restart ==
    /\ restarts < MaxRestarts
    /\ restarts' = restarts + 1
    /\ pinned' = IF configured # NoKey THEN configured ELSE pinFile
    /\ root' = NoZone
    /\ task' = [t \in Tasks |-> Idle]
    /\ UNCHANGED << configured, latest, settled, files, high, overlapped >>

Next ==
    \/ \E t \in Tasks : Refresh(t)
    \/ \E k \in Keys : Publish(k)
    \/ Settle
    \/ Restart

Spec == Init /\ [][Next]_vars

(***************************************************************************)
(* Fairness.  A refresh that has begun runs to its end (every await has a  *)
(* timeout), and a loop begins the next one a minute later.  A task with   *)
(* no loop begins one only while there is no zone in memory.               *)
(***************************************************************************)
LiveSpec == Spec /\ \A t \in Tasks : WF_vars(Refresh(t))

-----------------------------------------------------------------------------
(***************************************************************************)
(* Properties                                                              *)
(***************************************************************************)

\* The node resolves only with a zone whose signature verifies under its pin,
\* whatever providers answered and however refreshes overlap (refresh_root:
\* "Unverifiable zones are NEVER stored or used").  Two first refreshes at once
\* may pin two keys in turn, so a node without --root-key needs them apart.
UsesVerifiedZones ==
    configured # NoKey \/ ~overlapped =>
        /\ root # NoZone => Verifies(root, pinned)
        /\ cache # NoZone => Verifies(cache, pinned)

\* The zone in use is never older than one the node resolved with before,
\* across restarts and failures, while no two refreshes overlap: the check of
\* the version and the installation are not one step (signatures.md, "Root
\* zone rollback").
NoRootRollback == root # NoZone /\ ~overlapped => root.version = high

\* Once a key is pinned it stays the trust anchor (trust on first use), with
\* the same exception.
PinIsForever ==
    [][ pinned # NoKey /\ (configured # NoKey \/ ~overlapped)
          => pinned' = pinned ]_vars

\* Once the network serves the newest zone, a node given the root's key
\* resolves with it from some time on, whatever races and failures came
\* before: a suspension or a revocation reaches it (the refresh loops of
\* federated, federate-dns and federate-noded).
FollowsTheRoot ==
    configured = RootKey /\ <>settled => <>[](root = Newest)
=============================================================================
