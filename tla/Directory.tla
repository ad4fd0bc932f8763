----------------------------- MODULE Directory -----------------------------
(***************************************************************************)
(* The node directory of federate-directory and the loops that feed it:    *)
(* nodes re-register with it every minute (federate-node), storage nodes   *)
(* announce the blocks they hold (federate-noded), and the directory's own *)
(* health checker prunes, polls and marks the table.  All of them run as   *)
(* tokio tasks over two RwLocks, `nodes` and `providers`.                  *)
(*                                                                         *)
(* A section that takes one lock and awaits nothing while it holds it is   *)
(* one action.  Two operations are not such a section: prune_stale keeps   *)
(* the write lock on `nodes` while it waits for `providers`, and           *)
(* announce_blocks looks the node up under one lock, lets it go, and       *)
(* writes under the other.  A registration is reduced to the node, the     *)
(* address of its health endpoint and whether it claims the                *)
(* root-authority role; its signature is taken to be the node's own.       *)
(***************************************************************************)
EXTENDS Integers, FiniteSets

CONSTANTS
    Nodes,      \* node identities (a node id is a public key)
    Addrs,      \* addresses a node's health endpoint may have
    Blocks,     \* valid block hashes
    RootKey,    \* the pinned Federate Root Key: the only root authority
    MaxNodes,   \* MAX_NODES, the cap on tracked nodes
    MaxAge,     \* STALE_NODE_MAX_AGE, in ticks of the clock
    MaxClock,   \* bound on the clock
    MaxNet,     \* bound on registrations of one node under way at once
    MaxMoves,   \* bound on restarts of nodes and of the directory
    Faults      \* which of "persist", "probe", "loss" and "crash" may happen

ASSUME DirectoryAssumption ==
    /\ MaxNodes \in Nat \ {0}
    /\ MaxAge \in Nat
    /\ MaxClock \in Nat
    /\ MaxNet \in Nat
    /\ MaxMoves \in Nat
    /\ Faults \subseteq {"persist", "probe", "loss", "crash"}

VARIABLES
    now,        \* the directory's clock
    up,         \* up[n]: node n runs
    addr,       \* addr[n]: the address n is configured with
    net,        \* registrations sent and not yet handled
    running,    \* the directory process runs
    nodes,      \* Directory.nodes, a function on the tracked node ids
    providers,  \* Directory.providers, as pairs <<hash, node id>>
    disk,       \* the snapshot file directory-nodes.json
    checker,    \* the health checker's task
    announcing, \* announcements that passed the lookup in `nodes`
    moves,      \* restarts so far
    contact     \* history: when each node last registered or answered, as
                \* far as the running directory can know

vars == << now, up, addr, net, running, nodes, providers, disk, checker,
           announcing, moves, contact >>

nodeVars == << up, addr >>

(***************************************************************************)
(* The tracked state of a node.  `missed` is history: the failed probes    *)
(* that began after the node's latest registration.  Failures beyond three *)
(* are not told apart by anything the code does.                           *)
(***************************************************************************)
MaxFailures == 3

Registration == [node : Nodes, addr : Addrs, root : BOOLEAN]

\* A BlockAnnounce, one pair for each hash it lists; its signature is taken to
\* be the node's own.
Announcement == Blocks \X Nodes

NodeStatus == {"online", "degraded", "offline"}

NodeEntry == [addr : Addrs, root : BOOLEAN, status : NodeStatus,
              last_seen : Nat, failures : 0 .. MaxFailures,
              missed : 0 .. MaxFailures]

Probe == [node : Nodes, addr : Addrs, current : BOOLEAN]

NoTable == [n \in {} |-> 0]

Tables == UNION { [D -> NodeEntry] : D \in SUBSET Nodes }

Tracked == DOMAIN nodes

CheckerStates == {"prune", "scrub", "list", "pick", "probe"}

Idle == [pc |-> "prune", left |-> {}, cur |-> {}, stale |-> {}]

TypeOK ==
    /\ now \in Nat
    /\ up \in [Nodes -> BOOLEAN]
    /\ addr \in [Nodes -> Addrs]
    /\ net \subseteq Registration
    /\ running \in BOOLEAN
    /\ Tracked \subseteq Nodes /\ nodes \in [Tracked -> NodeEntry]
    /\ providers \subseteq Announcement
    /\ DOMAIN disk \subseteq Nodes /\ disk \in [DOMAIN disk -> NodeEntry]
    /\ checker \in [pc : CheckerStates, left : SUBSET (Nodes \X Addrs),
                    cur : SUBSET Probe, stale : SUBSET Nodes]
    /\ announcing \subseteq Announcement
    /\ moves \in Nat
    /\ contact \in [Nodes -> Nat]

Init ==
    /\ now = 0
    /\ up \in [Nodes -> BOOLEAN]
    /\ addr \in [Nodes -> Addrs]
    /\ net = {}
    /\ running = TRUE
    /\ nodes = NoTable
    /\ providers = {}
    /\ disk = NoTable
    /\ checker = Idle
    /\ announcing = {}
    /\ moves = 0
    /\ contact = [n \in Nodes |-> 0]

-----------------------------------------------------------------------------
(***************************************************************************)
(* The nodes: registration_loop sends a fresh registration, waits for the  *)
(* answer or its timeout, sleeps and starts again.  A request that timed   *)
(* out may still be handled, after a later one.  federate-noded refuses to *)
(* start with the root-authority role; another client may claim it.        *)
(***************************************************************************)
SendRegistration(n, root) ==
    /\ up[n]
    /\ LET reg == [node |-> n, addr |-> addr[n], root |-> root]
       IN  /\ reg \notin net
           /\ Cardinality({m \in net : m.node = n}) < MaxNet
           /\ net' = net \cup {reg}
    /\ UNCHANGED << now, nodeVars, running, nodes, providers, disk, checker,
                    announcing, moves, contact >>

LoseRegistration(reg) ==
    /\ "loss" \in Faults
    /\ reg \in net
    /\ net' = net \ {reg}
    /\ UNCHANGED << now, nodeVars, running, nodes, providers, disk, checker,
                    announcing, moves, contact >>

\* The node process stops, or comes back, perhaps configured anew.
Stop(n) ==
    /\ up[n]
    /\ moves < MaxMoves
    /\ moves' = moves + 1
    /\ up' = [up EXCEPT ![n] = FALSE]
    /\ UNCHANGED << now, addr, net, running, nodes, providers, disk, checker,
                    announcing, contact >>

Start(n) ==
    /\ ~up[n]
    /\ moves < MaxMoves
    /\ moves' = moves + 1
    /\ up' = [up EXCEPT ![n] = TRUE]
    /\ \E a \in Addrs : addr' = [addr EXCEPT ![n] = a]
    /\ UNCHANGED << now, net, running, nodes, providers, disk, checker,
                    announcing, contact >>

-----------------------------------------------------------------------------
(***************************************************************************)
(* Directory::persist, called with the write lock held: a best-effort      *)
(* write of the whole table beside the file and a rename over it.          *)
(***************************************************************************)
Persist(table) ==
    \/ disk' = table
    \/ "persist" \in Faults /\ UNCHANGED disk

\* prune_stale holds `nodes` for writing from its first step to its last.
NodesFree == running /\ checker.pc # "scrub"

\* register: only the root key may claim root-authority.
RootRoleAllowed(reg) == reg.root => reg.node = RootKey

\* register: a full table refuses strangers and refreshes the nodes it has.
HasRoom(reg) == reg.node \in Tracked \/ Cardinality(Tracked) < MaxNodes

Registered_KeepsFailures(reg) ==
    [addr |-> reg.addr, root |-> reg.root,
     status |-> IF reg.node \in Tracked THEN nodes[reg.node].status
                ELSE "online",
     last_seen |-> now,
     failures |-> IF reg.node \in Tracked THEN nodes[reg.node].failures
                  ELSE 0,
     missed |-> 0]

Registered_KeepsEndpoint(reg) ==
    [addr |-> IF reg.node \in Tracked THEN nodes[reg.node].addr ELSE reg.addr,
     root |-> reg.root, status |-> "online",
     last_seen |-> now, failures |-> 0, missed |-> 0]

Registered(reg) ==
    [addr |-> reg.addr, root |-> reg.root, status |-> "online",
     last_seen |-> now, failures |-> 0, missed |-> 0]

Put(table, n, e) ==
    [m \in DOMAIN table \cup {n} |-> IF m = n THEN e ELSE table[m]]

Register(reg) ==
    /\ NodesFree
    /\ reg \in net
    /\ RootRoleAllowed(reg) /\ HasRoom(reg)
    /\ net' = net \ {reg}
    /\ nodes' = Put(nodes, reg.node, Registered(reg))
    /\ Persist(nodes')
    /\ contact' = [contact EXCEPT ![reg.node] = now]
    /\ checker' = [checker EXCEPT !.cur =
                     { IF p.node = reg.node THEN [p EXCEPT !.current = FALSE]
                       ELSE p : p \in @ }]
    /\ UNCHANGED << now, nodeVars, running, providers, announcing, moves >>

Refuse(reg) ==
    /\ NodesFree
    /\ reg \in net
    /\ ~ (RootRoleAllowed(reg) /\ HasRoom(reg))
    /\ net' = net \ {reg}
    /\ UNCHANGED << now, nodeVars, running, nodes, providers, disk, checker,
                    announcing, moves, contact >>

-----------------------------------------------------------------------------
(***************************************************************************)
(* announce_blocks: look the node up under `nodes`, let the lock go, then  *)
(* take `providers` and insert.  Malformed hashes are dropped, so a block  *)
(* here is a valid one.                                                    *)
(***************************************************************************)
\* The announcing loop of a node that caches blocks, once a minute while it
\* runs; what it lists may have been evicted since.
Announces(n) == up[n]

AnnounceLookup(n, b) ==
    /\ NodesFree
    /\ Announces(n)
    /\ n \in Tracked
    /\ << b, n >> \notin announcing \cup providers
    /\ announcing' = announcing \cup {<< b, n >>}
    /\ UNCHANGED << now, nodeVars, net, running, nodes, providers, disk,
                    checker, moves, contact >>

AnnounceInsert(n, b) ==
    /\ running
    /\ << b, n >> \in announcing
    /\ announcing' = announcing \ {<< b, n >>}
    /\ providers' = providers \cup {<< b, n >>}
    /\ UNCHANGED << now, nodeVars, net, running, nodes, disk, checker, moves,
                    contact >>

\* providers_for_block: the node entries a query is answered with.
ProvidersForBlock(b) ==
    { n \in Tracked : << b, n >> \in providers /\ nodes[n].status # "offline" }

\* list(_, only_healthy = true)
Healthy == { n \in Tracked : nodes[n].status # "offline" }

-----------------------------------------------------------------------------
(***************************************************************************)
(* health_check_loop: prune, take the list, then poll the listed nodes one *)
(* by one at the address the list gave, and mark each by its id.           *)
(***************************************************************************)
IsStale(n) == now - nodes[n].last_seen > MaxAge

AfterPrune(stale) == IF stale = {} THEN "list" ELSE "scrub"

\* Nodes removed, the lock kept; with nothing stale the lock is let go.
MayPrune == checker.pc = "prune"

PruneNodes ==
    /\ running
    /\ MayPrune
    /\ LET stale == { n \in Tracked : IsStale(n) }
       IN  /\ nodes' = [n \in Tracked \ stale |-> nodes[n]]
           /\ checker' = [checker EXCEPT !.pc = AfterPrune(stale),
                                         !.stale = stale]
    /\ UNCHANGED << now, nodeVars, net, running, providers, disk, announcing,
                    moves, contact >>

PruneProviders_NoPersist ==
    /\ running
    /\ checker.pc = "scrub"
    /\ providers' = { p \in providers : p[2] \notin checker.stale }
    /\ checker' = [checker EXCEPT !.pc = "list", !.stale = {}]
    /\ UNCHANGED << now, nodeVars, net, running, nodes, announcing, moves,
                    contact, disk >>

PruneProviders ==
    /\ running
    /\ checker.pc = "scrub"
    /\ providers' = { p \in providers : p[2] \notin checker.stale }
    /\ Persist(nodes)
    /\ checker' = [checker EXCEPT !.pc = "list", !.stale = {}]
    /\ UNCHANGED << now, nodeVars, net, running, nodes, announcing, moves,
                    contact >>

ListNodes ==
    /\ NodesFree
    /\ checker.pc = "list"
    /\ checker' = [checker EXCEPT !.pc = "pick",
                     !.left = { << n, nodes[n].addr >> : n \in Tracked }]
    /\ UNCHANGED << now, nodeVars, net, running, nodes, providers, disk,
                    announcing, moves, contact >>

StartProbe ==
    /\ running
    /\ checker.pc = "pick"
    /\ \E l \in checker.left :
          checker' = [checker EXCEPT
             !.pc = "probe", !.left = @ \ {l},
             !.cur = {[node |-> l[1], addr |-> l[2], current |-> TRUE]}]
    /\ UNCHANGED << now, nodeVars, net, running, nodes, providers, disk,
                    announcing, moves, contact >>

\* The list is done: sleep out the interval and start over.
EndRound ==
    /\ running
    /\ checker.pc = "pick"
    /\ checker.left = {}
    /\ checker' = Idle
    /\ UNCHANGED << now, nodeVars, net, running, nodes, providers, disk,
                    announcing, moves, contact >>

\* /health says 200 whoever runs at the address: it names no node.
Answers(a) == \E m \in Nodes : up[m] /\ addr[m] = a

Outcomes(a) == {Answers(a)} \cup (IF "probe" \in Faults THEN {FALSE} ELSE {})

StatusOf(failures) ==
    IF failures = 0 THEN "online"
    ELSE IF failures < MaxFailures THEN "degraded" ELSE "offline"

\* mark: the entry after the outcome ok of probe p.
Bump(k) == IF k < MaxFailures THEN k + 1 ELSE MaxFailures

Marked_NotSeen(e, p, ok) ==
    IF ok
    THEN [e EXCEPT !.failures = 0, !.missed = 0, !.status = StatusOf(0)]
    ELSE [e EXCEPT !.failures = Bump(@), !.status = StatusOf(Bump(e.failures)),
                   !.missed = IF p.current THEN Bump(@) ELSE @]

Marked(e, p, ok) ==
    IF ok
    THEN [e EXCEPT !.failures = 0, !.missed = 0, !.status = StatusOf(0),
                   !.last_seen = now]
    ELSE [e EXCEPT !.failures = Bump(@), !.status = StatusOf(Bump(e.failures)),
                   !.missed = IF p.current THEN Bump(@) ELSE @]

\* The probe ends and mark runs; an id that is gone is left alone.
Mark ==
    /\ NodesFree
    /\ checker.pc = "probe"
    /\ \E p \in checker.cur : \E ok \in Outcomes(p.addr) :
          /\ nodes' = IF p.node \in Tracked
                      THEN Put(nodes, p.node, Marked(nodes[p.node], p, ok))
                      ELSE nodes
          /\ contact' = IF ok THEN [contact EXCEPT ![p.node] = now]
                        ELSE contact
    /\ checker' = [checker EXCEPT !.pc = "pick", !.cur = {}]
    /\ UNCHANGED << now, nodeVars, net, running, providers, disk, announcing,
                    moves >>

-----------------------------------------------------------------------------
(***************************************************************************)
(* The directory process.  with_persistence reads the snapshot back; the   *)
(* provider lists are never written and start empty.                       *)
(***************************************************************************)
Crash ==
    /\ "crash" \in Faults
    /\ running
    /\ moves < MaxMoves
    /\ moves' = moves + 1
    /\ running' = FALSE
    /\ nodes' = NoTable
    /\ providers' = {}
    /\ announcing' = {}
    /\ checker' = Idle
    /\ UNCHANGED << now, nodeVars, net, disk, contact >>

WithPersistence ==
    /\ ~running
    /\ running' = TRUE
    /\ nodes' = disk
    /\ contact' = [n \in Nodes |-> IF n \in DOMAIN disk THEN disk[n].last_seen
                                   ELSE 0]
    /\ UNCHANGED << now, nodeVars, net, providers, disk, checker, announcing,
                    moves >>

Tick ==
    /\ now < MaxClock
    /\ now' = now + 1
    /\ UNCHANGED << nodeVars, net, running, nodes, providers, disk, checker,
                    announcing, moves, contact >>

-----------------------------------------------------------------------------
HealthCheckLoop ==
    \/ PruneNodes
    \/ PruneProviders
    \/ ListNodes
    \/ StartProbe
    \/ EndRound
    \/ Mark

Handle(reg) == Register(reg) \/ Refuse(reg)

Next ==
    \/ \E n \in Nodes, root \in BOOLEAN : SendRegistration(n, root)
    \/ \E n \in Nodes : Stop(n) \/ Start(n)
    \/ \E reg \in net : LoseRegistration(reg) \/ Handle(reg)
    \/ \E n \in Nodes, b \in Blocks :
          AnnounceLookup(n, b) \/ AnnounceInsert(n, b)
    \/ HealthCheckLoop
    \/ Crash
    \/ WithPersistence
    \/ Tick

Spec == Init /\ [][Next]_vars

(***************************************************************************)
(* Fairness.  The checker is a spawned task whose probes end in five       *)
(* seconds at the latest; nodes re-register for as long as they run; a     *)
(* request the server has accepted is polled to its end; the process       *)
(* supervisor restarts the directory.  Nothing forces time, faults or      *)
(* restarts of nodes.                                                      *)
(***************************************************************************)
Fairness ==
    /\ WF_vars(HealthCheckLoop)
    /\ WF_vars(WithPersistence)
    /\ \A n \in Nodes : WF_vars(SendRegistration(n, FALSE))
    /\ \A reg \in Registration : SF_vars(Handle(reg))

LiveSpec == Spec /\ Fairness

-----------------------------------------------------------------------------
(***************************************************************************)
(* Properties                                                              *)
(***************************************************************************)

\* While the directory runs and no prune is half done, the snapshot holds
\* exactly the registrations the table holds, so a crash at that moment loses
\* none and brings no pruned node back (persist in register, prune_stale).  At
\* any moment it stays within what register admits, MAX_NODES nodes and the
\* root-authority role on the root key's entry only: with_persistence checks
\* neither.
SnapshotHasTheTable ==
    /\ NodesFree => /\ DOMAIN disk = Tracked
                    /\ \A n \in Tracked : disk[n].addr = nodes[n].addr
    /\ Cardinality(DOMAIN disk) <= MaxNodes
    /\ \A n \in DOMAIN disk : disk[n].root => n = RootKey

\* A node goes offline, out of listings and DNS answers, only after two
\* probes that began after its latest registration failed: a probe that a
\* re-registration overtook counts once at most (register against mark).
OfflineNeedsProbes ==
    \A n \in Tracked :
       nodes[n].status = "offline" => nodes[n].missed >= MaxFailures - 1

\* prune_stale takes out no node that registered, or answered a health check
\* of this run of the directory, within STALE_NODE_MAX_AGE.  (mark does not
\* write the snapshot: a restart goes back to the last_seen stored there.)
SeenNodesKept ==
    [][ running /\ running' =>
          \A n \in Tracked \ DOMAIN nodes' : now - contact[n] > MaxAge ]_vars

\* A node that keeps running at one address is in the end tracked at that
\* address for good, whatever older registrations of it were still under way.
AddressConverges ==
    \A n \in Nodes : \A a \in Addrs :
       <>[](up[n] /\ addr[n] = a /\ running)
          => <>[](n \in Tracked /\ nodes[n].addr = a)
=============================================================================
