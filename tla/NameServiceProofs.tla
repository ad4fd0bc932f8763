------------------------- MODULE NameServiceProofs -------------------------
(***************************************************************************)
(* The node directory and the name servers that hand out its addresses,    *)
(* for any number of nodes, addresses, registrations, probes and restarts. *)
(*                                                                         *)
(* The directory: its snapshot holds its table, it never outgrows its cap, *)
(* a node goes offline only after probes of its own, and no node that was  *)
(* seen is pruned.  A name server that has stored one verified zone sends  *)
(* no Federate name to a public resolver again, whatever the directory     *)
(* beside it does.                                                         *)
(***************************************************************************)
EXTENDS NameService, FiniteSetTheorems, TLAPS

\* An entry is offline after three failures, of which one at most belongs to a
\* probe that a registration overtook.
Probed(e) ==
    /\ e.status = "offline" => e.failures = MaxFailures
    /\ e.failures =< e.missed + 1

Admitted(table) ==
    /\ IsFiniteSet(DOMAIN table)
    /\ Cardinality(DOMAIN table) =< MaxNodes
    /\ \A n \in DOMAIN table : /\ table[n].root => n = RootKey
                               /\ Probed(table[n])

DownIsIdle == ~running => checker = Idle /\ nodes = NoTable

\* A probe overtaken by a registration found the failures at zero.
Overtaken ==
    \A p \in checker.cur :
       p.node \in Tracked /\ ~p.current =>
          nodes[p.node].failures =< nodes[p.node].missed

SeenAtContact == running => \A n \in Tracked : nodes[n].last_seen = contact[n]

DirInv ==
    /\ TypeOK /\ Admitted(nodes) /\ Admitted(disk)
    /\ DownIsIdle /\ Overtaken /\ SeenAtContact

-----------------------------------------------------------------------------

LEMMA NoTableIsEmpty ==
    /\ DOMAIN NoTable = {} /\ NoTable \in [{} -> NodeEntry] /\ Admitted(NoTable)
  <1>1. DOMAIN NoTable = {} /\ NoTable \in [{} -> NodeEntry]
    BY DEF NoTable
  <1>2. IsFiniteSet({}) /\ Cardinality({}) = 0
    BY FS_EmptySet
  <1>. QED
    BY <1>1, <1>2, DirectoryAssumption DEF Admitted

LEMMA InitDir == Init => DirInv
  <1> SUFFICES ASSUME Init PROVE DirInv
    OBVIOUS
  <1>1. TypeOK
    BY NoTableIsEmpty DEF Init, TypeOK, Tracked, Idle, CheckerStates
  <1>. QED
    BY <1>1, NoTableIsEmpty DEF Init, DirInv, DownIsIdle, Overtaken, SeenAtContact,
       Tracked, Idle

LEMMA PutAdmitted ==
    ASSUME NEW D \in SUBSET Nodes, NEW table \in [D -> NodeEntry],
           NEW n \in Nodes, NEW e \in NodeEntry, Admitted(table),
           e.root => n = RootKey, Probed(e),
           n \in D \/ Cardinality(D) < MaxNodes
    PROVE  Admitted(Put(table, n, e))
  <1>1. DOMAIN table = D /\ IsFiniteSet(D) /\ Cardinality(D) =< MaxNodes
    BY DEF Admitted
  <1>2. /\ IsFiniteSet(D \cup {n})
        /\ Cardinality(D \cup {n}) = IF n \in D THEN Cardinality(D)
                                     ELSE Cardinality(D) + 1
    BY <1>1, FS_AddElement
  <1>3. Cardinality(D) \in Nat
    BY <1>1, FS_CardinalityType
  <1>4. Cardinality(D \cup {n}) =< MaxNodes
    BY <1>1, <1>2, <1>3, DirectoryAssumption
  <1>. DEFINE T == Put(table, n, e)
  <1>5. /\ DOMAIN T = D \cup {n} /\ T[n] = e
        /\ \A m \in D \ {n} : T[m] = table[m]
    BY <1>1 DEF Put
  <1>. HIDE DEF T
  <1>6. ASSUME NEW m \in D \cup {n}
        PROVE  (T[m].root => m = RootKey) /\ Probed(T[m])
    <2>1. CASE m = n
      BY <1>5, <2>1
    <2>2. CASE m # n
      BY <1>1, <1>5, <2>2 DEF Admitted
    <2>. QED
      BY <2>1, <2>2
  <1>7. Admitted(T)
    BY <1>2, <1>4, <1>5, <1>6 DEF Admitted
  <1>. QED
    BY <1>7 DEF T

\* Fewer nodes of an admitted table are admitted.
LEMMA FewerAdmitted ==
    ASSUME NEW D \in SUBSET Nodes, NEW table \in [D -> NodeEntry],
           Admitted(table), NEW C \in SUBSET D
    PROVE  Admitted([n \in C |-> table[n]])
  <1>1. DOMAIN table = D /\ IsFiniteSet(D) /\ Cardinality(D) =< MaxNodes
    BY DEF Admitted
  <1>2. IsFiniteSet(C) /\ Cardinality(C) =< Cardinality(D)
    BY <1>1, FS_Subset
  <1>3. Cardinality(C) \in Nat /\ Cardinality(D) \in Nat
    BY <1>1, <1>2, FS_CardinalityType
  <1>. QED
    BY <1>1, <1>2, <1>3, DirectoryAssumption DEF Admitted

LEMMA RegisteredEntry ==
    ASSUME TypeOK, NEW reg \in Registration
    PROVE  Registered(reg) \in NodeEntry /\ Probed(Registered(reg))
  BY DEF TypeOK, Registration, Registered, NodeEntry, NodeStatus, Probed,
     MaxFailures

LEMMA MarkedEntry ==
    ASSUME TypeOK, NEW e \in NodeEntry, NEW p \in Probe, NEW ok \in BOOLEAN,
           Probed(e), ~p.current => e.failures =< e.missed
    PROVE  /\ Marked(e, p, ok) \in NodeEntry /\ Probed(Marked(e, p, ok))
           /\ Marked(e, p, ok).root = e.root
           /\ Marked(e, p, ok).last_seen = IF ok THEN now ELSE e.last_seen
  <1>1. /\ e.failures \in 0 .. 3 /\ e.missed \in 0 .. 3 /\ now \in Nat
        /\ p.current \in BOOLEAN
    BY DEF TypeOK, NodeEntry, Probe, MaxFailures
  <1>2. CASE ok
    <2>1. Marked(e, p, ok) = [e EXCEPT !.failures = 0, !.missed = 0,
                                       !.status = "online", !.last_seen = now]
      BY <1>2 DEF Marked, StatusOf
    <2>2. /\ Marked(e, p, ok).root = e.root
          /\ Marked(e, p, ok).last_seen = now
          /\ Marked(e, p, ok).status = "online"
          /\ Marked(e, p, ok).failures = 0 /\ Marked(e, p, ok).missed = 0
      BY <2>1 DEF NodeEntry
    <2>3. 0 \in 0 .. MaxFailures /\ "online" \in NodeStatus
      BY DEF MaxFailures, NodeStatus
    <2>4. Marked(e, p, ok) \in NodeEntry
      BY <1>1, <2>1, <2>3 DEF NodeEntry
    <2>5. Probed(Marked(e, p, ok))
      BY <2>2 DEF Probed
    <2>. QED
      BY <1>2, <2>2, <2>4, <2>5
  <1>3. CASE ~ok
    <2>. DEFINE f == Bump(e.failures)
                m == IF p.current THEN Bump(e.missed) ELSE e.missed
                s == StatusOf(f)
    <2>1. Marked(e, p, ok) = [e EXCEPT !.failures = f, !.status = s, !.missed = m]
      BY <1>3 DEF Marked
    <2>2. f \in 0 .. 3 /\ m \in 0 .. 3 /\ f =< m + 1
      BY <1>1 DEF Bump, MaxFailures, Probed
    <2>3. s \in NodeStatus /\ (s = "offline" => f = 3)
      BY <2>2 DEF StatusOf, NodeStatus, MaxFailures
    <2>. HIDE DEF f, m, s
    <2>. QED
      BY <1>1, <1>3, <2>1, <2>2, <2>3 DEF NodeEntry, Probed, MaxFailures
  <1>. QED
    BY <1>2, <1>3

-----------------------------------------------------------------------------
(***************************************************************************)
(* Steps that leave the table, the snapshot and the contacts alone.        *)
(***************************************************************************)

QuietStep ==
    /\ UNCHANGED << running, nodes, disk, contact >>
    /\ \A p \in checker'.cur : p.current \/ p \in checker.cur
    /\ ~running => checker' = checker

LEMMA QuietKeepsDir ==
    ASSUME DirInv, TypeOK', QuietStep PROVE DirInv'
  <1>1. Admitted(nodes)' /\ Admitted(disk)'
    BY DEF DirInv, QuietStep, Admitted, Probed
  <1>2. DownIsIdle'
    BY DEF DirInv, QuietStep, DownIsIdle
  <1>3. Overtaken'
    BY DEF DirInv, QuietStep, Overtaken, Tracked
  <1>4. SeenAtContact'
    BY DEF DirInv, QuietStep, SeenAtContact, Tracked
  <1>. QED
    BY <1>1, <1>2, <1>3, <1>4 DEF DirInv

LEMMA NodesKeepDir ==
    ASSUME DirInv, NEW n \in Nodes, NEW root \in BOOLEAN,
           SendRegistration(n, root) \/ Stop(n) \/ Start(n)
    PROVE  DirInv'
  <1>1. CASE SendRegistration(n, root)
    <2>1. TypeOK'
      BY <1>1 DEF DirInv, TypeOK, SendRegistration, nodeVars, Registration, Tracked
    <2>. QED
      BY <1>1, <2>1, QuietKeepsDir DEF SendRegistration, QuietStep
  <1>2. CASE Stop(n)
    <2>1. TypeOK'
      BY <1>2 DEF DirInv, TypeOK, Stop, Tracked
    <2>. QED
      BY <1>2, <2>1, QuietKeepsDir DEF Stop, QuietStep
  <1>3. CASE Start(n)
    <2>1. TypeOK'
      BY <1>3 DEF DirInv, TypeOK, Start, Tracked
    <2>. QED
      BY <1>3, <2>1, QuietKeepsDir DEF Start, QuietStep
  <1>. QED
    BY <1>1, <1>2, <1>3

LEMMA NetKeepsDir ==
    ASSUME DirInv, NEW reg \in net, LoseRegistration(reg) \/ Refuse(reg)
    PROVE  DirInv'
  <1>1. TypeOK'
    BY DEF DirInv, TypeOK, LoseRegistration, Refuse, nodeVars, Tracked
  <1>. QED
    BY <1>1, QuietKeepsDir DEF LoseRegistration, Refuse, QuietStep

LEMMA AnnouncingKeepsDir ==
    ASSUME DirInv, NEW n \in Nodes, NEW b \in Blocks,
           AnnounceLookup(n, b) \/ AnnounceInsert(n, b)
    PROVE  DirInv'
  <1>1. TypeOK'
    BY DEF DirInv, TypeOK, AnnounceLookup, AnnounceInsert, nodeVars, Tracked,
       Announcement
  <1>. QED
    BY <1>1, QuietKeepsDir DEF AnnounceLookup, AnnounceInsert, QuietStep

LEMMA TickKeepsDir ==
    ASSUME DirInv, Tick PROVE DirInv'
  <1>1. TypeOK'
    BY DEF DirInv, TypeOK, Tick, nodeVars, Tracked
  <1>. QED
    BY <1>1, QuietKeepsDir DEF Tick, QuietStep

CheckerType == [pc : CheckerStates, left : SUBSET (Nodes \X Addrs),
                cur : SUBSET Probe, stale : SUBSET Nodes]

LEMMA RoundKeepsDir ==
    ASSUME DirInv, ListNodes \/ StartProbe \/ EndRound
    PROVE  DirInv'
  <1>. USE DEF DirInv
  <1>1. CASE ListNodes
    <2>1. { << n, nodes[n].addr >> : n \in Tracked } \subseteq Nodes \X Addrs
      BY DEF TypeOK, NodeEntry
    <2>2. checker' \in CheckerType /\ checker'.cur = checker.cur
      BY <1>1, <2>1 DEF TypeOK, ListNodes, CheckerType, CheckerStates
    <2>3. TypeOK'
      BY <1>1, <2>2 DEF TypeOK, ListNodes, nodeVars, Tracked, CheckerType
    <2>. QED
      BY <1>1, <2>2, <2>3, QuietKeepsDir DEF ListNodes, NodesFree, QuietStep
  <1>2. CASE StartProbe
    <2>1. PICK l \in checker.left :
             checker' = [checker EXCEPT
                !.pc = "probe", !.left = @ \ {l},
                !.cur = {[node |-> l[1], addr |-> l[2], current |-> TRUE]}]
      BY <1>2 DEF StartProbe
    <2>2. l \in Nodes \X Addrs
      BY DEF TypeOK
    <2>3. [node |-> l[1], addr |-> l[2], current |-> TRUE] \in Probe
      BY <2>2 DEF Probe
    <2>4. /\ checker' \in CheckerType
          /\ checker'.cur = {[node |-> l[1], addr |-> l[2], current |-> TRUE]}
      BY <2>1, <2>3 DEF TypeOK, CheckerType, CheckerStates
    <2>5. TypeOK'
      BY <1>2, <2>4 DEF TypeOK, StartProbe, nodeVars, Tracked, CheckerType
    <2>6. \A p \in checker'.cur : p.current
      BY <2>4
    <2>7. running /\ UNCHANGED << running, nodes, disk, contact >>
      BY <1>2 DEF StartProbe
    <2>8. QuietStep
      BY <2>6, <2>7 DEF QuietStep
    <2>. QED
      BY <2>5, <2>8, QuietKeepsDir
  <1>3. CASE EndRound
    <2>1. Idle \in CheckerType /\ Idle.cur = {}
      BY DEF Idle, CheckerType, CheckerStates
    <2>2. TypeOK'
      BY <1>3, <2>1 DEF TypeOK, EndRound, nodeVars, Tracked, CheckerType
    <2>. QED
      BY <1>3, <2>1, <2>2, QuietKeepsDir DEF EndRound, QuietStep
  <1>. QED
    BY <1>1, <1>2, <1>3


-----------------------------------------------------------------------------
(***************************************************************************)
(* Steps on the table.                                                     *)
(***************************************************************************)

LEMMA RegisterKeepsDir ==
    ASSUME DirInv, NEW reg \in net, Register(reg)
    PROVE  DirInv'
  <1>. USE DEF DirInv
  <1>. DEFINE e == Registered(reg)
              n == reg.node
  <1>1. reg \in Registration /\ n \in Nodes
    BY DEF TypeOK, Registration
  <1>2. /\ Tracked \in SUBSET Nodes /\ nodes \in [Tracked -> NodeEntry]
        /\ e \in NodeEntry /\ Probed(e) /\ (e.root => n = RootKey)
    BY <1>1, RegisteredEntry DEF TypeOK, Register, RootRoleAllowed, Registered
  <1>3. /\ nodes' = Put(nodes, n, e)
        /\ contact' = [contact EXCEPT ![n] = now]
        /\ n \in Tracked \/ Cardinality(Tracked) < MaxNodes
        /\ disk' = nodes' \/ disk' = disk
        /\ running /\ UNCHANGED << running, now >>
    BY DEF Register, HasRoom, Persist, NodesFree
  <1>4. e.failures = 0 /\ e.missed = 0 /\ e.last_seen = now
    BY DEF Registered
  <1>. HIDE DEF e
  <1>5. /\ Tracked' = Tracked \cup {n} /\ nodes' \in [Tracked' -> NodeEntry]
        /\ nodes'[n] = e /\ \A m \in Tracked \ {n} : nodes'[m] = nodes[m]
    <2>1. /\ DOMAIN Put(nodes, n, e) = Tracked \cup {n}
          /\ Put(nodes, n, e) \in [Tracked \cup {n} -> NodeEntry]
          /\ Put(nodes, n, e)[n] = e
          /\ \A m \in Tracked \ {n} : Put(nodes, n, e)[m] = nodes[m]
      BY <1>1, <1>2 DEF Put, Tracked
    <2>2. Tracked' = DOMAIN nodes'
      BY DEF Tracked
    <2>. QED
      BY <1>3, <2>1, <2>2
  <1>6. Admitted(nodes')
    BY <1>1, <1>2, <1>3, PutAdmitted
  <1>7. Admitted(disk')
    BY <1>3, <1>6
  <1>8. DOMAIN disk' \subseteq Nodes /\ disk' \in [DOMAIN disk' -> NodeEntry]
    BY <1>1, <1>2, <1>3, <1>5 DEF TypeOK, Tracked
  <1>9. checker' = [checker EXCEPT !.cur =
                     { IF p.node = n THEN [p EXCEPT !.current = FALSE]
                       ELSE p : p \in checker.cur }]
    BY DEF Register
  <1>10. /\ checker' \in CheckerType
         /\ checker'.cur = { IF p.node = n THEN [p EXCEPT !.current = FALSE]
                             ELSE p : p \in checker.cur }
    <2>1. \A p \in checker.cur : /\ p \in Probe
                                 /\ [p EXCEPT !.current = FALSE] \in Probe
      BY DEF TypeOK, Probe
    <2>. QED
      BY <1>9, <2>1 DEF TypeOK, CheckerType
  <1>11. TypeOK'
    <2>1. /\ net' \subseteq Registration /\ contact' \in [Nodes -> Nat]
          /\ UNCHANGED << now, up, addr, running, providers, announcing, moves >>
      BY <1>1, <1>3 DEF TypeOK, Register, nodeVars
    <2>. QED
      BY <1>1, <1>2, <1>5, <1>8, <1>10, <2>1 DEF TypeOK, CheckerType
  <1>12. Overtaken'
    <2>. SUFFICES ASSUME NEW p \in checker'.cur,
                         p.node \in Tracked', ~p.current
                  PROVE  nodes'[p.node].failures =< nodes'[p.node].missed
      BY DEF Overtaken
    <2>1. CASE p.node = n
      BY <1>4, <1>5, <2>1
    <2>2. CASE p.node # n
      <3>1. PICK q \in checker.cur :
               p = IF q.node = n THEN [q EXCEPT !.current = FALSE] ELSE q
        BY <1>10
      <3>2. q \in Probe
        BY DEF TypeOK
      <3>3. p = q
        BY <2>2, <3>1, <3>2 DEF Probe
      <3>4. p.node \in Tracked \ {n}
        BY <1>5, <2>2
      <3>. QED
        BY <1>5, <3>3, <3>4 DEF Overtaken
    <2>. QED
      BY <2>1, <2>2
  <1>13. SeenAtContact'
    <2>. SUFFICES ASSUME NEW m \in Tracked'
                  PROVE  nodes'[m].last_seen = contact'[m]
      BY DEF SeenAtContact
    <2>1. m \in Nodes /\ contact \in [Nodes -> Nat]
      BY <1>1, <1>2, <1>5 DEF TypeOK
    <2>2. CASE m = n
      BY <1>3, <1>4, <1>5, <2>1, <2>2
    <2>3. CASE m # n
      BY <1>3, <1>5, <2>1, <2>3 DEF SeenAtContact
    <2>. QED
      BY <2>2, <2>3
  <1>14. DownIsIdle'
    BY <1>3 DEF DownIsIdle
  <1>. QED
    BY <1>6, <1>7, <1>11, <1>12, <1>13, <1>14

LEMMA PruneKeepsDir ==
    ASSUME DirInv, PruneNodes \/ PruneProviders
    PROVE  DirInv'
  <1>. USE DEF DirInv
  <1>1. CASE PruneNodes
    <2>. DEFINE stale == { n \in Tracked : IsStale(n) }
    <2>1. /\ nodes' = [n \in Tracked \ stale |-> nodes[n]]
          /\ checker' = [checker EXCEPT !.pc = AfterPrune(stale), !.stale = stale]
          /\ running
          /\ UNCHANGED << now, up, addr, net, running, providers, disk,
                          announcing, moves, contact >>
      BY <1>1 DEF PruneNodes, nodeVars
    <2>2. stale \subseteq Nodes /\ AfterPrune(stale) \in CheckerStates
      BY DEF TypeOK, AfterPrune, CheckerStates
    <2>. HIDE DEF stale
    <2>3. Tracked' = Tracked \ stale /\ nodes' \in [Tracked' -> NodeEntry]
          /\ \A n \in Tracked' : nodes'[n] = nodes[n]
      BY <2>1 DEF TypeOK, Tracked
    <2>4. Admitted(nodes') /\ Admitted(disk')
      BY <2>1, FewerAdmitted DEF TypeOK
    <2>5. checker' \in CheckerType /\ checker'.cur = checker.cur
      BY <2>1, <2>2 DEF TypeOK, CheckerType
    <2>6. TypeOK'
      BY <2>1, <2>3, <2>5 DEF TypeOK, CheckerType
    <2>7. Overtaken' /\ SeenAtContact' /\ DownIsIdle'
      BY <2>1, <2>3, <2>5 DEF Overtaken, SeenAtContact, DownIsIdle
    <2>. QED
      BY <2>4, <2>6, <2>7
  <1>2. CASE PruneProviders
    <2>1. /\ checker' = [checker EXCEPT !.pc = "list", !.stale = {}]
          /\ disk' = nodes \/ disk' = disk
          /\ providers' \subseteq providers
          /\ running
          /\ UNCHANGED << now, up, addr, net, running, nodes, announcing,
                          moves, contact >>
      BY <1>2 DEF PruneProviders, Persist, nodeVars
    <2>2. checker' \in CheckerType /\ checker'.cur = checker.cur
      BY <2>1 DEF TypeOK, CheckerType, CheckerStates
    <2>3. DOMAIN disk' \subseteq Nodes /\ disk' \in [DOMAIN disk' -> NodeEntry]
      BY <2>1 DEF TypeOK, Tracked
    <2>4. TypeOK'
      BY <2>1, <2>2, <2>3 DEF TypeOK, CheckerType, Tracked
    <2>5. Admitted(nodes') /\ Admitted(disk')
      BY <2>1
    <2>6. Overtaken' /\ SeenAtContact' /\ DownIsIdle'
      BY <2>1, <2>2 DEF Overtaken, SeenAtContact, DownIsIdle, Tracked
    <2>. QED
      BY <2>4, <2>5, <2>6
  <1>. QED
    BY <1>1, <1>2


LEMMA MarkKeepsDir ==
    ASSUME DirInv, Mark PROVE DirInv'
  <1>1. PICK p \in checker.cur :
          \E ok \in Outcomes(p.addr) :
            /\ nodes' = IF p.node \in Tracked
                        THEN Put(nodes, p.node, Marked(nodes[p.node], p, ok))
                        ELSE nodes
            /\ contact' = IF ok THEN [contact EXCEPT ![p.node] = now]
                          ELSE contact
    BY Zenon DEF Mark
  <1>2. PICK ok \in Outcomes(p.addr) :
          /\ nodes' = IF p.node \in Tracked
                      THEN Put(nodes, p.node, Marked(nodes[p.node], p, ok))
                      ELSE nodes
          /\ contact' = IF ok THEN [contact EXCEPT ![p.node] = now]
                        ELSE contact
    BY <1>1
  <1>. USE DEF DirInv
  <1>3. p \in Probe /\ p.node \in Nodes /\ ok \in BOOLEAN
    BY <1>2 DEF TypeOK, Probe, Outcomes, Answers
  <1>4. /\ checker' = [checker EXCEPT !.pc = "pick", !.cur = {}]
        /\ running
        /\ UNCHANGED << now, up, addr, net, running, providers, disk,
                        announcing, moves >>
    BY DEF Mark, NodesFree, nodeVars
  <1>5. checker' \in CheckerType /\ checker'.cur = {}
    BY <1>4 DEF TypeOK, CheckerType, CheckerStates
  <1>6. contact' \in [Nodes -> Nat]
    BY <1>2, <1>3 DEF TypeOK
  <1>7. Admitted(disk') /\ Overtaken' /\ DownIsIdle'
    BY <1>4, <1>5 DEF Overtaken, DownIsIdle
  <1>8. CASE p.node \notin Tracked
    <2>1. Tracked' = Tracked /\ nodes' = nodes
      BY <1>2, <1>8 DEF Tracked
    <2>2. TypeOK'
      BY <1>4, <1>5, <1>6, <2>1 DEF TypeOK, CheckerType
    <2>3. SeenAtContact'
      BY <1>2, <1>3, <1>4, <1>8, <2>1 DEF SeenAtContact, TypeOK
    <2>. QED
      BY <1>7, <2>1, <2>2, <2>3
  <1>9. CASE p.node \in Tracked
    <2>. DEFINE n == p.node
                e == Marked(nodes[n], p, ok)
    <2>1. Tracked \in SUBSET Nodes /\ nodes \in [Tracked -> NodeEntry]
      BY DEF TypeOK
    <2>2. /\ nodes[n] \in NodeEntry /\ Probed(nodes[n])
          /\ ~p.current => nodes[n].failures =< nodes[n].missed
          /\ nodes[n].root => n = RootKey
      BY <1>3, <1>9, <2>1 DEF Admitted, Overtaken, Tracked
    <2>3. /\ e \in NodeEntry /\ Probed(e) /\ e.root = nodes[n].root
          /\ e.last_seen = IF ok THEN now ELSE nodes[n].last_seen
      BY <1>3, <2>2, MarkedEntry
    <2>4. nodes' = Put(nodes, n, e)
      BY <1>2, <1>9
    <2>. HIDE DEF e
    <2>5. /\ DOMAIN Put(nodes, n, e) = Tracked \cup {n}
          /\ Put(nodes, n, e) \in [Tracked \cup {n} -> NodeEntry]
          /\ Put(nodes, n, e)[n] = e
          /\ \A m \in Tracked \ {n} : Put(nodes, n, e)[m] = nodes[m]
      BY <1>3, <2>1, <2>3 DEF Put, Tracked
    <2>6. Tracked' = DOMAIN nodes' /\ Tracked \cup {n} = Tracked
      BY <1>9 DEF Tracked
    <2>7. /\ Tracked' = Tracked /\ nodes' \in [Tracked' -> NodeEntry]
          /\ nodes'[n] = e /\ \A m \in Tracked \ {n} : nodes'[m] = nodes[m]
      BY <2>4, <2>5, <2>6
    <2>8. Admitted(nodes')
      BY <1>3, <1>9, <2>1, <2>2, <2>3, <2>4, PutAdmitted
    <2>9. TypeOK'
      BY <1>4, <1>5, <1>6, <2>1, <2>7 DEF TypeOK, CheckerType
    <2>10. SeenAtContact'
      <3>. SUFFICES ASSUME NEW m \in Tracked
                    PROVE  nodes'[m].last_seen = contact'[m]
        BY <2>7 DEF SeenAtContact
      <3>1. nodes[m].last_seen = contact[m] /\ contact \in [Nodes -> Nat]
            /\ m \in Nodes
        BY <1>4, <2>1 DEF SeenAtContact, TypeOK
      <3>2. CASE m = n
        BY <1>2, <1>3, <2>3, <2>7, <3>1, <3>2
      <3>3. CASE m # n
        BY <1>2, <1>3, <2>7, <3>1, <3>3
      <3>. QED
        BY <3>2, <3>3
    <2>. QED
      BY <1>7, <2>8, <2>9, <2>10
  <1>. QED
    BY <1>8, <1>9

LEMMA RestartKeepsDir ==
    ASSUME DirInv, Crash \/ WithPersistence PROVE DirInv'
  <1>. USE DEF DirInv
  <1>1. CASE Crash
    <2>1. /\ nodes' = NoTable /\ checker' = Idle /\ running' = FALSE
          /\ moves' \in Nat /\ providers' = {} /\ announcing' = {}
          /\ UNCHANGED << now, up, addr, net, disk, contact >>
      BY <1>1 DEF Crash, TypeOK, nodeVars
    <2>2. Idle \in CheckerType /\ Idle.cur = {}
      BY DEF Idle, CheckerType, CheckerStates
    <2>3. Tracked' = {} /\ nodes' \in [Tracked' -> NodeEntry]
      BY <2>1, NoTableIsEmpty DEF Tracked
    <2>4. TypeOK'
      BY <2>1, <2>2, <2>3 DEF TypeOK, CheckerType
    <2>5. Admitted(nodes') /\ Admitted(disk')
      BY <2>1, NoTableIsEmpty
    <2>6. DownIsIdle' /\ Overtaken' /\ SeenAtContact'
      BY <2>1, <2>2 DEF DownIsIdle, Overtaken, SeenAtContact
    <2>. QED
      BY <2>4, <2>5, <2>6
  <1>2. CASE WithPersistence
    <2>1. /\ running' = TRUE /\ nodes' = disk /\ checker = Idle
          /\ contact' = [n \in Nodes |-> IF n \in DOMAIN disk
                                         THEN disk[n].last_seen ELSE 0]
          /\ UNCHANGED << now, up, addr, net, disk, checker, providers,
                          announcing, moves >>
      BY <1>2 DEF WithPersistence, nodeVars, DownIsIdle
    <2>2. Tracked' = DOMAIN disk /\ nodes' \in [Tracked' -> NodeEntry]
          /\ DOMAIN disk \subseteq Nodes
      BY <2>1 DEF TypeOK, Tracked
    <2>3. contact' \in [Nodes -> Nat]
      BY <2>1 DEF TypeOK, NodeEntry
    <2>4. TypeOK'
      BY <2>1, <2>2, <2>3 DEF TypeOK
    <2>5. Admitted(nodes') /\ Admitted(disk')
      BY <2>1
    <2>6. DownIsIdle' /\ Overtaken' /\ SeenAtContact'
      BY <2>1, <2>2 DEF DownIsIdle, Overtaken, SeenAtContact, Idle
    <2>. QED
      BY <2>4, <2>5, <2>6
  <1>. QED
    BY <1>1, <1>2

LEMMA NextKeepsDir == DirInv /\ [Next]_vars => DirInv'
  <1>. SUFFICES ASSUME DirInv, [Next]_vars PROVE DirInv'
    OBVIOUS
  <1>1. ASSUME NEW n \in Nodes, NEW root \in BOOLEAN,
               SendRegistration(n, root) \/ Stop(n) \/ Start(n)
        PROVE  DirInv'
    BY <1>1, NodesKeepDir
  <1>2. ASSUME NEW reg \in net, LoseRegistration(reg) \/ Handle(reg)
        PROVE  DirInv'
    BY <1>2, NetKeepsDir, RegisterKeepsDir DEF Handle
  <1>3. ASSUME NEW n \in Nodes, NEW b \in Blocks,
               AnnounceLookup(n, b) \/ AnnounceInsert(n, b)
        PROVE  DirInv'
    BY <1>3, AnnouncingKeepsDir
  <1>4. CASE HealthCheckLoop
    BY <1>4, PruneKeepsDir, RoundKeepsDir, MarkKeepsDir DEF HealthCheckLoop
  <1>5. CASE Crash \/ WithPersistence
    BY <1>5, RestartKeepsDir
  <1>6. CASE Tick
    BY <1>6, TickKeepsDir
  <1>7. CASE UNCHANGED vars
    <2>1. TypeOK'
      BY <1>7 DEF vars, nodeVars, DirInv, TypeOK, Tracked
    <2>. QED
      BY <1>7, <2>1, QuietKeepsDir DEF vars, QuietStep
  <1>. QED
    BY <1>1, <1>2, <1>3, <1>4, <1>5, <1>6, <1>7 DEF Next

-----------------------------------------------------------------------------
(***************************************************************************)
(* The theorems.                                                           *)
(***************************************************************************)

\* The invariant all of them rest on: the table, in memory and in the file,
\* stays within what register admits, and each node's last_seen is its latest
\* contact (register, mark, prune_stale, persist, with_persistence).
THEOREM DirectoryHolds == Spec => []DirInv
  <1>. QED
    BY InitDir, NextKeepsDir, PTL DEF Spec

\* mark takes a node out of listings and answers only after two failed probes
\* that began after its latest registration, however probes and registrations
\* overtake each other and whether or not the directory restarts in between.
THEOREM OfflineIsEarned == Spec => []OfflineNeedsProbes
  <1>1. DirInv => OfflineNeedsProbes
    <2>. SUFFICES ASSUME DirInv, NEW n \in Tracked,
                         nodes[n].status = "offline"
                  PROVE  nodes[n].missed >= MaxFailures - 1
      BY DEF OfflineNeedsProbes
    <2>1. nodes[n] \in NodeEntry /\ Probed(nodes[n])
      BY DEF DirInv, TypeOK, Admitted, Tracked
    <2>. QED
      BY <2>1 DEF Probed, NodeEntry, MaxFailures
  <1>. QED
    BY <1>1, DirectoryHolds, PTL

\* prune_stale never takes out a node that registered or answered within
\* STALE_NODE_MAX_AGE of the running directory.
THEOREM SeenStayTracked == Spec => SeenNodesKept
  <1>. DEFINE KeepSeen ==
         running /\ running' =>
           \A n \in Tracked \ DOMAIN nodes' : now - contact[n] > MaxAge
  <1>1. DirInv /\ [Next]_vars => KeepSeen
    <2>. SUFFICES ASSUME DirInv, [Next]_vars, running, running',
                         NEW n \in Tracked, n \notin DOMAIN nodes'
                  PROVE  now - contact[n] > MaxAge
      OBVIOUS
    <2>1. nodes' # nodes
      BY DEF Tracked
    <2>2. CASE PruneNodes
      BY <2>2 DEF PruneNodes, IsStale, DirInv, SeenAtContact
    <2>3. ASSUME NEW reg \in net, Register(reg) PROVE FALSE
      BY <2>3 DEF Register, Put, Tracked
    <2>4. CASE Mark
      BY <2>4, <2>1 DEF Mark, Put, Tracked
    <2>5. ~Crash /\ ~WithPersistence
      BY DEF Crash, WithPersistence
    <2>. QED
      BY <2>1, <2>2, <2>3, <2>4, <2>5
      DEF Next, SendRegistration, Stop, Start, LoseRegistration, Handle, Refuse,
          AnnounceLookup, AnnounceInsert, HealthCheckLoop, PruneProviders,
          ListNodes, StartProbe, EndRound, Tick, vars
  <1>2. Spec => [][KeepSeen]_vars
    BY <1>1, DirectoryHolds, PTL DEF Spec
  <1>. QED
    BY <1>2 DEF SeenNodesKept


SameTable == DOMAIN disk = Tracked /\ \A n \in Tracked : disk[n].addr = nodes[n].addr

Mirrored == NodesFree => SameTable

LEMMA NextKeepsMirrored ==
    ASSUME "persist" \notin Faults, DirInv, Mirrored, [Next]_vars
    PROVE  Mirrored'
  <1>. SUFFICES ASSUME NodesFree' PROVE SameTable'
    BY DEF Mirrored
  <1>1. ASSUME UNCHANGED << nodes, disk >>, NodesFree PROVE SameTable'
    BY <1>1 DEF Mirrored, SameTable, Tracked
  <1>2. ASSUME disk' = nodes' PROVE SameTable'
    BY <1>2 DEF SameTable, Tracked
  <1>3. ASSUME NEW n \in Nodes, NEW root \in BOOLEAN,
               SendRegistration(n, root) \/ Stop(n) \/ Start(n)
        PROVE  SameTable'
    BY <1>1, <1>3 DEF SendRegistration, Stop, Start, NodesFree
  <1>4. ASSUME NEW reg \in net, LoseRegistration(reg) \/ Refuse(reg)
        PROVE  SameTable'
    BY <1>1, <1>4 DEF LoseRegistration, Refuse, NodesFree
  <1>5. ASSUME NEW reg \in net, Register(reg) PROVE SameTable'
    BY <1>2, <1>5 DEF Register, Persist
  <1>6. ASSUME NEW n \in Nodes, NEW b \in Blocks,
               AnnounceLookup(n, b) \/ AnnounceInsert(n, b)
        PROVE  SameTable'
    BY <1>1, <1>6 DEF AnnounceLookup, AnnounceInsert, NodesFree
  <1>7. CASE PruneNodes
    <2>. DEFINE stale == { n \in Tracked : IsStale(n) }
    <2>1. /\ nodes' = [n \in Tracked \ stale |-> nodes[n]]
          /\ checker' = [checker EXCEPT !.pc = AfterPrune(stale), !.stale = stale]
          /\ running /\ checker.pc = "prune" /\ disk' = disk
      BY <1>7 DEF PruneNodes, MayPrune
    <2>. HIDE DEF stale
    <2>2. checker'.pc = AfterPrune(stale)
      BY <2>1 DEF DirInv, TypeOK
    <2>3. stale = {}
      BY <2>2 DEF NodesFree, AfterPrune
    <2>4. SameTable
      BY <2>1 DEF NodesFree, Mirrored
    <2>. QED
      BY <2>1, <2>3, <2>4 DEF SameTable, Tracked
  <1>8. CASE PruneProviders
    BY <1>2, <1>8 DEF PruneProviders, Persist
  <1>9. CASE ListNodes \/ StartProbe \/ EndRound
    BY <1>1, <1>9 DEF ListNodes, StartProbe, EndRound, NodesFree
  <1>10. CASE Mark
    <2>1. SameTable /\ disk' = disk
      BY <1>10 DEF Mark, Mirrored
    <2>2. CASE nodes' = nodes
      BY <2>1, <2>2 DEF SameTable, Tracked
    <2>3. CASE nodes' # nodes
      <3>1. PICK p \in checker.cur :
              \E ok \in Outcomes(p.addr) :
                 nodes' = IF p.node \in Tracked
                          THEN Put(nodes, p.node, Marked(nodes[p.node], p, ok))
                          ELSE nodes
        BY <1>10, Zenon DEF Mark
      <3>2. PICK ok \in Outcomes(p.addr) :
              nodes' = IF p.node \in Tracked
                       THEN Put(nodes, p.node, Marked(nodes[p.node], p, ok))
                       ELSE nodes
        BY <3>1
      <3>3. p.node \in Tracked /\ nodes[p.node] \in NodeEntry
        BY <2>3, <3>2 DEF DirInv, TypeOK
      <3>. DEFINE e == Marked(nodes[p.node], p, ok)
      <3>4. e.addr = nodes[p.node].addr
        BY <3>3 DEF Marked, NodeEntry
      <3>5. nodes' = Put(nodes, p.node, e)
        BY <3>2, <3>3
      <3>. HIDE DEF e
      <3>. QED
        BY <2>1, <3>3, <3>4, <3>5 DEF SameTable, Tracked, Put
    <2>. QED
      BY <2>2, <2>3
  <1>11. CASE Crash
    BY <1>11 DEF Crash, NodesFree
  <1>12. CASE WithPersistence
    BY <1>2, <1>12 DEF WithPersistence
  <1>13. CASE Tick \/ UNCHANGED vars
    BY <1>1, <1>13 DEF Tick, vars, NodesFree
  <1>. QED
    BY <1>3, <1>4, <1>5, <1>6, <1>7, <1>8, <1>9, <1>10, <1>11, <1>12, <1>13
    DEF Next, Handle, HealthCheckLoop

\* With every write of the snapshot going through, a directory that is not
\* halfway through a prune may crash and lose no registration, and bring no
\* pruned node back; and what it comes back with is within its cap and gives
\* the root role to the root key alone, though with_persistence checks neither.
THEOREM SnapshotIsTheTable ==
    ASSUME "persist" \notin Faults
    PROVE  Spec => []SnapshotHasTheTable
  <1>1. Init => Mirrored
    BY DEF Init, Mirrored, SameTable, Tracked
  <1>2. DirInv /\ Mirrored /\ [Next]_vars => Mirrored'
    BY NextKeepsMirrored
  <1>3. DirInv /\ Mirrored => SnapshotHasTheTable
    BY DEF DirInv, Mirrored, SameTable, Admitted, SnapshotHasTheTable
  <1>. QED
    BY <1>1, <1>2, <1>3, DirectoryHolds, PTL DEF Spec

-----------------------------------------------------------------------------
(***************************************************************************)
(* The name servers.                                                       *)
(***************************************************************************)

\* A zone in memory was stored first, and stays stored.
ZoneInv ==
    /\ zone \in BOOLEAN /\ cached \in BOOLEAN
    /\ zone => cached
    /\ task \in [Tasks -> Task]

\* No task was looked up and forwarded though its name is Federate and a zone
\* was at hand.
StaysHome ==
    \A t \in Tasks :
       /\ task[t].phase = "lookup"
       /\ task'[t] = [phase |-> "forward", query |-> "federate"]
       => ~cached

LEMMA InitZone == InitNames => ZoneInv
  BY DEF InitNames, InitServer, ZoneInv, Task

\* A step that sets one task and leaves the zone alone.
LEMMA OneTaskKeepsZone ==
    ASSUME ZoneInv, UNCHANGED << zone, cached >>, NEW t \in Tasks,
           NEW v \in Task, task' = [task EXCEPT ![t] = v],
           task[t].phase # "lookup"
    PROVE  ZoneInv' /\ StaysHome
  <1>1. \A s \in Tasks : task'[s] = IF s = t THEN v ELSE task[s]
    BY DEF ZoneInv
  <1>2. \A s \in Tasks : task[s].phase = "lookup" =>
            task[s] # [phase |-> "forward", query |-> "federate"]
    OBVIOUS
  <1>. QED
    BY <1>1, <1>2 DEF ZoneInv, StaysHome

\* The task set to a phase keeps its query.
LEMMA BecomesTask ==
    ASSUME ZoneInv, NEW t \in Tasks, NEW phase \in Phases, task[t] # NoTask,
           Becomes(t, phase)
    PROVE  /\ task' = [task EXCEPT ![t] = [phase |-> phase,
                                           query |-> task[t].query]]
           /\ [phase |-> phase, query |-> task[t].query] \in Task
  <1>1. task[t] \in [phase : Phases, query : Query]
    BY DEF ZoneInv, Task
  <1>2. [task[t] EXCEPT !.phase = phase] = [phase |-> phase,
                                            query |-> task[t].query]
    BY <1>1
  <1>3. task' = [task EXCEPT ![t] = [task[t] EXCEPT !.phase = phase]]
    BY DEF Becomes
  <1>. QED
    BY <1>1, <1>2, <1>3 DEF Task

LEMMA RefreshKeepsZone ==
    ASSUME ZoneInv, RefreshRoot
    PROVE  /\ zone' \in BOOLEAN /\ cached' \in BOOLEAN
           /\ zone' => cached'
           /\ cached => zone' /\ cached'
  BY DEF ZoneInv, RefreshRoot, CacheAnswers

LEMMA LookupStaysHome ==
    ASSUME ZoneInv, NEW t \in Tasks, Lookup(t)
    PROVE  ZoneInv' /\ StaysHome
  <1>1. task[t].phase = "lookup" /\ task[t] # NoTask
    BY DEF Lookup, NoTask
  <1>2. /\ zone' \in BOOLEAN /\ cached' \in BOOLEAN
        /\ zone' => cached'
        /\ cached => zone'
    BY RefreshKeepsZone DEF Lookup, ZoneInv
  <1>. DEFINE ph == IF zone' /\ task[t].query = "federate" THEN "federate"
                    ELSE "forward"
              v == [phase |-> ph, query |-> task[t].query]
  <1>3. ph \in Phases /\ Becomes(t, ph)
    BY DEF Lookup, Phases
  <1>. HIDE DEF ph
  <1>4. task' = [task EXCEPT ![t] = v] /\ v \in Task
    BY <1>1, <1>3, BecomesTask
  <1>5. ZoneInv'
    BY <1>2, <1>4 DEF ZoneInv
  <1>6. ASSUME NEW s \in Tasks, task[s].phase = "lookup",
               task'[s] = [phase |-> "forward", query |-> "federate"], cached
        PROVE  FALSE
    <2>1. s = t
      BY <1>4, <1>6 DEF ZoneInv
    <2>2. ph = "forward" /\ task[t].query = "federate"
      BY <1>4, <1>6, <2>1 DEF ZoneInv
    <2>. QED
      BY <1>2, <1>6, <2>2 DEF ph
  <1>. QED
    BY <1>5, <1>6 DEF StaysHome

LEMMA PhasesOfSteps ==
    /\ \A ph \in {"reading", "writing", "lookup", "permit"} : ph \in Phases
    /\ NoTask \in Task
    /\ NoTask.phase # "lookup"
  BY DEF Phases, Task, NoTask

LEMMA OtherStepsKeepZone ==
    ASSUME ZoneInv, NEW t \in Tasks, NEW query \in Query,
           \/ ReceivePacket(t, query) \/ ReadQuery(t, query)
           \/ CloseConnection(t) \/ Written(t) \/ Admit(t)
           \/ AnswerFederate(t) \/ AnswerForwarded(t) \/ AcceptConnection(t)
    PROVE  ZoneInv' /\ StaysHome
  <1>. USE PhasesOfSteps
  <1>1. CASE ReceivePacket(t, query)
    <2>1. [phase |-> "permit", query |-> query] \in Task
      BY DEF Task
    <2>. QED
      BY <1>1, <2>1, OneTaskKeepsZone DEF ReceivePacket
  <1>2. CASE ReadQuery(t, query)
    <2>1. [phase |-> "lookup", query |-> query] \in Task
      BY DEF Task
    <2>. QED
      BY <1>2, <2>1, OneTaskKeepsZone DEF ReadQuery
  <1>3. CASE CloseConnection(t)
    BY <1>3, OneTaskKeepsZone DEF CloseConnection, Ends
  <1>4. ASSUME NEW ph \in Phases, Becomes(t, ph), task[t] # NoTask,
               task[t].phase # "lookup", UNCHANGED << zone, cached >>
        PROVE  ZoneInv' /\ StaysHome
    BY <1>4, BecomesTask, OneTaskKeepsZone
  <1>5. ASSUME Ends(t), task[t].phase # "lookup", UNCHANGED << zone, cached >>
        PROVE  ZoneInv' /\ StaysHome
    BY <1>5, OneTaskKeepsZone DEF Ends
  <1>6. CASE Written(t)
    BY <1>4, <1>5, <1>6 DEF Written, NoTask
  <1>7. CASE Admit(t)
    BY <1>4, <1>7 DEF Admit, NoTask
  <1>8. CASE AnswerFederate(t) \/ AnswerForwarded(t)
    BY <1>4, <1>5, <1>8 DEF AnswerFederate, AnswerForwarded, Reply, NoTask
  <1>9. CASE AcceptConnection(t)
    <2>1. [task[t] EXCEPT !.phase = "permit"] = [phase |-> "permit",
                                                 query |-> "other"]
          /\ task[t].phase = "none"
      BY <1>9 DEF AcceptConnection, NoTask
    <2>2. task' = [task EXCEPT ![t] = [task[t] EXCEPT !.phase = "permit"]]
      BY <1>9 DEF AcceptConnection, Becomes
    <2>3. [phase |-> "permit", query |-> "other"] \in Task
      BY DEF Task, Query
    <2>4. UNCHANGED << zone, cached >>
      BY <1>9 DEF AcceptConnection
    <2>. QED
      BY <2>1, <2>2, <2>3, <2>4, OneTaskKeepsZone
  <1>. QED
    BY <1>1, <1>2, <1>3, <1>6, <1>7, <1>8, <1>9

LEMMA NextKeepsZone ==
    ASSUME ZoneInv, [NextNames]_allVars
    PROVE  ZoneInv' /\ StaysHome
  <1>1. CASE UNCHANGED serverVars
    <2>1. ZoneInv' /\ UNCHANGED task
      BY <1>1 DEF serverVars, ZoneInv
    <2>. QED
      BY <2>1 DEF StaysHome
  <1>2. CASE NextServer
    <2>0. Query # {} /\ Udp \subseteq Tasks /\ Tcp \subseteq Tasks
      BY DEF Query, Tasks
    <2>1. CASE \E t \in Tasks : Lookup(t)
      BY <2>1, LookupStaysHome
    <2>2. CASE RefreshZone
      <3>1. ZoneInv' /\ UNCHANGED task
        BY <2>2, RefreshKeepsZone DEF RefreshZone, ZoneInv
      <3>. QED
        BY <3>1 DEF StaysHome
    <2>3. CASE RefreshGateways
      BY <2>3 DEF RefreshGateways, ZoneInv, StaysHome
    <2>4. CASE RestartServer
      BY <2>4, PhasesOfSteps DEF RestartServer, ZoneInv, StaysHome, NoTask
    <2>. QED
      BY <1>2, <2>0, <2>1, <2>2, <2>3, <2>4, OtherStepsKeepZone
      DEF NextServer, Progress
  <1>. QED
    BY <1>1, <1>2 DEF NextNames, allVars

\* The zone in memory has always been stored first.
THEOREM ZoneIsStored == SpecNames => []ZoneInv
  <1>1. ZoneInv /\ [NextNames]_allVars => ZoneInv'
    BY NextKeepsZone
  <1>. QED
    BY InitZone, <1>1, PTL DEF SpecNames

\* From the first verified zone that was stored, no query for a Federate name
\* goes upstream, through every failed refresh, restart of the server and
\* state of the directory (is_federate_name, refresh_root).
THEOREM NamesStayHome == SpecNames => FederateStaysHome
  <1>1. ZoneInv /\ [NextNames]_allVars => StaysHome
    BY NextKeepsZone
  <1>2. SpecNames => [][StaysHome]_allVars
    BY <1>1, ZoneIsStored, PTL DEF SpecNames
  <1>. QED
    BY <1>2 DEF FederateStaysHome, StaysHome
=============================================================================
