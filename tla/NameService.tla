---------------------------- MODULE NameService ----------------------------
(***************************************************************************)
(* The Federate DNS server (federate-dns, federate-dnsd) beside the node   *)
(* directory it reads.  Every ten seconds it takes the healthy gateways    *)
(* from the directory; a query for a name under a TLD of the verified root *)
(* zone is answered with their addresses, any other goes to an upstream    *)
(* resolver.  UDP packets and TCP connections have permits of their own.   *)
(*                                                                         *)
(* The nodes of Directory are the gateways.  A query asks either for a     *)
(* Federate name, one under a TLD that every published zone lists, or for  *)
(* another.  Of the resolver only this is kept: whether a verified zone is *)
(* in memory, and whether one is in the disk cache (RootTrust has the      *)
(* rest).                                                                  *)
(***************************************************************************)
EXTENDS Directory

CONSTANTS
    Udp,          \* names for packets in the server
    Tcp,          \* names for connections
    MaxInflight,  \* MAX_INFLIGHT_QUERIES
    MaxTcp,       \* MAX_TCP_CONNECTIONS
    MaxRestarts   \* bound on restarts of the server

ASSUME NameServiceAssumption ==
    /\ Udp \cap Tcp = {}
    /\ MaxInflight \in Nat \ {0}
    /\ MaxTcp \in Nat \ {0}
    /\ MaxRestarts \in Nat

VARIABLES
    gateways,  \* DnsServer.gateways
    zone,      \* Resolver.root holds a verified zone
    cached,    \* the root cache on disk holds one
    task,      \* what the server does for each packet and connection
    restarts

serverVars == << gateways, zone, cached, task, restarts >>

allVars == << vars, serverVars >>

(***************************************************************************)
(* A packet is received, waits for a permit, is looked up and then either  *)
(* answered or forwarded.  A connection waits for a permit and then reads  *)
(* query after query.                                                      *)
(***************************************************************************)
Query == {"federate", "other"}

Phases == {"permit", "reading", "lookup", "federate", "forward", "writing"}

NoTask == [phase |-> "none", query |-> "other"]

Task == {NoTask} \cup [phase : Phases, query : Query]

Tasks == Udp \cup Tcp

Pool(t) == IF t \in Udp THEN Udp ELSE Tcp

Permits(t) == IF t \in Udp THEN MaxInflight ELSE MaxTcp

Holding(pool) == { t \in pool : task[t].phase \notin {"none", "permit"} }

InitServer ==
    /\ gateways = {}
    /\ zone = FALSE
    /\ cached = FALSE
    /\ task = [t \in Tasks |-> NoTask]
    /\ restarts = 0

Becomes(t, phase) == task' = [task EXCEPT ![t].phase = phase]

Ends(t) == task' = [task EXCEPT ![t] = NoTask]

-----------------------------------------------------------------------------
(* The receive loop and the accept loop: each takes one packet or one      *)
(* connection and waits for its permit before it takes the next.           *)

LoopIsFree(pool) == \A t \in pool : task[t].phase # "permit"

\* A packet that does not parse is dropped.
ReceivePacket(t, query) ==
    /\ LoopIsFree(Udp)
    /\ task[t] = NoTask
    /\ task' = [task EXCEPT ![t] = [phase |-> "permit", query |-> query]]
    /\ UNCHANGED << gateways, zone, cached, restarts >>

AcceptConnection(t) ==
    /\ LoopIsFree(Tcp)
    /\ task[t] = NoTask
    /\ Becomes(t, "permit")
    /\ UNCHANGED << gateways, zone, cached, restarts >>

\* (mutant) one pool of permits for both.
HasPermit_Shared(t) == Cardinality(Holding(Tasks)) < MaxInflight

HasPermit(t) == Cardinality(Holding(Pool(t))) < Permits(t)

Admit(t) ==
    /\ task[t].phase = "permit"
    /\ HasPermit(t)
    /\ Becomes(t, IF t \in Udp THEN "lookup" ELSE "reading")
    /\ UNCHANGED << gateways, zone, cached, restarts >>

ReadQuery(t, query) ==
    /\ task[t].phase = "reading"
    /\ task' = [task EXCEPT ![t] = [phase |-> "lookup", query |-> query]]
    /\ UNCHANGED << gateways, zone, cached, restarts >>

\* Closed by the client, a bad length, or TCP_IDLE_TIMEOUT without a query.
CloseConnection(t) ==
    /\ task[t].phase = "reading"
    /\ Ends(t)
    /\ UNCHANGED << gateways, zone, cached, restarts >>

-----------------------------------------------------------------------------
(* Resolver::root and refresh_root: memory, the network, the disk cache.   *)

\* (mutant) a failed fetch does not look into the disk cache.
CacheAnswers_Not == FALSE

CacheAnswers == cached

\* A zone is fetched and stored, or none comes and the disk cache is read.
\* (One that comes and cannot be stored is left out: the file is writable.)
RefreshRoot ==
    \/ zone' = TRUE /\ cached' = TRUE
    \/ zone' = (zone \/ CacheAnswers) /\ UNCHANGED cached

RefreshZone ==
    /\ RefreshRoot
    /\ UNCHANGED << gateways, task, restarts >>

\* is_federate_name: a name is Federate only as far as a zone says so.
Lookup(t) ==
    /\ task[t].phase = "lookup"
    /\ IF zone THEN UNCHANGED << zone, cached >> ELSE RefreshRoot
    /\ Becomes(t, IF zone' /\ task[t].query = "federate" THEN "federate"
                  ELSE "forward")
    /\ UNCHANGED << gateways, restarts >>

\* A UDP reply is one send; a TCP reply waits for the client to take it.
Reply(t) == IF t \in Udp THEN Ends(t) ELSE Becomes(t, "writing")

\* handle_packet: the addresses in gateways, SERVFAIL if an A query has none.
AnswerFederate(t) ==
    /\ task[t].phase = "federate"
    /\ Reply(t)
    /\ UNCHANGED << gateways, zone, cached, restarts >>

\* forward_upstream: the reply with the query's id, or the deadline passes.
AnswerForwarded(t) ==
    /\ task[t].phase = "forward"
    /\ Reply(t)
    /\ UNCHANGED << gateways, zone, cached, restarts >>

\* The client took the reply, or the connection broke; no deadline here.
Written(t) ==
    /\ task[t].phase = "writing"
    /\ Becomes(t, "reading") \/ Ends(t)
    /\ UNCHANGED << gateways, zone, cached, restarts >>

-----------------------------------------------------------------------------
(* The refresh loop and the process.                                       *)

\* list(Some(Gateway), true), as addresses; ips() of an entry may be empty.
Listed == { nodes[n].addr : n \in Healthy }

\* (mutant) an empty list is taken for an error.
RefreshGateways_KeepsLast ==
    /\ NodesFree
    /\ gateways' = IF Listed = {} THEN gateways ELSE Listed
    /\ UNCHANGED << zone, cached, task, restarts >>

\* A list that does not come leaves the gateways as they are.
RefreshGateways ==
    /\ NodesFree
    /\ gateways' = Listed
    /\ UNCHANGED << zone, cached, task, restarts >>

RestartServer ==
    /\ restarts < MaxRestarts
    /\ restarts' = restarts + 1
    /\ gateways' = {}
    /\ zone' = FALSE
    /\ task' = [t \in Tasks |-> NoTask]
    /\ UNCHANGED cached

-----------------------------------------------------------------------------
Progress(t) ==
    Admit(t) \/ Lookup(t) \/ AnswerFederate(t) \/ AnswerForwarded(t)

NextServer ==
    \/ \E t \in Udp, query \in Query : ReceivePacket(t, query)
    \/ \E t \in Tcp : AcceptConnection(t) \/ CloseConnection(t) \/ Written(t)
    \/ \E t \in Tcp, query \in Query : ReadQuery(t, query)
    \/ \E t \in Tasks : Progress(t)
    \/ RefreshZone
    \/ RefreshGateways
    \/ RestartServer

InitNames == Init /\ InitServer

NextNames ==
    \/ Next /\ UNCHANGED serverVars
    \/ NextServer /\ UNCHANGED vars

(***************************************************************************)
(* Fairness.  Tasks are polled to their end and every wait of theirs but   *)
(* the write of a TCP reply has a deadline; a directory that runs is       *)
(* reached again and again.  Clients, and the network to Node 1, owe       *)
(* nothing.                                                                *)
(***************************************************************************)
FairnessNames ==
    /\ Fairness
    /\ \A t \in Tasks : WF_allVars(Progress(t) /\ UNCHANGED vars)
    /\ SF_allVars(RefreshGateways /\ UNCHANGED vars)

SpecNames == InitNames /\ [][NextNames]_allVars /\ FairnessNames

-----------------------------------------------------------------------------

\* The server's state has its shape, no pool gives out more permits than it
\* has, and a zone in memory is also on disk.
ServerTypeOK ==
    /\ gateways \subseteq Addrs
    /\ zone \in BOOLEAN /\ cached \in BOOLEAN
    /\ zone => cached
    /\ task \in [Tasks -> Task]
    /\ \A t \in Tasks : Cardinality(Holding(Pool(t))) <= Permits(t)
    /\ restarts \in 0 .. MaxRestarts

\* Once a zone has been verified and stored, no query for a Federate name is
\* sent to a public resolver, whether Node 1 can be reached or not and however
\* often the server restarts (is_federate_name, refresh_root).
FederateStaysHome ==
    [][ \A t \in Tasks :
           /\ task[t].phase = "lookup"
           /\ task'[t] = [phase |-> "forward", query |-> "federate"]
           => ~cached ]_allVars

\* A packet the server has received gets its reply, with Node 1 and upstream
\* silent and every TCP permit held by clients that read nothing.
PacketsAreAnswered ==
    \A t \in Udp : task[t].phase # "none" ~> task[t].phase = "none"

\* An address is in DNS answers no more, for good, once the node that
\* registered it has stopped for good and nobody else answers there: through
\* lost probes, directory crashes and a restart from an old snapshot.
DeadGatewaysLeaveDns ==
    \A a \in Addrs :
       <>[](running /\ ~Answers(a)) => <>[](a \notin gateways)
=============================================================================
