------------------------------- MODULE Relay -------------------------------
(***************************************************************************)
(* Nodes that ask each other over the native protocol: connection slots,   *)
(* the Hello/Welcome handshake and one request per session                 *)
(* (federate-transport, federate-protocol), the handlers of federate-noded *)
(* and federate-server, and the resolver's provider loop a relaying        *)
(* handler runs (federate-resolution).                                     *)
(*                                                                         *)
(* A call is one connection.  Its client is a user, another call whose     *)
(* handler waits for the answer, or gone; a handler is not cancelled when  *)
(* its client goes.  Providers may relay to each other in a cycle: the     *)
(* configuration and the directory allow it and nothing in a request says  *)
(* how far it has come.  Every send and receive of a client has a          *)
(* deadline, taken here as a step that may come at any time.               *)
(***************************************************************************)
EXTENDS Naturals, Sequences, FiniteSets, FiniteSetsExt

CONSTANTS
    Nodes,
    Kinds,      \* what is asked for: "block", "registry"
    Providers,  \* Providers[n]: the native providers of n, in order
    Versions,   \* Versions[n]: protocol versions n speaks
    Hosts,      \* nodes that serve the registry from their own file
    Forging,    \* nodes whose own copies are wrong
    Slots,      \* MAX_CONNECTIONS
    Calls,      \* bound on connections at one time
    NoCall

User == "user"
Gone == "gone"
SUPPORTED_VERSIONS == {0, 1}  \* a user's

ASSUME RelayAssumption ==
    /\ Kinds \subseteq {"block", "registry"}
    /\ Providers \in [Nodes -> Seq(Nodes)]
    /\ Versions \in [Nodes -> SUBSET {0, 1}]
    /\ Forging \subseteq Hosts
    /\ Hosts \subseteq Nodes
    /\ Slots \in Nat \ {0}
    /\ {NoCall, User, Gone} \cap Calls = {}

VARIABLES
    held,   \* held[n]: the content n has, by kind: genuine, forged or none
    call    \* call[c]: the connection c, or NoCall

vars == << held, call >>

Phases ==
    {"dialed",    \* connected, Hello sent; the server has given it no slot
     "open",      \* it has a slot and the Welcome is on its way
     "asked",     \* the request has arrived
     "fetching",  \* the handler relays: about to try provider number next
     "awaiting",  \* it waits for that provider's answer
     "answered"}  \* the answer is on its way; the session awaits a request

CallRecord ==
    [node : Nodes, kind : Kinds, client : Calls \cup {User, Gone},
     phase : Phases, next : Nat \ {0},
     answer : {"none", "genuine", "forged", "error"}]

ASSUME NoCallAssumption == NoCall \notin CallRecord

Dialing(n, k, client) ==
    [node |-> n, kind |-> k, client |-> client, phase |-> "dialed",
     next |-> 1, answer |-> "none"]

Live == {c \in Calls : call[c] # NoCall}

SomeFree == Live # Calls

Free == CHOOSE c \in Calls : call[c] = NoCall

In(c, phase) == c \in Live /\ call[c].phase = phase

HasSlot(c) == c \in Live /\ call[c].phase # "dialed"

SlotFree(n) == Cardinality({c \in Calls : HasSlot(c) /\ call[c].node = n}) < Slots

\* The versions a call's client speaks.
Speaks(c) ==
    IF call[c].client \in Live THEN Versions[call[call[c].client].node]
    ELSE SUPPORTED_VERSIONS

Shared(c) == Versions[call[c].node] \cap Speaks(c)

negotiate(c) == Max(Shared(c))

Init ==
    /\ held \in [Nodes -> [Kinds -> {"none", "genuine", "forged"}]]
    /\ \A n \in Nodes, k \in Kinds :
           /\ held[n][k] = "forged" <=> n \in Forging
           /\ n \in Hosts => held[n][k] # "none"
    /\ call = [c \in Calls |-> NoCall]

Becomes(c, phase) == call' = [call EXCEPT ![c].phase = phase]

-----------------------------------------------------------------------------
(* The serving side. *)

\* One user waits at a time.
Ask(n, k) ==
    /\ SomeFree
    /\ \A d \in Live : call[d].client # User
    /\ call' = [call EXCEPT ![Free] = Dialing(n, k, User)]
    /\ UNCHANGED held

\* serve: accept, wait for a permit, then the handshake.  With its client gone
\* the session ends at its next read.
Accept(c) ==
    /\ In(c, "dialed")
    /\ SlotFree(call[c].node)
    /\ IF call[c].client = Gone THEN call' = [call EXCEPT ![c] = NoCall]
       ELSE Becomes(c, "open")
    /\ UNCHANGED held

\* The answer goes out, or nobody is left to take it.
Answers(c, answer) ==
    [call EXCEPT ![c] =
        IF @.client = Gone THEN NoCall
        ELSE [@ EXCEPT !.phase = "answered", !.answer = answer]]

\* A block the node holds or a registry it hosts; a registry it only has a copy
\* of is fetched anew.
HasOwn(n, k) ==
    /\ held[n][k] # "none"
    /\ k = "registry" => n \in Hosts

\* NativeService::handle: what it has, else its relay.
Handle(c) ==
    LET n == call[c].node
    IN  /\ In(c, "asked")
        /\ IF HasOwn(n, call[c].kind)
           THEN call' = Answers(c, held[n][call[c].kind])
           ELSE Becomes(c, "fetching")
        /\ UNCHANGED held

-----------------------------------------------------------------------------
(* The asking side: the resolver's loop in a relaying handler. *)

Trying(c) == call[c].next <= Len(Providers[call[c].node])

Dial(c) ==
    /\ In(c, "fetching")
    /\ Trying(c)
    /\ SomeFree
    /\ call' = [call EXCEPT
                   ![c].phase = "awaiting",
                   ![Free] = Dialing(Providers[call[c].node][call[c].next],
                                     call[c].kind, c)]
    /\ UNCHANGED held

DialFails(c) ==
    /\ In(c, "fetching")
    /\ Trying(c)
    /\ call' = [call EXCEPT ![c].next = @ + 1]
    /\ UNCHANGED held

\* What is left of d once its client has closed the connection: a handler runs
\* on, and a connection nobody has accepted stays in the backlog.
Closed(d) ==
    IF call[d].phase \in {"open", "answered"} THEN NoCall
    ELSE [call[d] EXCEPT !.client = Gone]

\* (mutant) it tries the same provider again.
Leave_SameProvider(d) ==
    LET c == call[d].client
    IN  IF c = User THEN [call EXCEPT ![d] = Closed(d)]
        ELSE [call EXCEPT ![d] = Closed(d), ![c].phase = "fetching"]

\* The client of d stops waiting; a relaying handler tries its next provider.
Leave(d) ==
    LET c == call[d].client
    IN  IF c = User THEN [call EXCEPT ![d] = Closed(d)]
        ELSE [call EXCEPT ![d] = Closed(d),
                          ![c].phase = "fetching",
                          ![c].next = @ + 1]

Waiting(d) == d \in Live /\ call[d].client # Gone

\* Without a shared version the Welcome is an Error; a v0 session has no
\* registry messages (fetch_registry_native).
MayAsk(d) ==
    /\ Shared(d) # {}
    /\ call[d].kind = "registry" => negotiate(d) >= 1

SendRequest(d) ==
    /\ In(d, "open")
    /\ Waiting(d)
    /\ IF MayAsk(d) THEN Becomes(d, "asked") ELSE call' = Leave(d)
    /\ UNCHANGED held

\* IO_TIMEOUT on a send or a receive of d's client.
Deadline(d) == Waiting(d) /\ call' = Leave(d) /\ UNCHANGED held

\* (mutant) any answer that is not an Error.
Verifies_Answered(d) == call[d].answer # "error"

\* The receiver verifies; only a genuine answer is kept and passed on.
Verifies(d) == call[d].answer = "genuine"

\* A registry whose signature does not verify ends the whole fetch.
FailsClosed(d) == call[d].answer = "forged" /\ call[d].kind = "registry"

Receive(d) ==
    LET c == call[d].client
    IN  /\ In(d, "answered")
        /\ Waiting(d)
        /\ IF c # User /\ Verifies(d)
           THEN /\ held' = [held EXCEPT
                        ![call[c].node][call[c].kind] = call[d].answer]
                /\ call' = [Answers(c, call[d].answer) EXCEPT ![d] = Closed(d)]
           ELSE /\ call' = IF c # User /\ FailsClosed(d)
                           THEN [Answers(c, "error") EXCEPT ![d] = Closed(d)]
                           ELSE Leave(d)
                /\ UNCHANGED held

\* No native provider is left: HTTP, and when it fails too the copy the node
\* has of a registry.
Fallback(c) ==
    LET n == call[c].node
        k == call[c].kind
    IN  /\ In(c, "fetching")
        /\ ~Trying(c)
        /\ \/ /\ held' = [held EXCEPT ![n][k] = "genuine"]
              /\ call' = Answers(c, "genuine")
           \/ /\ call' = Answers(c, IF held[n][k] = "none" THEN "error"
                                    ELSE held[n][k])
              /\ UNCHANGED held

Next ==
    \/ \E n \in Nodes, k \in Kinds : Ask(n, k)
    \/ \E c \in Calls :
           \/ Accept(c) \/ Handle(c)
           \/ Dial(c) \/ DialFails(c) \/ Fallback(c)
           \/ SendRequest(c) \/ Deadline(c) \/ Receive(c)

\* A handler runs on; deadlines pass; a dial ends one way or the other.
Fairness ==
    \A c \in Calls :
        /\ WF_vars(Handle(c) \/ Dial(c) \/ DialFails(c) \/ Fallback(c))
        /\ WF_vars(Deadline(c))

Spec == Init /\ [][Next]_vars

LiveSpec == Spec /\ Fairness

-----------------------------------------------------------------------------

\* The state has the shape the code gives it; a waiting handler waits for one
\* call and nobody else waits.
TypeOK ==
    /\ held \in [Nodes -> [Kinds -> {"none", "genuine", "forged"}]]
    /\ call \in [Calls -> CallRecord \cup {NoCall}]
    /\ \A c \in Live :
           Cardinality({d \in Live : call[d].client = c}) =
               IF call[c].phase = "awaiting" THEN 1 ELSE 0

\* A relay keeps and passes on only what it has verified, whoever answered
\* (fetch_block_native, fetch_registry_native).
OnlyVerified ==
    /\ \A n \in Nodes \ Forging, k \in Kinds : held[n][k] # "forged"
    /\ \A c \in Live :
           call[c].answer = "forged" => call[c].node \in Forging

\* However handlers wait for each other, and with every slot taken, a call
\* that has a slot gives it back (serve, IO_TIMEOUT).
SlotsComeBack == \A c \in Calls : HasSlot(c) ~> ~HasSlot(c)
=============================================================================
