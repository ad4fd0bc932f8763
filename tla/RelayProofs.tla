----------------------------- MODULE RelayProofs -----------------------------
(***************************************************************************)
(* That relays keep and pass on only verified content, for any nodes,      *)
(* provider lists (cycles included), versions and numbers of calls.        *)
(*                                                                         *)
(* The inductive invariant adds who waits for whom: the client of a call,  *)
(* when it is another call, is alive and awaiting, and awaits no second    *)
(* one; so an answer always reaches the handler that asked.                *)
(***************************************************************************)
EXTENDS Relay, TLAPS

Typed ==
    /\ held \in [Nodes -> [Kinds -> {"none", "genuine", "forged"}]]
    /\ call \in [Calls -> CallRecord \cup {NoCall}]

ClientsAwait ==
    \A d \in Live : call[d].client \in Calls => In(call[d].client, "awaiting")

OneCallEach ==
    /\ \A d \in Live : call[d].client # d
    /\ \A d, e \in Live :
           call[d].client \in Calls /\ call[d].client = call[e].client => d = e

IInv ==
    /\ Typed
    /\ ClientsAwait
    /\ OneCallEach
    /\ OnlyVerified

LEMMA InitIInv == Init => IInv
  BY DEF Init, IInv, Typed, ClientsAwait, OneCallEach, OnlyVerified, Live

\* What a live call is.
LEMMA LiveIsRecord ==
    ASSUME Typed
    PROVE  /\ Live = { c \in Calls : call[c] \in CallRecord }
           /\ \A c \in Calls \ Live : call[c] = NoCall
  BY NoCallAssumption DEF Typed, Live

LEMMA FreeIsFree ==
    ASSUME Typed, SomeFree
    PROVE  Free \in Calls /\ call[Free] = NoCall /\ Free \notin Live
  BY DEF SomeFree, Free, Live

LEMMA DialingIsRecord ==
    ASSUME NEW n \in Nodes, NEW k \in Kinds, NEW client \in Calls \cup {User, Gone}
    PROVE  Dialing(n, k, client) \in CallRecord
  BY DEF Dialing, CallRecord, Phases

\* A step that changes one call, to a record with the same node and client or
\* to nothing, where nobody waits for the call unless it stays awaiting.
LEMMA OneCallChanges ==
    ASSUME IInv, NEW c \in Live, NEW r \in CallRecord \cup {NoCall},
           call[c].phase = "awaiting" => r \in CallRecord /\ r.phase = "awaiting",
           r \in CallRecord => /\ r.node = call[c].node
                               /\ r.client \in {call[c].client, Gone}
                               /\ r.answer = "forged" => r.node \in Forging,
           call' = [call EXCEPT ![c] = r],
           held' = held
    PROVE  IInv'
  <1> USE DEF IInv
  <1>1. Typed'
    BY DEF Typed
  <1>2. /\ Live = { d \in Calls : call[d] \in CallRecord }
        /\ Live' = { d \in Calls : call'[d] \in CallRecord }
    BY <1>1, NoCallAssumption DEF Typed, Live
  <1>3. /\ \A d \in Live' : d \in Live
        /\ \A d \in Calls \ {c} : call'[d] = call[d]
        /\ call'[c] = r
    BY <1>2 DEF Typed
  <1>4. Gone \notin Calls
    BY RelayAssumption
  <1>5. ClientsAwait'
    BY <1>2, <1>3, <1>4 DEF ClientsAwait, In
  <1>6. OneCallEach'
    BY <1>2, <1>3, <1>4 DEF OneCallEach
  <1>7. OnlyVerified'
    BY <1>2, <1>3 DEF OnlyVerified
  <1>. QED
    BY <1>1, <1>5, <1>6, <1>7

LEMMA NextProvider ==
    ASSUME NEW q \in CallRecord
    PROVE  LET r == [q EXCEPT !.phase = "fetching", !.next = @ + 1]
           IN  /\ r \in CallRecord /\ r.node = q.node /\ r.client = q.client
               /\ r.answer = q.answer
  <1>1. q.next + 1 \in Nat \ {0}
    BY DEF CallRecord
  <1>2. ASSUME NEW n \in Nat \ {0}, NEW r, r = [q EXCEPT !.phase = "fetching", !.next = n]
        PROVE  /\ r \in CallRecord /\ r.node = q.node /\ r.client = q.client
               /\ r.answer = q.answer
    BY <1>2 DEF CallRecord, Phases
  <1>. QED
    BY <1>1, <1>2

\* A new call dialed for a user, or for a handler that becomes its waiter.
LEMMA CallStarts ==
    ASSUME IInv, SomeFree, NEW n \in Nodes, NEW k \in Kinds,
           held' = held,
           \/ call' = [call EXCEPT ![Free] = Dialing(n, k, User)]
           \/ \E c \in Live :
                 /\ call[c].phase = "fetching"
                 /\ call' = [call EXCEPT ![c].phase = "awaiting",
                                        ![Free] = Dialing(n, k, c)]
    PROVE  IInv'
  <1> USE DEF IInv
  <1>1. Free \in Calls /\ call[Free] = NoCall /\ Free \notin Live
    BY FreeIsFree
  <1>2. User \notin Calls /\ Gone \notin Calls
    BY RelayAssumption
  <1>3. CASE call' = [call EXCEPT ![Free] = Dialing(n, k, User)]
    <2>1. Typed'
      BY <1>1, <1>3, DialingIsRecord DEF Typed
    <2>2. /\ call'[Free] = Dialing(n, k, User)
          /\ \A d \in Calls \ {Free} : call'[d] = call[d]
          /\ Live' = Live \cup {Free}
      BY <1>1, <1>3, <2>1, DialingIsRecord, NoCallAssumption DEF Typed, Live
    <2>3. ClientsAwait' /\ OneCallEach'
      BY <1>1, <1>2, <2>2 DEF ClientsAwait, OneCallEach, In, Dialing, Live
    <2>4. OnlyVerified'
      BY <2>2 DEF OnlyVerified, Dialing, Live
    <2>. QED
      BY <2>1, <2>3, <2>4
  <1>4. ASSUME NEW c \in Live, call[c].phase = "fetching",
               call' = [call EXCEPT ![c].phase = "awaiting",
                                    ![Free] = Dialing(n, k, c)]
        PROVE  IInv'
    <2>1. c \in Calls /\ c # Free /\ call[c] \in CallRecord
      BY <1>1, LiveIsRecord DEF Live
    <2>2. /\ call'[Free] = Dialing(n, k, c)
          /\ call'[c] = [call[c] EXCEPT !.phase = "awaiting"]
          /\ \A d \in Calls \ {Free, c} : call'[d] = call[d]
          /\ call' \in [Calls -> CallRecord \cup {NoCall}]
      BY <1>1, <1>4, <2>1, DialingIsRecord DEF Typed, CallRecord, Phases
    <2>0. call'[Free] \in CallRecord /\ call'[c] \in CallRecord
      <3>1. call'[Free] \in CallRecord
        BY <2>1, <2>2, DialingIsRecord
      <3>2. call'[c] \in CallRecord
        BY <2>1, <2>2 DEF CallRecord, Phases
      <3>. QED
        BY <3>1, <3>2
    <2>3. Live' = Live \cup {Free}
      BY <1>1, <2>0, <2>1, <2>2, NoCallAssumption DEF Live
    <2>4. /\ call'[c].client = call[c].client /\ call'[c].node = call[c].node
          /\ call'[c].answer = call[c].answer /\ call'[c].phase = "awaiting"
          /\ call'[Free].client = c /\ call'[Free].answer = "none"
      BY <2>1, <2>2 DEF CallRecord, Dialing
    <2>8. \A e \in Live \ {c} : call'[e] = call[e]
      BY <1>1, <2>2 DEF Live
    <2>9. Live \subseteq Calls
      BY DEF Live
    <2>5. \A d \in Live : call[d].client # c
      BY <1>4, <2>1 DEF ClientsAwait, In
    <2>6. ClientsAwait'
      BY <1>1, <2>1, <2>3, <2>4, <2>8, <2>9 DEF ClientsAwait, In
    <2>7. OneCallEach'
      BY <1>1, <2>1, <2>3, <2>4, <2>5, <2>8, <2>9 DEF OneCallEach
    <2>10. OnlyVerified'
      BY <1>1, <2>1, <2>3, <2>4, <2>8 DEF OnlyVerified
    <2>. QED
      BY <2>2, <2>6, <2>7, <2>10 DEF Typed
  <1>. QED
    BY <1>3, <1>4

\* d's waiter c stops waiting for d: c goes on as r, or ends.
LEMMA WaiterGoesOn ==
    ASSUME IInv, NEW d \in Live, call[d].client \in Calls,
           NEW r \in CallRecord \cup {NoCall},
           r \in CallRecord =>
               LET c == call[d].client
               IN  /\ r.node = call[c].node
                   /\ r.client = call[c].client
                   /\ r.answer = "forged" => r.node \in Forging,
           call' = [call EXCEPT ![call[d].client] = r, ![d] = Closed(d)],
           held' \in [Nodes -> [Kinds -> {"none", "genuine", "forged"}]],
           \A n \in Nodes \ Forging, k \in Kinds : held'[n][k] # "forged"
    PROVE  IInv'
  <1> USE DEF IInv
  <1> DEFINE c == call[d].client
  <1>1. Gone \notin Calls
    BY RelayAssumption
  <1>2. /\ d \in Calls /\ call[d] \in CallRecord /\ c # d
        /\ c \in Live /\ call[c].phase = "awaiting"
    BY LiveIsRecord DEF ClientsAwait, OneCallEach, In, Live
  <1>3. /\ Closed(d) \in CallRecord \cup {NoCall}
        /\ Closed(d) \in CallRecord =>
              /\ Closed(d).client = Gone /\ Closed(d).node = call[d].node
              /\ Closed(d).answer = call[d].answer
              /\ Closed(d).phase = call[d].phase
        /\ call[d].phase = "awaiting" => Closed(d) \in CallRecord
    BY <1>2, NoCallAssumption DEF Closed, CallRecord
  <1>4. /\ call'[c] = r /\ call'[d] = Closed(d)
        /\ \A e \in Calls \ {c, d} : call'[e] = call[e]
        /\ call' \in [Calls -> CallRecord \cup {NoCall}]
    BY <1>2, <1>3 DEF Typed
  <1>5. /\ Live = { e \in Calls : call[e] \in CallRecord }
        /\ Live' = { e \in Calls : call'[e] \in CallRecord }
    BY <1>4, NoCallAssumption DEF Typed, Live
  <1> HIDE DEF c
  <1>6. \A e \in Live : e # d => call[e].client # c
    BY <1>2 DEF OneCallEach, c
  <1>7. ClientsAwait'
    BY <1>1, <1>2, <1>3, <1>4, <1>5, <1>6 DEF ClientsAwait, In, c
  <1>8. OneCallEach'
    BY <1>1, <1>2, <1>3, <1>4, <1>5 DEF OneCallEach, c
  <1>9. OnlyVerified'
    BY <1>2, <1>3, <1>4, <1>5 DEF OnlyVerified, c
  <1>. QED
    BY <1>4, <1>7, <1>8, <1>9 DEF Typed

\* The client of d stops waiting (Deadline, a wrong answer, no shared version).
LEMMA LeaveKeeps ==
    ASSUME IInv, NEW d \in Live, Waiting(d), call' = Leave(d), held' = held
    PROVE  IInv'
  <1> USE DEF IInv
  <1>1. d \in Calls /\ call[d] \in CallRecord
    BY LiveIsRecord DEF Live
  <1>2. CASE call[d].client = User
    <2>1. Closed(d) \in CallRecord \cup {NoCall}
      BY <1>1 DEF Closed, CallRecord
    <2>2. call[d].phase = "awaiting" => Closed(d) \in CallRecord /\ Closed(d).phase = "awaiting"
      BY <1>1 DEF Closed, CallRecord
    <2>3. Closed(d) \in CallRecord =>
              /\ Closed(d).node = call[d].node /\ Closed(d).client = Gone
              /\ Closed(d).answer = "forged" => Closed(d).node \in Forging
      BY <1>1, NoCallAssumption DEF Closed, CallRecord, OnlyVerified
    <2>4. call' = [call EXCEPT ![d] = Closed(d)]
      BY <1>2 DEF Leave
    <2>. QED
      BY <2>1, <2>2, <2>3, <2>4, OneCallChanges
  <1>3. CASE call[d].client \in Calls
    <2> DEFINE c == call[d].client
               r == [call[c] EXCEPT !.phase = "fetching", !.next = @ + 1]
    <2>1. c \in Live /\ c # d /\ c \in Calls /\ call[c] \in CallRecord /\ c # User
      BY <1>3, LiveIsRecord, RelayAssumption DEF ClientsAwait, OneCallEach, In, Live
    <2>2. r \in CallRecord /\ r.node = call[c].node /\ r.client = call[c].client
          /\ r.answer = call[c].answer
      BY <2>1, NextProvider
    <2>3. call' = [call EXCEPT ![c] = r, ![d] = Closed(d)]
      BY <1>1, <2>1 DEF Leave, Typed
    <2>4. r.answer = "forged" => r.node \in Forging
      BY <2>1, <2>2 DEF OnlyVerified
    <2> HIDE DEF r
    <2>. QED
      BY <1>3, <2>2, <2>3, <2>4, WaiterGoesOn DEF Typed, OnlyVerified
  <1>. QED
    BY <1>1, <1>2, <1>3 DEF Waiting, CallRecord

\* What Answers(c, a) makes of c, for an answer c's node may give.
LEMMA AnswersIsOneCall ==
    ASSUME Typed, NEW c \in Live, NEW a \in {"genuine", "forged", "error"},
           a = "forged" => call[c].node \in Forging
    PROVE  \E r \in CallRecord \cup {NoCall} :
              /\ Answers(c, a) = [call EXCEPT ![c] = r]
              /\ r \in CallRecord => /\ r.node = call[c].node
                                     /\ r.client = call[c].client
                                     /\ r.answer = "forged" => r.node \in Forging
  <1>1. c \in Calls /\ call[c] \in CallRecord
    BY LiveIsRecord DEF Live
  <1>2. CASE call[c].client = Gone
    BY <1>1, <1>2, NoCallAssumption DEF Answers, Typed
  <1>3. CASE call[c].client # Gone
    <2> DEFINE r == [call[c] EXCEPT !.phase = "answered", !.answer = a]
    <2>1. /\ r \in CallRecord /\ r.node = call[c].node
          /\ r.client = call[c].client /\ r.answer = a
      BY <1>1 DEF CallRecord, Phases
    <2>2. Answers(c, a) = [call EXCEPT ![c] = r]
      BY <1>1, <1>3 DEF Answers, Typed
    <2> HIDE DEF r
    <2>. QED
      BY <2>1, <2>2
  <1>. QED
    BY <1>2, <1>3

\* The same call in another phase.
LEMMA PhaseChanges ==
    ASSUME IInv, NEW c \in Live, call[c].phase # "awaiting",
           NEW p \in Phases, NEW r, r = [call[c] EXCEPT !.phase = p],
           call' = [call EXCEPT ![c] = r], held' = held
    PROVE  IInv'
  <1>1. call[c] \in CallRecord
    BY LiveIsRecord DEF IInv
  <1>2. /\ r \in CallRecord /\ r.node = call[c].node
        /\ r.client = call[c].client /\ r.answer = call[c].answer
    BY <1>1 DEF CallRecord
  <1>3. r.answer = "forged" => r.node \in Forging
    BY <1>2 DEF IInv, OnlyVerified
  <1>. QED
    BY <1>2, <1>3, OneCallChanges

LEMMA ReceiveKeeps ==
    ASSUME IInv, NEW d \in Calls, Receive(d)
    PROVE  IInv'
  <1> DEFINE c == call[d].client
  <1>1. d \in Live /\ Waiting(d) /\ d \in Calls /\ call[d] \in CallRecord
    BY LiveIsRecord DEF Receive, In, IInv
  <1>2. c \in Calls \cup {User}
    BY <1>1 DEF CallRecord, Waiting
  <1>3. CASE c # User /\ Verifies(d)
    <2>1. c \in Calls /\ c \in Live /\ call[c] \in CallRecord /\ c # d
      BY <1>1, <1>2, <1>3, LiveIsRecord DEF IInv, ClientsAwait, OneCallEach, In
    <2>2. call[d].answer = "genuine"
      BY <1>3 DEF Verifies
    <2>3. PICK r \in CallRecord \cup {NoCall} :
              /\ Answers(c, "genuine") = [call EXCEPT ![c] = r]
              /\ r \in CallRecord => /\ r.node = call[c].node
                                     /\ r.client = call[c].client
                                     /\ r.answer = "forged" => r.node \in Forging
      BY <2>1, AnswersIsOneCall DEF IInv
    <2>4. call' = [call EXCEPT ![c] = r, ![d] = Closed(d)]
      BY <1>3, <2>2, <2>3 DEF Receive
    <2>5. held' = [held EXCEPT ![call[c].node][call[c].kind] = "genuine"]
      BY <1>3, <2>2 DEF Receive
    <2>6. /\ held' \in [Nodes -> [Kinds -> {"none", "genuine", "forged"}]]
          /\ \A n \in Nodes \ Forging, k \in Kinds : held'[n][k] # "forged"
      BY <2>1, <2>5 DEF IInv, Typed, OnlyVerified, CallRecord
    <2>. QED
      BY <1>1, <2>1, <2>3, <2>4, <2>6, WaiterGoesOn
  <1>4. CASE ~(c # User /\ Verifies(d)) /\ c # User /\ FailsClosed(d)
    <2>1. c \in Calls /\ c \in Live
      BY <1>1, <1>2, <1>4 DEF IInv, ClientsAwait, In
    <2>2. PICK r \in CallRecord \cup {NoCall} :
              /\ Answers(c, "error") = [call EXCEPT ![c] = r]
              /\ r \in CallRecord => /\ r.node = call[c].node
                                     /\ r.client = call[c].client
                                     /\ r.answer = "forged" => r.node \in Forging
      BY <2>1, AnswersIsOneCall DEF IInv
    <2>3. call' = [call EXCEPT ![c] = r, ![d] = Closed(d)] /\ held' = held
      BY <1>4, <2>2 DEF Receive
    <2>4. /\ held' \in [Nodes -> [Kinds -> {"none", "genuine", "forged"}]]
          /\ \A n \in Nodes \ Forging, k \in Kinds : held'[n][k] # "forged"
      BY <2>3 DEF IInv, Typed, OnlyVerified
    <2>. QED
      BY <1>1, <2>1, <2>2, <2>3, <2>4, WaiterGoesOn
  <1>5. CASE ~(c # User /\ Verifies(d)) /\ ~(c # User /\ FailsClosed(d))
    <2>1. call' = Leave(d) /\ held' = held
      BY <1>5 DEF Receive
    <2>. QED
      BY <1>1, <2>1, LeaveKeeps
  <1>. QED
    BY <1>3, <1>4, <1>5

LEMMA FallbackKeeps ==
    ASSUME IInv, NEW c \in Calls, Fallback(c)
    PROVE  IInv'
  <1> DEFINE n == call[c].node
             k == call[c].kind
  <1>1. c \in Live /\ call[c].phase = "fetching"
    BY DEF Fallback, In
  <1>2. call[c] \in CallRecord /\ n \in Nodes /\ k \in Kinds
    BY <1>1, LiveIsRecord DEF IInv, CallRecord
  <1>3. ASSUME NEW a \in {"genuine", "forged", "error"},
               a = "forged" => n \in Forging,
               call' = Answers(c, a),
               held' \in {held, [held EXCEPT ![n][k] = "genuine"]}
        PROVE  IInv'
    <2>1. PICK r \in CallRecord \cup {NoCall} :
              /\ Answers(c, a) = [call EXCEPT ![c] = r]
              /\ r \in CallRecord => /\ r.node = call[c].node
                                     /\ r.client = call[c].client
                                     /\ r.answer = "forged" => r.node \in Forging
      BY <1>1, <1>3, AnswersIsOneCall DEF IInv
    <2>2. /\ held' \in [Nodes -> [Kinds -> {"none", "genuine", "forged"}]]
          /\ \A m \in Nodes \ Forging, j \in Kinds : held'[m][j] # "forged"
      BY <1>2, <1>3 DEF IInv, Typed, OnlyVerified
    <2>3. call' \in [Calls -> CallRecord \cup {NoCall}]
      BY <1>3, <2>1 DEF IInv, Typed
    <2>4. /\ call'[c] = r
          /\ \A e \in Calls \ {c} : call'[e] = call[e]
      BY <1>3, <2>1 DEF IInv, Typed
    <2>5. /\ Live = { e \in Calls : call[e] \in CallRecord }
          /\ Live' = { e \in Calls : call'[e] \in CallRecord }
      BY <2>3, NoCallAssumption DEF IInv, Typed, Live
    <2>6. \A e \in Live : call[e].client # c
      BY <1>1 DEF IInv, ClientsAwait, In
    <2>7. ClientsAwait' /\ OneCallEach'
      BY <1>1, <2>1, <2>4, <2>5, <2>6 DEF IInv, ClientsAwait, OneCallEach, In
    <2>8. OnlyVerified'
      BY <2>1, <2>2, <2>4, <2>5 DEF IInv, OnlyVerified
    <2>. QED
      BY <2>2, <2>3, <2>7, <2>8 DEF IInv, Typed
  <1>4. held[n][k] \in {"none", "genuine", "forged"}
    BY <1>2 DEF IInv, Typed
  <1>5. held[n][k] = "forged" => n \in Forging
    BY <1>2 DEF IInv, OnlyVerified
  <1>. QED
    BY <1>3, <1>4, <1>5 DEF Fallback

LEMMA IInvStep ==
    ASSUME IInv, [Next]_vars
    PROVE  IInv'
  <1>1. ASSUME NEW n \in Nodes, NEW k \in Kinds, Ask(n, k)
        PROVE  IInv'
    BY <1>1, CallStarts DEF Ask
  <1>2. ASSUME NEW c \in Calls, Accept(c)
        PROVE  IInv'
    <2>1. c \in Live /\ call[c].phase = "dialed" /\ held' = held
      BY <1>2 DEF Accept, In
    <2>2. CASE call[c].client = Gone
      <3>1. call' = [call EXCEPT ![c] = NoCall]
        BY <1>2, <2>2 DEF Accept
      <3>. QED
        BY <2>1, <3>1, NoCallAssumption, OneCallChanges
    <2>3. CASE call[c].client # Gone
      <3>1. call' = [call EXCEPT ![c] = [call[c] EXCEPT !.phase = "open"]]
        BY <1>2, <2>3 DEF Accept, Becomes
      <3>. QED
        BY <2>1, <3>1, PhaseChanges DEF Phases
    <2>. QED
      BY <2>2, <2>3
  <1>3. ASSUME NEW c \in Calls, Handle(c)
        PROVE  IInv'
    <2> DEFINE n == call[c].node
               k == call[c].kind
    <2>1. /\ c \in Live /\ call[c].phase = "asked" /\ held' = held
          /\ call[c] \in CallRecord /\ n \in Nodes /\ k \in Kinds
      BY <1>3, LiveIsRecord DEF Handle, In, IInv, CallRecord
    <2>2. CASE HasOwn(n, k)
      <3>1. call' = Answers(c, held[n][k])
        BY <1>3, <2>2 DEF Handle
      <3>2. /\ held[n][k] \in {"genuine", "forged", "error"}
            /\ held[n][k] = "forged" => n \in Forging
        BY <2>1, <2>2 DEF HasOwn, IInv, Typed, OnlyVerified
      <3>3. PICK r \in CallRecord \cup {NoCall} :
              /\ call' = [call EXCEPT ![c] = r]
              /\ r \in CallRecord => /\ r.node = call[c].node
                                     /\ r.client = call[c].client
                                     /\ r.answer = "forged" => r.node \in Forging
        BY <2>1, <3>1, <3>2, AnswersIsOneCall DEF IInv
      <3>. QED
        BY <2>1, <3>3, OneCallChanges
    <2>3. CASE ~HasOwn(n, k)
      <3>1. call' = [call EXCEPT ![c] = [call[c] EXCEPT !.phase = "fetching"]]
        BY <1>3, <2>3 DEF Handle, Becomes
      <3>. QED
        BY <2>1, <3>1, PhaseChanges DEF Phases
    <2>. QED
      BY <2>2, <2>3
  <1>4. ASSUME NEW c \in Calls, Dial(c)
        PROVE  IInv'
    <2>1. /\ c \in Live /\ call[c].phase = "fetching" /\ held' = held
          /\ call[c] \in CallRecord /\ SomeFree
      BY <1>4, LiveIsRecord DEF Dial, In, IInv
    <2>2. /\ call[c].node \in Nodes /\ call[c].kind \in Kinds
          /\ call[c].next \in 1 .. Len(Providers[call[c].node])
      BY <1>4, <2>1, RelayAssumption DEF Dial, Trying, CallRecord
    <2>3. Providers[call[c].node][call[c].next] \in Nodes
      BY <2>2, RelayAssumption
    <2>. QED
      BY <1>4, <2>1, <2>2, <2>3, CallStarts DEF Dial
  <1>5. ASSUME NEW c \in Calls, DialFails(c)
        PROVE  IInv'
    <2>1. /\ c \in Live /\ call[c].phase = "fetching" /\ held' = held
          /\ call[c] \in CallRecord
      BY <1>5, LiveIsRecord DEF DialFails, In, IInv
    <2> DEFINE r == [call[c] EXCEPT !.phase = "fetching", !.next = @ + 1]
    <2>2. [call[c] EXCEPT !.next = @ + 1] = r
      BY <2>1 DEF CallRecord
    <2>3. /\ r \in CallRecord /\ r.node = call[c].node
          /\ r.client = call[c].client /\ r.answer = call[c].answer
      BY <2>1, NextProvider
    <2>4. call' = [call EXCEPT ![c] = r]
      BY <1>5, <2>2 DEF DialFails
    <2> HIDE DEF r
    <2>5. r.answer = "forged" => r.node \in Forging
      BY <2>1, <2>3 DEF IInv, OnlyVerified
    <2>. QED
      BY <2>1, <2>3, <2>4, <2>5, OneCallChanges
  <1>6. ASSUME NEW d \in Calls, SendRequest(d)
        PROVE  IInv'
    <2>1. d \in Live /\ call[d].phase = "open" /\ held' = held /\ Waiting(d)
      BY <1>6 DEF SendRequest, In
    <2>2. CASE MayAsk(d)
      <3>1. call' = [call EXCEPT ![d] = [call[d] EXCEPT !.phase = "asked"]]
        BY <1>6, <2>2 DEF SendRequest, Becomes
      <3>. QED
        BY <2>1, <3>1, PhaseChanges DEF Phases
    <2>3. CASE ~MayAsk(d)
      BY <1>6, <2>1, <2>3, LeaveKeeps DEF SendRequest
    <2>. QED
      BY <2>2, <2>3
  <1>7. ASSUME NEW d \in Calls, Deadline(d)
        PROVE  IInv'
    BY <1>7, LeaveKeeps DEF Deadline, Waiting
  <1>8. ASSUME UNCHANGED vars
        PROVE  IInv'
    BY <1>8 DEF vars, IInv, Typed, ClientsAwait, OneCallEach, OnlyVerified,
                Live, In
  <1>. QED
    BY <1>1, <1>2, <1>3, <1>4, <1>5, <1>6, <1>7, <1>8, ReceiveKeeps,
       FallbackKeeps DEF Next

\* No relay keeps or passes on a wrong copy, however the nodes relay to each
\* other (fetch_block_native, fetch_registry_native).
THEOREM RelaysVerify == Spec => []OnlyVerified
  <1>1. Init => IInv
    BY InitIInv
  <1>2. IInv /\ [Next]_vars => IInv'
    BY IInvStep
  <1>3. IInv => OnlyVerified
    BY DEF IInv
  <1>. QED
    BY <1>1, <1>2, <1>3, PTL DEF Spec
=============================================================================
