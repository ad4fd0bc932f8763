-------------------------- MODULE ResolutionProofs --------------------------
(***************************************************************************)
(* That a node serves content only on an unbroken chain of authority and   *)
(* fails closed, for any number of requests, providers, operators and      *)
(* registry versions, and that it keeps resolving offline.                 *)
(***************************************************************************)
EXTENDS Resolution, TLAPS

MaybeDoc(d) == d \in PublishedDocs \cup {NoDoc}

\* Every document the node or a zone knows has been published.
DocsArePublished ==
    /\ MaybeDoc(tld.pin) /\ MaybeDoc(cache) /\ MaybeDoc(used)
    /\ \A t \in Tasks : MaybeDoc(task[t].tld.pin) /\ MaybeDoc(task[t].doc)

\* The record a request has found is what its authority holds.
Vouched(t) ==
    LET r == task[t].tld
    IN  /\ r.resolvable
        /\ r.mode = "root_managed" => task[t].record = r.record
        /\ r.mode # "root_managed" => /\ task[t].doc # NoDoc
                                      /\ Authorised(t, task[t].doc)
                                      /\ task[t].record = Holds(task[t].doc)

Serving == {"manifest", "path", "block", "got", "put"}

TaskInv(t) ==
    /\ task[t].pc \in {"fetch", "compare", "store", "fallback", "pinned"} =>
          task[t].tld.resolvable /\ task[t].tld.mode # "root_managed"
    /\ task[t].pc \in {"compare", "store"} =>
          task[t].doc \in PublishedDocs /\ Authorised(t, task[t].doc)
    /\ At(t, "pinned") => task[t].tld.pin # NoDoc
    /\ task[t].pc \in Serving \cup {"record"} \/ task[t].answer = "content" =>
          Vouched(t)
    /\ task[t].pc \in Serving \/ task[t].answer = "content" =>
          task[t].record = "active"
    /\ task[t].forged => At(t, "done") /\ task[t].answer = "security"
    /\ task[t].answer # "none" => At(t, "done")

ChainInv == TypeOK /\ DocsArePublished /\ \A t \in Tasks : TaskInv(t)

-----------------------------------------------------------------------------

\* A new request says nothing yet.
LEMMA NewTaskTyped ==
    ASSUME NEW r \in TldRecord, NEW pc \in Steps
    PROVE  [NewTask(r) EXCEPT !.pc = pc] \in
              [pc : Steps, tld : TldRecord, doc : Docs \cup {NoDoc},
               left : 0 .. Providers, record : Records, forged : BOOLEAN,
               answer : Answers]
  <1>1. /\ Providers \in 0 .. Providers /\ "begin" \in Steps
        /\ "absent" \in Records /\ "none" \in Answers
    BY ResolutionAssumption DEF Records, Answers, Steps
  <1>2. NewTask(r) \in
           [pc : Steps, tld : TldRecord, doc : Docs \cup {NoDoc},
            left : 0 .. Providers, record : Records, forged : BOOLEAN,
            answer : Answers]
    BY <1>1 DEF NewTask
  <1>. QED
    BY <1>2

LEMMA InitChain == Init => ChainInv
  <1> SUFFICES ASSUME Init PROVE ChainInv
    OBVIOUS
  <1>1. tld \in TldRecord /\ tld.pin = NoDoc
    BY DEF Init, ZoneRecords
  <1>2. \A t \in Tasks : task[t] = [NewTask(tld) EXCEPT !.pc = "done"]
    BY DEF Init
  <1>3. TypeOK
    <2>1. published \in [Operators -> Seq(Records)]
      BY DEF Init
    <2>2. task \in [Tasks -> [pc : Steps, tld : TldRecord,
                              doc : Docs \cup {NoDoc}, left : 0 .. Providers,
                              record : Records, forged : BOOLEAN,
                              answer : Answers]]
      <3>1. "done" \in Steps
        BY DEF Steps
      <3>2. task = [t \in Tasks |-> [NewTask(tld) EXCEPT !.pc = "done"]]
        BY DEF Init
      <3>. QED
        BY <1>1, <3>1, <3>2, NewTaskTyped
    <2>3. content \in [Content -> {"none", "good", "bad"}]
      BY DEF Init
    <2>. QED
      BY <1>1, <2>1, <2>2, <2>3, ResolutionAssumption DEF Init, TypeOK
  <1>4. DocsArePublished
    BY <1>1, <1>2 DEF Init, DocsArePublished, MaybeDoc, NewTask
  <1>5. \A t \in Tasks : TaskInv(t)
    BY <1>2 DEF TaskInv, NewTask, At, Serving
  <1>. QED
    BY <1>3, <1>4, <1>5 DEF ChainInv

\* What other requests have found does not change.
LEMMA OthersKeep ==
    ASSUME NEW u \in Tasks, TaskInv(u), task'[u] = task[u],
           published' = published
    PROVE  TaskInv(u)'
  BY DEF TaskInv, Vouched, Authorised, Holds, PublishedDocs, At

\* Nor does what a published document says, when more is published.
LEMMA PublishedStays ==
    ASSUME TypeOK, NEW o \in Operators, Publish(o)
    PROVE  /\ published' \in [Operators -> Seq(Records)]
           /\ PublishedDocs \subseteq PublishedDocs'
           /\ \A d \in PublishedDocs : Holds(d)' = Holds(d)
  <1>1. PICK r \in Builds(Published) :
           published' = [published EXCEPT ![o] = Append(published[o], r)]
    BY DEF Publish
  <1>2. r \in Records
    BY PublishedAssumption DEF Builds
  <1>3. published \in [Operators -> Seq(Records)]
    BY DEF TypeOK
  <1>4. published[o] \in Seq(Records) /\ Append(published[o], r) \in Seq(Records)
    BY <1>2, <1>3
  <1>5. published' \in [Operators -> Seq(Records)]
    BY <1>1, <1>3, <1>4
  <1>6. /\ Len(Append(published[o], r)) = Len(published[o]) + 1
        /\ \A i \in 1 .. Len(published[o]) :
              Append(published[o], r)[i] = published[o][i]
    BY <1>2, <1>4
  <1>7. ASSUME NEW d \in PublishedDocs
        PROVE  d.version <= Len(published'[d.operator]) /\ Holds(d)' = Holds(d)
    <2>1. /\ d.operator \in Operators /\ d.version \in 1 .. MaxVersion
          /\ d.version <= Len(published[d.operator])
      BY DEF PublishedDocs, Docs
    <2>2. Len(published[o]) \in Nat
      BY <1>4
    <2>3. CASE d.operator = o
      BY <1>1, <1>3, <1>6, <2>1, <2>2, <2>3, ResolutionAssumption DEF Holds
    <2>4. CASE d.operator # o
      BY <1>1, <1>3, <2>1, <2>4 DEF Holds
    <2>. QED
      BY <2>3, <2>4
  <1>. QED
    BY <1>5, <1>7 DEF PublishedDocs

LEMMA PublishKeeps ==
    ASSUME ChainInv, NEW o \in Operators, Publish(o)
    PROVE  ChainInv'
  <1>1. /\ UNCHANGED << tld, zones, expired, cache, content, task, used >>
        /\ published' \in [Operators -> Seq(Records)]
        /\ PublishedDocs \subseteq PublishedDocs'
        /\ \A d \in PublishedDocs : Holds(d)' = Holds(d)
    BY PublishedStays DEF Publish, ChainInv
  <1>2. TypeOK'
    BY <1>1 DEF ChainInv, TypeOK
  <1>3. DocsArePublished'
    BY <1>1 DEF ChainInv, DocsArePublished, MaybeDoc
  <1>4. ASSUME NEW t \in Tasks PROVE TaskInv(t)'
    <2>1. MaybeDoc(task[t].doc) /\ TaskInv(t)
      BY DEF ChainInv, DocsArePublished
    <2>2. task[t].doc # NoDoc => Holds(task[t].doc)' = Holds(task[t].doc)
      BY <1>1, <2>1 DEF MaybeDoc
    <2>3. Vouched(t) => Vouched(t)'
      BY <1>1, <2>2 DEF Vouched, Authorised, Holds
    <2>. QED
      BY <1>1, <2>1, <2>3 DEF TaskInv, Authorised, At
  <1>. QED
    BY <1>2, <1>3, <1>4 DEF ChainInv

\* What the node finds when it looks for a document is published and, when
\* the request may use it, of the operator its zone names.
LEMMA CachedIsAuthorised ==
    ASSUME ChainInv, NEW t \in Tasks
    PROVE  /\ MaybeDoc(Cached(t))
           /\ Cached(t) # NoDoc => Authorised(t, Cached(t))
  BY DEF ChainInv, DocsArePublished, MaybeDoc, Cached

-----------------------------------------------------------------------------
(***************************************************************************)
(* The steps of a request: it ends with an answer, goes on, or goes on     *)
(* with a document and its record.                                         *)
(***************************************************************************)
TaskRecords ==
    [pc : Steps, tld : TldRecord, doc : Docs \cup {NoDoc}, left : 0 .. Providers,
     record : Records, forged : BOOLEAN, answer : Answers]

MovesOnly(t) ==
    /\ \A u \in Tasks \ {t} : task'[u] = task[u]
    /\ task' \in [Tasks -> TaskRecords]
    /\ task'[t].tld = task[t].tld

Ends(t, answer) ==
    /\ MovesOnly(t)
    /\ task'[t].pc = "done" /\ task'[t].answer = answer
    /\ task'[t].doc = task[t].doc /\ task'[t].record = task[t].record
    /\ task'[t].forged = task[t].forged

GoesOn(t, pc, doc, record) ==
    /\ MovesOnly(t)
    /\ task'[t].pc = pc /\ task'[t].doc = doc /\ task'[t].record = record
    /\ task'[t].answer = task[t].answer
    /\ task'[t].forged = task[t].forged

\* Taking a document and its record leaves the rest of a request's state alone.
LEMMA Recorded ==
    ASSUME task \in [Tasks -> TaskRecords], NEW t \in Tasks,
           NEW d \in Docs \cup {NoDoc}, NEW rec \in Records,
           task' = [task EXCEPT ![t] =
                       [task[t] EXCEPT !.pc = "record", !.doc = d, !.record = rec]]
    PROVE  GoesOn(t, "record", d, rec)
  <1>. DEFINE new == [task[t] EXCEPT !.pc = "record", !.doc = d, !.record = rec]
  <1>1. task[t] \in TaskRecords /\ "record" \in Steps
    BY DEF Steps
  <1>2. new \in TaskRecords
    BY <1>1 DEF TaskRecords
  <1>3. /\ new.pc = "record" /\ new.doc = d /\ new.record = rec
        /\ new.tld = task[t].tld /\ new.answer = task[t].answer
        /\ new.forged = task[t].forged
    BY <1>1 DEF TaskRecords
  <1>4. task' = [task EXCEPT ![t] = new]
    OBVIOUS
  <1>. HIDE DEF new
  <1>. QED
    BY <1>2, <1>3, <1>4 DEF GoesOn, MovesOnly

\* What each way to move a request does to its state.
LEMMA Moves ==
    ASSUME task \in [Tasks -> TaskRecords], NEW t \in Tasks
    PROVE  /\ \A a \in Answers : End(t, a) => Ends(t, a)
           /\ \A pc \in Steps :
                 Step(t, pc) => GoesOn(t, pc, task[t].doc, task[t].record)
           /\ \A pc \in Steps, d \in Docs :
                 Take(t, d, pc) => GoesOn(t, pc, d, task[t].record)
           /\ \A d \in Docs : Use(t, d) /\ Holds(d) \in Records
                                => GoesOn(t, "record", d, Holds(d))
  <1>1. ASSUME NEW a \in Answers, End(t, a) PROVE Ends(t, a)
    <2>1. task' = [task EXCEPT ![t] = [task[t] EXCEPT !.pc = "done", !.answer = a]]
      BY <1>1 DEF End, TaskRecords
    <2>2. [task[t] EXCEPT !.pc = "done", !.answer = a] \in TaskRecords
      BY DEF TaskRecords, Steps
    <2>. QED
      BY <2>1, <2>2 DEF Ends, MovesOnly, TaskRecords
  <1>2. \A pc \in Steps :
            Step(t, pc) => GoesOn(t, pc, task[t].doc, task[t].record)
    BY DEF Step, GoesOn, MovesOnly, TaskRecords
  <1>3. ASSUME NEW pc \in Steps, NEW d \in Docs, Take(t, d, pc)
        PROVE  GoesOn(t, pc, d, task[t].record)
    <2>1. task' = [task EXCEPT ![t] = [task[t] EXCEPT !.pc = pc, !.doc = d]]
      BY <1>3 DEF Take, TaskRecords
    <2>2. [task[t] EXCEPT !.pc = pc, !.doc = d] \in TaskRecords
      BY DEF TaskRecords
    <2>. QED
      BY <2>1, <2>2 DEF GoesOn, MovesOnly, TaskRecords
  <1>4. ASSUME NEW d \in Docs, Use(t, d), Holds(d) \in Records
        PROVE  GoesOn(t, "record", d, Holds(d))
    <2>1. task' = [task EXCEPT ![t] = [task[t] EXCEPT
                      !.pc = "record", !.doc = d, !.record = Holds(d)]]
      BY <1>4 DEF Use, TaskRecords
    <2>. QED
      BY <1>4, <2>1, Recorded
  <1>. QED
    BY <1>1, <1>2, <1>3, <1>4

\* A request under way that ends says "content" only while it was serving.
LEMMA EndKeeps ==
    ASSUME NEW t \in Tasks, NEW a \in Answers, TaskInv(t), ~At(t, "done"),
           Ends(t, a), published' = published,
           a = "content" => task[t].pc \in Serving
    PROVE  TaskInv(t)'
  BY DEF TaskInv, Ends, MovesOnly, Vouched, Authorised, Holds, At, Serving

\* Where a request may go with what it has found.
MayGoOn(t, pc) ==
    \/ /\ pc \in {"fetch", "fallback"}
       /\ task[t].tld.resolvable /\ task[t].tld.mode # "root_managed"
    \/ /\ pc = "pinned" /\ task[t].tld.pin # NoDoc
       /\ task[t].tld.resolvable /\ task[t].tld.mode # "root_managed"
    \/ pc = "store" /\ At(t, "compare")
    \/ pc \in Serving /\ At(t, "record") /\ task[t].record = "active"
    \/ pc \in Serving /\ task[t].pc \in Serving

\* A request that goes on keeps what it has found.
LEMMA GoKeeps ==
    ASSUME NEW t \in Tasks, NEW pc, TaskInv(t), ~At(t, "done"),
           GoesOn(t, pc, task[t].doc, task[t].record), published' = published,
           MayGoOn(t, pc)
    PROVE  TaskInv(t)'
  <1>1. task[t].answer = "none" /\ ~task[t].forged
    BY DEF TaskInv, Ends, At
  <1>2. /\ task'[t].pc = pc /\ task'[t].tld = task[t].tld
        /\ task'[t].doc = task[t].doc /\ task'[t].record = task[t].record
        /\ task'[t].answer = "none" /\ ~task'[t].forged
    BY <1>1 DEF GoesOn, MovesOnly
  <1>3. Vouched(t) => Vouched(t)'
    BY <1>2 DEF Vouched, Authorised, Holds
  <1>. QED
    BY <1>2, <1>3 DEF MayGoOn, TaskInv, Authorised, At, Serving, PublishedDocs

\* A record comes from a published document of the operator in the zone.
LEMMA FindKeeps ==
    ASSUME NEW t \in Tasks, NEW d \in PublishedDocs, TaskInv(t), ~At(t, "done"),
           GoesOn(t, "record", d, Holds(d)), published' = published,
           Authorised(t, d), d # NoDoc, task[t].tld.resolvable,
           task[t].tld.mode # "root_managed"
    PROVE  TaskInv(t)'
  BY DEF TaskInv, GoesOn, MovesOnly, Vouched, Authorised, Holds, At, Serving

\* A step moves one task; the documents it finds are published.
StepOf(t) ==
    /\ UNCHANGED world
    /\ MovesOnly(t)
    /\ MaybeDoc(task'[t].doc) /\ MaybeDoc(cache') /\ MaybeDoc(used')
    /\ content' \in [Content -> {"none", "good", "bad"}]

LEMMA StepKeeps ==
    ASSUME ChainInv, NEW t \in Tasks, StepOf(t), TaskInv(t)'
    PROVE  ChainInv'
  <1>1. published' = published /\ tld' = tld /\ zones' = zones /\ expired' = expired
    BY DEF StepOf, world
  <1>2. TypeOK'
    BY <1>1 DEF ChainInv, TypeOK, StepOf, MovesOnly, TaskRecords, MaybeDoc,
       PublishedDocs
  <1>3. DocsArePublished'
    BY <1>1 DEF ChainInv, DocsArePublished, StepOf, MovesOnly, MaybeDoc,
       PublishedDocs
  <1>4. \A u \in Tasks : TaskInv(u)'
    BY <1>1, OthersKeep DEF ChainInv, StepOf, MovesOnly
  <1>. QED
    BY <1>2, <1>3, <1>4 DEF ChainInv

LEMMA PublishedAreDocs ==
    ASSUME TypeOK
    PROVE  /\ NoDoc \notin PublishedDocs
           /\ \A d \in PublishedDocs : d \in Docs /\ Holds(d) \in Records
  <1>1. ASSUME NEW d \in PublishedDocs PROVE Holds(d) \in Records
    <2>1. /\ d.operator \in Operators /\ d.version \in 1 .. MaxVersion
          /\ d.version <= Len(published[d.operator])
      BY DEF PublishedDocs, Docs
    <2>2. published[d.operator] \in Seq(Records)
      BY <2>1 DEF TypeOK
    <2>. QED
      BY <2>1, <2>2, ResolutionAssumption DEF Holds
  <1>. QED
    BY <1>1, NoDocAssumption DEF PublishedDocs

LEMMA ResolveKeeps ==
    ASSUME ChainInv, NEW t \in Tasks, Resolve(t)
    PROVE  ChainInv'
  <1>0. /\ task \in [Tasks -> TaskRecords] /\ TaskInv(t)
        /\ MaybeDoc(cache) /\ MaybeDoc(used)
        /\ MaybeDoc(task[t].doc) /\ MaybeDoc(task[t].tld.pin)
        /\ content \in [Content -> {"none", "good", "bad"}]
        /\ \A d \in PublishedDocs : d \in Docs /\ Holds(d) \in Records
        /\ NoDoc \notin PublishedDocs
    BY PublishedAreDocs DEF ChainInv, TypeOK, DocsArePublished, TaskRecords
  <1>a. ASSUME NEW a \in Answers, End(t, a), ~At(t, "done"),
               UNCHANGED << world, cache, used >>,
               content' \in [Content -> {"none", "good", "bad"}],
               a = "content" => task[t].pc \in Serving
        PROVE  ChainInv'
    <2>1. Ends(t, a)
      BY <1>0, <1>a, Moves
    <2>2. StepOf(t)
      BY <1>0, <1>a, <2>1 DEF StepOf, Ends, MaybeDoc, PublishedDocs, world
    <2>3. TaskInv(t)'
      BY <1>0, <1>a, <2>1, EndKeeps DEF world
    <2>. QED
      BY <2>2, <2>3, StepKeeps
  <1>b. ASSUME NEW pc \in Steps, Step(t, pc), ~At(t, "done"),
               UNCHANGED << world, cache, used >>,
               content' \in [Content -> {"none", "good", "bad"}],
               MayGoOn(t, pc)
        PROVE  ChainInv'
    <2>1. GoesOn(t, pc, task[t].doc, task[t].record)
      BY <1>0, <1>b, Moves
    <2>2. StepOf(t)
      BY <1>0, <1>b, <2>1 DEF StepOf, GoesOn, MaybeDoc, PublishedDocs, world
    <2>3. published' = published
      BY <1>b DEF world
    <2>4. TaskInv(t)'
      BY <1>0, <1>b, <2>1, <2>3, GoKeeps
    <2>. QED
      BY <2>2, <2>4, StepKeeps
  <1>c. ASSUME NEW d \in PublishedDocs, GoesOn(t, "record", d, Holds(d)),
               ~At(t, "done"), UNCHANGED << world, content >>,
               MaybeDoc(cache'), MaybeDoc(used'), Authorised(t, d),
               task[t].tld.resolvable, task[t].tld.mode # "root_managed"
        PROVE  ChainInv'
    <2>1. StepOf(t)
      BY <1>0, <1>c DEF StepOf, GoesOn, MaybeDoc
    <2>2. TaskInv(t)'
      BY <1>0, <1>c, FindKeeps DEF world
    <2>. QED
      BY <2>1, <2>2, StepKeeps
  <1>1. CASE Begin(t)
    <2>1. CASE End(t, "tld_unavailable") \/ End(t, "unavailable")
      BY <1>0, <1>1, <1>a, <2>1 DEF Begin, Answers, At
    <2>2. CASE Step(t, "fetch") /\ task[t].tld.mode = "live"
               /\ task[t].tld.resolvable
      BY <1>0, <1>1, <1>b, <2>2 DEF Begin, Steps, At, MayGoOn
    <2>3. CASE Step(t, "pinned") /\ task[t].tld.mode = "manifest"
               /\ task[t].tld.resolvable /\ task[t].tld.pin # NoDoc
      BY <1>0, <1>1, <1>b, <2>3 DEF Begin, Steps, At, MayGoOn
    <2>4. CASE /\ task[t].tld.mode = "root_managed" /\ task[t].tld.resolvable
               /\ task' = [task EXCEPT ![t].pc = "record",
                                       ![t].record = task[t].tld.record]
      <3>1. task[t].tld.record \in Records
        BY <1>0 DEF TaskRecords, TldRecord
      <3>2. GoesOn(t, "record", task[t].doc, task[t].tld.record)
        <4>1. task[t] \in TaskRecords /\ task[t].doc \in Docs \cup {NoDoc}
          BY <1>0 DEF TaskRecords
        <4>2. task' = [task EXCEPT ![t] = [task[t] EXCEPT
                          !.pc = "record", !.record = task[t].tld.record]]
          BY <2>4
        <4>3. [task[t] EXCEPT !.pc = "record", !.record = task[t].tld.record]
                 = [task[t] EXCEPT !.pc = "record", !.doc = task[t].doc,
                                   !.record = task[t].tld.record]
          BY <4>1 DEF TaskRecords
        <4>. QED
          BY <1>0, <3>1, <4>1, <4>2, <4>3, Recorded
      <3>3. UNCHANGED << world, cache, content, used >> /\ ~At(t, "done")
        BY <1>1 DEF Begin, At
      <3>4. StepOf(t)
        BY <1>0, <3>2, <3>3 DEF StepOf, GoesOn, MaybeDoc, PublishedDocs, world
      <3>5. TaskInv(t)'
        BY <1>0, <2>4, <3>2, <3>3 DEF TaskInv, GoesOn, MovesOnly, Vouched, At,
           Serving
      <3>. QED
        BY <3>4, <3>5, StepKeeps
    <2>. QED
      BY <1>1, <2>1, <2>2, <2>3, <2>4 DEF Begin, Unavailable
  <1>2. CASE FetchPinned(t)
    <2>1. CASE End(t, "unavailable") \/ End(t, "security")
      BY <1>0, <1>2, <1>a, <2>1 DEF FetchPinned, Answers, At
    <2>2. CASE ~(End(t, "unavailable") \/ End(t, "security"))
      <3>. DEFINE d == task[t].tld.pin
      <3>1. d \in PublishedDocs /\ d \in Docs /\ Holds(d) \in Records
        BY <1>0, <1>2 DEF FetchPinned, TaskInv, At, MaybeDoc
      <3>2. /\ task' = [task EXCEPT ![t].pc = "record", ![t].doc = d,
                                    ![t].record = Holds(d)]
            /\ Authorised(t, d) /\ At(t, "pinned")
            /\ UNCHANGED << world, cache, content, used >>
        BY <1>2, <2>2 DEF FetchPinned
      <3>. HIDE DEF d
      <3>3. GoesOn(t, "record", d, Holds(d))
        <4>1. task' = [task EXCEPT ![t] = [task[t] EXCEPT
                          !.pc = "record", !.doc = d, !.record = Holds(d)]]
          BY <3>2
        <4>. QED
          BY <1>0, <3>1, <4>1, Recorded
      <3>4. MaybeDoc(cache') /\ MaybeDoc(used')
        BY <1>0, <3>2
      <3>5. task[t].tld.resolvable /\ task[t].tld.mode # "root_managed"
            /\ ~At(t, "done")
        BY <1>0, <3>2 DEF TaskInv, At
      <3>. QED
        BY <1>c, <3>1, <3>2, <3>3, <3>4, <3>5
    <2>. QED
      BY <2>1, <2>2
  <1>3. CASE FetchLive(t)
    <2>0. /\ At(t, "fetch") /\ ~At(t, "done")
          /\ task[t].tld.resolvable /\ task[t].tld.mode # "root_managed"
          /\ task[t].answer = "none" /\ ~task[t].forged
          /\ UNCHANGED << world, cache, content, used >>
      BY <1>0, <1>3 DEF FetchLive, TaskInv, At
    <2>1. CASE Step(t, "fallback")
      BY <1>0, <1>b, <2>0, <2>1 DEF Steps, MayGoOn
    <2>2. ASSUME NEW d \in PublishedDocs, Authorised(t, d), Take(t, d, "compare")
          PROVE  ChainInv'
      <3>1. GoesOn(t, "compare", d, task[t].record)
        BY <1>0, <2>2, Moves DEF Steps
      <3>2. StepOf(t)
        BY <1>0, <2>0, <3>1 DEF StepOf, GoesOn, MaybeDoc
      <3>3. TaskInv(t)'
        BY <2>0, <2>2, <3>1 DEF TaskInv, GoesOn, MovesOnly, Authorised, At, Serving,
           world, PublishedDocs
      <3>. QED
        BY <3>2, <3>3, StepKeeps
    <2>3. CASE task[t].left > 0 /\ task' = [task EXCEPT ![t].left = @ - 1]
      <3>1. task[t].left - 1 \in 0 .. Providers
        BY <1>0, <2>3, ResolutionAssumption DEF TaskRecords
      <3>2. /\ MovesOnly(t) /\ task'[t].pc = "fetch"
            /\ task'[t].answer = "none" /\ ~task'[t].forged
            /\ task'[t].doc = task[t].doc
        BY <1>0, <2>0, <2>3, <3>1 DEF MovesOnly, TaskRecords, At
      <3>3. StepOf(t)
        BY <1>0, <2>0, <3>2 DEF StepOf, MaybeDoc
      <3>4. TaskInv(t)'
        BY <2>0, <3>2 DEF TaskInv, MovesOnly, At, Serving
      <3>. QED
        BY <3>3, <3>4, StepKeeps
    <2>. QED
      BY <1>3, <2>1, <2>2, <2>3 DEF FetchLive
  <1>4. CASE FetchForged(t)
    <2>1. /\ task' = [task EXCEPT ![t].pc = "done", ![t].forged = TRUE,
                                  ![t].answer = "security"]
          /\ At(t, "fetch") /\ UNCHANGED << world, cache, content, used >>
      BY <1>4 DEF FetchForged
    <2>2. /\ MovesOnly(t) /\ task'[t].pc = "done" /\ task'[t].doc = task[t].doc
          /\ task'[t].answer = "security"
      <3>1. task' = [task EXCEPT ![t] = [task[t] EXCEPT
                        !.pc = "done", !.forged = TRUE, !.answer = "security"]]
        BY <1>0, <2>1 DEF TaskRecords
      <3>2. [task[t] EXCEPT !.pc = "done", !.forged = TRUE, !.answer = "security"]
               \in TaskRecords
        <4>1. "done" \in Steps /\ "security" \in Answers
          BY DEF Steps, Answers
        <4>2. task[t] \in TaskRecords
          BY <1>0
        <4>. QED
          BY <4>1, <4>2 DEF TaskRecords
      <3>. QED
        BY <1>0, <3>1, <3>2 DEF MovesOnly, TaskRecords
    <2>3. StepOf(t)
      BY <1>0, <2>1, <2>2 DEF StepOf, MaybeDoc
    <2>4. TaskInv(t)'
      BY <2>2 DEF TaskInv, At, Serving
    <2>. QED
      BY <2>3, <2>4, StepKeeps
  <1>5. CASE Compare(t)
    <2>0. /\ At(t, "compare") /\ ~At(t, "done")
          /\ task[t].tld.resolvable /\ task[t].tld.mode # "root_managed"
          /\ UNCHANGED << world, cache, content >>
      BY <1>0, <1>5 DEF Compare, TaskInv, At
    <2>1. CASE IsOlder(task[t].doc, Cached(t))
      <3>1. /\ Cached(t) # NoDoc /\ Cached(t) \in PublishedDocs
            /\ Authorised(t, Cached(t)) /\ Use(t, Cached(t))
        BY <1>5, <2>1, CachedIsAuthorised DEF Compare, IsOlder, MaybeDoc
      <3>2. GoesOn(t, "record", Cached(t), Holds(Cached(t)))
        BY <1>0, <3>1, Moves
      <3>3. MaybeDoc(cache') /\ MaybeDoc(used')
        BY <1>0, <2>0, <3>1 DEF Use, MaybeDoc, world, PublishedDocs
      <3>. QED
        BY <1>c, <2>0, <3>1, <3>2, <3>3
    <2>2. CASE ~IsOlder(task[t].doc, Cached(t))
      <3>1. Step(t, "store") /\ UNCHANGED used
        BY <1>5, <2>2 DEF Compare
      <3>. QED
        BY <1>0, <1>b, <2>0, <3>1 DEF Steps, MayGoOn
    <2>. QED
      BY <2>1, <2>2
  <1>6. CASE StoreRegistry(t)
    <2>. DEFINE d == task[t].doc
    <2>1. /\ At(t, "store") /\ ~At(t, "done") /\ d \in PublishedDocs
          /\ Authorised(t, d)
          /\ task[t].tld.resolvable /\ task[t].tld.mode # "root_managed"
          /\ UNCHANGED << world, content >> /\ Use(t, d)
      BY <1>0, <1>6 DEF StoreRegistry, TaskInv, At
    <2>2. cache' = d \/ cache' = cache
      BY <1>6 DEF StoreRegistry
    <2>. HIDE DEF d
    <2>3. GoesOn(t, "record", d, Holds(d))
      BY <1>0, <2>1, Moves
    <2>4. MaybeDoc(cache') /\ MaybeDoc(used')
      BY <1>0, <2>1, <2>2 DEF Use, MaybeDoc
    <2>. QED
      BY <1>c, <2>1, <2>3, <2>4
  <1>7. CASE FallBack(t)
    <2>0. /\ At(t, "fallback") /\ ~At(t, "done")
          /\ task[t].tld.resolvable /\ task[t].tld.mode # "root_managed"
          /\ UNCHANGED << world, cache, content >>
      BY <1>0, <1>7 DEF FallBack, TaskInv, At
    <2>1. CASE Cached(t) # NoDoc
      <3>1. /\ Cached(t) \in PublishedDocs
            /\ Authorised(t, Cached(t)) /\ Use(t, Cached(t))
        BY <1>7, <2>1, CachedIsAuthorised DEF FallBack, MaybeDoc
      <3>2. GoesOn(t, "record", Cached(t), Holds(Cached(t)))
        BY <1>0, <3>1, Moves
      <3>3. MaybeDoc(cache') /\ MaybeDoc(used')
        BY <1>0, <2>0, <3>1 DEF Use, MaybeDoc
      <3>. QED
        BY <1>c, <2>0, <3>1, <3>2, <3>3
    <2>2. CASE Cached(t) = NoDoc
      BY <1>0, <1>7, <1>a, <2>0, <2>2 DEF FallBack, Answers
    <2>. QED
      BY <2>1, <2>2
  <1>8. CASE CheckRecord(t)
    <2>1. /\ At(t, "record") /\ ~At(t, "done")
          /\ UNCHANGED << world, cache, content, used >>
      BY <1>8 DEF CheckRecord, At
    <2>2. \/ \E a \in Answers \ {"content"} : End(t, a)
          \/ Step(t, "manifest") /\ task[t].record = "active"
      BY <1>8 DEF CheckRecord, Answers
    <2>3. CASE Step(t, "manifest") /\ task[t].record = "active"
      BY <1>0, <1>b, <2>1, <2>3 DEF Steps, Serving, MayGoOn
    <2>. QED
      BY <1>0, <1>a, <2>1, <2>2, <2>3
  <1>9. CASE ReadManifest(t) \/ FetchManifest(t) \/ CheckPath(t) \/ ReadBlock(t)
             \/ FetchBlock(t) \/ PutStarts(t) \/ PutBlock(t)
    <2>1. /\ task[t].pc \in Serving /\ ~At(t, "done")
          /\ UNCHANGED << world, cache, used >>
      BY <1>9 DEF ReadManifest, FetchManifest, CheckPath, ReadBlock, FetchBlock,
         PutStarts, PutBlock, At, Serving
    <2>2. content' \in [Content -> {"none", "good", "bad"}]
      BY <1>0, <1>9 DEF ReadManifest, FetchManifest, CheckPath, ReadBlock,
         FetchBlock, PutStarts, PutBlock, Content
    <2>3. \/ \E a \in Answers : End(t, a)
          \/ Step(t, "path") \/ Step(t, "block") \/ Step(t, "got")
          \/ Step(t, "put")
      BY <1>9 DEF ReadManifest, FetchManifest, CheckPath, ReadBlock, FetchBlock,
         PutStarts, PutBlock, Serving, Answers
    <2>4. ASSUME NEW a \in Answers, End(t, a) PROVE ChainInv'
      BY <1>a, <2>1, <2>2, <2>4
    <2>a. \A pc \in Serving : pc \in Steps /\ MayGoOn(t, pc)
      BY <2>1 DEF Serving, Steps, MayGoOn
    <2>b. {"path", "block", "got", "put"} \subseteq Serving
      BY DEF Serving
    <2>5. CASE Step(t, "path")
      BY <1>b, <2>1, <2>2, <2>a, <2>b, <2>5
    <2>6. CASE Step(t, "block")
      BY <1>b, <2>1, <2>2, <2>a, <2>b, <2>6
    <2>7. CASE Step(t, "got")
      BY <1>b, <2>1, <2>2, <2>a, <2>b, <2>7
    <2>8. CASE Step(t, "put")
      BY <1>b, <2>1, <2>2, <2>a, <2>b, <2>8
    <2>. QED
      BY <2>3, <2>4, <2>5, <2>6, <2>7, <2>8
  <1>. QED
    BY <1>1, <1>2, <1>3, <1>4, <1>5, <1>6, <1>7, <1>8, <1>9 DEF Resolve

LEMMA NextKeepsChain ==
    ASSUME ChainInv, [Next]_vars
    PROVE  ChainInv'
  <1>1. ASSUME NEW o \in Operators, Publish(o) PROVE ChainInv'
    BY <1>1, PublishKeeps
  <1>2. CASE ChangeZone
    <2>1. /\ UNCHANGED << published, expired, cache, content, task, used >>
          /\ tld' \in ZoneRecords(PublishedDocs) /\ zones' \in 0 .. MaxZones
      BY <1>2, ResolutionAssumption DEF ChangeZone, ChainInv, TypeOK
    <2>2. TypeOK' /\ MaybeDoc(tld'.pin)
      BY <2>1 DEF ChainInv, TypeOK, ZoneRecords, MaybeDoc
    <2>3. DocsArePublished'
      BY <2>1, <2>2 DEF ChainInv, DocsArePublished, MaybeDoc, PublishedDocs
    <2>4. \A t \in Tasks : TaskInv(t)'
      BY <2>1, OthersKeep DEF ChainInv
    <2>. QED
      BY <2>2, <2>3, <2>4 DEF ChainInv
  <1>3. ASSUME UNCHANGED << tld, zones, published, cache, task, used >>,
               expired' \subseteq {"tld", "domain"},
               content' \in [Content -> {"none", "good", "bad"}]
        PROVE  ChainInv'
    <2>1. TypeOK'
      BY <1>3 DEF ChainInv, TypeOK
    <2>2. DocsArePublished'
      BY <1>3 DEF ChainInv, DocsArePublished, MaybeDoc, PublishedDocs
    <2>3. \A t \in Tasks : TaskInv(t)'
      BY <1>3, OthersKeep DEF ChainInv
    <2>. QED
      BY <2>1, <2>2, <2>3 DEF ChainInv
  <1>4. CASE Expire
    BY <1>3, <1>4 DEF Expire, ChainInv, TypeOK
  <1>5. CASE Tamper
    BY <1>3, <1>5 DEF Tamper, world, ChainInv, TypeOK
  <1>6. CASE ClearBlocks
    BY <1>3, <1>6 DEF ClearBlocks, world, ChainInv, TypeOK
  <1>7. ASSUME NEW t \in Tasks, Request(t) PROVE ChainInv'
    <2>1. NewTask(tld) \in TaskRecords
      <3>1. tld \in TldRecord /\ "begin" \in Steps
        BY DEF ChainInv, TypeOK, Steps
      <3>2. /\ Providers \in 0 .. Providers
            /\ "absent" \in Records /\ "none" \in Answers
        BY ResolutionAssumption DEF Records, Answers
      <3>. QED
        BY <3>1, <3>2 DEF NewTask, TaskRecords
    <2>2. /\ task' = [task EXCEPT ![t] = NewTask(tld)]
          /\ UNCHANGED << world, cache, content, used >>
      BY <1>7 DEF Request
    <2>3. task'[t] = NewTask(tld) /\ \A u \in Tasks \ {t} : task'[u] = task[u]
      BY <2>2 DEF ChainInv, TypeOK
    <2>4. TypeOK'
      BY <2>1, <2>2 DEF ChainInv, TypeOK, TaskRecords, world
    <2>5. DocsArePublished'
      BY <2>2, <2>3 DEF ChainInv, DocsArePublished, MaybeDoc, PublishedDocs, world,
         NewTask
    <2>6. TaskInv(t)'
      BY <2>3 DEF NewTask, TaskInv, At, Serving
    <2>. QED
      BY <2>2, <2>3, <2>4, <2>5, <2>6, OthersKeep DEF ChainInv, world
  <1>8. ASSUME NEW t \in Tasks, Resolve(t) PROVE ChainInv'
    BY <1>8, ResolveKeeps
  <1>9. CASE Restart
    <2>1. /\ UNCHANGED << tld, zones, published, expired, cache, content, used >>
          /\ task' = [t \in Tasks |-> [NewTask(tld) EXCEPT !.pc = "done"]]
      BY <1>9 DEF Restart
    <2>2. tld \in TldRecord /\ "done" \in Steps
      BY DEF ChainInv, TypeOK, Steps
    <2>3. TypeOK'
      BY <2>1, <2>2, NewTaskTyped DEF ChainInv, TypeOK
    <2>4. \A t \in Tasks : task'[t] = [NewTask(tld) EXCEPT !.pc = "done"]
      BY <2>1
    <2>5. DocsArePublished'
      BY <2>1, <2>4 DEF ChainInv, DocsArePublished, MaybeDoc, PublishedDocs, NewTask
    <2>6. \A t \in Tasks : TaskInv(t)'
      BY <2>4 DEF NewTask, TaskInv, At, Serving
    <2>. QED
      BY <2>3, <2>5, <2>6 DEF ChainInv
  <1>10. CASE UNCHANGED vars
    BY <1>3, <1>10 DEF vars, ChainInv, TypeOK
  <1>. QED
    BY <1>1, <1>2, <1>4, <1>5, <1>6, <1>7, <1>8, <1>9, <1>10 DEF Next

\* The invariant holds in every state.
THEOREM ChainHolds == Spec => []ChainInv
  BY InitChain, NextKeepsChain, PTL DEF Spec

\* The HTTP status of an answer, as far as the two properties look at it.
LEMMA Statuses ==
    ASSUME NEW a \in Answers, a # "none"
    PROVE  /\ HttpStatus(a) = 200 <=> a = "content"
           /\ HttpStatus("security") = 502
  <1>1. HttpStatus("content") = 200 /\ HttpStatus("security") = 502
    BY DEF HttpStatus
  <1>2. /\ HttpStatus("domain_not_found") = 404 /\ HttpStatus("path_not_found") = 404
        /\ HttpStatus("tld_unavailable") = 503 /\ HttpStatus("unavailable") = 503
        /\ HttpStatus("domain_unavailable") = 503 /\ HttpStatus("error") = 502
    BY DEF HttpStatus
  <1>. QED
    <2>1. CASE a = "content"
      BY <1>1, <2>1
    <2>2. CASE a # "content"
      <3>1. \/ a = "security" \/ a = "tld_unavailable" \/ a = "unavailable"
            \/ a = "error" \/ a = "domain_not_found" \/ a = "domain_unavailable"
            \/ a = "path_not_found"
        BY <2>2 DEF Answers
      <3>2. HttpStatus(a) = 404 \/ HttpStatus(a) = 503 \/ HttpStatus(a) = 502
        BY <1>1, <1>2, <3>1
      <3>3. HttpStatus(a) # 200
        BY <3>2
      <3>. QED
        BY <1>1, <2>2, <3>3
    <2>. QED
      BY <2>1, <2>2

\* Every 200 stands on the zone of its request, a registry of the operator that
\* zone names and a record in use in it (resolve_traced_inner, handle), for any
\* number of requests and providers.
THEOREM ServesTheAuthorised == Spec => []ContentIsAuthorised
  <1>1. ChainInv => ContentIsAuthorised
    BY Statuses DEF ChainInv, TypeOK, TaskInv, Vouched, ContentIsAuthorised, Answered
  <1>. QED
    BY <1>1, ChainHolds, PTL

\* A request that met a registry that does not verify ends with 502
\* (fetch_registry_live, tld_registry), whatever else it could have tried.
THEOREM ForgeriesFailClosed == Spec => []FailsClosed
  <1>1. ChainInv => FailsClosed
    BY Statuses DEF ChainInv, TaskInv, FailsClosed, Answered, Answers
  <1>. QED
    BY <1>1, ChainHolds, PTL

-----------------------------------------------------------------------------
(***************************************************************************)
(* While registries can be stored, the one the node answered from last is  *)
(* the one in its cache.                                                   *)
(***************************************************************************)
LastIsCached == used # NoDoc => used = cache

\* The steps that change the cache or the registry last answered from.
LEMMA CacheSteps ==
    ASSUME "store" \notin Faults, [Next]_vars
    PROVE  \/ UNCHANGED << cache, used >>
           \/ \E t \in Tasks :
                 /\ At(t, "store")
                 /\ cache' = task[t].doc /\ used' = task[t].doc
           \/ \E t \in Tasks :
                 Cached(t) # NoDoc /\ used' = Cached(t) /\ cache' = cache
  <1>1. ASSUME NEW t \in Tasks, Resolve(t)
        PROVE  \/ UNCHANGED << cache, used >>
               \/ /\ At(t, "store")
                  /\ cache' = task[t].doc /\ used' = task[t].doc
               \/ Cached(t) # NoDoc /\ used' = Cached(t) /\ cache' = cache
    <2>1. CASE Compare(t)
      BY <2>1 DEF Compare, IsOlder, Use
    <2>2. CASE StoreRegistry(t)
      BY <2>2 DEF StoreRegistry, Use
    <2>3. CASE FallBack(t)
      BY <2>3 DEF FallBack, Use
    <2>4. CASE ~(Compare(t) \/ StoreRegistry(t) \/ FallBack(t))
      BY <1>1, <2>4 DEF Resolve, Begin, FetchPinned, FetchLive, FetchForged,
         CheckRecord, ReadManifest, FetchManifest, CheckPath, ReadBlock,
         FetchBlock, PutStarts, PutBlock
    <2>. QED
      BY <2>1, <2>2, <2>3, <2>4
  <1>2. CASE UNCHANGED vars
    BY <1>2 DEF vars
  <1>3. CASE ~(\E t \in Tasks : Resolve(t)) /\ Next
    BY <1>3 DEF Next, Publish, ChangeZone, Expire, Tamper, Request, ClearBlocks,
       Restart
  <1>. QED
    BY <1>1, <1>2, <1>3

\* Where registries can be stored, a request that no provider answers still
\* gets an answer from a registry of the same operator, if the node last
\* answered from one (tld_registry), for any number of requests.
THEOREM KeepsResolvingOffline ==
    ASSUME "store" \notin Faults
    PROVE  Spec => OfflineKeepsResolving
  <1>1. Init => LastIsCached
    BY DEF Init, LastIsCached
  <1>2. LastIsCached /\ [Next]_vars => LastIsCached'
    <2> SUFFICES ASSUME LastIsCached, [Next]_vars PROVE LastIsCached'
      OBVIOUS
    <2>1. \A t \in Tasks : Cached(t) # NoDoc => Cached(t) = cache
      BY DEF Cached
    <2>. QED
      BY <2>1, CacheSteps DEF LastIsCached
  <1>3. ASSUME ChainInv, LastIsCached, [Next]_vars, NEW t \in Tasks,
               At(t, "fallback"), task'[t].answer = "unavailable"
        PROVE  used = NoDoc \/ used.operator # task[t].tld.operator
    <2>1. SUFFICES ASSUME used # NoDoc, used.operator = task[t].tld.operator
                   PROVE  FALSE
      OBVIOUS
    <2>2. task \in [Tasks -> TaskRecords] /\ task[t].answer = "none"
      BY <1>3 DEF ChainInv, TypeOK, TaskRecords, TaskInv, At
    <2>3. Cached(t) # NoDoc
      BY <1>3, <2>1 DEF LastIsCached, Cached, Authorised
    <2>4. CASE FallBack(t)
      BY <1>3, <2>2, <2>3, <2>4 DEF FallBack, Use, TaskRecords
    <2>5. CASE Restart
      BY <1>3, <2>5 DEF Restart, NewTask
    <2>6. ASSUME NEW u \in Tasks, Resolve(u) \/ Request(u), u # t PROVE FALSE
      <3>1. task'[t] = task[t]
        BY <2>2, <2>6 DEF Resolve, Request, Begin, FetchPinned, FetchLive,
           FetchForged, Compare, StoreRegistry, FallBack, CheckRecord, ReadManifest,
           FetchManifest, CheckPath, ReadBlock, FetchBlock, PutStarts, PutBlock,
           End, Step, Take, Use
      <3>. QED
        BY <1>3, <2>2, <3>1
    <2>7. CASE task' = task
      BY <1>3, <2>2, <2>7
    <2>8. Resolve(t) \/ Request(t) => FallBack(t)
      BY <1>3 DEF At, Resolve, Request, Begin, FetchPinned, FetchLive, FetchForged,
         Compare, StoreRegistry, CheckRecord, ReadManifest, FetchManifest,
         CheckPath, ReadBlock, FetchBlock, PutStarts, PutBlock
    <2>. QED
      BY <1>3, <2>4, <2>5, <2>6, <2>7, <2>8 DEF Next, Publish, ChangeZone, Expire,
         Tamper, ClearBlocks, vars
  <1>4. ChainInv /\ LastIsCached /\ [Next]_vars
        => [\A t \in Tasks :
              At(t, "fallback") /\ task'[t].answer = "unavailable"
                => used = NoDoc \/ used.operator # task[t].tld.operator]_vars
    BY <1>3
  <1>. QED
    BY <1>1, <1>2, <1>4, ChainHolds, PTL DEF Spec, OfflineKeepsResolving

\* A request about to store a registry has found it no older than the cache.
NoneNewer == \A t \in Tasks : At(t, "store") => ~IsOlder(task[t].doc, Cached(t))

\* The node never goes back to an older registry of the operator it answered
\* from last, one request at a time and where registries can be stored
\* (tld_registry, rollback protection).
THEOREM RegistryNeverRollsBack ==
    ASSUME "store" \notin Faults, \A t, u \in Tasks : t = u
    PROVE  Spec => RegistryAdvances
  <1>1. Init => LastIsCached /\ NoneNewer
    BY DEF Init, LastIsCached, NoneNewer, At, NewTask
  <1>2. ASSUME ChainInv, LastIsCached, NoneNewer, [Next]_vars
        PROVE  LastIsCached' /\ NoneNewer'
    <2>1. \A t \in Tasks : Cached(t) # NoDoc => Cached(t) = cache
      BY DEF Cached
    <2>2. LastIsCached'
      BY <1>2, <2>1, CacheSteps DEF LastIsCached
    <2>3. ASSUME NEW t \in Tasks, At(t, "store")'
          PROVE  (~IsOlder(task[t].doc, Cached(t)))'
      <3>1. task \in [Tasks -> TaskRecords]
        BY <1>2 DEF ChainInv, TypeOK, TaskRecords
      <3>2. CASE Compare(t)
        BY <1>2, <2>3, <3>1, <3>2 DEF Compare, Step, Use, At, IsOlder, Cached,
           Authorised, TaskRecords
      <3>3. CASE UNCHANGED << cache, task >>
        BY <1>2, <2>3, <3>3 DEF NoneNewer, IsOlder, Cached, Authorised, At
      <3>4. CASE Restart
        BY <2>3, <3>4 DEF Restart, NewTask, At
      <3>5. Resolve(t) \/ Request(t) => Compare(t)
        BY <2>3, <3>1 DEF At, Resolve, Request, Begin, FetchPinned, FetchLive,
           FetchForged, StoreRegistry, FallBack, CheckRecord, ReadManifest,
           FetchManifest, CheckPath, ReadBlock, FetchBlock, PutStarts, PutBlock,
           End, Step, Take, Use, NewTask, TaskRecords
      <3>. QED
        BY <1>2, <3>2, <3>3, <3>4, <3>5 DEF Next, Publish, ChangeZone, Expire,
           Tamper, ClearBlocks, vars
    <2>. QED
      BY <2>2, <2>3 DEF NoneNewer
  <1>3. ASSUME ChainInv, LastIsCached, NoneNewer, [Next]_vars,
               used # NoDoc, used.operator = used'.operator
        PROVE  used'.version >= used.version
    <2>1. used = cache /\ used \in Docs /\ used.version \in Nat
      BY <1>3, ResolutionAssumption DEF ChainInv, TypeOK, LastIsCached, Docs
    <2>2. ASSUME NEW t \in Tasks, At(t, "store"), used' = task[t].doc
          PROVE  used'.version >= used.version
      <3>1. /\ Authorised(t, task[t].doc) /\ task[t].doc \in PublishedDocs
        BY <1>3, <2>2 DEF ChainInv, TaskInv, At
      <3>2. task[t].doc.version \in Nat
        BY <3>1, ResolutionAssumption DEF PublishedDocs, Docs
      <3>3. Cached(t) = cache
        BY <1>3, <2>1, <2>2, <3>1 DEF Cached, Authorised
      <3>. QED
        BY <1>3, <2>1, <2>2, <3>2, <3>3 DEF NoneNewer, IsOlder
    <2>3. ASSUME NEW t \in Tasks, Cached(t) # NoDoc, used' = Cached(t)
          PROVE  used'.version >= used.version
      BY <2>1, <2>3 DEF Cached
    <2>. QED
      BY <1>3, <2>1, <2>2, <2>3, CacheSteps
  <1>4. ChainInv /\ LastIsCached /\ NoneNewer /\ [Next]_vars
        => [used # NoDoc /\ used.operator = used'.operator
              => used'.version >= used.version]_vars
    BY <1>3
  <1>. QED
    BY <1>1, <1>2, <1>4, ChainHolds, PTL DEF Spec, RegistryAdvances
=============================================================================
