------------------------ MODULE RegistryStoreProofs ------------------------
(***************************************************************************)
(* Theorems about RegistryStore, about its refinement of the abstract      *)
(* registry (RegistryPromise) and about its clients (Publisher), for every *)
(* value of their constants.                                               *)
(***************************************************************************)
EXTENDS RegistryPromise, Publisher, RootZoneProofs, SequenceTheorems, FiniteSetTheorems, TLAPS

LEMMA EmptyStoreIsStore == EmptyStore \in Store
  <1>1. EmptyZone(0) \in Zone
    BY DEF EmptyZone, Zone
  <1>. QED
    BY <1>1 DEF EmptyStore, Store

\* Recording a mutation keeps a store a store.
LEMMA RecordIsStore ==
    ASSUME NEW s \in Store, NEW req \in MutationRequest, NEW zone \in Zone,
           NEW event \in AuditRecord
    PROVE  Record(s, req, zone, event) \in Store
  <1>1. RegistriesAfter(s.registries, req) \in [TldNames -> TldRegistry \cup {None}]
    <2>1. req.action \in Action /\ s.registries \in [TldNames -> TldRegistry \cup {None}]
      BY DEF MutationRequest, Store
    <2>. QED
      BY <2>1, ActionFields, NameAssumption DEF RegistriesAfter
  <1>2. [s.versions EXCEPT ![target_key(req.action)] = req.version]
            \in [TldNames \cup DomainNames -> Nat]
    <2>1. s.versions \in [TldNames \cup DomainNames -> Nat] /\ req.version \in Nat
      BY DEF Store, MutationRequest
    <2>. QED
      BY <2>1, TargetKeyIsName
  <1>3. s.applied \cup {req} \in SUBSET MutationRequest
    BY DEF Store
  <1>4. Append(s.audit, event) \in Seq(AuditRecord)
    BY DEF Store
  <1>. QED
    BY <1>1, <1>2, <1>3, <1>4 DEF Record, Store

\* Applying an accepted mutation keeps a store a store and is recorded last.
LEMMA ApplyIsStore ==
    ASSUME NEW s \in Store, NEW req \in MutationRequest, NEW now \in Nat, NEW t,
           Accepts(s, req, now, t)
    PROVE  /\ Apply(s, req, now) \in Store
           /\ Apply(s, req, now).audit # <<>>
           /\ Apply(s, req, now).audit[Len(Apply(s, req, now).audit)] =
                  [req |-> req, prev |-> s.zone, new |-> Apply(s, req, now).zone]
           /\ Apply(s, req, now).zone = SignedZone(s.zone, req, now)
           /\ Apply(s, req, now).zone.version > s.zone.version
  <1>. DEFINE zone == SignedZone(s.zone, req, now)
              event == [req |-> req, prev |-> s.zone, new |-> zone]
  <1>1. s.zone \in Zone /\ s.audit \in Seq(AuditRecord)
    BY DEF Store
  <1>2. zone \in Zone /\ zone.version > s.zone.version
    BY <1>1, SignedZoneIsZone DEF Accepts
  <1>3. event \in AuditRecord
    BY <1>1, <1>2 DEF AuditRecord
  <1>4. Apply(s, req, now) = Record(s, req, zone, event)
    BY DEF Apply
  <1>5. /\ Record(s, req, zone, event).audit = Append(s.audit, event)
        /\ Record(s, req, zone, event).zone = zone
    BY DEF Record
  <1>. HIDE DEF zone, event
  <1>6. /\ Append(s.audit, event) # <<>>
        /\ Append(s.audit, event)[Len(Append(s.audit, event))] = event
    BY <1>1, <1>3
  <1>7. Record(s, req, zone, event) \in Store
    BY <1>2, <1>3, RecordIsStore
  <1>. QED
    BY <1>2, <1>4, <1>5, <1>6, <1>7 DEF zone, event
-----------------------------------------------------------------------------
(* Type correctness.  Commit stores the last event of the log in memory,   *)
(* so the type of the database rests on the log being non-empty there,     *)
(* and on memory not being replaced under a submission in flight.          *)

\* No submission survives the process.
NoOrphans == ~up => \A h \in Handlers : handler[h] = Idle

\* The mutation being committed is the last one memory recorded.
EventReady ==
    \A h \in Handlers : handler[h].pc = "memory" =>
        mem.audit # <<>> /\ mem.audit[Len(mem.audit)].req = handler[h].req

\* The lock excludes.
OneHolder == \A g, h \in Handlers : Holding(g) /\ Holding(h) => g = h

BaseInv == TypeOK /\ NoOrphans /\ OneHolder /\ EventReady

\* What a submission's step counter says about its type.
LEMMA HandlerFields ==
    ASSUME TypeOK, NEW h \in Handlers
    PROVE  /\ handler[h] = Idle \/ handler[h] \in Handler
           /\ handler[h].pc # "idle" =>
                  /\ handler[h] \in Handler
                  /\ handler[h].req \in Requests
                  /\ handler[h].req \in MutationRequest
                  /\ handler[h].req.nonce \in Nonces
                  /\ handler[h].now \in Nat
                  /\ handler[h].package \in Packages \cup {None}
           /\ handler[h] \in Handler => handler[h].pc # "idle"
  <1>1. handler[h] \in Handler \cup {Idle}
    BY DEF TypeOK
  <1>2. Idle.pc = "idle"
    BY DEF Idle
  <1>3. \A x \in Handler : /\ x.pc # "idle" /\ x.req \in Requests /\ x.now \in Nat
                           /\ x.package \in Packages \cup {None}
    BY DEF Handler
  <1>. QED
    BY <1>1, <1>2, <1>3, RequestAssumption

\* A submission changes in one place only.
LEMMA HandlerStep ==
    ASSUME TypeOK, NEW h \in Handlers, NEW x \in Handler \cup {Idle},
           handler' = [handler EXCEPT ![h] = x]
    PROVE  /\ handler' \in [Handlers -> Handler \cup {Idle}]
           /\ handler'[h] = x
           /\ \A g \in Handlers : g # h => handler'[g] = handler[g]
  BY DEF TypeOK

LEMMA BaseInit == Init => BaseInv
  <1>. SUFFICES ASSUME Init PROVE BaseInv
    OBVIOUS
  <1>1. TypeOK
    BY EmptyStoreIsStore DEF Init, TypeOK
  <1>2. \A h \in Handlers : handler[h] = Idle /\ handler[h].pc = "idle"
    BY DEF Init, Idle
  <1>. QED
    BY <1>1, <1>2 DEF BaseInv, NoOrphans, OneHolder, EventReady, Holding
\* Moving a submission to its next step.
LEMMA AdvancePc ==
    ASSUME TypeOK, NEW h \in Handlers, handler[h].pc # "idle",
           NEW pc \in {"wait", "consumed", "stored", "memory", "committed"},
           handler' = [handler EXCEPT ![h].pc = pc]
    PROVE  /\ handler' \in [Handlers -> Handler \cup {Idle}]
           /\ handler'[h].pc = pc
           /\ handler'[h].req = handler[h].req
           /\ \A g \in Handlers : g # h => handler'[g] = handler[g]
  <1>1. handler[h] \in Handler
    BY HandlerFields
  <1>. DEFINE x == [handler[h] EXCEPT !.pc = pc]
  <1>2. x \in Handler /\ x.pc = pc /\ x.req = handler[h].req
    BY <1>1 DEF Handler
  <1>3. handler' = [handler EXCEPT ![h] = x]
    BY DEF TypeOK
  <1>. QED
    BY <1>2, <1>3, HandlerStep

\* Letting a submission go changes nothing else.
LEMMA DropKeepsBase ==
    ASSUME BaseInv, NEW h \in Handlers,
           handler' = [handler EXCEPT ![h] = Idle],
           UNCHANGED <<clock, up, mem, db, nonces, issued, content, served>>,
           accepted' \subseteq MutationRequest
    PROVE  BaseInv'
  <1>1. /\ handler' \in [Handlers -> Handler \cup {Idle}]
        /\ handler'[h] = Idle
        /\ \A g \in Handlers : g # h => handler'[g] = handler[g]
    BY HandlerStep DEF BaseInv
  <1>2. Idle.pc = "idle"
    BY DEF Idle
  <1>3. TypeOK'
    BY <1>1 DEF BaseInv, TypeOK
  <1>. QED
    BY <1>1, <1>2, <1>3 DEF BaseInv, NoOrphans, OneHolder, EventReady, Holding

\* An offline seed entry is a well-formed request of the root key.
LEMMA SeedRequestIsRequest ==
    ASSUME db \in Store, clock \in Nat, NEW entry \in SeedFile
    PROVE  SeedRequest(entry) \in MutationRequest
  <1>1. entry.name \in TldNames /\ entry.kind \in {"create_tld", "reserve_tld", "block_tld"}
    BY RequestAssumption
  <1>2. [kind |-> entry.kind, name |-> entry.name] \in Action
    BY <1>1 DEF Action
  <1>3. db.versions[Lower[entry.name]] + 1 \in Nat
    BY <1>1, NameAssumption DEF Store
  <1>. QED
    BY <1>2, <1>3, KeyAssumption DEF SeedRequest, MutationRequest

LEMMA BaseStep == BaseInv /\ [Next]_vars => BaseInv'
  <1>. SUFFICES ASSUME BaseInv, [Next]_vars PROVE BaseInv'
    OBVIOUS
  <1>t. TypeOK /\ NoOrphans /\ OneHolder /\ EventReady
    BY DEF BaseInv
  <1>s. /\ mem \in Store /\ db \in Store /\ clock \in Nat
        /\ accepted \subseteq MutationRequest /\ content \subseteq Manifest \cup TldRegistry
    BY <1>t DEF TypeOK
  <1>1. ASSUME NEW h \in Handlers, NEW req \in Requests, NEW package \in Packages \cup {None},
               Receive(h, req, package)
        PROVE  BaseInv'
    <2>. DEFINE x == [pc |-> "wait", req |-> req, now |-> clock, package |-> package]
    <2>1. x \in Handler /\ x.pc = "wait"
      BY <1>s DEF Handler
    <2>2. /\ handler' \in [Handlers -> Handler \cup {Idle}]
          /\ handler'[h] = x
          /\ \A g \in Handlers : g # h => handler'[g] = handler[g]
      BY <1>1, <1>t, <2>1, HandlerStep DEF Receive
    <2>. HIDE DEF x
    <2>3. TypeOK'
      BY <1>1, <1>t, <2>2 DEF Receive, TypeOK
    <2>. QED
      BY <1>1, <1>t, <2>1, <2>2, <2>3
      DEF Receive, BaseInv, NoOrphans, OneHolder, EventReady, Holding
  <1>2. ASSUME NEW h \in Handlers, ConsumeNonce(h)
        PROVE  BaseInv'
    <2>. DEFINE x == IF Consumable(h) THEN [handler[h] EXCEPT !.pc = "consumed"] ELSE Idle
    <2>1. handler[h] \in Handler
      BY <1>2, <1>t, HandlerFields DEF ConsumeNonce
    <2>2. x \in Handler \cup {Idle} /\ x.pc \in {"consumed", "idle"}
      BY <2>1 DEF Handler, Idle
    <2>3. handler' = [handler EXCEPT ![h] = x]
      BY <1>2, <1>t DEF ConsumeNonce, TypeOK
    <2>. HIDE DEF x
    <2>4. /\ handler' \in [Handlers -> Handler \cup {Idle}]
          /\ handler'[h] = x
          /\ \A g \in Handlers : g # h => handler'[g] = handler[g]
      BY <1>t, <2>2, <2>3, HandlerStep
    <2>5. TypeOK'
      BY <1>2, <1>t, <2>4 DEF ConsumeNonce, TypeOK
    <2>6. \A g \in Handlers : Holding(g)' => g = h
      BY <1>2, <2>4 DEF ConsumeNonce, WriteLocked, Holding
    <2>7. EventReady'
      BY <1>2, <1>t, <2>2, <2>4 DEF ConsumeNonce, EventReady
    <2>. QED
      BY <1>2, <2>5, <2>6, <2>7 DEF ConsumeNonce, BaseInv, NoOrphans, OneHolder
  <1>3. ASSUME NEW h \in Handlers, StoreContent(h)
        PROVE  BaseInv'
    <2>1. /\ handler' \in [Handlers -> Handler \cup {Idle}]
          /\ handler'[h].pc = "stored"
          /\ \A g \in Handlers : g # h => handler'[g] = handler[g]
      BY <1>3, <1>t, AdvancePc DEF StoreContent
    <2>2. handler[h].package \in Manifest
      BY <1>3, <1>t, HandlerFields, RequestAssumption DEF StoreContent
    <2>3. TypeOK'
      BY <1>3, <1>t, <2>1, <2>2 DEF StoreContent, TypeOK
    <2>4. OneHolder'
      BY <1>3, <1>t, <2>1 DEF StoreContent, OneHolder, Holding
    <2>5. EventReady'
      BY <1>3, <1>t, <2>1 DEF StoreContent, EventReady
    <2>. QED
      BY <1>3, <2>3, <2>4, <2>5 DEF StoreContent, BaseInv, NoOrphans
  <1>4. ASSUME NEW h \in Handlers, ApplyInMemory(h)
        PROVE  BaseInv'
    <2>1. handler[h].pc \in {"stored", "consumed"}
      BY <1>4 DEF ApplyInMemory, ReadyToApply
    <2>2. handler[h].req \in MutationRequest /\ handler[h].now \in Nat
      BY <1>t, <2>1, HandlerFields
    <2>3. /\ handler' \in [Handlers -> Handler \cup {Idle}]
          /\ handler'[h].pc = "memory"
          /\ handler'[h].req = handler[h].req
          /\ \A g \in Handlers : g # h => handler'[g] = handler[g]
      BY <1>4, <1>t, <2>1, AdvancePc DEF ApplyInMemory
    <2>4. /\ mem' \in Store
          /\ mem'.audit # <<>>
          /\ mem'.audit[Len(mem'.audit)].req = handler[h].req
      <3>. DEFINE new == Apply(mem, handler[h].req, handler[h].now)
      <3>1. mem' = new /\ Accepts(mem, handler[h].req, handler[h].now, clock)
        BY <1>4 DEF ApplyInMemory
      <3>2. /\ new \in Store
            /\ new.audit # <<>>
            /\ new.audit[Len(new.audit)] =
                   [req |-> handler[h].req, prev |-> mem.zone, new |-> new.zone]
        BY <1>s, <2>2, <3>1, ApplyIsStore
      <3>. HIDE DEF new
      <3>. QED
        BY <3>1, <3>2
    <2>5. content' \subseteq Manifest \cup TldRegistry
      <3>1. handler[h].req.action \in Action
        BY <2>2 DEF MutationRequest
      <3>. QED
        BY <1>4, <1>s, <3>1, ActionFields DEF ApplyInMemory
    <2>6. TypeOK'
      BY <1>4, <1>t, <2>3, <2>4, <2>5 DEF ApplyInMemory, TypeOK
    <2>7. \A g \in Handlers : Holding(g)' => g = h
      BY <1>t, <2>1, <2>3 DEF OneHolder, Holding
    <2>8. EventReady'
      BY <2>3, <2>4, <2>7 DEF EventReady, Holding
    <2>. QED
      BY <1>4, <2>6, <2>7, <2>8 DEF ApplyInMemory, BaseInv, NoOrphans, OneHolder
  <1>5. ASSUME NEW h \in Handlers, ApplyWriteFails(h)
        PROVE  BaseInv'
    <2>1. handler[h].pc \in {"stored", "consumed"}
      BY <1>5 DEF ApplyWriteFails, ReadyToApply
    <2>2. handler[h].req \in MutationRequest /\ handler[h].now \in Nat
      BY <1>t, <2>1, HandlerFields
    <2>3. mem' \in Store /\ mem'.audit = mem.audit
      <3>1. mem.zone \in Zone
        BY <1>s DEF Store
      <3>2. SignedZone(mem.zone, handler[h].req, handler[h].now) \in Zone
        BY <1>5, <2>2, <3>1, SignedZoneIsZone DEF ApplyWriteFails, Accepts
      <3>. QED
        BY <1>5, <1>s, <3>2 DEF ApplyWriteFails, Store
    <2>4. /\ handler' \in [Handlers -> Handler \cup {Idle}]
          /\ handler'[h] = Idle
          /\ \A g \in Handlers : g # h => handler'[g] = handler[g]
      BY <1>5, <1>t, HandlerStep DEF ApplyWriteFails
    <2>5. Idle.pc = "idle"
      BY DEF Idle
    <2>6. TypeOK'
      BY <1>5, <1>t, <2>3, <2>4 DEF ApplyWriteFails, TypeOK
    <2>. QED
      BY <1>5, <1>t, <2>3, <2>4, <2>5, <2>6
      DEF ApplyWriteFails, BaseInv, NoOrphans, OneHolder, EventReady, Holding
  <1>6. ASSUME NEW h \in Handlers, Commit(h)
        PROVE  BaseInv'
    <2>1. handler[h].req \in MutationRequest
      BY <1>6, <1>t, HandlerFields DEF Commit
    <2>2. mem.zone \in Zone /\ mem.audit \in Seq(AuditRecord) /\ mem.audit # <<>>
      BY <1>6, <1>t, <1>s DEF Commit, EventReady, Store
    <2>3. mem.audit[Len(mem.audit)] \in AuditRecord
      BY <2>2, EmptySeq, ElementOfSeq
    <2>4. db' \in Store
      BY <1>6, <1>s, <2>1, <2>2, <2>3, RecordIsStore DEF Commit
    <2>5. /\ handler' \in [Handlers -> Handler \cup {Idle}]
          /\ handler'[h].pc = "committed"
          /\ \A g \in Handlers : g # h => handler'[g] = handler[g]
      BY <1>6, <1>t, AdvancePc DEF Commit
    <2>6. TypeOK'
      BY <1>6, <1>t, <2>4, <2>5 DEF Commit, TypeOK
    <2>7. OneHolder'
      BY <1>6, <1>t, <2>5 DEF Commit, OneHolder, Holding
    <2>8. EventReady'
      BY <1>6, <1>t, <2>5 DEF Commit, EventReady
    <2>. QED
      BY <1>6, <2>6, <2>7, <2>8 DEF Commit, BaseInv, NoOrphans
  <1>7. ASSUME NEW h \in Handlers, Answer(h)
        PROVE  BaseInv'
    <2>1. handler[h].req \in MutationRequest
      BY <1>7, <1>t, HandlerFields DEF Answer
    <2>. QED
      BY <1>7, <1>s, <2>1, DropKeepsBase DEF Answer
  <1>8. ASSUME NEW h \in Handlers,
               \/ Reject(h) \/ Disconnect(h) \/ ConsumeNonceFails(h) \/ StoreContentFails(h)
               \/ CommitFails(h) \/ SnapshotFails(h)
        PROVE  BaseInv'
    BY <1>8, <1>s, DropKeepsBase
    DEF Reject, Disconnect, ConsumeNonceFails, StoreContentFails, CommitFails, SnapshotFails
  <1>9. ASSUME NEW n \in Nonces, IssueNonce(n)
        PROVE  BaseInv'
    <2>1. [nonce |-> n, expires |-> clock + NonceTTL] \in NonceRow
      BY <1>s, BoundAssumption DEF NonceRow
    <2>2. TypeOK'
      BY <1>9, <1>t, <2>1 DEF IssueNonce, TypeOK
    <2>. QED
      BY <1>9, <1>t, <2>2 DEF IssueNonce, BaseInv, NoOrphans, OneHolder, EventReady, Holding
  <1>10. ASSUME ServeRoot
         PROVE  BaseInv'
    <2>1. mem.zone \in Zone
      BY <1>s DEF Store
    <2>2. TypeOK'
      BY <1>10, <1>t, <2>1 DEF ServeRoot, TypeOK
    <2>. QED
      BY <1>10, <1>t, <2>2 DEF ServeRoot, BaseInv, NoOrphans, OneHolder, EventReady, Holding
  <1>11. ASSUME Crash
         PROVE  BaseInv'
    <2>1. \A h \in Handlers : handler'[h] = Idle /\ handler'[h].pc = "idle"
      BY <1>11 DEF Crash, Idle
    <2>2. TypeOK'
      BY <1>11, <1>t, EmptyStoreIsStore DEF Crash, TypeOK
    <2>. QED
      BY <2>1, <2>2 DEF BaseInv, NoOrphans, OneHolder, EventReady, Holding
  <1>12. ASSUME Start
         PROVE  BaseInv'
    <2>1. \A h \in Handlers : handler[h] = Idle /\ handler[h].pc = "idle"
      BY <1>12, <1>t DEF Start, NoOrphans, Idle
    <2>2. TypeOK'
      BY <1>12, <1>t DEF Start, TypeOK
    <2>. QED
      BY <1>12, <2>1, <2>2 DEF Start, BaseInv, NoOrphans, OneHolder, EventReady, Holding
  <1>13. ASSUME NEW entry \in SeedFile, SeedEntry(entry)
         PROVE  BaseInv'
    <2>1. SeedRequest(entry) \in MutationRequest
      BY <1>s, SeedRequestIsRequest
    <2>2. db' \in Store
      BY <1>13, <1>s, <2>1, ApplyIsStore DEF SeedEntry, RootSeed
    <2>3. TypeOK'
      BY <1>13, <1>t, <2>2 DEF SeedEntry, RootSeed, TypeOK
    <2>. QED
      BY <1>13, <1>t, <2>3 DEF SeedEntry, RootSeed, BaseInv, NoOrphans, OneHolder, EventReady, Holding
  <1>14. ASSUME Tick
         PROVE  BaseInv'
    <2>1. TypeOK'
      BY <1>14, <1>t DEF Tick, TypeOK
    <2>. QED
      BY <1>14, <1>t, <2>1 DEF Tick, BaseInv, NoOrphans, OneHolder, EventReady, Holding
  <1>15. ASSUME UNCHANGED vars
         PROVE  BaseInv'
    BY <1>15, <1>t DEF vars, BaseInv, TypeOK, NoOrphans, OneHolder, EventReady, Holding
  <1>. QED
    BY <1>1, <1>2, <1>3, <1>4, <1>5, <1>6, <1>7, <1>8, <1>9, <1>10, <1>11, <1>12, <1>13,
       <1>14, <1>15 DEF Next, Progress, Failure

\* Every variable keeps its type: whatever is submitted, fails or crashes, both
\* copies of the registry stay well-formed and every zone served is a zone.
THEOREM TypeCorrect == Spec => []TypeOK
  <1>1. BaseInv => TypeOK
    BY DEF BaseInv
  <1>. QED
    BY BaseInit, BaseStep, <1>1, PTL DEF Spec
-----------------------------------------------------------------------------
(* What the two steps that change the database do to it.                   *)

LEMMA AppendEvent ==
    ASSUME NEW log \in Seq(AuditRecord), NEW event \in AuditRecord
    PROVE  LET new == Append(log, event)
           IN /\ DOMAIN new = DOMAIN log \cup {Len(log) + 1}
              /\ \A i \in DOMAIN log : i \in Nat /\ i < Len(log) + 1 /\ new[i] = log[i]
              /\ new[Len(log) + 1] = event
              /\ Len(log) + 1 \in Nat
              /\ Len(new) = Len(log) + 1
  <1>1. Len(log) \in Nat /\ DOMAIN log = 1 .. Len(log)
    OBVIOUS
  <1>2. /\ Append(log, event) \in Seq(AuditRecord)
        /\ Len(Append(log, event)) = Len(log) + 1
        /\ DOMAIN Append(log, event) = 1 .. Len(log) + 1
    BY <1>1
  <1>3. 1 .. Len(log) + 1 = (1 .. Len(log)) \cup {Len(log) + 1}
    BY <1>1
  <1>. QED
    BY <1>1, <1>2, <1>3

LEMMA CommitEffect ==
    ASSUME BaseInv, NEW h \in Handlers, Commit(h)
    PROVE  LET req == handler[h].req
               event == mem.audit[Len(mem.audit)]
           IN /\ req \in MutationRequest
              /\ event \in AuditRecord
              /\ event.req = req
              /\ db'.zone = mem.zone
              /\ db'.versions = [db.versions EXCEPT ![target_key(req.action)] = req.version]
              /\ db'.applied = db.applied \cup {req}
              /\ db'.audit = Append(db.audit, event)
              /\ handler'[h].pc = "committed"
              /\ handler'[h].req = req
              /\ \A g \in Handlers : g # h => handler'[g] = handler[g] /\ ~Holding(g)
  <1>1. TypeOK /\ OneHolder /\ EventReady
    BY DEF BaseInv
  <1>2. handler[h].req \in MutationRequest
    BY <1>1, HandlerFields DEF Commit
  <1>3. mem.audit \in Seq(AuditRecord) /\ mem.audit # <<>>
        /\ mem.audit[Len(mem.audit)].req = handler[h].req
    BY <1>1 DEF Commit, EventReady, TypeOK, Store
  <1>4. mem.audit[Len(mem.audit)] \in AuditRecord
    BY <1>3, EmptySeq, ElementOfSeq
  <1>5. /\ handler'[h].pc = "committed"
        /\ handler'[h].req = handler[h].req
        /\ \A g \in Handlers : g # h => handler'[g] = handler[g]
    BY <1>1, AdvancePc DEF Commit
  <1>6. \A g \in Handlers : g # h => ~Holding(g)
    BY <1>1 DEF Commit, OneHolder, Holding
  <1>. QED
    BY <1>2, <1>3, <1>4, <1>5, <1>6 DEF Commit, Record

LEMMA SeedEffect ==
    ASSUME BaseInv, NEW entry \in SeedFile, SeedEntry(entry)
    PROVE  LET req == SeedRequest(entry)
               zone == SignedZone(db.zone, req, clock)
               event == [req |-> req, prev |-> db.zone, new |-> zone]
           IN /\ req \in MutationRequest
              /\ req.nonce = SeedNonce
              /\ event \in AuditRecord
              /\ zone.version > db.zone.version
              /\ db'.zone = zone
              /\ db'.versions = [db.versions EXCEPT ![target_key(req.action)] = req.version]
              /\ db'.applied = db.applied \cup {req}
              /\ db'.audit = Append(db.audit, event)
              /\ req.version > db.versions[target_key(req.action)]
              /\ \A h \in Handlers : handler'[h] = Idle /\ handler'[h].pc = "idle"
  <1>. DEFINE req == SeedRequest(entry)
              zone == SignedZone(db.zone, req, clock)
  <1>1. /\ ~up /\ db \in Store /\ clock \in Nat /\ handler' = handler
        /\ \A h \in Handlers : handler[h] = Idle
    BY DEF BaseInv, TypeOK, NoOrphans, SeedEntry, RootSeed
  <1>2. req \in MutationRequest /\ req.nonce = SeedNonce
    BY <1>1, SeedRequestIsRequest DEF SeedRequest
  <1>3. Accepts(db, req, clock, clock) /\ db' = Apply(db, req, clock)
    BY DEF SeedEntry, RootSeed
  <1>. HIDE DEF req
  <1>4. db.zone \in Zone
    BY <1>1 DEF Store
  <1>5. /\ zone \in Zone /\ zone.version > db.zone.version
        /\ req.version > db.versions[target_key(req.action)]
    BY <1>1, <1>2, <1>3, <1>4, SignedZoneIsZone DEF Accepts
  <1>. HIDE DEF zone
  <1>6. [req |-> req, prev |-> db.zone, new |-> zone] \in AuditRecord
    BY <1>2, <1>4, <1>5 DEF AuditRecord
  <1>7. db' = Record(db, req, zone, [req |-> req, prev |-> db.zone, new |-> zone])
    BY <1>3 DEF Apply, zone
  <1>8. Idle.pc = "idle"
    BY DEF Idle
  <1>. QED
    BY <1>1, <1>2, <1>5, <1>6, <1>7, <1>8 DEF Record, req, zone

-----------------------------------------------------------------------------
(* A challenge is spent once.  Every challenge is in exactly one place:    *)
(* the table, the submission that consumed it, or the durable log.         *)

PreCommit(h) == handler[h].pc \in {"consumed", "stored", "memory"}

ChallengeInv ==
    /\ \A row \in nonces : row.nonce \in issued
    /\ \A i \in DOMAIN db.audit :
           /\ db.audit[i].req.nonce \in issued \cup {SeedNonce}
           /\ \A row \in nonces : db.audit[i].req.nonce # row.nonce
    /\ \A h \in Handlers : PreCommit(h) =>
           /\ handler[h].req.nonce \in issued
           /\ \A row \in nonces : row.nonce # handler[h].req.nonce
           /\ \A i \in DOMAIN db.audit : db.audit[i].req.nonce # handler[h].req.nonce

LEMMA ChallengeInit == Init => ChallengeInv /\ OneMutationPerChallenge
  <1>. SUFFICES ASSUME Init PROVE ChallengeInv /\ OneMutationPerChallenge
    OBVIOUS
  <1>1. nonces = {} /\ db.audit = <<>> /\ \A h \in Handlers : handler[h].pc = "idle"
    BY DEF Init, EmptyStore, Idle
  <1>2. DOMAIN db.audit = {}
    BY <1>1
  <1>. QED
    BY <1>1, <1>2 DEF ChallengeInv, OneMutationPerChallenge, PreCommit

LEMMA ChallengeStep ==
    ASSUME BaseInv, ChallengeInv, OneMutationPerChallenge, [Next]_vars
    PROVE  ChallengeInv' /\ OneMutationPerChallenge'
  <1>t. TypeOK /\ OneHolder
    BY DEF BaseInv
  <1>i. Idle.pc = "idle"
    BY DEF Idle
  <1>1. ASSUME db.audit' = db.audit, nonces' \subseteq nonces, issued' = issued,
               \A h \in Handlers : PreCommit(h)' =>
                   PreCommit(h) /\ handler'[h].req = handler[h].req
        PROVE  ChallengeInv' /\ OneMutationPerChallenge'
    BY <1>1 DEF ChallengeInv, OneMutationPerChallenge
  <1>2. ASSUME NEW h \in Handlers, handler' = [handler EXCEPT ![h] = Idle],
               db' = db, nonces' = nonces, issued' = issued
        PROVE  ChallengeInv' /\ OneMutationPerChallenge'
    <2>1. handler'[h].pc = "idle" /\ \A g \in Handlers : g # h => handler'[g] = handler[g]
      BY <1>2, <1>t, <1>i, HandlerStep
    <2>. QED
      BY <1>1, <1>2, <2>1 DEF PreCommit
  <1>3. ASSUME NEW h \in Handlers, NEW req \in Requests, NEW package \in Packages \cup {None},
               Receive(h, req, package)
        PROVE  ChallengeInv' /\ OneMutationPerChallenge'
    <2>1. handler'[h].pc = "wait" /\ \A g \in Handlers : g # h => handler'[g] = handler[g]
      BY <1>3, <1>t DEF Receive, TypeOK
    <2>. QED
      BY <1>1, <1>3, <2>1 DEF Receive, PreCommit
  <1>4. ASSUME NEW h \in Handlers, ConsumeNonce(h)
        PROVE  ChallengeInv' /\ OneMutationPerChallenge'
    <2>0. handler[h] \in Handler
      BY <1>4, <1>t, HandlerFields DEF ConsumeNonce
    <2>1. /\ \A g \in Handlers : g # h => handler'[g] = handler[g]
          /\ PreCommit(h)' => Consumable(h) /\ handler'[h].req = handler[h].req
      BY <1>4, <1>t, <1>i, <2>0 DEF ConsumeNonce, TypeOK, PreCommit, Handler
    <2>2. /\ nonces' \subseteq nonces /\ issued' = issued /\ db' = db
          /\ \A row \in nonces' : row.nonce # handler[h].req.nonce
      BY <1>4 DEF ConsumeNonce, RowsOf
    <2>3. Consumable(h) =>
              /\ handler[h].req.nonce \in issued
              /\ \A i \in DOMAIN db.audit : db.audit[i].req.nonce # handler[h].req.nonce
      BY DEF Consumable, RowsOf, ChallengeInv
    <2>. QED
      BY <2>1, <2>2, <2>3 DEF ChallengeInv, OneMutationPerChallenge, PreCommit
  <1>5. ASSUME NEW h \in Handlers, StoreContent(h) \/ ApplyInMemory(h)
        PROVE  ChallengeInv' /\ OneMutationPerChallenge'
    <2>1. PreCommit(h) /\ db' = db /\ nonces' = nonces /\ issued' = issued
      BY <1>5 DEF StoreContent, ApplyInMemory, ReadyToApply, PreCommit
    <2>2. /\ handler'[h].req = handler[h].req
          /\ \A g \in Handlers : g # h => handler'[g] = handler[g]
      BY <1>5, <1>t, <2>1, AdvancePc DEF StoreContent, ApplyInMemory, PreCommit
    <2>. QED
      BY <1>1, <2>1, <2>2 DEF PreCommit
  <1>6. ASSUME NEW h \in Handlers, Commit(h)
        PROVE  ChallengeInv' /\ OneMutationPerChallenge'
    <2>. DEFINE event == mem.audit[Len(mem.audit)]
                last == Len(db.audit) + 1
    <2>1. /\ event \in AuditRecord
          /\ event.req = handler[h].req
          /\ db'.audit = Append(db.audit, event)
          /\ \A g \in Handlers : ~PreCommit(g)'
      BY <1>6, CommitEffect DEF PreCommit, Holding
    <2>2. PreCommit(h) /\ nonces' = nonces /\ issued' = issued
      BY <1>6 DEF Commit, PreCommit
    <2>. HIDE DEF event
    <2>3. /\ DOMAIN db'.audit = DOMAIN db.audit \cup {last}
          /\ \A i \in DOMAIN db.audit : db'.audit[i] = db.audit[i]
          /\ db'.audit[last].req = handler[h].req
      BY <1>t, <2>1, AppendEvent DEF TypeOK, Store
    <2>. QED
      BY <2>1, <2>2, <2>3 DEF ChallengeInv, OneMutationPerChallenge
  <1>7. ASSUME NEW h \in Handlers,
               \/ Reject(h) \/ Answer(h) \/ Disconnect(h) \/ ConsumeNonceFails(h)
               \/ StoreContentFails(h) \/ ApplyWriteFails(h) \/ CommitFails(h)
               \/ SnapshotFails(h)
        PROVE  ChallengeInv' /\ OneMutationPerChallenge'
    BY <1>7, <1>2 DEF Reject, Answer, Disconnect, ConsumeNonceFails, StoreContentFails,
                      ApplyWriteFails, CommitFails, SnapshotFails
  <1>8. ASSUME NEW n \in Nonces, IssueNonce(n)
        PROVE  ChallengeInv' /\ OneMutationPerChallenge'
    <2>1. /\ n \notin issued /\ n # SeedNonce
          /\ issued' = issued \cup {n} /\ db' = db /\ handler' = handler
          /\ \A row \in nonces' : row \in nonces \/ row.nonce = n
      BY <1>8, KeyAssumption DEF IssueNonce
    <2>. QED
      BY <2>1 DEF ChallengeInv, OneMutationPerChallenge, PreCommit
  <1>9. ASSUME NEW entry \in SeedFile, SeedEntry(entry)
        PROVE  ChallengeInv' /\ OneMutationPerChallenge'
    <2>. DEFINE event == [req |-> SeedRequest(entry), prev |-> db.zone,
                          new |-> SignedZone(db.zone, SeedRequest(entry), clock)]
                last == Len(db.audit) + 1
    <2>1. /\ event \in AuditRecord
          /\ event.req.nonce = SeedNonce
          /\ db'.audit = Append(db.audit, event)
          /\ \A g \in Handlers : ~PreCommit(g)'
          /\ nonces' = nonces /\ issued' = issued
      BY <1>9, SeedEffect DEF SeedEntry, RootSeed, PreCommit
    <2>. HIDE DEF event
    <2>2. /\ DOMAIN db'.audit = DOMAIN db.audit \cup {last}
          /\ \A i \in DOMAIN db.audit : db'.audit[i] = db.audit[i]
          /\ db'.audit[last].req.nonce = SeedNonce
      BY <1>t, <2>1, AppendEvent DEF TypeOK, Store
    <2>3. \A row \in nonces : row.nonce \in Nonces
      BY <1>t DEF TypeOK, NonceRow
    <2>4. issued \subseteq Nonces
      BY <1>t DEF TypeOK
    <2>. QED
      BY <2>1, <2>2, <2>3, <2>4, KeyAssumption DEF ChallengeInv, OneMutationPerChallenge
  <1>10. ASSUME Crash \/ Start
         PROVE  ChallengeInv' /\ OneMutationPerChallenge'
    <2>1. \A h \in Handlers : ~PreCommit(h)'
      BY <1>10, <1>i DEF Crash, Start, BaseInv, NoOrphans, PreCommit
    <2>. QED
      BY <1>1, <1>10, <2>1 DEF Crash, Start
  <1>11. ASSUME ServeRoot \/ Tick \/ UNCHANGED vars
         PROVE  ChallengeInv' /\ OneMutationPerChallenge'
    BY <1>1, <1>11 DEF ServeRoot, Tick, vars, PreCommit
  <1>. QED
    BY <1>3, <1>4, <1>5, <1>6, <1>7, <1>8, <1>9, <1>10, <1>11 DEF Next, Progress, Failure

\* A challenge authorises at most one durable mutation, whatever is resubmitted,
\* fails or crashes (consume_nonce before apply, both under one lock).
THEOREM ChallengesAreSpentOnce == Spec => []OneMutationPerChallenge
  <1>1. Init => BaseInv /\ ChallengeInv /\ OneMutationPerChallenge
    BY BaseInit, ChallengeInit
  <1>2. BaseInv /\ ChallengeInv /\ OneMutationPerChallenge /\ [Next]_vars
            => (BaseInv /\ ChallengeInv /\ OneMutationPerChallenge)'
    BY BaseStep, ChallengeStep
  <1>. QED
    BY <1>1, <1>2, PTL DEF Spec
-----------------------------------------------------------------------------
(* Versions only advance.  Memory may run ahead of the database after a    *)
(* failed transaction, never behind it, so a request that passes the       *)
(* checks against memory also advances the database.                       *)

VersionInv ==
    /\ up => \A k \in TldNames \cup DomainNames : db.versions[k] <= mem.versions[k]
    /\ \A h \in Handlers : handler[h].pc = "memory" =>
           LET k == target_key(handler[h].req.action)
           IN /\ db.versions[k] < handler[h].req.version
              /\ mem.versions[k] = handler[h].req.version
    /\ \A i \in DOMAIN db.audit :
           db.audit[i].req.version <= db.versions[target_key(db.audit[i].req.action)]

ZoneInv ==
    /\ up => db.zone.version <= mem.zone.version
    /\ \A h \in Handlers : handler[h].pc = "memory" => db.zone.version < mem.zone.version

AdvanceInv == VersionInv /\ ZoneInv /\ TargetVersionsAdvance

\* Numbers the arithmetic below is about.
LEMMA StoreNumbers ==
    ASSUME NEW s \in Store
    PROVE  /\ s.zone \in Zone
           /\ s.zone.version \in Nat
           /\ \A k \in TldNames \cup DomainNames : s.versions[k] \in Nat
           /\ s.versions \in [TldNames \cup DomainNames -> Nat]
           /\ s.audit \in Seq(AuditRecord)
           /\ \A i \in DOMAIN s.audit :
                  /\ s.audit[i].req \in MutationRequest
                  /\ s.audit[i].req.version \in Nat
                  /\ target_key(s.audit[i].req.action) \in TldNames \cup DomainNames
  <1>1. s.audit \in Seq(AuditRecord) /\ s.zone \in Zone
    BY DEF Store
  <1>2. \A i \in DOMAIN s.audit : s.audit[i] \in AuditRecord
    BY <1>1
  <1>3. \A i \in DOMAIN s.audit : s.audit[i].req \in MutationRequest
    BY <1>2 DEF AuditRecord
  <1>4. \A r \in MutationRequest : r.version \in Nat
    BY DEF MutationRequest
  <1>. QED
    BY <1>1, <1>3, <1>4, TargetKeyIsName DEF Store, Zone

LEMMA AdvanceInit == Init => AdvanceInv
  <1>. SUFFICES ASSUME Init PROVE AdvanceInv
    OBVIOUS
  <1>1. up = FALSE /\ db.audit = <<>> /\ \A h \in Handlers : handler[h].pc = "idle"
    BY DEF Init, EmptyStore, Idle
  <1>2. DOMAIN db.audit = {}
    BY <1>1
  <1>. QED
    BY <1>1, <1>2 DEF AdvanceInv, VersionInv, ZoneInv, TargetVersionsAdvance

\* Recording a request whose version is above its target's keeps the log and
\* the version table in step.
LEMMA AdvanceRecord ==
    ASSUME NEW req \in MutationRequest, NEW event \in AuditRecord, event.req = req,
           db \in Store,
           \A i \in DOMAIN db.audit :
               db.audit[i].req.version <= db.versions[target_key(db.audit[i].req.action)],
           TargetVersionsAdvance,
           db.versions[target_key(req.action)] < req.version,
           db'.versions = [db.versions EXCEPT ![target_key(req.action)] = req.version],
           db'.audit = Append(db.audit, event)
    PROVE  /\ \A i \in DOMAIN db'.audit :
                  db'.audit[i].req.version <= db'.versions[target_key(db'.audit[i].req.action)]
           /\ TargetVersionsAdvance'
  <1>. DEFINE last == Len(db.audit) + 1
              key == target_key(req.action)
  <1>1. /\ DOMAIN db'.audit = DOMAIN db.audit \cup {last}
        /\ \A i \in DOMAIN db.audit : i \in Nat /\ i < last /\ db'.audit[i] = db.audit[i]
        /\ db'.audit[last].req = req
        /\ last \in Nat
    BY AppendEvent, StoreNumbers
  <1>2. req.version \in Nat /\ key \in TldNames \cup DomainNames
    BY TargetKeyIsName DEF MutationRequest
  <1>3. \A k \in TldNames \cup DomainNames :
            /\ db.versions[k] \in Nat
            /\ db'.versions[k] = IF k = key THEN req.version ELSE db.versions[k]
    BY <1>2, StoreNumbers
  <1>. HIDE DEF key, last
  <1>4. ASSUME NEW i \in DOMAIN db.audit
        PROVE  /\ db'.audit[i].req.version \in Nat
               /\ db'.audit[i].req.version <=
                      db.versions[target_key(db'.audit[i].req.action)]
               /\ target_key(db'.audit[i].req.action) \in TldNames \cup DomainNames
    BY <1>1, StoreNumbers
  <1>5. ASSUME NEW i \in DOMAIN db'.audit
        PROVE  db'.audit[i].req.version <= db'.versions[target_key(db'.audit[i].req.action)]
    <2>1. CASE i \in DOMAIN db.audit
      BY <1>2, <1>3, <1>4, <2>1 DEF key
    <2>2. CASE i = last
      BY <1>1, <1>2, <1>3, <2>2 DEF key
    <2>. QED
      BY <1>1, <2>1, <2>2
  <1>6. TargetVersionsAdvance'
    <2>. SUFFICES ASSUME NEW i \in DOMAIN db'.audit, NEW j \in DOMAIN db'.audit, i < j,
                         target_key(db'.audit[i].req.action) =
                             target_key(db'.audit[j].req.action)
                  PROVE  db'.audit[i].req.version < db'.audit[j].req.version
      BY DEF TargetVersionsAdvance
    <2>1. CASE j \in DOMAIN db.audit
      <3>1. i \in DOMAIN db.audit
        BY <1>1, <2>1
      <3>. QED
        BY <1>1, <2>1, <3>1 DEF TargetVersionsAdvance
    <2>2. CASE j = last
      <3>1. i \in DOMAIN db.audit
        BY <1>1, <2>2
      <3>2. target_key(db'.audit[i].req.action) = key
        BY <1>1, <2>2 DEF key
      <3>3. /\ db'.audit[i].req.version \in Nat
            /\ db'.audit[i].req.version <= db.versions[key]
        BY <1>4, <3>1, <3>2
      <3>4. db.versions[key] < req.version
        BY DEF key
      <3>5. db'.audit[j].req.version = req.version
        BY <1>1, <2>2
      <3>. QED
        BY <1>2, <1>3, <3>3, <3>4, <3>5
    <2>. QED
      BY <1>1, <2>1, <2>2
  <1>. QED
    BY <1>5, <1>6

LEMMA AdvanceStep ==
    ASSUME BaseInv, AdvanceInv, [Next]_vars
    PROVE  AdvanceInv' /\ (db'.zone # db.zone => db'.zone.version > db.zone.version)
  <1>. DEFINE Goal == AdvanceInv' /\ (db'.zone # db.zone => db'.zone.version > db.zone.version)
  <1>t. TypeOK /\ OneHolder /\ mem \in Store /\ db \in Store
    BY DEF BaseInv, TypeOK
  <1>v. VersionInv /\ ZoneInv /\ TargetVersionsAdvance
    BY DEF AdvanceInv
  <1>i. Idle.pc = "idle"
    BY DEF Idle
  <1>1. ASSUME db' = db, mem' = mem, up' => up,
               \A h \in Handlers : handler'[h].pc = "memory" => handler'[h] = handler[h]
        PROVE  Goal
    BY <1>1, <1>v DEF AdvanceInv, VersionInv, ZoneInv, TargetVersionsAdvance
  <1>2. ASSUME NEW h \in Handlers, handler' = [handler EXCEPT ![h] = Idle],
               db' = db, mem' = mem, up' = up
        PROVE  Goal
    <2>1. handler'[h].pc = "idle" /\ \A g \in Handlers : g # h => handler'[g] = handler[g]
      BY <1>2, <1>t, <1>i, HandlerStep
    <2>. QED
      BY <1>1, <1>2, <2>1
  <1>3. ASSUME NEW h \in Handlers, NEW req \in Requests, NEW package \in Packages \cup {None},
               Receive(h, req, package)
        PROVE  Goal
    <2>1. handler'[h].pc = "wait" /\ \A g \in Handlers : g # h => handler'[g] = handler[g]
      BY <1>3, <1>t DEF Receive, TypeOK
    <2>. QED
      BY <1>1, <1>3, <2>1 DEF Receive
  <1>4. ASSUME NEW h \in Handlers, ConsumeNonce(h)
        PROVE  Goal
    <2>0. handler[h] \in Handler
      BY <1>4, <1>t, HandlerFields DEF ConsumeNonce
    <2>1. /\ \A g \in Handlers : g # h => handler'[g] = handler[g]
          /\ handler'[h].pc # "memory"
      BY <1>4, <1>t, <1>i, <2>0 DEF ConsumeNonce, TypeOK, Handler
    <2>. QED
      BY <1>1, <1>4, <2>1 DEF ConsumeNonce
  <1>5. ASSUME NEW h \in Handlers, StoreContent(h)
        PROVE  Goal
    <2>1. /\ handler'[h].pc = "stored"
          /\ \A g \in Handlers : g # h => handler'[g] = handler[g]
      BY <1>5, <1>t, AdvancePc DEF StoreContent
    <2>. QED
      BY <1>1, <1>5, <2>1 DEF StoreContent
  <1>6. ASSUME NEW h \in Handlers, ApplyInMemory(h)
        PROVE  Goal
    <2>. DEFINE req == handler[h].req
                key == target_key(req.action)
                new == Apply(mem, req, handler[h].now)
    <2>1. /\ handler[h].pc \in {"stored", "consumed"} /\ up /\ db' = db /\ mem' = new
          /\ Accepts(mem, req, handler[h].now, clock)
      BY <1>6 DEF ApplyInMemory, ReadyToApply
    <2>2. req \in MutationRequest /\ handler[h].now \in Nat /\ req.version \in Nat
      BY <1>t, <2>1, HandlerFields DEF MutationRequest
    <2>3. /\ handler'[h].pc = "memory" /\ handler'[h].req = req
          /\ \A g \in Handlers : g # h => handler'[g] = handler[g]
      BY <1>6, <1>t, <2>1, AdvancePc DEF ApplyInMemory
    <2>4. \A g \in Handlers : g # h => handler'[g].pc # "memory"
      BY <1>t, <2>1, <2>3 DEF OneHolder, Holding
    <2>5. new.zone.version > mem.zone.version /\ new \in Store
      BY <1>t, <2>1, <2>2, ApplyIsStore
    <2>6. /\ new.versions = [mem.versions EXCEPT ![key] = req.version]
          /\ req.version > mem.versions[key]
      BY <2>1 DEF Apply, Record, Accepts
    <2>7. key \in TldNames \cup DomainNames
      BY <2>2, TargetKeyIsName
    <2>. HIDE DEF new, key, req
    <2>8. \A k \in TldNames \cup DomainNames :
              /\ new.versions[k] = IF k = key THEN req.version ELSE mem.versions[k]
              /\ mem.versions[k] \in Nat /\ db.versions[k] \in Nat
              /\ db.versions[k] <= mem.versions[k]
      BY <1>t, <1>v, <2>1, <2>6, <2>7, StoreNumbers DEF VersionInv
    <2>9. /\ db.zone.version <= mem.zone.version /\ db.zone.version \in Nat
          /\ mem.zone.version \in Nat /\ new.zone.version \in Nat
      BY <1>t, <1>v, <2>1, <2>5, StoreNumbers DEF ZoneInv
    <2>10. ZoneInv'
      BY <2>1, <2>5, <2>9 DEF ZoneInv
    <2>11. /\ db.versions[key] < req.version /\ new.versions[key] = req.version
           /\ \A k \in TldNames \cup DomainNames : db.versions[k] <= new.versions[k]
      BY <2>2, <2>6, <2>7, <2>8
    <2>12. VersionInv'
      BY <1>v, <2>1, <2>3, <2>4, <2>11 DEF VersionInv, key
    <2>. QED
      BY <1>v, <2>1, <2>10, <2>12 DEF AdvanceInv, TargetVersionsAdvance
  <1>7. ASSUME NEW h \in Handlers, ApplyWriteFails(h)
        PROVE  Goal
    <2>. DEFINE zone == SignedZone(mem.zone, handler[h].req, handler[h].now)
    <2>1. /\ handler[h].pc \in {"stored", "consumed"} /\ up /\ db' = db
          /\ mem' = [mem EXCEPT !.zone = zone]
          /\ Accepts(mem, handler[h].req, handler[h].now, clock)
      BY <1>7 DEF ApplyWriteFails, ReadyToApply
    <2>2. handler[h].req \in MutationRequest /\ handler[h].now \in Nat
      BY <1>t, <2>1, HandlerFields
    <2>3. /\ \A g \in Handlers : handler'[g].pc # "memory"
      <3>1. handler'[h].pc = "idle" /\ \A g \in Handlers : g # h => handler'[g] = handler[g]
        BY <1>7, <1>t, <1>i, HandlerStep DEF ApplyWriteFails
      <3>. QED
        BY <1>t, <2>1, <3>1 DEF OneHolder, Holding
    <2>4. zone.version > mem.zone.version /\ zone.version \in Nat
      BY <1>t, <2>1, <2>2, SignedZoneIsZone, StoreNumbers DEF Accepts
    <2>. HIDE DEF zone
    <2>5. mem'.zone = zone /\ mem'.versions = mem.versions
      BY <1>t, <2>1 DEF Store
    <2>6. /\ db.zone.version <= mem.zone.version /\ db.zone.version \in Nat
          /\ mem.zone.version \in Nat
      BY <1>t, <1>v, <2>1, StoreNumbers DEF ZoneInv
    <2>7. ZoneInv'
      BY <2>1, <2>3, <2>4, <2>5, <2>6 DEF ZoneInv
    <2>8. VersionInv'
      BY <1>v, <2>1, <2>3, <2>5 DEF VersionInv
    <2>. QED
      BY <1>v, <2>1, <2>7, <2>8 DEF AdvanceInv, TargetVersionsAdvance
  <1>8. ASSUME NEW h \in Handlers, Commit(h)
        PROVE  Goal
    <2>. DEFINE req == handler[h].req
                key == target_key(req.action)
                event == mem.audit[Len(mem.audit)]
    <2>1. /\ req \in MutationRequest /\ event \in AuditRecord /\ event.req = req
          /\ db'.zone = mem.zone
          /\ db'.versions = [db.versions EXCEPT ![key] = req.version]
          /\ db'.audit = Append(db.audit, event)
          /\ \A g \in Handlers : handler'[g].pc # "memory"
      BY <1>8, CommitEffect DEF Holding
    <2>2. up /\ mem' = mem /\ up' = up /\ handler[h].pc = "memory"
      BY <1>8 DEF Commit
    <2>3. db.versions[key] < req.version /\ mem.versions[key] = req.version
      BY <1>v, <2>2 DEF VersionInv
    <2>4. key \in TldNames \cup DomainNames /\ req.version \in Nat
      BY <2>1, TargetKeyIsName DEF MutationRequest
    <2>. HIDE DEF event
    <2>5. /\ \A i \in DOMAIN db'.audit :
                 db'.audit[i].req.version <= db'.versions[target_key(db'.audit[i].req.action)]
          /\ TargetVersionsAdvance'
      BY <1>t, <1>v, <2>1, <2>3, AdvanceRecord DEF VersionInv
    <2>. HIDE DEF key, req
    <2>6. \A k \in TldNames \cup DomainNames : db'.versions[k] <= mem.versions[k]
      BY <1>t, <1>v, <2>1, <2>2, <2>3, <2>4, StoreNumbers DEF VersionInv
    <2>7. VersionInv'
      BY <2>1, <2>2, <2>5, <2>6 DEF VersionInv
    <2>8. ZoneInv' /\ db'.zone.version > db.zone.version
      BY <1>t, <1>v, <2>1, <2>2, StoreNumbers DEF ZoneInv
    <2>. QED
      BY <2>5, <2>7, <2>8 DEF AdvanceInv
  <1>9. ASSUME NEW h \in Handlers,
               \/ Reject(h) \/ Answer(h) \/ Disconnect(h) \/ ConsumeNonceFails(h)
               \/ StoreContentFails(h) \/ CommitFails(h) \/ SnapshotFails(h)
        PROVE  Goal
    BY <1>9, <1>2 DEF Reject, Answer, Disconnect, ConsumeNonceFails, StoreContentFails,
                      CommitFails, SnapshotFails
  <1>10. ASSUME NEW entry \in SeedFile, SeedEntry(entry)
         PROVE  Goal
    <2>. DEFINE req == SeedRequest(entry)
                event == [req |-> req, prev |-> db.zone, new |-> SignedZone(db.zone, req, clock)]
    <2>1. /\ req \in MutationRequest /\ event \in AuditRecord
          /\ db'.zone.version > db.zone.version
          /\ db'.versions = [db.versions EXCEPT ![target_key(req.action)] = req.version]
          /\ db'.audit = Append(db.audit, event)
          /\ req.version > db.versions[target_key(req.action)]
          /\ \A h \in Handlers : handler'[h].pc = "idle"
      BY <1>10, SeedEffect
    <2>2. ~up' /\ event.req = req
      BY <1>10 DEF SeedEntry, RootSeed
    <2>. HIDE DEF event, req
    <2>3. req.version \in Nat /\ db.versions[target_key(req.action)] \in Nat
      BY <1>t, <2>1, StoreNumbers, TargetKeyIsName DEF MutationRequest
    <2>4. /\ \A i \in DOMAIN db'.audit :
                 db'.audit[i].req.version <= db'.versions[target_key(db'.audit[i].req.action)]
          /\ TargetVersionsAdvance'
      BY <1>t, <1>v, <2>1, <2>2, <2>3, AdvanceRecord DEF VersionInv
    <2>. QED
      BY <2>1, <2>2, <2>4 DEF AdvanceInv, VersionInv, ZoneInv
  <1>11. ASSUME Start
         PROVE  Goal
    <2>1. /\ mem' = db /\ db' = db
          /\ \A h \in Handlers : handler'[h].pc = "idle"
      BY <1>11, <1>i DEF Start, BaseInv, NoOrphans
    <2>2. VersionInv' /\ ZoneInv'
      BY <1>t, <1>v, <2>1, StoreNumbers DEF VersionInv, ZoneInv
    <2>. QED
      BY <1>v, <2>1, <2>2 DEF AdvanceInv, TargetVersionsAdvance
  <1>12. ASSUME Crash
         PROVE  Goal
    <2>1. ~up' /\ db' = db /\ \A h \in Handlers : handler'[h].pc = "idle"
      BY <1>12, <1>i DEF Crash
    <2>. QED
      BY <1>v, <2>1 DEF AdvanceInv, VersionInv, ZoneInv, TargetVersionsAdvance
  <1>13. ASSUME NEW n \in Nonces, IssueNonce(n)
         PROVE  Goal
    BY <1>1, <1>13 DEF IssueNonce
  <1>14. ASSUME ServeRoot \/ Tick \/ UNCHANGED vars
         PROVE  Goal
    BY <1>1, <1>14 DEF ServeRoot, Tick, vars
  <1>. QED
    BY <1>3, <1>4, <1>5, <1>6, <1>7, <1>8, <1>9, <1>10, <1>11, <1>12, <1>13, <1>14
    DEF Next, Progress, Failure

\* Along the durable log the versions of one target strictly increase, even when
\* transactions fail and memory runs ahead: a delayed request never lands late.
THEOREM VersionsAdvance == Spec => []TargetVersionsAdvance
  <1>1. Init => BaseInv /\ AdvanceInv
    BY BaseInit, AdvanceInit
  <1>2. BaseInv /\ AdvanceInv /\ [Next]_vars => (BaseInv /\ AdvanceInv)'
    BY BaseStep, AdvanceStep
  <1>3. AdvanceInv => TargetVersionsAdvance
    BY DEF AdvanceInv
  <1>. QED
    BY <1>1, <1>2, <1>3, PTL DEF Spec

\* No step changes the durable zone without giving it a higher version.
THEOREM ZonesAdvance == Spec => ZoneVersionAdvances
  <1>1. Init => BaseInv /\ AdvanceInv
    BY BaseInit, AdvanceInit
  <1>2. BaseInv /\ AdvanceInv /\ [Next]_vars => (BaseInv /\ AdvanceInv)'
    BY BaseStep, AdvanceStep
  <1>3. BaseInv /\ AdvanceInv /\ [Next]_vars =>
            [db'.zone # db.zone => db'.zone.version > db.zone.version]_vars
    BY AdvanceStep
  <1>. QED
    BY <1>1, <1>2, <1>3, PTL DEF Spec, ZoneVersionAdvances
-----------------------------------------------------------------------------
(* An answer given is kept.                                                *)

AnswerInv ==
    /\ \A h \in Handlers : handler[h].pc = "committed" => handler[h].req \in db.applied
    /\ AcceptedIsDurable

LEMMA AnswerStep ==
    ASSUME BaseInv, AnswerInv, [Next]_vars
    PROVE  AnswerInv'
  <1>t. TypeOK
    BY DEF BaseInv
  <1>i. Idle.pc = "idle"
    BY DEF Idle
  <1>1. ASSUME db.applied \subseteq db'.applied, accepted' = accepted,
               \A h \in Handlers : handler'[h].pc = "committed" => handler'[h] = handler[h]
        PROVE  AnswerInv'
    BY <1>1 DEF AnswerInv, AcceptedIsDurable
  <1>2. ASSUME NEW h \in Handlers, NEW req \in Requests, NEW package \in Packages \cup {None},
               Receive(h, req, package)
        PROVE  AnswerInv'
    <2>1. handler'[h].pc = "wait" /\ \A g \in Handlers : g # h => handler'[g] = handler[g]
      BY <1>2, <1>t DEF Receive, TypeOK
    <2>. QED
      BY <1>1, <1>2, <2>1 DEF Receive
  <1>3. ASSUME NEW h \in Handlers, ConsumeNonce(h)
        PROVE  AnswerInv'
    <2>0. handler[h] \in Handler
      BY <1>3, <1>t, HandlerFields DEF ConsumeNonce
    <2>1. /\ \A g \in Handlers : g # h => handler'[g] = handler[g]
          /\ handler'[h].pc # "committed"
      BY <1>3, <1>t, <1>i, <2>0 DEF ConsumeNonce, TypeOK, Handler
    <2>. QED
      BY <1>1, <1>3, <2>1 DEF ConsumeNonce
  <1>4. ASSUME NEW h \in Handlers, StoreContent(h) \/ ApplyInMemory(h)
        PROVE  AnswerInv'
    <2>1. /\ handler'[h].pc \in {"stored", "memory"}
          /\ \A g \in Handlers : g # h => handler'[g] = handler[g]
      BY <1>4, <1>t, AdvancePc DEF StoreContent, ApplyInMemory, ReadyToApply
    <2>. QED
      BY <1>1, <1>4, <2>1 DEF StoreContent, ApplyInMemory
  <1>5. ASSUME NEW h \in Handlers, Commit(h)
        PROVE  AnswerInv'
    <2>1. /\ db'.applied = db.applied \cup {handler[h].req}
          /\ handler'[h].req = handler[h].req
          /\ \A g \in Handlers : g # h => handler'[g] = handler[g]
      BY <1>5, CommitEffect
    <2>. QED
      BY <1>5, <2>1 DEF Commit, AnswerInv, AcceptedIsDurable
  <1>6. ASSUME NEW h \in Handlers,
               \/ Reject(h) \/ Answer(h) \/ Disconnect(h) \/ ConsumeNonceFails(h)
               \/ StoreContentFails(h) \/ ApplyWriteFails(h) \/ CommitFails(h)
               \/ SnapshotFails(h)
        PROVE  AnswerInv'
    <2>1. /\ handler' = [handler EXCEPT ![h] = Idle]
          /\ db' = db
          /\ accepted' = accepted \/ (handler[h].pc = "committed"
                                      /\ accepted' = accepted \cup {handler[h].req})
      BY <1>6 DEF Reject, Answer, Disconnect, ConsumeNonceFails, StoreContentFails,
                  ApplyWriteFails, CommitFails, SnapshotFails
    <2>2. handler'[h].pc = "idle" /\ \A g \in Handlers : g # h => handler'[g] = handler[g]
      BY <1>t, <1>i, <2>1, HandlerStep
    <2>. QED
      BY <2>1, <2>2 DEF AnswerInv, AcceptedIsDurable
  <1>7. ASSUME NEW entry \in SeedFile, SeedEntry(entry)
        PROVE  AnswerInv'
    <2>1. /\ db.applied \subseteq db'.applied
          /\ \A h \in Handlers : handler'[h].pc = "idle"
      BY <1>7, SeedEffect
    <2>. QED
      BY <1>1, <1>7, <2>1 DEF SeedEntry, RootSeed
  <1>8. ASSUME \/ Crash \/ Start \/ ServeRoot \/ Tick \/ UNCHANGED vars
               \/ \E n \in Nonces : IssueNonce(n)
        PROVE  AnswerInv'
    <2>1. \A h \in Handlers : handler'[h].pc = "committed" => handler'[h] = handler[h]
      BY <1>8, <1>i DEF Crash, Start, ServeRoot, Tick, vars, IssueNonce
    <2>. QED
      BY <1>1, <1>8, <2>1 DEF Crash, Start, ServeRoot, Tick, vars, IssueNonce
  <1>. QED
    BY <1>2, <1>3, <1>4, <1>5, <1>6, <1>7, <1>8 DEF Next, Progress, Failure

\* A client that was told "accepted" finds its mutation in the database after
\* any crash and any failure: the answer follows the commit.
THEOREM AnswersAreDurable == Spec => []AcceptedIsDurable
  <1>1. Init => BaseInv /\ AnswerInv
    <2>1. Init => AnswerInv
      BY DEF Init, Idle, AnswerInv, AcceptedIsDurable
    <2>. QED
      BY <2>1, BaseInit
  <1>2. BaseInv /\ AnswerInv /\ [Next]_vars => (BaseInv /\ AnswerInv)'
    BY BaseStep, AnswerStep
  <1>3. AnswerInv => AcceptedIsDurable
    BY DEF AnswerInv
  <1>. QED
    BY <1>1, <1>2, <1>3, PTL DEF Spec

-----------------------------------------------------------------------------
(* Memory and database.  As long as neither the database transaction nor   *)
(* the write of registry bytes fails, memory is the database, or the       *)
(* database plus the one mutation being committed.                         *)

SyncInv ==
    /\ up /\ (\A h \in Handlers : handler[h].pc # "memory") => mem = db
    /\ \A h \in Handlers : handler[h].pc = "memory" =>
           LET event == mem.audit[Len(mem.audit)]
           IN /\ mem = Record(db, handler[h].req, mem.zone, event)
              /\ event.prev = db.zone
              /\ event.new = mem.zone
    /\ \A z \in served :
           z.version <= db.zone.version /\ (z.version = db.zone.version => z = db.zone)
    /\ AuditChains

\* An event that starts from the stored zone extends the chain.
LEMMA ChainExtends ==
    ASSUME db \in Store, AuditChains, NEW event \in AuditRecord, event.prev = db.zone,
           event.new = db'.zone, db'.audit = Append(db.audit, event)
    PROVE  AuditChains'
  <1>1. db.audit \in Seq(AuditRecord) /\ Len(db.audit) \in Nat
    BY DEF Store
  <1>2. /\ Len(db'.audit) = Len(db.audit) + 1
        /\ DOMAIN db.audit = 1 .. Len(db.audit)
        /\ \A i \in 1 .. Len(db.audit) : db'.audit[i] = db.audit[i]
        /\ db'.audit[Len(db.audit) + 1] = event
    BY <1>1, AppendEvent
  <1>3. ASSUME NEW i \in 1 .. Len(db'.audit) - 1
        PROVE  db'.audit[i].new = db'.audit[i + 1].prev
    <2>1. i \in 1 .. Len(db.audit)
      BY <1>1, <1>2
    <2>2. CASE i = Len(db.audit)
      <3>1. db.audit # <<>>
        BY <1>1, <2>1, <2>2
      <3>. QED
        BY <1>2, <2>1, <2>2, <3>1 DEF AuditChains
    <2>3. CASE i # Len(db.audit)
      <3>1. i \in 1 .. Len(db.audit) - 1 /\ i + 1 \in 1 .. Len(db.audit)
        BY <1>1, <2>1, <2>3
      <3>. QED
        BY <1>2, <2>1, <3>1 DEF AuditChains
    <2>. QED
      BY <2>2, <2>3
  <1>. QED
    BY <1>2, <1>3 DEF AuditChains

\* A write fails after memory was changed and before the transaction is through.
HalfWrite == \E h \in Handlers : ApplyWriteFails(h) \/ CommitFails(h)

\* No transaction fails, nor does the writing of a registry, the one write that
\* follows the change of memory.
WritesSucceed ==
    /\ "commit" \notin Faults
    /\ "content" \in Faults =>
           \A req \in Requests : req.action.kind # "update_registry_pointer"

LEMMA NoHalfWrite ==
    ASSUME TypeOK, WritesSucceed
    PROVE  ~HalfWrite
  <1>1. ASSUME NEW h \in Handlers, ApplyWriteFails(h)
        PROVE  FALSE
    <2>1. handler[h].pc \in {"stored", "consumed"}
      BY <1>1 DEF ApplyWriteFails, ReadyToApply
    <2>2. handler[h].req \in Requests
      BY <2>1, HandlerFields
    <2>. QED
      BY <1>1, <2>2 DEF ApplyWriteFails, WritesSucceed
  <1>2. ASSUME NEW h \in Handlers, CommitFails(h)
        PROVE  FALSE
    BY <1>2 DEF CommitFails, WritesSucceed
  <1>. QED
    BY <1>1, <1>2 DEF HalfWrite

LEMMA SyncStep ==
    ASSUME ~HalfWrite,
           BaseInv, AdvanceInv, SyncInv, [Next]_vars
    PROVE  SyncInv'
  <1>t. TypeOK /\ OneHolder /\ mem \in Store /\ db \in Store /\ served \subseteq Zone
    BY DEF BaseInv, TypeOK
  <1>i. Idle.pc = "idle"
    BY DEF Idle
  <1>z. db.zone.version \in Nat /\ mem.zone.version \in Nat /\ \A z \in served : z.version \in Nat
    BY <1>t, StoreNumbers DEF Zone
  <1>1. ASSUME UNCHANGED <<db, mem, served>>, up' = up,
               \A h \in Handlers : handler'[h].pc = "memory" <=> handler[h].pc = "memory",
               \A h \in Handlers : handler'[h].pc = "memory" => handler'[h] = handler[h]
        PROVE  SyncInv'
    BY <1>1 DEF SyncInv, AuditChains, Record
  <1>2. ASSUME NEW h \in Handlers, handler[h].pc # "memory",
               handler' = [handler EXCEPT ![h] = Idle], UNCHANGED <<db, mem, served, up>>
        PROVE  SyncInv'
    <2>1. handler'[h].pc = "idle" /\ \A g \in Handlers : g # h => handler'[g] = handler[g]
      BY <1>2, <1>t, <1>i, HandlerStep
    <2>. QED
      BY <1>1, <1>2, <2>1
  <1>3. ASSUME NEW h \in Handlers, NEW req \in Requests, NEW package \in Packages \cup {None},
               Receive(h, req, package)
        PROVE  SyncInv'
    <2>1. /\ handler[h].pc = "idle" /\ handler'[h].pc = "wait"
          /\ \A g \in Handlers : g # h => handler'[g] = handler[g]
      BY <1>3, <1>t, <1>i DEF Receive, TypeOK
    <2>. QED
      BY <1>1, <1>3, <2>1 DEF Receive
  <1>4. ASSUME NEW h \in Handlers, ConsumeNonce(h)
        PROVE  SyncInv'
    <2>0. handler[h] \in Handler
      BY <1>4, <1>t, HandlerFields DEF ConsumeNonce
    <2>1. /\ \A g \in Handlers : g # h => handler'[g] = handler[g]
          /\ handler[h].pc # "memory" /\ handler'[h].pc # "memory"
      BY <1>4, <1>t, <1>i, <2>0 DEF ConsumeNonce, TypeOK, Handler
    <2>. QED
      BY <1>1, <1>4, <2>1 DEF ConsumeNonce
  <1>5. ASSUME NEW h \in Handlers, StoreContent(h)
        PROVE  SyncInv'
    <2>1. /\ handler[h].pc # "memory" /\ handler'[h].pc = "stored"
          /\ \A g \in Handlers : g # h => handler'[g] = handler[g]
      BY <1>5, <1>t, AdvancePc DEF StoreContent
    <2>. QED
      BY <1>1, <1>5, <2>1 DEF StoreContent
  <1>6. ASSUME NEW h \in Handlers, ApplyInMemory(h)
        PROVE  SyncInv'
    <2>. DEFINE req == handler[h].req
                zone == SignedZone(mem.zone, req, handler[h].now)
                event == [req |-> req, prev |-> mem.zone, new |-> zone]
                new == Apply(mem, req, handler[h].now)
    <2>1. /\ handler[h].pc \in {"stored", "consumed"} /\ up /\ db' = db /\ mem' = new
          /\ served' = served /\ Accepts(mem, req, handler[h].now, clock)
      BY <1>6 DEF ApplyInMemory, ReadyToApply
    <2>2. req \in MutationRequest /\ handler[h].now \in Nat
      BY <1>t, <2>1, HandlerFields
    <2>3. /\ handler'[h].pc = "memory" /\ handler'[h].req = req
          /\ \A g \in Handlers : g # h => handler'[g] = handler[g] /\ handler[g].pc # "memory"
      <3>1. /\ handler'[h].pc = "memory" /\ handler'[h].req = req
            /\ \A g \in Handlers : g # h => handler'[g] = handler[g]
        BY <1>6, <1>t, <2>1, AdvancePc DEF ApplyInMemory
      <3>2. \A g \in Handlers : g # h => handler[g].pc # "memory"
        BY <1>t, <2>1 DEF OneHolder, Holding
      <3>. QED
        BY <3>1, <3>2
    <2>4. mem = db
      <3>1. \A g \in Handlers : handler[g].pc # "memory"
        BY <2>1, <2>3
      <3>. QED
        BY <2>1, <3>1 DEF SyncInv
    <2>5. new.zone = zone /\ new.audit[Len(new.audit)] = event
      <3>1. new.audit[Len(new.audit)] = [req |-> req, prev |-> mem.zone, new |-> new.zone]
        BY <1>t, <2>1, <2>2, ApplyIsStore
      <3>2. new.zone = zone
        BY <1>t, <2>1, <2>2, ApplyIsStore
      <3>. HIDE DEF new, zone
      <3>. QED
        BY <3>1, <3>2
    <2>6. new = Record(mem, req, zone, event)
      BY DEF Apply
    <2>. HIDE DEF new, event, zone, req
    <2>7. /\ new = Record(db, req, new.zone, new.audit[Len(new.audit)])
          /\ new.audit[Len(new.audit)].prev = db.zone
          /\ new.audit[Len(new.audit)].new = new.zone
      BY <2>4, <2>5, <2>6 DEF event
    <2>. QED
      BY <2>1, <2>3, <2>7 DEF SyncInv, AuditChains, Record
  <1>7. ASSUME NEW h \in Handlers, Commit(h)
        PROVE  SyncInv'
    <2>. DEFINE event == mem.audit[Len(mem.audit)]
    <2>1. /\ event \in AuditRecord
          /\ db'.zone = mem.zone
          /\ db'.audit = Append(db.audit, event)
          /\ \A g \in Handlers : handler'[g].pc # "memory"
      BY <1>7, CommitEffect DEF Holding
    <2>2. /\ handler[h].pc = "memory" /\ mem' = mem /\ served' = served
          /\ db' = Record(db, handler[h].req, mem.zone, event)
      BY <1>7 DEF Commit
    <2>3. /\ mem = Record(db, handler[h].req, mem.zone, event)
          /\ event.prev = db.zone /\ event.new = mem.zone
      BY <2>2 DEF SyncInv
    <2>. HIDE DEF event
    <2>4. db' = mem'
      BY <2>2, <2>3
    <2>5. AuditChains'
      BY <1>t, <2>1, <2>3, ChainExtends DEF SyncInv
    <2>6. db.zone.version < db'.zone.version
      BY <2>1, <2>2 DEF AdvanceInv, ZoneInv
    <2>7. \A z \in served' :
              z.version <= db'.zone.version /\ (z.version = db'.zone.version => z = db'.zone)
      BY <1>z, <2>1, <2>2, <2>6 DEF SyncInv
    <2>. QED
      BY <2>1, <2>4, <2>5, <2>7 DEF SyncInv
  <1>8. ASSUME NEW h \in Handlers,
               \/ Reject(h) \/ Answer(h) \/ Disconnect(h) \/ ConsumeNonceFails(h)
               \/ StoreContentFails(h) \/ ApplyWriteFails(h) \/ CommitFails(h)
               \/ SnapshotFails(h)
        PROVE  SyncInv'
    <2>1. \/ Reject(h) \/ Answer(h) \/ Disconnect(h) \/ ConsumeNonceFails(h)
          \/ StoreContentFails(h) \/ SnapshotFails(h)
      BY <1>8 DEF HalfWrite
    <2>. QED
      BY <1>2, <2>1
      DEF Reject, ReadyToApply, Answer, Disconnect, ConsumeNonceFails, StoreContentFails,
          SnapshotFails
  <1>9. ASSUME ServeRoot
        PROVE  SyncInv'
    <2>1. /\ \A h \in Handlers : handler[h].pc # "memory"
          /\ mem = db
      BY <1>9 DEF ServeRoot, WriteLocked, Holding, SyncInv
    <2>2. \A z \in served' :
              z.version <= db.zone.version /\ (z.version = db.zone.version => z = db.zone)
      BY <1>9, <1>z, <2>1 DEF ServeRoot, SyncInv
    <2>. QED
      BY <1>9, <2>1, <2>2 DEF ServeRoot, SyncInv, AuditChains
  <1>10. ASSUME NEW entry \in SeedFile, SeedEntry(entry)
         PROVE  SyncInv'
    <2>. DEFINE zone == SignedZone(db.zone, SeedRequest(entry), clock)
                event == [req |-> SeedRequest(entry), prev |-> db.zone, new |-> zone]
    <2>1. /\ event \in AuditRecord
          /\ db'.zone = zone
          /\ zone.version > db.zone.version
          /\ db'.audit = Append(db.audit, event)
          /\ \A h \in Handlers : handler'[h].pc = "idle"
          /\ db' \in Store
      BY <1>10, SeedEffect, BaseStep DEF BaseInv, TypeOK
    <2>2. ~up' /\ served' = served /\ event.prev = db.zone /\ event.new = zone
      BY <1>10 DEF SeedEntry, RootSeed
    <2>. HIDE DEF event, zone
    <2>3. AuditChains'
      BY <1>t, <2>1, <2>2, ChainExtends DEF SyncInv
    <2>4. zone.version \in Nat
      BY <2>1, StoreNumbers
    <2>5. \A z \in served' :
              z.version <= db'.zone.version /\ (z.version = db'.zone.version => z = db'.zone)
      BY <1>z, <2>1, <2>2, <2>4 DEF SyncInv
    <2>. QED
      BY <2>1, <2>2, <2>3, <2>5 DEF SyncInv
  <1>11. ASSUME Crash \/ Start
         PROVE  SyncInv'
    <2>1. /\ db' = db /\ served' = served /\ (up' => mem' = db')
          /\ \A h \in Handlers : handler'[h].pc = "idle"
      BY <1>11, <1>i DEF Crash, Start, BaseInv, NoOrphans
    <2>. QED
      BY <2>1 DEF SyncInv, AuditChains
  <1>12. ASSUME Tick \/ UNCHANGED vars \/ \E n \in Nonces : IssueNonce(n)
         PROVE  SyncInv'
    BY <1>1, <1>12 DEF Tick, vars, IssueNonce
  <1>. QED
    BY <1>3, <1>4, <1>5, <1>6, <1>7, <1>8, <1>9, <1>10, <1>11, <1>12
    DEF Next, Progress, Failure

LEMMA SyncInit == Init => SyncInv
  <1>. SUFFICES ASSUME Init PROVE SyncInv
    OBVIOUS
  <1>1. /\ up = FALSE /\ served = {} /\ db.audit = <<>>
        /\ \A h \in Handlers : handler[h].pc = "idle"
    BY DEF Init, EmptyStore, Idle
  <1>. QED
    BY <1>1 DEF SyncInv, AuditChains

LEMMA SyncAlways ==
    ASSUME WritesSucceed
    PROVE  Spec => [](BaseInv /\ SyncInv)
  <1>1. Init => BaseInv /\ AdvanceInv /\ SyncInv
    BY BaseInit, AdvanceInit, SyncInit
  <1>2. BaseInv /\ AdvanceInv /\ SyncInv /\ [Next]_vars => (BaseInv /\ AdvanceInv /\ SyncInv)'
    BY BaseStep, AdvanceStep, SyncStep, NoHalfWrite DEF BaseInv
  <1>. QED
    BY <1>1, <1>2, PTL DEF Spec

\* While transactions and registry writes succeed, whatever crashes: whenever the
\* lock is free, what readers are served is exactly what a restart would load.
THEOREM MemoryIsTheDatabase ==
    ASSUME WritesSucceed
    PROVE  Spec => []AllOrNothing
  <1>1. SyncInv => AllOrNothing
    BY DEF SyncInv, AllOrNothing, WriteLocked, Holding
  <1>. QED
    BY <1>1, SyncAlways, PTL

\* Under the same assumption the durable audit log chains the state history.
THEOREM AuditLogChains ==
    ASSUME WritesSucceed
    PROVE  Spec => []AuditChains
  <1>1. SyncInv => AuditChains
    BY DEF SyncInv
  <1>. QED
    BY <1>1, SyncAlways, PTL

\* Under the same assumption no reader is ever shown a zone that a crash and a
\* restart take back, nor two zones under one version.
THEOREM NoServedRollback ==
    ASSUME WritesSucceed
    PROVE  Spec => []ServedNeverRollsBack
  <1>1. SyncInv => ServedNeverRollsBack
    <2>. SUFFICES ASSUME SyncInv, up, ~WriteLocked
                  PROVE  \A z \in served : /\ z.version <= mem.zone.version
                                           /\ z.version = mem.zone.version => z = mem.zone
      BY DEF ServedNeverRollsBack
    <2>1. mem = db
      BY DEF SyncInv, WriteLocked, Holding
    <2>. QED
      BY <2>1 DEF SyncInv
  <1>. QED
    BY <1>1, SyncAlways, PTL

-----------------------------------------------------------------------------
(* The database always opens.  Committing stores the zone memory has, which *)
(* failed transactions may have left ahead of the tables: the argument is   *)
(* that no mutation takes a TLD away or gives it another operator.          *)

BootInv ==
    /\ Bootable
    /\ DomainsVerify(db.zone)
    /\ up => DomainsVerify(mem.zone) /\ KeepsTlds(db.zone, mem.zone)
    /\ \A h \in Handlers : handler[h].pc = "memory" => PinVerifies(mem.zone, handler[h].req)

\* Storing a zone that kept the TLDs, with the registry its mutation pins.
LEMMA RecordOpens ==
    ASSUME NEW s \in Store, NEW y \in Zone, NEW req \in MutationRequest, NEW event,
           Opens(s), DomainsVerify(y), KeepsTlds(s.zone, y), PinVerifies(y, req)
    PROVE  Opens(Record(s, req, y, event))
  <1>. DEFINE r == Record(s, req, y, event)
  <1>1. r.zone = y /\ r.registries = RegistriesAfter(s.registries, req)
    BY DEF Record
  <1>2. s.registries \in [TldNames -> TldRegistry \cup {None}]
    BY DEF Store
  <1>. HIDE DEF r
  <1>3. ASSUME NEW n \in TldNames, r.registries[n] # None
        PROVE  /\ r.zone.tlds[n] # None
               /\ r.registries[n].tld = n
               /\ r.registries[n].signer = r.zone.tlds[n].operator
    <2>1. CASE r.registries[n] = s.registries[n]
      BY <1>1, <1>3, <2>1 DEF Opens, KeepsTlds
    <2>2. CASE r.registries[n] # s.registries[n]
      <3>1. /\ req.action.kind = "update_registry_pointer"
            /\ n = Lower[req.action.name]
            /\ r.registries[n] = req.action.registry
        BY <1>1, <1>2, <2>2 DEF RegistriesAfter
      <3>. QED
        BY <1>1, <3>1 DEF PinVerifies
    <2>. QED
      BY <2>1, <2>2
  <1>. QED
    BY <1>1, <1>3 DEF Opens, DomainsVerify, r

LEMMA BootStep ==
    ASSUME BaseInv, BootInv, [Next]_vars
    PROVE  BootInv'
  <1>t. TypeOK /\ mem \in Store /\ db \in Store /\ mem.zone \in Zone /\ db.zone \in Zone
    BY DEF BaseInv, TypeOK, Store
  <1>i. Idle.pc = "idle"
    BY DEF Idle
  <1>1. ASSUME UNCHANGED <<db, mem>>, up' = up,
               \A h \in Handlers : handler'[h].pc = "memory" => handler'[h] = handler[h]
        PROVE  BootInv'
    BY <1>1 DEF BootInv, Bootable
  <1>2. ASSUME NEW h \in Handlers, handler' = [handler EXCEPT ![h] = Idle],
               UNCHANGED <<db, mem, up>>
        PROVE  BootInv'
    <2>1. handler'[h].pc = "idle" /\ \A g \in Handlers : g # h => handler'[g] = handler[g]
      BY <1>2, <1>t, <1>i, HandlerStep
    <2>. QED
      BY <1>1, <1>2, <2>1
  <1>3. ASSUME NEW h \in Handlers, NEW req \in Requests, NEW package \in Packages \cup {None},
               Receive(h, req, package)
        PROVE  BootInv'
    <2>1. handler'[h].pc = "wait" /\ \A g \in Handlers : g # h => handler'[g] = handler[g]
      BY <1>3, <1>t DEF Receive, TypeOK
    <2>. QED
      BY <1>1, <1>3, <2>1 DEF Receive
  <1>4. ASSUME NEW h \in Handlers, ConsumeNonce(h)
        PROVE  BootInv'
    <2>0. handler[h] \in Handler
      BY <1>4, <1>t, HandlerFields DEF ConsumeNonce
    <2>1. /\ \A g \in Handlers : g # h => handler'[g] = handler[g]
          /\ handler'[h].pc # "memory"
      BY <1>4, <1>t, <1>i, <2>0 DEF ConsumeNonce, TypeOK, Handler
    <2>. QED
      BY <1>1, <1>4, <2>1 DEF ConsumeNonce
  <1>5. ASSUME NEW h \in Handlers, StoreContent(h)
        PROVE  BootInv'
    <2>1. handler'[h].pc = "stored" /\ \A g \in Handlers : g # h => handler'[g] = handler[g]
      BY <1>5, <1>t, AdvancePc DEF StoreContent
    <2>. QED
      BY <1>1, <1>5, <2>1 DEF StoreContent
  <1>6. ASSUME NEW h \in Handlers, ApplyInMemory(h) \/ ApplyWriteFails(h)
        PROVE  BootInv'
    <2>. DEFINE req == handler[h].req
                y == SignedZone(mem.zone, req, handler[h].now)
    <2>1. /\ handler[h].pc \in {"stored", "consumed"} /\ up /\ up' = up /\ db' = db
          /\ Accepts(mem, req, handler[h].now, clock)
      BY <1>6 DEF ApplyInMemory, ApplyWriteFails, ReadyToApply
    <2>2. req \in MutationRequest /\ handler[h].now \in Nat
      BY <1>t, <2>1, HandlerFields
    <2>3. mem'.zone = y
      <3>1. CASE ApplyInMemory(h)
        BY <3>1 DEF ApplyInMemory, Apply, Record
      <3>2. CASE ApplyWriteFails(h)
        <4>1. mem' = [mem EXCEPT !.zone = y]
          BY <3>2 DEF ApplyWriteFails
        <4>. HIDE DEF y
        <4>. QED
          BY <1>t, <4>1 DEF Store
      <3>. QED
        BY <1>6, <3>1, <3>2
    <2>4. DomainsVerify(mem.zone) /\ KeepsTlds(db.zone, mem.zone)
      BY <2>1 DEF BootInv
    <2>5. DomainsVerify(y) /\ KeepsTlds(mem.zone, y) /\ PinVerifies(y, req)
      BY <1>t, <2>1, <2>2, <2>4, SigningKeepsTlds DEF Accepts
    <2>6. /\ handler'[h].pc = "memory" => handler'[h].req = req
          /\ \A g \in Handlers : g # h => handler'[g] = handler[g] /\ handler[g].pc # "memory"
      <3>1. \A g \in Handlers : g # h => handler[g].pc # "memory"
        BY <2>1 DEF BaseInv, OneHolder, Holding
      <3>2. CASE ApplyInMemory(h)
        BY <1>t, <2>1, <3>1, <3>2, AdvancePc DEF ApplyInMemory
      <3>3. CASE ApplyWriteFails(h)
        BY <1>t, <1>i, <3>1, <3>3, HandlerStep DEF ApplyWriteFails
      <3>. QED
        BY <1>6, <3>2, <3>3
    <2>. HIDE DEF y, req
    <2>7. KeepsTlds(db.zone, y)
      BY <2>4, <2>5 DEF KeepsTlds
    <2>. QED
      BY <2>1, <2>3, <2>5, <2>6, <2>7 DEF BootInv, Bootable
  <1>7. ASSUME NEW h \in Handlers, Commit(h)
        PROVE  BootInv'
    <2>. DEFINE event == mem.audit[Len(mem.audit)]
    <2>1. /\ handler[h].req \in MutationRequest
          /\ \A g \in Handlers : handler'[g].pc # "memory"
      BY <1>7, CommitEffect DEF Holding
    <2>2. /\ up /\ up' = up /\ mem' = mem
          /\ db' = Record(db, handler[h].req, mem.zone, event)
          /\ PinVerifies(mem.zone, handler[h].req)
      BY <1>7 DEF Commit, BootInv
    <2>. HIDE DEF event
    <2>3. DomainsVerify(mem.zone) /\ KeepsTlds(db.zone, mem.zone) /\ Opens(db)
      BY <2>2 DEF BootInv, Bootable
    <2>4. Opens(db')
      BY <1>t, <2>1, <2>2, <2>3, RecordOpens
    <2>5. db'.zone = mem.zone
      BY <2>2 DEF Record
    <2>6. KeepsTlds(db'.zone, mem'.zone)
      BY <2>2, <2>5 DEF KeepsTlds
    <2>. QED
      BY <2>1, <2>2, <2>3, <2>4, <2>5, <2>6 DEF BootInv, Bootable
  <1>8. ASSUME NEW h \in Handlers,
               \/ Reject(h) \/ Answer(h) \/ Disconnect(h) \/ ConsumeNonceFails(h)
               \/ StoreContentFails(h) \/ CommitFails(h) \/ SnapshotFails(h)
        PROVE  BootInv'
    BY <1>2, <1>8 DEF Reject, Answer, Disconnect, ConsumeNonceFails, StoreContentFails,
                      CommitFails, SnapshotFails
  <1>9. ASSUME NEW entry \in SeedFile, SeedEntry(entry)
        PROVE  BootInv'
    <2>. DEFINE req == SeedRequest(entry)
                y == SignedZone(db.zone, req, clock)
                event == [req |-> req, prev |-> db.zone, new |-> y]
    <2>1. /\ Accepts(db, req, clock, clock) /\ db' = Record(db, req, y, event)
          /\ ~up /\ up' = up /\ Opens(db)
      BY <1>9 DEF SeedEntry, RootSeed, Apply
    <2>2. req \in MutationRequest /\ clock \in Nat
      BY <1>t, SeedRequestIsRequest DEF TypeOK
    <2>3. \A h \in Handlers : handler'[h].pc = "idle"
      BY <1>9, SeedEffect
    <2>. HIDE DEF req
    <2>4. DomainsVerify(db.zone)
      BY DEF BootInv
    <2>5. /\ y \in Zone /\ DomainsVerify(y) /\ KeepsTlds(db.zone, y) /\ PinVerifies(y, req)
      BY <1>t, <2>1, <2>2, <2>4, SigningKeepsTlds, SignedZoneIsZone DEF Accepts
    <2>. HIDE DEF y, event
    <2>6. Opens(db')
      BY <1>t, <2>1, <2>2, <2>5, RecordOpens
    <2>7. db'.zone = y
      BY <2>1 DEF Record
    <2>. QED
      BY <2>1, <2>3, <2>5, <2>6, <2>7 DEF BootInv, Bootable
  <1>10. ASSUME Crash \/ Start
         PROVE  BootInv'
    <2>1. /\ db' = db /\ (up' => mem' = db)
          /\ \A h \in Handlers : handler'[h].pc = "idle"
      BY <1>10, <1>i DEF Crash, Start, BaseInv, NoOrphans
    <2>2. DomainsVerify(db.zone) /\ KeepsTlds(db.zone, db.zone) /\ Opens(db)
      BY DEF BootInv, Bootable, Opens, DomainsVerify, KeepsTlds
    <2>. QED
      BY <2>1, <2>2 DEF BootInv, Bootable
  <1>11. ASSUME ServeRoot \/ Tick \/ UNCHANGED vars \/ \E n \in Nonces : IssueNonce(n)
         PROVE  BootInv'
    BY <1>1, <1>11 DEF ServeRoot, Tick, vars, IssueNonce
  <1>. QED
    BY <1>3, <1>4, <1>5, <1>6, <1>7, <1>8, <1>9, <1>10, <1>11 DEF Next, Progress, Failure

LEMMA BootAlways == Spec => [](BaseInv /\ BootInv)
  <1>1. Init => BaseInv /\ BootInv
    <2>1. Init => BootInv
      BY NameAssumption
      DEF Init, EmptyStore, EmptyZone, Idle, BootInv, Bootable, Opens, DomainsVerify
    <2>. QED
      BY <2>1, BaseInit
  <1>2. BaseInv /\ BootInv /\ [Next]_vars => (BaseInv /\ BootInv)'
    BY BaseStep, BootStep
  <1>. QED
    BY <1>1, <1>2, PTL DEF Spec

\* Whatever was committed, and whatever failed, when the process stopped: the next
\* boot's fail-closed verification admits the database.
THEOREM AlwaysBootable == Spec => []Bootable
  <1>1. BootInv => Bootable
    BY DEF BootInv
  <1>. QED
    BY <1>1, BootAlways, PTL

-----------------------------------------------------------------------------
(* The database implements the abstract registry: nonces, memory, lock,    *)
(* crashes and restarts are invisible in it.  A commit is its Accept step, *)
(* which the checks that were made in memory have enabled.                 *)

\* Whatever fails, every domain record the database holds sits under a root-managed
\* TLD and carries its operator's signature: resolution, which checks exactly this,
\* never refuses a record the root itself published.
THEOREM RootRecordsVerify == Spec => []Promise!RecordsVerify
  <1>1. BootInv => Promise!RecordsVerify
    BY DEF BootInv, DomainsVerify, Promise!RecordsVerify
  <1>. QED
    BY <1>1, BootAlways, PTL

\* Both modules take the rules from RootZone.
LEMMA SameRules ==
    /\ \A z : \A req \in MutationRequest :
           Promise!ActionEffect(z, req) = ActionEffect(z, req)
    /\ \A z, regs, docs, t : \A req \in MutationRequest :
           Promise!ActionAllowed(z, regs, docs, req, t) <=> ActionAllowed(z, regs, docs, req, t)
    /\ \A regs, req : Promise!RegistriesAfter(regs, req) = RegistriesAfter(regs, req)
    /\ \A trail, entry : Promise!PushTail(trail, entry) = PushTail(trail, entry)
    /\ \A action : Promise!target_key(action) = target_key(action)
    /\ Promise!EmptyZone(0) = EmptyZone(0)
  <1>1. ASSUME NEW z, NEW req \in MutationRequest
        PROVE  Promise!ActionEffect(z, req) = ActionEffect(z, req)
    <2>1. CASE req.action.kind \in {"publish_site", "update_domain_manifest"}
      <3>1. Promise!PublishEffect(z, req) = PublishEffect(z, req)
        BY DEF PublishEffect, Promise!PublishEffect, NoExpiry, Promise!NoExpiry
      <3>2. /\ ActionEffect(z, req) = PublishEffect(z, req)
            /\ Promise!ActionEffect(z, req) = Promise!PublishEffect(z, req)
        BY <2>1 DEF ActionEffect, Promise!ActionEffect
      <3>. QED
        BY <3>1, <3>2
    <2>2. CASE req.action.kind = "set_domain_status"
      <3>1. Promise!SetDomainStatusEffect(z, req) = SetDomainStatusEffect(z, req)
        BY DEF SetDomainStatusEffect, Promise!SetDomainStatusEffect
      <3>2. /\ ActionEffect(z, req) = SetDomainStatusEffect(z, req)
            /\ Promise!ActionEffect(z, req) = Promise!SetDomainStatusEffect(z, req)
        BY <2>2 DEF ActionEffect, Promise!ActionEffect
      <3>. QED
        BY <3>1, <3>2
    <2>3. CASE req.action.kind = "issue_domain"
      <3>1. Promise!IssueDomainEffect(z, req) = IssueDomainEffect(z, req)
        BY DEF IssueDomainEffect, Promise!IssueDomainEffect
      <3>2. /\ ActionEffect(z, req) = IssueDomainEffect(z, req)
            /\ Promise!ActionEffect(z, req) = Promise!IssueDomainEffect(z, req)
        BY <2>3 DEF ActionEffect, Promise!ActionEffect
      <3>. QED
        BY <3>1, <3>2
    <2>4. CASE req.action.kind = "delegate_tld"
      <3>1. Promise!DelegateTldEffect(z, req) = DelegateTldEffect(z, req)
        BY DEF DelegateTldEffect, Promise!DelegateTldEffect,
               NewTldRecord, Promise!NewTldRecord
      <3>2. /\ ActionEffect(z, req) = DelegateTldEffect(z, req)
            /\ Promise!ActionEffect(z, req) = Promise!DelegateTldEffect(z, req)
        BY <2>4 DEF ActionEffect, Promise!ActionEffect
      <3>. QED
        BY <3>1, <3>2
    <2>5. CASE req.action.kind = "create_tld"
      <3>1. Promise!CreateTldEffect(z, req) = CreateTldEffect(z, req)
        BY DEF CreateTldEffect, Promise!CreateTldEffect, NewTldRecord,
               Promise!NewTldRecord, NoExpiry, Promise!NoExpiry
      <3>2. /\ ActionEffect(z, req) = CreateTldEffect(z, req)
            /\ Promise!ActionEffect(z, req) = Promise!CreateTldEffect(z, req)
        BY <2>5 DEF ActionEffect, Promise!ActionEffect
      <3>. QED
        BY <3>1, <3>2
    <2>6. CASE req.action.kind \in {"reserve_tld", "block_tld"}
      <3>1. Promise!RestrictTldEffect(z, req) = RestrictTldEffect(z, req)
        BY DEF RestrictTldEffect, Promise!RestrictTldEffect, NewTldRecord,
               Promise!NewTldRecord, NoExpiry, Promise!NoExpiry
      <3>2. /\ ActionEffect(z, req) = RestrictTldEffect(z, req)
            /\ Promise!ActionEffect(z, req) = Promise!RestrictTldEffect(z, req)
        BY <2>6 DEF ActionEffect, Promise!ActionEffect
      <3>. QED
        BY <3>1, <3>2
    <2>7. CASE req.action.kind = "update_tld"
      <3>1. Promise!UpdateTldEffect(z, req) = UpdateTldEffect(z, req)
        BY DEF UpdateTldEffect, Promise!UpdateTldEffect, Omitted, Promise!Omitted
      <3>2. /\ ActionEffect(z, req) = UpdateTldEffect(z, req)
            /\ Promise!ActionEffect(z, req) = Promise!UpdateTldEffect(z, req)
        BY <2>7 DEF ActionEffect, Promise!ActionEffect
      <3>. QED
        BY <3>1, <3>2
    <2>8. CASE req.action.kind = "set_tld_status"
      <3>1. Promise!SetTldStatusEffect(z, req) = SetTldStatusEffect(z, req)
        BY DEF SetTldStatusEffect, Promise!SetTldStatusEffect
      <3>2. /\ ActionEffect(z, req) = SetTldStatusEffect(z, req)
            /\ Promise!ActionEffect(z, req) = Promise!SetTldStatusEffect(z, req)
        BY <2>8 DEF ActionEffect, Promise!ActionEffect
      <3>. QED
        BY <3>1, <3>2
    <2>9. CASE req.action.kind = "update_registry_pointer"
      <3>1. Promise!UpdateRegistryPointerEffect(z, req) = UpdateRegistryPointerEffect(z, req)
        BY DEF UpdateRegistryPointerEffect, Promise!UpdateRegistryPointerEffect
      <3>2. /\ ActionEffect(z, req) = UpdateRegistryPointerEffect(z, req)
            /\ Promise!ActionEffect(z, req) = Promise!UpdateRegistryPointerEffect(z, req)
        BY <2>9 DEF ActionEffect, Promise!ActionEffect
      <3>. QED
        BY <3>1, <3>2
    <2>10. req.action \in Action
      BY DEF MutationRequest
    <2>. QED
      BY <2>1, <2>2, <2>3, <2>4, <2>5, <2>6, <2>7, <2>8, <2>9, <2>10, ActionFields
  <1>2. ASSUME NEW z, NEW regs, NEW docs, NEW req \in MutationRequest, NEW t
        PROVE  Promise!ActionAllowed(z, regs, docs, req, t) <=> ActionAllowed(z, regs, docs, req, t)
    <2>1. CASE req.action.kind \in {"publish_site", "update_domain_manifest"}
      <3>1. Promise!PublishAllowed(z, docs, req, t) <=> PublishAllowed(z, docs, req, t)
        BY DEF PublishAllowed, Promise!PublishAllowed, tld_is_resolvable, Promise!tld_is_resolvable, expired_at, Promise!expired_at, NoExpiry, Promise!NoExpiry
      <3>2. /\ ActionAllowed(z, regs, docs, req, t) <=> PublishAllowed(z, docs, req, t)
            /\ Promise!ActionAllowed(z, regs, docs, req, t) <=> Promise!PublishAllowed(z, docs, req, t)
        BY <2>1 DEF ActionAllowed, Promise!ActionAllowed
      <3>. QED
        BY <3>1, <3>2
    <2>2. CASE req.action.kind = "set_domain_status"
      <3>1. Promise!SetDomainStatusAllowed(z, req) <=> SetDomainStatusAllowed(z, req)
        BY DEF SetDomainStatusAllowed, Promise!SetDomainStatusAllowed, allowed_domain_transition, Promise!allowed_domain_transition
      <3>2. /\ ActionAllowed(z, regs, docs, req, t) <=> SetDomainStatusAllowed(z, req)
            /\ Promise!ActionAllowed(z, regs, docs, req, t) <=> Promise!SetDomainStatusAllowed(z, req)
        BY <2>2 DEF ActionAllowed, Promise!ActionAllowed
      <3>. QED
        BY <3>1, <3>2
    <2>3. CASE req.action.kind = "issue_domain"
      <3>1. Promise!IssueDomainAllowed(z, req, t) <=> IssueDomainAllowed(z, req, t)
        BY DEF IssueDomainAllowed, Promise!IssueDomainAllowed, expired_at, Promise!expired_at, NoExpiry, Promise!NoExpiry
      <3>2. /\ ActionAllowed(z, regs, docs, req, t) <=> IssueDomainAllowed(z, req, t)
            /\ Promise!ActionAllowed(z, regs, docs, req, t) <=> Promise!IssueDomainAllowed(z, req, t)
        BY <2>3 DEF ActionAllowed, Promise!ActionAllowed
      <3>. QED
        BY <3>1, <3>2
    <2>4. CASE req.action.kind = "delegate_tld"
      <3>1. Promise!DelegateTldAllowed(z, req) <=> DelegateTldAllowed(z, req)
        BY DEF DelegateTldAllowed, Promise!DelegateTldAllowed, validate_new_tld, Promise!validate_new_tld
      <3>2. /\ ActionAllowed(z, regs, docs, req, t) <=> DelegateTldAllowed(z, req)
            /\ Promise!ActionAllowed(z, regs, docs, req, t) <=> Promise!DelegateTldAllowed(z, req)
        BY <2>4 DEF ActionAllowed, Promise!ActionAllowed
      <3>. QED
        BY <3>1, <3>2
    <2>5. CASE req.action.kind = "create_tld"
      <3>1. Promise!CreateTldAllowed(z, req) <=> CreateTldAllowed(z, req)
        BY DEF CreateTldAllowed, Promise!CreateTldAllowed, validate_new_tld, Promise!validate_new_tld
      <3>2. /\ ActionAllowed(z, regs, docs, req, t) <=> CreateTldAllowed(z, req)
            /\ Promise!ActionAllowed(z, regs, docs, req, t) <=> Promise!CreateTldAllowed(z, req)
        BY <2>5 DEF ActionAllowed, Promise!ActionAllowed
      <3>. QED
        BY <3>1, <3>2
    <2>6. CASE req.action.kind \in {"reserve_tld", "block_tld"}
      <3>1. Promise!RestrictTldAllowed(z, req) <=> RestrictTldAllowed(z, req)
        BY DEF RestrictTldAllowed, Promise!RestrictTldAllowed
      <3>2. /\ ActionAllowed(z, regs, docs, req, t) <=> RestrictTldAllowed(z, req)
            /\ Promise!ActionAllowed(z, regs, docs, req, t) <=> Promise!RestrictTldAllowed(z, req)
        BY <2>6 DEF ActionAllowed, Promise!ActionAllowed
      <3>. QED
        BY <3>1, <3>2
    <2>7. CASE req.action.kind = "update_tld"
      <3>1. Promise!UpdateTldAllowed(z, req) <=> UpdateTldAllowed(z, req)
        BY DEF UpdateTldAllowed, Promise!UpdateTldAllowed
      <3>2. /\ ActionAllowed(z, regs, docs, req, t) <=> UpdateTldAllowed(z, req)
            /\ Promise!ActionAllowed(z, regs, docs, req, t) <=> Promise!UpdateTldAllowed(z, req)
        BY <2>7 DEF ActionAllowed, Promise!ActionAllowed
      <3>. QED
        BY <3>1, <3>2
    <2>8. CASE req.action.kind = "set_tld_status"
      <3>1. Promise!SetTldStatusAllowed(z, req) <=> SetTldStatusAllowed(z, req)
        BY DEF SetTldStatusAllowed, Promise!SetTldStatusAllowed
      <3>2. /\ ActionAllowed(z, regs, docs, req, t) <=> SetTldStatusAllowed(z, req)
            /\ Promise!ActionAllowed(z, regs, docs, req, t) <=> Promise!SetTldStatusAllowed(z, req)
        BY <2>8 DEF ActionAllowed, Promise!ActionAllowed
      <3>. QED
        BY <3>1, <3>2
    <2>9. CASE req.action.kind = "update_registry_pointer"
      <3>1. Promise!UpdateRegistryPointerAllowed(z, regs, req) <=> UpdateRegistryPointerAllowed(z, regs, req)
        BY DEF UpdateRegistryPointerAllowed, Promise!UpdateRegistryPointerAllowed
      <3>2. /\ ActionAllowed(z, regs, docs, req, t) <=> UpdateRegistryPointerAllowed(z, regs, req)
            /\ Promise!ActionAllowed(z, regs, docs, req, t) <=> Promise!UpdateRegistryPointerAllowed(z, regs, req)
        BY <2>9 DEF ActionAllowed, Promise!ActionAllowed
      <3>. QED
        BY <3>1, <3>2
    <2>10. req.action \in Action
      BY DEF MutationRequest
    <2>. QED
      BY <2>1, <2>2, <2>3, <2>4, <2>5, <2>6, <2>7, <2>8, <2>9, <2>10, ActionFields
  <1>3. \A regs, req : Promise!RegistriesAfter(regs, req) = RegistriesAfter(regs, req)
    BY DEF RegistriesAfter, Promise!RegistriesAfter
  <1>4. \A trail, entry : Promise!PushTail(trail, entry) = PushTail(trail, entry)
    BY DEF PushTail, Promise!PushTail
  <1>5. \A action : Promise!target_key(action) = target_key(action)
    BY DEF target_key, Promise!target_key
  <1>6. Promise!EmptyZone(0) = EmptyZone(0)
    BY DEF EmptyZone, Promise!EmptyZone
  <1>. QED
    BY <1>1, <1>2, <1>3, <1>4, <1>5, <1>6

\* What was checked and edited in memory, said of the store s it started from.
Pending(s, docs, req, zone) ==
    /\ req.genuine
    /\ req \notin s.applied
    /\ req.version > s.versions[target_key(req.action)]
    /\ \E t \in 0 .. MaxClock : ActionAllowed(s.zone, s.registries, docs, req, t)
    /\ zone.version \in Nat /\ zone.version > s.zone.version
    /\ zone = [ActionEffect(s.zone, req) EXCEPT !.version = zone.version,
                                                !.audit = PushTail(s.zone.audit, req)]

\* The mutation memory is ahead by is one the database still allows.
PendingInv ==
    /\ clock \in 0 .. MaxClock
    /\ \A h \in Handlers : handler[h].pc = "memory" =>
           Pending(db, content, handler[h].req, mem.zone)

LEMMA AcceptedIsPending ==
    ASSUME NEW s \in Store, NEW req \in MutationRequest, NEW now \in Nat,
           NEW t \in 0 .. MaxClock, NEW docs, NEW more, docs \subseteq more,
           req.genuine, req \notin s.applied,
           req.version > s.versions[target_key(req.action)],
           ActionAllowed(s.zone, s.registries, docs, req, t)
    PROVE  Pending(s, more, req, SignedZone(s.zone, req, now))
  <1>. DEFINE z == s.zone
              y == SignedZone(z, req, now)
              e == ActionEffect(z, req)
  <1>1. z \in Zone
    BY DEF Store
  <1>2. e \in Zone /\ y.version \in Nat /\ y.version > z.version
    BY <1>1, ActionEffectIsZone, SignedZoneIsZone
  <1>3. ActionAllowed(z, s.registries, more, req, t)
    BY DocumentsOnlyHelp
  <1>4. y = [e EXCEPT !.version = NextVersion(z.version, now), !.audit = PushTail(z.audit, req)]
    BY DEF SignedZone
  <1>. HIDE DEF y, e
  <1>5. y = [e EXCEPT !.version = y.version, !.audit = PushTail(z.audit, req)]
    BY <1>2, <1>4 DEF Zone
  <1>. QED
    BY <1>2, <1>3, <1>5 DEF Pending, y, e

\* What the seed signs, and what is submitted, are requests.
LEMMA EnvelopesAreRequests ==
    /\ Requests \subseteq MutationRequest
    /\ SeedEnvelopes \subseteq MutationRequest
  <1>1. \A entry \in SeedFile : entry \in Action
    BY RequestAssumption DEF Action
  <1>2. MaxClock \in Nat /\ 0 .. MaxClock \subseteq Int
    BY BoundAssumption
  <1>3. SeedEnvelopes \subseteq MutationRequest
    BY <1>1, <1>2, KeyAssumption, VersionAssumption DEF SeedEnvelopes, MutationRequest
  <1>. QED
    BY <1>3, RequestAssumption

\* The abstract registry may assume of its constants what it does.
LEMMA PromiseAssumptions == Promise!EnvelopeAssumption /\ Promise!AbsenceAssumption
  <1>1. Promise!MutationRequest = MutationRequest
    BY DEF Promise!MutationRequest, MutationRequest, Promise!Action, Action,
        Promise!Manifest, Manifest, Promise!DomainStatus, DomainStatus,
        Promise!DomainRecord, DomainRecord, Promise!RegistryType, RegistryType,
        Promise!Expiry, Expiry, Promise!NoExpiry, NoExpiry, Promise!Omitted, Omitted,
        Promise!TldStatus, TldStatus, Promise!TldRegistry, TldRegistry
  <1>r. None \notin Promise!TldRecord /\ None \notin Promise!DomainRecord
    BY AbsenceAssumption
    DEF Promise!TldRecord, TldRecord, Promise!DomainRecord, DomainRecord,
        Promise!Manifest, Manifest, Promise!DomainStatus, DomainStatus,
        Promise!RegistryType, RegistryType, Promise!Expiry, Expiry, Promise!NoExpiry,
        NoExpiry, Promise!TldStatus, TldStatus, Promise!TldRegistry, TldRegistry
  <1>2. Promise!Manifest = Manifest /\ Promise!TldRegistry = TldRegistry
    BY DEF Promise!Manifest, Manifest, Promise!TldRegistry, TldRegistry
  <1>3. Documents \subseteq Manifest \cup TldRegistry
    <2>1. ASSUME NEW r \in Requests, r.action.kind = "update_registry_pointer"
          PROVE  r.action.registry \in TldRegistry
      BY <2>1, EnvelopesAreRequests, ActionFields DEF MutationRequest
    <2>. QED
      BY <2>1, RequestAssumption DEF Documents
  <1>4. MaxClock \in Nat /\ 0 .. MaxClock \subseteq Nat
    BY BoundAssumption
  <1>. QED
    BY <1>1, <1>2, <1>3, <1>4, <1>r, EnvelopesAreRequests, VersionAssumption
    DEF Promise!EnvelopeAssumption, Promise!AbsenceAssumption

\* Recording a pending mutation is what the abstract registry calls accepting it.
LEMMA RecordIsAccept ==
    ASSUME Versions = Nat, NEW req \in Requests \cup SeedEnvelopes, NEW zone,
           Pending(db, content, req, zone),
           db' = Record(db, req, zone, [req |-> req, prev |-> db.zone, new |-> zone]),
           content' = content
    PROVE  Promise!Next
  <1>. DEFINE edited == [ActionEffect(db.zone, req) EXCEPT
                            !.version = zone.version, !.audit = PushTail(db.zone.audit, req)]
  <1>m. req \in MutationRequest
    BY EnvelopesAreRequests
  <1>1. PICK t \in 0 .. MaxClock : ActionAllowed(db.zone, db.registries, content, req, t)
    BY DEF Pending
  <1>2. /\ req.genuine /\ req \notin db.applied
        /\ req.version > db.versions[target_key(req.action)]
        /\ zone.version \in Nat /\ zone.version > db.zone.version
        /\ zone = edited
    BY DEF Pending
  <1>3. edited = [Promise!ActionEffect(db.zone, req) EXCEPT
                      !.version = zone.version, !.audit = Promise!PushTail(db.zone.audit, req)]
    BY <1>m, SameRules
  <1>4. Promise!ActionAllowed(db.zone, db.registries, content, req, t)
    BY <1>m, <1>1, SameRules
  <1>. HIDE DEF edited
  <1>5. db' = [zone |-> edited,
               registries |-> Promise!RegistriesAfter(db.registries, req),
               versions |-> [db.versions EXCEPT ![Promise!target_key(req.action)] = req.version],
               applied |-> db.applied \cup {req},
               audit |-> Append(db.audit, [req |-> req, prev |-> db.zone, new |-> edited])]
    BY <1>2, SameRules DEF Record
  <1>6. req.version > db.versions[Promise!target_key(req.action)]
    BY <1>2, SameRules
  <1>7. Promise!Accept(req, t, zone.version)
    BY <1>2, <1>3, <1>4, <1>5, <1>6 DEF Promise!Accept
  <1>. QED
    BY <1>2, <1>7 DEF Promise!Next

LEMMA PendingStep ==
    ASSUME ~HalfWrite,
           BaseInv, SyncInv, PendingInv, [Next]_vars
    PROVE  PendingInv'
  <1>t. TypeOK /\ OneHolder /\ mem \in Store /\ db \in Store
    BY DEF BaseInv, TypeOK
  <1>i. Idle.pc = "idle"
    BY DEF Idle
  <1>c. clock' \in 0 .. MaxClock
    <2>1. clock' = clock \/ Tick
      BY DEF Next, Progress, Failure, Receive, ConsumeNonce, StoreContent, Reject, ApplyInMemory,
             Commit, Answer, Disconnect, ConsumeNonceFails, StoreContentFails, ApplyWriteFails,
             CommitFails, SnapshotFails, IssueNonce, ServeRoot, Crash, Start, SeedEntry, vars
    <2>. QED
      BY <2>1, BoundAssumption DEF Tick, PendingInv
  <1>1. ASSUME \A h \in Handlers : handler'[h].pc # "memory"
        PROVE  PendingInv'
    BY <1>1, <1>c DEF PendingInv
  <1>2. ASSUME UNCHANGED <<db, mem, content>>,
               \A h \in Handlers : handler'[h].pc = "memory" => handler'[h] = handler[h]
        PROVE  PendingInv'
    BY <1>2, <1>c DEF PendingInv, Pending
  <1>3. ASSUME NEW h \in Handlers, handler' = [handler EXCEPT ![h] = Idle],
               UNCHANGED <<db, mem, content>>
        PROVE  PendingInv'
    <2>1. handler'[h].pc = "idle" /\ \A g \in Handlers : g # h => handler'[g] = handler[g]
      BY <1>3, <1>t, <1>i, HandlerStep
    <2>. QED
      BY <1>2, <1>3, <2>1
  <1>4. ASSUME NEW h \in Handlers, NEW req \in Requests, NEW package \in Packages \cup {None},
               Receive(h, req, package)
        PROVE  PendingInv'
    <2>1. handler'[h].pc = "wait" /\ \A g \in Handlers : g # h => handler'[g] = handler[g]
      BY <1>4, <1>t DEF Receive, TypeOK
    <2>. QED
      BY <1>2, <1>4, <2>1 DEF Receive
  <1>5. ASSUME NEW h \in Handlers, ConsumeNonce(h)
        PROVE  PendingInv'
    <2>0. handler[h] \in Handler
      BY <1>5, <1>t, HandlerFields DEF ConsumeNonce
    <2>1. /\ \A g \in Handlers : g # h => handler'[g] = handler[g]
          /\ handler'[h].pc # "memory"
      BY <1>5, <1>t, <1>i, <2>0 DEF ConsumeNonce, TypeOK, Handler
    <2>. QED
      BY <1>2, <1>5, <2>1 DEF ConsumeNonce
  <1>6. ASSUME NEW h \in Handlers, StoreContent(h)
        PROVE  PendingInv'
    <2>1. /\ handler'[h].pc = "stored" /\ handler[h].pc = "consumed"
          /\ \A g \in Handlers : g # h => handler'[g] = handler[g]
      BY <1>6, <1>t, AdvancePc DEF StoreContent
    <2>. QED
      BY <1>1, <1>t, <2>1 DEF OneHolder, Holding
  <1>7. ASSUME NEW h \in Handlers, ApplyInMemory(h)
        PROVE  PendingInv'
    <2>. DEFINE req == handler[h].req
    <2>1. /\ handler[h].pc \in {"stored", "consumed"} /\ up /\ db' = db
          /\ mem' = Apply(mem, req, handler[h].now)
          /\ Accepts(mem, req, handler[h].now, clock)
          /\ content \subseteq content'
      BY <1>7 DEF ApplyInMemory, ReadyToApply
    <2>2. req \in MutationRequest /\ handler[h].now \in Nat
      BY <1>t, <2>1, HandlerFields
    <2>3. /\ handler'[h].req = req
          /\ \A g \in Handlers : g # h => handler'[g].pc # "memory" /\ handler[g].pc # "memory"
      <3>1. /\ handler'[h].req = req
            /\ \A g \in Handlers : g # h => handler'[g] = handler[g]
        BY <1>7, <1>t, <2>1, AdvancePc DEF ApplyInMemory
      <3>2. \A g \in Handlers : g # h => handler[g].pc # "memory"
        BY <1>t, <2>1 DEF OneHolder, Holding
      <3>. QED
        BY <3>1, <3>2
    <2>4. mem = db
      BY <2>1, <2>3 DEF SyncInv
    <2>5. mem'.zone = SignedZone(db.zone, req, handler[h].now)
      BY <2>1, <2>4 DEF Apply, Record
    <2>. HIDE DEF req
    <2>6. Pending(db, content', req, mem'.zone)
      <3>1. /\ req.genuine /\ req \notin db.applied
            /\ req.version > db.versions[target_key(req.action)]
            /\ ActionAllowed(db.zone, db.registries, content, req, clock)
        BY <2>1, <2>4 DEF Accepts
      <3>2. content \subseteq content'
        BY <2>1
      <3>3. clock \in 0 .. MaxClock
        BY DEF PendingInv
      <3>4. Pending(db, content', req, SignedZone(db.zone, req, handler[h].now))
        BY <1>t, <2>2, <3>1, <3>2, <3>3, AcceptedIsPending
      <3>. QED
        BY <2>5, <3>4
    <2>7. Pending(db', content', handler'[h].req, mem'.zone)
      BY <2>1, <2>3, <2>6
    <2>. QED
      BY <1>c, <2>3, <2>7 DEF PendingInv
  <1>8. ASSUME NEW h \in Handlers, Commit(h)
        PROVE  PendingInv'
    BY <1>1, <1>8, CommitEffect DEF Holding
  <1>9. ASSUME NEW h \in Handlers,
               \/ Reject(h) \/ Answer(h) \/ Disconnect(h) \/ ConsumeNonceFails(h)
               \/ StoreContentFails(h) \/ ApplyWriteFails(h) \/ CommitFails(h)
               \/ SnapshotFails(h)
        PROVE  PendingInv'
    <2>1. \/ Reject(h) \/ Answer(h) \/ Disconnect(h) \/ ConsumeNonceFails(h)
          \/ StoreContentFails(h) \/ SnapshotFails(h)
      BY <1>9 DEF HalfWrite
    <2>. QED
      BY <1>3, <2>1 DEF Reject, Answer, Disconnect, ConsumeNonceFails, StoreContentFails,
                        SnapshotFails
  <1>10. ASSUME NEW entry \in SeedFile, SeedEntry(entry)
         PROVE  PendingInv'
    BY <1>1, <1>10, SeedEffect
  <1>11. ASSUME Crash \/ Start
         PROVE  PendingInv'
    BY <1>1, <1>11, <1>i DEF Crash, Start, BaseInv, NoOrphans
  <1>12. ASSUME ServeRoot \/ Tick \/ UNCHANGED vars \/ \E n \in Nonces : IssueNonce(n)
         PROVE  PendingInv'
    BY <1>2, <1>12 DEF ServeRoot, Tick, vars, IssueNonce
  <1>. QED
    BY <1>4, <1>5, <1>6, <1>7, <1>8, <1>9, <1>10, <1>11, <1>12 DEF Next, Progress, Failure

\* Every step of the server is a step of the abstract registry, or invisible to it.
LEMMA StepKeepsThePromise ==
    ASSUME Versions = Nat, ~HalfWrite,
           BaseInv, SyncInv, PendingInv, [Next]_vars
    PROVE  [Promise!Next]_(Promise!vars)
  <1>t. TypeOK /\ db \in Store /\ clock \in Nat
    BY DEF BaseInv, TypeOK
  <1>1. ASSUME UNCHANGED <<db, content>>
        PROVE  [Promise!Next]_(Promise!vars)
    BY <1>1 DEF Promise!vars
  <1>2. ASSUME NEW doc \in Documents, db' = db, content' = content \cup {doc}
        PROVE  [Promise!Next]_(Promise!vars)
    BY <1>2 DEF Promise!Next, Promise!StoreDocument
  <1>3. ASSUME NEW h \in Handlers, StoreContent(h)
        PROVE  [Promise!Next]_(Promise!vars)
    <2>1. handler[h].package \in Documents
      BY <1>3, <1>t, HandlerFields DEF StoreContent, Documents
    <2>. QED
      BY <1>2, <1>3, <2>1 DEF StoreContent
  <1>4. ASSUME NEW h \in Handlers, ApplyInMemory(h)
        PROVE  [Promise!Next]_(Promise!vars)
    <2>1. handler[h].req \in Requests
      <3>1. handler[h].pc \in {"stored", "consumed"}
        BY <1>4 DEF ApplyInMemory, ReadyToApply
      <3>. QED
        BY <1>t, <3>1, HandlerFields
    <2>2. CASE handler[h].req.action.kind = "update_registry_pointer"
      <3>1. handler[h].req.action.registry \in Documents
        BY <2>1, <2>2 DEF Documents
      <3>. QED
        BY <1>2, <1>4, <2>2, <3>1 DEF ApplyInMemory
    <2>3. CASE handler[h].req.action.kind # "update_registry_pointer"
      BY <1>1, <1>4, <2>3 DEF ApplyInMemory
    <2>. QED
      BY <2>2, <2>3
  <1>5. ASSUME NEW h \in Handlers, Commit(h)
        PROVE  [Promise!Next]_(Promise!vars)
    <2>. DEFINE event == mem.audit[Len(mem.audit)]
                req == handler[h].req
    <2>1. req \in Requests /\ event \in AuditRecord /\ event.req = req
      BY <1>5, <1>t, CommitEffect, HandlerFields DEF Commit
    <2>2. /\ db' = Record(db, req, mem.zone, event) /\ content' = content
          /\ event.prev = db.zone /\ event.new = mem.zone
          /\ Pending(db, content, req, mem.zone)
      BY <1>5 DEF Commit, SyncInv, PendingInv
    <2>. HIDE DEF event, req
    <2>3. event = [req |-> req, prev |-> db.zone, new |-> mem.zone]
      BY <2>1, <2>2 DEF AuditRecord
    <2>. QED
      BY <2>1, <2>2, <2>3, RecordIsAccept
  <1>6. ASSUME NEW entry \in SeedFile, SeedEntry(entry)
        PROVE  [Promise!Next]_(Promise!vars)
    <2>. DEFINE req == SeedRequest(entry)
                zone == SignedZone(db.zone, req, clock)
    <2>1. /\ Accepts(db, req, clock, clock) /\ content' = content
          /\ db' = Record(db, req, zone, [req |-> req, prev |-> db.zone, new |-> zone])
      BY <1>6 DEF SeedEntry, Apply
    <2>2. req \in SeedEnvelopes
      <3>1. req \in MutationRequest /\ entry = [kind |-> entry.kind, name |-> entry.name]
        BY <1>t, SeedRequestIsRequest, RequestAssumption
      <3>2. clock \in 0 .. MaxClock
        BY DEF PendingInv
      <3>3. req.version \in Versions
        BY <3>1 DEF MutationRequest
      <3>. QED
        BY <3>1, <3>2, <3>3 DEF SeedRequest, SeedEnvelopes
    <2>. HIDE DEF req
    <2>3. Pending(db, content, req, zone)
      <3>1. clock \in 0 .. MaxClock
        BY DEF PendingInv
      <3>. QED
        BY <1>t, <2>1, <2>2, <3>1, EnvelopesAreRequests, AcceptedIsPending DEF Accepts
    <2>. HIDE DEF zone
    <2>. QED
      BY <2>1, <2>2, <2>3, RecordIsAccept
  <1>7. ASSUME NEW h \in Handlers,
               \/ ConsumeNonce(h) \/ Reject(h) \/ Answer(h) \/ Failure(h)
               \/ \E req \in Requests, package \in Packages \cup {None} : Receive(h, req, package)
        PROVE  [Promise!Next]_(Promise!vars)
    BY <1>1, <1>7 DEF ConsumeNonce, Reject, Answer, Receive, Failure, Disconnect,
        ConsumeNonceFails, StoreContentFails, ApplyWriteFails, CommitFails, SnapshotFails
  <1>8. ASSUME \/ Crash \/ Start \/ ServeRoot \/ Tick \/ UNCHANGED vars
               \/ \E n \in Nonces : IssueNonce(n)
        PROVE  [Promise!Next]_(Promise!vars)
    BY <1>1, <1>8 DEF Crash, Start, ServeRoot, Tick, vars, IssueNonce
  <1>. QED
    BY <1>3, <1>4, <1>5, <1>6, <1>7, <1>8 DEF Next, Progress

LEMMA PendingAlways ==
    ASSUME WritesSucceed
    PROVE  Spec => [](BaseInv /\ SyncInv /\ PendingInv)
  <1>1. Init => PendingInv
    BY BoundAssumption DEF Init, Idle, PendingInv
  <1>2. BaseInv /\ SyncInv /\ PendingInv /\ [Next]_vars => PendingInv'
    BY PendingStep, NoHalfWrite DEF BaseInv
  <1>. QED
    BY <1>1, <1>2, SyncAlways, PTL DEF Spec

\* While transactions and registry writes succeed, the database behaves as the
\* abstract registry: it changes only by accepting, whole, a mutation that the rules
\* allow on it, whatever is raced, replayed, dropped or crashed around it.
THEOREM DatabaseImplementsThePromise ==
    ASSUME WritesSucceed, Versions = Nat
    PROVE  Spec => DatabaseKeepsThePromise
  <1>1. Init => Promise!Init
    BY SameRules DEF Init, EmptyStore, Promise!Init
  <1>2. BaseInv /\ SyncInv /\ PendingInv /\ [Next]_vars => [Promise!Next]_(Promise!vars)
    BY StepKeepsThePromise, NoHalfWrite DEF BaseInv
  <1>. QED
    BY <1>1, <1>2, PendingAlways, PTL DEF Spec, Promise!Spec, DatabaseKeepsThePromise

\* So the live registry keeps what the abstract one does.  A domain never changes hands
\* behind its owner's back: only the operator of its TLD, by issuing a record it signed,
\* can name another owner.
THEOREM OwnershipIsKept ==
    ASSUME WritesSucceed, Versions = Nat
    PROVE  Spec => Promise!OwnershipIsTheOperators
  <1>1. Spec => Promise!Spec
    BY DatabaseImplementsThePromise DEF DatabaseKeepsThePromise
  <1>2. Promise!Spec => Promise!OwnershipIsTheOperators
    BY PromiseAssumptions, NameAssumption, KeyAssumption, TailAssumption, Promise!OwnershipIsGoverned, PTL
    DEF Promise!EnvelopeAssumption, Promise!AbsenceAssumption
  <1>. QED
    BY <1>1, <1>2, PTL

\* Enforcement on the live registry sticks: a suspended or revoked domain leaves that
\* status only by the operator of its TLD or by root, and a revoked one only by root.
THEOREM EnforcementIsKept ==
    ASSUME WritesSucceed, Versions = Nat
    PROVE  Spec => Promise!EnforcementSticks
  <1>1. Spec => Promise!Spec
    BY DatabaseImplementsThePromise DEF DatabaseKeepsThePromise
  <1>2. Promise!Spec => Promise!EnforcementSticks
    BY PromiseAssumptions, NameAssumption, KeyAssumption, TailAssumption, Promise!EnforcementIsGoverned, PTL
    DEF Promise!EnvelopeAssumption, Promise!AbsenceAssumption
  <1>. QED
    BY <1>1, <1>2, PTL

-----------------------------------------------------------------------------
(***************************************************************************)
(* The publishers.  What their users are told agrees with the registry     *)
(* because a challenge belongs to one run, so one submission, and because  *)
(* a version read under the lock is at most one ahead of the database.     *)
(***************************************************************************)

\* The target their versions are counted under.
DomainKey == Lower[Domain]

Publishing(req) == target_key(req.action) = DomainKey

\* A submission is a publication of the domain.
ClientInv ==
    /\ client \in [Clients -> ClientState]
    /\ \A h \in Handlers : handler[h] # Idle =>
          LET action == handler[h].req.action
          IN  /\ action.kind = "publish_site" /\ action.name = Domain
              /\ action.manifest.domain = Domain

\* The challenge of c's run is drawn and not yet in a submission.
Unsent(c) == client[c].step \in {"nonce", "version"}

\* What was accepted, durably or not yet.
Mutations == db.applied \cup mem.applied

Spent(nonce, mutations) == \E req \in mutations : req.nonce = nonce

\* A challenge belongs to one run, then to one submission, then to what was
\* accepted or refused.
RunInv ==
    /\ \A c \in Clients : Unsent(c) =>
          LET nonce == client[c].nonce
          IN  /\ nonce \in issued /\ ~Spent(nonce, Mutations)
              /\ \A h \in Handlers : handler[h] # Idle => handler[h].req.nonce # nonce
              /\ \A req \in refused : req.nonce # nonce
              /\ \A d \in Clients : d # c /\ Unsent(d) => client[d].nonce # nonce
    /\ \A h \in Handlers : handler[h] # Idle =>
          LET nonce == handler[h].req.nonce
          IN  /\ nonce \in issued
              /\ \A g \in Handlers :
                    g # h /\ handler[g] # Idle => handler[g].req.nonce # nonce
              /\ \A req \in refused : req.nonce # nonce
              /\ handler[h].pc # "committed" =>
                    \A req \in db.applied : req.nonce # nonce
              /\ handler[h].pc \notin {"memory", "committed"} =>
                    \A req \in mem.applied : req.nonce # nonce
    /\ \A req \in refused : req.nonce \in issued /\ ~Spent(req.nonce, Mutations)
    /\ \A req \in Mutations : req.nonce \in issued \cup {SeedNonce}

\* The record of the domain is what its latest publication named.
Named(st, docs) ==
    LET rec == st.zone.domains[Domain]
    IN  /\ rec # None => rec.manifest \in docs
        /\ \A req \in st.applied : Publishing(req) =>
              /\ req.version <= st.versions[DomainKey]
              /\ req.version = st.versions[DomainKey] =>
                    rec # None /\ rec.manifest = req.action.manifest
              /\ \E last \in st.applied :
                    Publishing(last) /\ last.version = st.versions[DomainKey]

RecordInv ==
    /\ Named(db, content) /\ Named(mem, content)
    /\ confirmed \subseteq accepted
    /\ \A req \in confirmed : Publishing(req)

\* Where the log publishes the domain.
Publications(log) == { i \in DOMAIN log : Publishing(log[i].req) }

\* Versions of the domain count its publications, and no run is further ahead.
CountInv ==
    /\ NoBlindOverwrite
    /\ db.versions[DomainKey] = Cardinality(Publications(db.audit))
    /\ \A c \in Clients : client[c].step = "version" =>
          client[c].version <= db.versions[DomainKey] + 1
    /\ \A h \in Handlers : handler[h] # Idle =>
          handler[h].req.version <= db.versions[DomainKey] + 1

ServerInv == BaseInv /\ AdvanceInv /\ SyncInv /\ AnswerInv

PublishInv == ServerInv /\ ClientInv /\ RunInv /\ RecordInv /\ CountInv

\* The key of the domain is no TLD's, so no seed entry's.
LEMMA DomainKeyIsDomain ==
    /\ Domain \in DomainNames /\ DomainKey \in DomainNames
    /\ DomainKey \in TldNames \cup DomainNames
    /\ \A entry \in SeedFile : ~Publishing(SeedRequest(entry))
  <1>1. Domain \in DomainNames /\ DomainKey \in DomainNames
    BY PublisherAssumption, NameAssumption DEF DomainKey
  <1>2. \A entry \in SeedFile : entry.name \in TldNames
    BY RequestAssumption
  <1>3. \A entry \in SeedFile : target_key(SeedRequest(entry).action) \in TldNames
    BY <1>2, NameAssumption DEF target_key, SeedRequest
  <1>. QED
    BY <1>1, <1>3, NameAssumption DEF Publishing

\* Every step of the system is one of the server's, and none is half a write.
LEMMA PublishIsServer ==
    ASSUME BaseInv, client \in [Clients -> ClientState], [NextPublish]_publishVars
    PROVE  [Next]_vars /\ ~HalfWrite
  <1>t. TypeOK
    BY DEF BaseInv
  <1>i. Idle.pc = "idle" /\ \A h \in Handlers : handler[h] \in Handler => handler[h] # Idle
    BY HandlerFields, <1>t DEF Idle
  <1>h. ASSUME HalfWrite
        PROVE  \E h \in Handlers :
                  /\ up /\ up' = up /\ clock' = clock /\ issued' = issued
                  /\ handler' = [handler EXCEPT ![h] = Idle]
                  /\ db' = db /\ accepted' = accepted
                  /\ \/ handler[h].pc = "memory" /\ mem' = mem
                     \/ /\ ReadyToApply(h)
                        /\ Accepts(mem, handler[h].req, handler[h].now, clock)
    BY <1>h DEF HalfWrite, ApplyWriteFails, CommitFails
  <1>0. ASSUME NEW h \in Handlers, NEW g \in Handlers,
               handler' = [handler EXCEPT ![g] = Idle], handler[g].pc # "idle",
               \A k \in Handlers : k # h => handler'[k] = handler[k]
        PROVE  g = h /\ handler'[h].pc = "idle"
    <2>1. handler'[g] = Idle
      BY <1>t, <1>0 DEF TypeOK
    <2>2. handler[g] # Idle
      BY <1>i, <1>0
    <2>. QED
      BY <1>0, <1>i, <2>1, <2>2
  <1>s. ASSUME handler' = handler PROVE ~HalfWrite
    <2>1. SUFFICES ASSUME HalfWrite PROVE FALSE
      OBVIOUS
    <2>2. PICK h \in Handlers : handler' = [handler EXCEPT ![h] = Idle]
                                /\ handler[h].pc # "idle"
      BY <1>h, <2>1 DEF ReadyToApply
    <2>3. handler'[h] = Idle
      BY <1>t, <2>2 DEF TypeOK
    <2>. QED
      BY <1>i, <1>s, <2>2, <2>3
  <1>1. ASSUME NEW c \in Clients, FetchNonce(c)
        PROVE  [Next]_vars /\ ~HalfWrite
    BY <1>1, <1>s DEF FetchNonce, IssueNonce, Next
  <1>2. ASSUME NEW c \in Clients, NextTargetVersion(c)
        PROVE  [Next]_vars /\ ~HalfWrite
    BY <1>2, <1>s DEF NextTargetVersion, vars
  <1>3. ASSUME NEW c \in Clients, Submit(c)
        PROVE  [Next]_vars /\ ~HalfWrite
    <2>1. PICK h \in Handlers, m \in Packages :
              Signed(c, m) \in Requests /\ Receive(h, Signed(c, m), m)
      BY <1>3 DEF Submit
    <2>. DEFINE x == [pc |-> "wait", req |-> Signed(c, m), now |-> clock, package |-> m]
    <2>2. handler' = [handler EXCEPT ![h] = x] /\ x.pc = "wait"
      BY <2>1 DEF Receive
    <2>3. handler'[h] = x /\ \A g \in Handlers : g # h => handler'[g] = handler[g]
      BY <1>t, <2>2 DEF TypeOK
    <2>4. ~HalfWrite
      <3>1. SUFFICES ASSUME HalfWrite PROVE FALSE
        OBVIOUS
      <3>2. PICK g \in Handlers : handler' = [handler EXCEPT ![g] = Idle]
                                  /\ handler[g].pc # "idle"
        BY <1>h, <3>1 DEF ReadyToApply
      <3>. HIDE DEF x
      <3>. QED
        BY <1>0, <2>2, <2>3, <3>2
    <2>5. Next
      BY <2>1 DEF Next
    <2>. QED
      BY <2>4, <2>5
  <1>4. ASSUME NEW c \in Clients, GiveUp(c)
        PROVE  [Next]_vars /\ ~HalfWrite
    <2>1. CASE UNCHANGED vars
      BY <1>s, <2>1 DEF vars
    <2>2. CASE client[c].step = "sent" /\ Disconnect(client[c].handler)
               /\ client[c].handler \in Handlers
      <3>. DEFINE h == client[c].handler
      <3>1. /\ h \in Handlers /\ handler[h].pc = "wait"
            /\ \A g \in Handlers : g # h => handler'[g] = handler[g]
        BY <1>t, <2>2 DEF Disconnect, TypeOK
      <3>. HIDE DEF h
      <3>2. ~HalfWrite
        <4>1. SUFFICES ASSUME HalfWrite PROVE FALSE
          OBVIOUS
        <4>2. PICK g \in Handlers : handler' = [handler EXCEPT ![g] = Idle]
                    /\ handler[g].pc \in {"memory", "stored", "consumed"}
          BY <1>h, <4>1 DEF ReadyToApply
        <4>3. g = h
          BY <1>0, <3>1, <4>2
        <4>. QED
          BY <3>1, <4>2, <4>3
      <3>. QED
        BY <2>2, <3>2 DEF Next, Failure
    <2>3. client[c].step = "sent" => client[c].handler \in Handlers
      BY DEF ClientState, NotRunning
    <2>. QED
      BY <1>4, <2>1, <2>2, <2>3 DEF GiveUp
  <1>5. ASSUME NEW h \in Handlers, handler[h].pc \in {"wait", "committed"},
               \A g \in Handlers : g # h => handler'[g] = handler[g]
        PROVE  ~HalfWrite
    <2>1. SUFFICES ASSUME HalfWrite PROVE FALSE
      OBVIOUS
    <2>2. PICK g \in Handlers : handler' = [handler EXCEPT ![g] = Idle]
              /\ handler[g].pc \in {"memory", "stored", "consumed"}
      BY <1>h, <2>1 DEF ReadyToApply
    <2>3. g = h
      BY <1>0, <1>5, <2>2
    <2>. QED
      BY <1>5, <2>2, <2>3
  <1>6. ASSUME NEW h \in Handlers, NEW pc \in {"stored", "memory", "committed"},
               handler[h].pc # "idle", handler' = [handler EXCEPT ![h].pc = pc]
        PROVE  ~HalfWrite
    <2>1. SUFFICES ASSUME HalfWrite PROVE FALSE
      OBVIOUS
    <2>2. PICK g \in Handlers : handler' = [handler EXCEPT ![g] = Idle]
                                /\ handler[g].pc # "idle"
      BY <1>h, <2>1 DEF ReadyToApply
    <2>3. handler'[h].pc = pc /\ \A k \in Handlers : k # h => handler'[k] = handler[k]
      BY <1>t, <1>6, AdvancePc
    <2>. QED
      BY <1>0, <2>2, <2>3
  <1>7. ASSUME NEW h \in Handlers, ServerProgress(h)
        PROVE  [Next]_vars /\ ~HalfWrite
    <2>1. Next
      BY <1>7 DEF ServerProgress, Next
    <2>2. CASE ConsumeNonce(h)
      BY <1>t, <1>5, <2>1, <2>2 DEF ConsumeNonce, TypeOK
    <2>3. CASE StoreContent(h)
      BY <1>6, <2>1, <2>3 DEF StoreContent
    <2>4. CASE Reject(h)
      <3>1. \A g \in Handlers : g # h => handler'[g] = handler[g]
        BY <1>t, <2>4 DEF Reject, TypeOK
      <3>2. ~HalfWrite
        <4>1. SUFFICES ASSUME HalfWrite PROVE FALSE
          OBVIOUS
        <4>2. PICK g \in Handlers :
                  /\ handler' = [handler EXCEPT ![g] = Idle]
                  /\ \/ handler[g].pc = "memory"
                     \/ /\ ReadyToApply(g)
                        /\ Accepts(mem, handler[g].req, handler[g].now, clock)
          BY <1>h, <4>1
        <4>3. handler[g].pc \in {"memory", "stored", "consumed"}
          BY <4>2 DEF ReadyToApply
        <4>4. g = h
          BY <1>0, <3>1, <4>2, <4>3
        <4>. QED
          BY <2>4, <4>2, <4>4 DEF Reject, ReadyToApply
      <3>. QED
        BY <2>1, <3>2
    <2>5. CASE ApplyInMemory(h)
      BY <1>6, <2>1, <2>5 DEF ApplyInMemory, ReadyToApply
    <2>6. CASE Commit(h)
      BY <1>6, <2>1, <2>6 DEF Commit
    <2>7. CASE Answer(h)
      BY <1>t, <1>5, <2>1, <2>7 DEF Answer, TypeOK
    <2>. QED
      BY <1>7, <2>2, <2>3, <2>4, <2>5, <2>6, <2>7 DEF ServerProgress, Progress
  <1>8. ASSUME NEW h \in Handlers, ServerFailure(h)
        PROVE  [Next]_vars /\ ~HalfWrite
    <2>1. Next
      BY <1>8 DEF ServerFailure, Next, Failure
    <2>2. CASE ConsumeNonceFails(h)
      BY <1>t, <1>5, <2>1, <2>2 DEF ConsumeNonceFails, TypeOK
    <2>3. CASE StoreContentFails(h)
      <3>1. \A g \in Handlers : g # h => handler'[g] = handler[g]
        BY <1>t, <2>3 DEF StoreContentFails, TypeOK
      <3>2. ~HalfWrite
        <4>1. SUFFICES ASSUME HalfWrite PROVE FALSE
          OBVIOUS
        <4>2. PICK g \in Handlers : /\ handler' = [handler EXCEPT ![g] = Idle]
                                    /\ handler[g].pc = "memory" \/ ReadyToApply(g)
          BY <1>h, <4>1
        <4>3. handler[g].pc \in {"memory", "stored", "consumed"}
          BY <4>2 DEF ReadyToApply
        <4>4. g = h
          BY <1>0, <3>1, <4>2, <4>3
        <4>. QED
          BY <2>3, <4>2, <4>4 DEF StoreContentFails, ReadyToApply
      <3>. QED
        BY <2>1, <3>2
    <2>. QED
      BY <1>8, <2>2, <2>3 DEF ServerFailure
  <1>9. ASSUME Environment
        PROVE  [Next]_vars /\ ~HalfWrite
    <2>1. Next
      BY <1>9 DEF Environment, Next
    <2>2. CASE Crash
      BY <1>h, <2>1, <2>2 DEF Crash
    <2>3. CASE Start \/ \E entry \in SeedFile : SeedEntry(entry)
      BY <1>h, <2>1, <2>3 DEF Start, SeedEntry, RootSeed
    <2>4. CASE Tick
      BY <1>s, <2>1, <2>4 DEF Tick
    <2>. QED
      BY <1>9, <2>2, <2>3, <2>4 DEF Environment
  <1>10. ASSUME UNCHANGED publishVars
         PROVE  [Next]_vars /\ ~HalfWrite
    BY <1>s, <1>10 DEF publishVars, vars
  <1>. QED
    BY <1>1, <1>2, <1>3, <1>4, <1>7, <1>8, <1>9, <1>10 DEF NextPublish

-----------------------------------------------------------------------------
\* What the clients of the handlers that end are told.
LEMMA ToldEffect ==
    ASSUME client \in [Clients -> ClientState], Told
    PROVE  /\ client' \in [Clients -> ClientState]
           /\ \A c \in Clients : client'[c] \in {client[c], NotRunning}
           /\ confirmed \subseteq confirmed'
           /\ \A req \in confirmed' \ confirmed :
                  /\ req \in accepted'
                  /\ \E h \in Handlers : handler[h] # Idle /\ req = handler[h].req
           /\ \A req \in refused' \ refused :
                  /\ req \notin accepted'
                  /\ \E h \in Handlers : /\ handler[h] # Idle /\ handler'[h] = Idle
                                         /\ req = handler[h].req
           /\ Ended = {} \/ ~up' => confirmed' = confirmed /\ refused' = refused
           /\ Ended = {} => client' = client
  <1>. DEFINE answered == IF up' THEN { h \in Ended : WaitsFor(h) # {} } ELSE {}
              requests == { handler[h].req : h \in answered }
              told(c) == \E h \in Ended : c \in WaitsFor(h)
  <1>1. /\ client' = [c \in Clients |-> IF told(c) THEN NotRunning ELSE client[c]]
        /\ confirmed' = confirmed \cup (requests \cap (accepted' \ accepted))
        /\ refused' = refused \cup (requests \ accepted')
    BY DEF Told
  <1>2. NotRunning \in ClientState
    BY DEF ClientState
  <1>3. answered \subseteq Ended /\ (Ended = {} \/ ~up' => requests = {})
    OBVIOUS
  <1>4. \A h \in Ended : h \in Handlers /\ handler[h] # Idle /\ handler'[h] = Idle
    BY DEF Ended
  <1>5. \A req \in requests : \E h \in Ended : req = handler[h].req
    BY <1>3
  <1>6. Ended = {} => \A c \in Clients : ~told(c)
    OBVIOUS
  <1>. HIDE DEF requests, told, answered
  <1>7. client' \in [Clients -> ClientState]
    BY <1>1, <1>2
  <1>8. \A c \in Clients : client'[c] \in {client[c], NotRunning}
    BY <1>1
  <1>9. Ended = {} => client' = client
    BY <1>1, <1>6
  <1>10. \A req \in requests : \E h \in Handlers : /\ handler[h] # Idle /\ handler'[h] = Idle
                                                 /\ req = handler[h].req
    BY <1>4, <1>5
  <1>. QED
    BY <1>1, <1>3, <1>7, <1>8, <1>9, <1>10

Applied(pc) == pc \in {"memory", "committed"}

\* A step that neither draws a challenge, nor submits, nor applies anything: the
\* submissions that go on keep their request, those that end answer their clients.
Quiet ==
    /\ issued' = issued /\ db' = db
    /\ content \subseteq content' /\ accepted \subseteq accepted'
    /\ \/ mem' = mem
       \/ mem' \in {db, EmptyStore} /\ \A h \in Handlers : handler'[h] = Idle
    /\ \A h \in Handlers :
          \/ handler'[h] = Idle
          \/ /\ handler[h] # Idle /\ handler'[h].req = handler[h].req
             /\ \/ handler'[h].pc = handler[h].pc
                \/ ~Applied(handler[h].pc) /\ ~Applied(handler'[h].pc)
    /\ client' \in [Clients -> ClientState]
    /\ \A c \in Clients :
          \/ client'[c] \in {client[c], NotRunning}
          \/ /\ client[c].step = "nonce" /\ client'[c].step = "version"
             /\ client'[c].nonce = client[c].nonce
             /\ client'[c].version = db.versions[DomainKey] + 1
    /\ \A req \in confirmed' : req \in confirmed \/ (req \in accepted' /\ Publishing(req))
    /\ \A req \in refused' :
          \/ req \in refused
          \/ \E h \in Handlers : /\ handler[h] # Idle /\ handler'[h] = Idle
                                 /\ req = handler[h].req /\ ~Applied(handler[h].pc)

\* Every step is quiet, or one of five.
LEMMA StepShapes ==
    ASSUME ServerInv, ClientInv, [NextPublish]_publishVars
    PROVE  \/ Quiet
           \/ \E c \in Clients : FetchNonce(c) \/ Submit(c)
           \/ Told /\ \E h \in Handlers : ApplyInMemory(h) \/ Commit(h)
           \/ Told /\ \E entry \in SeedFile : SeedEntry(entry)
  <1>t. /\ TypeOK /\ client \in [Clients -> ClientState]
        /\ handler \in [Handlers -> Handler \cup {Idle}]
    BY DEF ServerInv, BaseInv, ClientInv, TypeOK
  <1>i. Idle.pc = "idle"
    BY DEF Idle
  <1>p. \A h \in Handlers : handler[h] # Idle => Publishing(handler[h].req)
    BY DEF ClientInv, Publishing, target_key, DomainKey
  <1>n. NotRunning \in ClientState
    BY DEF ClientState
  <1>1. ASSUME issued' = issued, db' = db, content \subseteq content', mem' = mem,
               accepted' = accepted, NEW h \in Handlers, ~Applied(handler[h].pc),
               \A g \in Handlers : g # h => handler'[g] = handler[g],
               \/ handler'[h] = Idle
               \/ /\ handler[h] # Idle /\ handler'[h].req = handler[h].req
                  /\ ~Applied(handler'[h].pc),
               Told
        PROVE  Quiet
    <2>1. \A req \in confirmed' : req \in confirmed \/ (req \in accepted' /\ Publishing(req))
      BY <1>p, <1>t, <1>1, ToldEffect
    <2>2. \A req \in refused' :
             \/ req \in refused
             \/ \E g \in Handlers : /\ handler[g] # Idle /\ handler'[g] = Idle
                                    /\ req = handler[g].req /\ ~Applied(handler[g].pc)
      BY <1>t, <1>1, ToldEffect
    <2>3. \A g \in Handlers :
             \/ handler'[g] = Idle
             \/ /\ handler[g] # Idle /\ handler'[g].req = handler[g].req
                /\ \/ handler'[g].pc = handler[g].pc
                   \/ ~Applied(handler[g].pc) /\ ~Applied(handler'[g].pc)
      BY <1>1
    <2>4. client' \in [Clients -> ClientState]
          /\ \A c \in Clients : client'[c] \in {client[c], NotRunning}
      BY <1>t, <1>1, ToldEffect
    <2>. QED
      BY <1>1, <2>1, <2>2, <2>3, <2>4 DEF Quiet
  <1>2. ASSUME NEW c \in Clients, NextTargetVersion(c)
        PROVE  Quiet
    <2>1. mem = db
      BY <1>2 DEF NextTargetVersion, ServerInv, SyncInv, WriteLocked, Holding
    <2>. DEFINE target == db.versions[DomainKey] + 1
                x == [client[c] EXCEPT !.step = "version", !.version = target]
    <2>2. target \in Nat
      BY <1>t, DomainKeyIsDomain, StoreNumbers DEF TypeOK
    <2>3. client' = [client EXCEPT ![c] = x]
      BY <1>2, <1>t, <2>1 DEF NextTargetVersion, NextTarget, DomainKey
    <2>. HIDE DEF target
    <2>4. client[c] \in [step : {"nonce"}, nonce : Nonces, version : {0}, handler : {None}]
      BY <1>2, <1>t DEF NextTargetVersion, ClientState, NotRunning
    <2>5. /\ x \in ClientState /\ x.step = "version" /\ x.nonce = client[c].nonce
          /\ x.version = target
      BY <2>2, <2>4 DEF ClientState
    <2>. HIDE DEF x
    <2>6. /\ client' \in [Clients -> ClientState] /\ client'[c] = x
          /\ \A d \in Clients : d # c => client'[d] = client[d]
      BY <1>t, <2>3, <2>5
    <2>. QED
      BY <1>2, <2>5, <2>6 DEF NextTargetVersion, vars, Quiet, target
  <1>3. ASSUME NEW c \in Clients, GiveUp(c)
        PROVE  Quiet
    <2>1. client' = [client EXCEPT ![c] = NotRunning]
      BY <1>3 DEF GiveUp
    <2>2. client' \in [Clients -> ClientState]
          /\ \A d \in Clients : client'[d] \in {client[d], NotRunning}
      BY <1>n, <1>t, <2>1
    <2>3. /\ issued' = issued /\ db' = db /\ content' = content /\ mem' = mem
          /\ accepted' = accepted /\ confirmed' = confirmed /\ refused' = refused
      BY <1>3 DEF GiveUp, Disconnect, vars
    <2>4. \A h \in Handlers : handler'[h] = Idle \/ handler'[h] = handler[h]
      BY <1>3, <1>t DEF GiveUp, Disconnect, vars
    <2>. QED
      BY <2>2, <2>3, <2>4 DEF Quiet
  <1>4. ASSUME NEW h \in Handlers, ConsumeNonce(h) \/ ConsumeNonceFails(h), Told
        PROVE  Quiet
    <2>1. handler[h].pc = "wait" /\ \A g \in Handlers : g # h => handler'[g] = handler[g]
      BY <1>4, <1>t DEF ConsumeNonce, ConsumeNonceFails
    <2>2. \/ handler'[h] = Idle
          \/ handler' = [handler EXCEPT ![h].pc = "consumed"]
      BY <1>4, <1>t DEF ConsumeNonce, ConsumeNonceFails
    <2>3. \/ handler'[h] = Idle
          \/ handler[h] # Idle /\ handler'[h].req = handler[h].req /\ handler'[h].pc = "consumed"
      BY <1>i, <1>t, <2>1, <2>2, AdvancePc
    <2>. QED
      BY <1>1, <1>4, <2>1, <2>3 DEF ConsumeNonce, ConsumeNonceFails, Applied
  <1>5. ASSUME NEW h \in Handlers, StoreContent(h), Told
        PROVE  Quiet
    <2>1. /\ handler[h].pc = "consumed" /\ handler[h] # Idle
          /\ handler'[h].req = handler[h].req /\ handler'[h].pc = "stored"
          /\ \A g \in Handlers : g # h => handler'[g] = handler[g]
      BY <1>5, <1>i, <1>t, AdvancePc DEF StoreContent
    <2>. QED
      BY <1>1, <1>5, <2>1 DEF StoreContent, Applied
  <1>6. ASSUME NEW h \in Handlers, Reject(h) \/ StoreContentFails(h), Told
        PROVE  Quiet
    <2>1. /\ handler[h].pc \in {"consumed", "stored"} /\ handler'[h] = Idle
          /\ \A g \in Handlers : g # h => handler'[g] = handler[g]
      BY <1>6, <1>t DEF Reject, ReadyToApply, StoreContentFails
    <2>. QED
      BY <1>1, <1>6, <2>1 DEF Reject, StoreContentFails, Applied
  <1>7. ASSUME NEW h \in Handlers, Answer(h), Told
        PROVE  Quiet
    <2>1. /\ handler'[h] = Idle /\ accepted' = accepted \cup {handler[h].req}
          /\ \A g \in Handlers : g # h => handler'[g] = handler[g]
          /\ handler[h].pc = "committed"
      BY <1>7, <1>t DEF Answer
    <2>2. \A g \in Handlers : handler[g] # Idle /\ handler'[g] = Idle => g = h
      BY <2>1
    <2>3. refused' \subseteq refused
      BY <1>7, <1>t, <2>1, <2>2, ToldEffect
    <2>4. \A req \in confirmed' : req \in confirmed \/ (req \in accepted' /\ Publishing(req))
      BY <1>p, <1>t, <1>7, ToldEffect
    <2>5. client' \in [Clients -> ClientState]
          /\ \A c \in Clients : client'[c] \in {client[c], NotRunning}
      BY <1>t, <1>7, ToldEffect
    <2>6. \A g \in Handlers : \/ handler'[g] = Idle
                              \/ handler[g] # Idle /\ handler'[g] = handler[g]
      BY <2>1
    <2>. QED
      BY <1>7, <2>1, <2>3, <2>4, <2>5, <2>6 DEF Answer, Quiet
  <1>8. ASSUME Crash \/ Start \/ Tick, Told
        PROVE  Quiet
    <2>1. /\ issued' = issued /\ db' = db /\ content' = content /\ accepted' = accepted
          /\ \A h \in Handlers : handler'[h] = Idle \/ handler'[h] = handler[h]
      BY <1>8 DEF Crash, Start, Tick
    <2>2. \/ mem' = mem
          \/ mem' \in {db, EmptyStore} /\ \A h \in Handlers : handler'[h] = Idle
      BY <1>8 DEF Crash, Start, Tick, ServerInv, BaseInv, NoOrphans
    <2>3. ~up' \/ Ended = {}
      BY <1>8 DEF Crash, Start, Tick, Ended
    <2>4. confirmed' = confirmed /\ refused' = refused
      BY <1>t, <1>8, <2>3, ToldEffect
    <2>5. client' \in [Clients -> ClientState]
          /\ \A c \in Clients : client'[c] \in {client[c], NotRunning}
      BY <1>t, <1>8, ToldEffect
    <2>. QED
      BY <2>1, <2>2, <2>4, <2>5 DEF Quiet
  <1>9. ASSUME UNCHANGED publishVars
        PROVE  Quiet
    BY <1>9, <1>t DEF publishVars, clientVars, vars, Quiet
  <1>. QED
    BY <1>2, <1>3, <1>4, <1>5, <1>6, <1>7, <1>8, <1>9
    DEF NextPublish, ServerProgress, ServerFailure, Environment, Progress

\* What the loud steps leave to the clients: nothing ends, so nothing is told.
LEMMA ApplyShape ==
    ASSUME ServerInv, ClientInv, NEW h \in Handlers, ApplyInMemory(h) \/ Commit(h), Told
    PROVE  /\ handler[h] # Idle /\ handler'[h] # Idle
           /\ handler'[h].req = handler[h].req
           /\ ApplyInMemory(h) => ~Applied(handler[h].pc) /\ handler'[h].pc = "memory"
           /\ Commit(h) => handler[h].pc = "memory" /\ handler'[h].pc = "committed"
           /\ \A g \in Handlers : g # h => handler'[g] = handler[g]
           /\ clientVars' = clientVars
           /\ issued' = issued /\ accepted' = accepted
  <1>t. TypeOK /\ client \in [Clients -> ClientState]
    BY DEF ServerInv, BaseInv, ClientInv
  <1>i. Idle.pc = "idle"
    BY DEF Idle
  <1>1. handler[h].pc \in {"consumed", "stored", "memory"}
    BY DEF ApplyInMemory, ReadyToApply, Commit
  <1>2. /\ ApplyInMemory(h) => ~Applied(handler[h].pc)
        /\ Commit(h) => handler[h].pc = "memory"
        /\ issued' = issued /\ accepted' = accepted
    BY DEF ApplyInMemory, ReadyToApply, Commit, Applied
  <1>3. /\ handler'[h].req = handler[h].req
        /\ ApplyInMemory(h) => handler'[h].pc = "memory"
        /\ Commit(h) => handler'[h].pc = "committed"
        /\ \A g \in Handlers : g # h => handler'[g] = handler[g]
    BY <1>1, <1>t, AdvancePc DEF ApplyInMemory, Commit
  <1>4. handler[h] # Idle /\ handler'[h] # Idle
    BY <1>1, <1>3, <1>i
  <1>5. Ended = {}
    BY <1>3, <1>4 DEF Ended
  <1>6. clientVars' = clientVars
    BY <1>t, <1>5, ToldEffect DEF clientVars
  <1>. QED
    BY <1>2, <1>3, <1>4, <1>6

-----------------------------------------------------------------------------
(* A challenge belongs to one run.                                         *)

LEMMA RunQuiet ==
    ASSUME ServerInv, RunInv, Quiet
    PROVE  RunInv'
  <1>i. Idle.pc = "idle" /\ EmptyStore.applied = {}
    BY DEF Idle, EmptyStore
  <1>1. \A req \in Mutations' : req \in Mutations
    BY <1>i DEF Quiet, Mutations
  <1>2. \A c \in Clients : Unsent(c)' => Unsent(c) /\ client'[c].nonce = client[c].nonce
    BY DEF Quiet, Unsent, NotRunning
  <1>3. \A h \in Handlers : handler'[h] # Idle =>
            /\ handler[h] # Idle /\ handler'[h].req = handler[h].req
            /\ mem' = mem /\ db' = db
            /\ handler'[h].pc # "committed" => handler[h].pc # "committed"
            /\ ~Applied(handler'[h].pc) => ~Applied(handler[h].pc)
    BY DEF Quiet, Applied
  <1>4. \A req \in refused' :
            \/ req \in refused
            \/ \E h \in Handlers : /\ handler[h] # Idle /\ handler'[h] = Idle
                                   /\ req = handler[h].req /\ ~Applied(handler[h].pc)
    BY DEF Quiet
  <1>5. issued' = issued
    BY DEF Quiet
  <1>6. ASSUME NEW c \in Clients, Unsent(c)'
        PROVE  LET nonce == client'[c].nonce
               IN  /\ nonce \in issued' /\ ~Spent(nonce, Mutations')
                   /\ \A h \in Handlers : handler'[h] # Idle => handler'[h].req.nonce # nonce
                   /\ \A req \in refused' : req.nonce # nonce
                   /\ \A d \in Clients : d # c /\ Unsent(d)' => client'[d].nonce # nonce
    BY <1>1, <1>2, <1>3, <1>4, <1>5, <1>6 DEF RunInv, Spent, Mutations
  <1>7. ASSUME NEW h \in Handlers, handler'[h] # Idle
        PROVE  LET nonce == handler'[h].req.nonce
               IN  /\ nonce \in issued'
                   /\ \A g \in Handlers :
                         g # h /\ handler'[g] # Idle => handler'[g].req.nonce # nonce
                   /\ \A req \in refused' : req.nonce # nonce
                   /\ handler'[h].pc # "committed" =>
                         \A req \in db'.applied : req.nonce # nonce
                   /\ handler'[h].pc \notin {"memory", "committed"} =>
                         \A req \in mem'.applied : req.nonce # nonce
    BY <1>3, <1>4, <1>5, <1>7 DEF RunInv, Applied
  <1>8. ASSUME NEW req \in refused'
        PROVE  req.nonce \in issued' /\ ~Spent(req.nonce, Mutations')
    <2>1. req.nonce \in issued /\ ~Spent(req.nonce, Mutations)
      BY <1>4 DEF RunInv, Applied, Spent, Mutations
    <2>. QED
      BY <1>1, <1>5, <2>1 DEF Spent, Mutations
  <1>9. \A req \in Mutations' : req.nonce \in issued' \cup {SeedNonce}
    BY <1>1, <1>5 DEF RunInv
  <1>. QED
    BY <1>6, <1>7, <1>8, <1>9 DEF RunInv

LEMMA RunApply ==
    ASSUME ServerInv, ClientInv, RunInv, Told,
           NEW h \in Handlers, ApplyInMemory(h) \/ Commit(h)
    PROVE  RunInv'
  <1>. DEFINE req == handler[h].req
  <1>1. /\ handler[h] # Idle /\ handler'[h] # Idle /\ handler'[h].req = req
        /\ Applied(handler'[h].pc)
        /\ ~Applied(handler[h].pc) \/ (handler[h].pc = "memory" /\ handler'[h].pc = "committed")
        /\ \A g \in Handlers : g # h => handler'[g] = handler[g]
        /\ issued' = issued
    BY ApplyShape DEF Applied
  <1>2. /\ client' = client /\ refused' = refused
    BY ApplyShape DEF clientVars
  <1>3. /\ \A q \in mem'.applied : q \in mem.applied \/ q = req
        /\ \A q \in db'.applied : q \in db.applied \/ (q = req /\ handler'[h].pc = "committed")
    <2>1. CASE ApplyInMemory(h)
      BY <2>1 DEF ApplyInMemory, Apply, Record
    <2>2. CASE Commit(h)
      <3>1. db'.applied = db.applied \cup {req} /\ handler'[h].pc = "committed"
        BY <2>2, CommitEffect DEF ServerInv
      <3>. HIDE DEF req
      <3>. QED
        BY <2>2, <3>1 DEF Commit
    <2>. QED
      BY <2>1, <2>2
  <1>. HIDE DEF req
  <1>p. /\ req.nonce \in issued
        /\ \A g \in Handlers : g # h /\ handler[g] # Idle => handler[g].req.nonce # req.nonce
        /\ \A q \in refused : q.nonce # req.nonce
        /\ \A q \in db.applied : q.nonce # req.nonce
        /\ ~Applied(handler[h].pc) => \A q \in mem.applied : q.nonce # req.nonce
        /\ \A c \in Clients : Unsent(c) => client[c].nonce # req.nonce
    BY <1>1 DEF RunInv, req, Applied
  <1>4. ASSUME NEW c \in Clients, Unsent(c)'
        PROVE  LET nonce == client'[c].nonce
               IN  /\ nonce \in issued' /\ ~Spent(nonce, Mutations')
                   /\ \A g \in Handlers : handler'[g] # Idle => handler'[g].req.nonce # nonce
                   /\ \A q \in refused' : q.nonce # nonce
                   /\ \A d \in Clients : d # c /\ Unsent(d)' => client'[d].nonce # nonce
    <2>1. Unsent(c) /\ \A d \in Clients : Unsent(d)' => Unsent(d)
      BY <1>2, <1>4 DEF Unsent
    <2>. QED
      BY <1>1, <1>2, <1>3, <1>p, <2>1 DEF RunInv, Spent, Mutations
  <1>5. ASSUME NEW g \in Handlers, handler'[g] # Idle
        PROVE  LET nonce == handler'[g].req.nonce
               IN  /\ nonce \in issued'
                   /\ \A k \in Handlers :
                         k # g /\ handler'[k] # Idle => handler'[k].req.nonce # nonce
                   /\ \A q \in refused' : q.nonce # nonce
                   /\ handler'[g].pc # "committed" =>
                         \A q \in db'.applied : q.nonce # nonce
                   /\ handler'[g].pc \notin {"memory", "committed"} =>
                         \A q \in mem'.applied : q.nonce # nonce
    <2>1. CASE g = h
      BY <1>1, <1>2, <1>3, <1>p, <2>1 DEF Applied
    <2>2. CASE g # h
      BY <1>1, <1>2, <1>3, <1>5, <1>p, <2>2 DEF RunInv
    <2>. QED
      BY <2>1, <2>2
  <1>6. \A q \in refused' : q.nonce \in issued' /\ ~Spent(q.nonce, Mutations')
    BY <1>1, <1>2, <1>3, <1>p DEF RunInv, Spent, Mutations
  <1>7. \A q \in Mutations' : q.nonce \in issued' \cup {SeedNonce}
    <2>1. \A q \in Mutations' : q \in Mutations \/ q = req
      BY <1>3 DEF Mutations
    <2>. QED
      BY <1>1, <1>p, <2>1 DEF RunInv
  <1>. QED
    BY <1>4, <1>5, <1>6, <1>7 DEF RunInv

\* Seeding is offline, so no submission is in flight, and under a key of its own.
LEMMA SeedShape ==
    ASSUME ServerInv, ClientInv, NEW entry \in SeedFile, SeedEntry(entry), Told
    PROVE  /\ \A h \in Handlers : handler[h] = Idle /\ handler'[h] = Idle
           /\ clientVars' = clientVars
           /\ issued' = issued /\ accepted' = accepted /\ mem' = mem /\ content' = content
  <1>1. \A h \in Handlers : handler[h] = Idle /\ handler'[h] = Idle
    BY DEF SeedEntry, RootSeed, ServerInv, BaseInv, NoOrphans
  <1>2. Ended = {}
    BY <1>1 DEF Ended
  <1>3. clientVars' = clientVars
    BY <1>2, ToldEffect DEF clientVars, ClientInv
  <1>. QED
    BY <1>1, <1>3 DEF SeedEntry

LEMMA RunSeed ==
    ASSUME ServerInv, ClientInv, RunInv, Told, NEW entry \in SeedFile, SeedEntry(entry)
    PROVE  RunInv'
  <1>1. /\ \A h \in Handlers : handler[h] = Idle /\ handler'[h] = Idle
        /\ client' = client /\ refused' = refused /\ issued' = issued /\ mem' = mem
    BY SeedShape DEF clientVars
  <1>2. \A q \in Mutations' : q \in Mutations \/ q.nonce = SeedNonce
    BY <1>1, SeedEffect DEF ServerInv, Mutations
  <1>3. SeedNonce \notin issued
    BY KeyAssumption DEF ServerInv, BaseInv, TypeOK
  <1>4. \A c \in Clients : Unsent(c)' = Unsent(c) /\ client'[c] = client[c]
    BY <1>1 DEF Unsent
  <1>5. ASSUME NEW c \in Clients, Unsent(c)'
        PROVE  LET nonce == client'[c].nonce
               IN  /\ nonce \in issued' /\ ~Spent(nonce, Mutations')
                   /\ \A h \in Handlers : handler'[h] # Idle => handler'[h].req.nonce # nonce
                   /\ \A q \in refused' : q.nonce # nonce
                   /\ \A d \in Clients : d # c /\ Unsent(d)' => client'[d].nonce # nonce
    BY <1>1, <1>2, <1>3, <1>4, <1>5 DEF RunInv, Spent
  <1>6. \A q \in refused' : q.nonce \in issued' /\ ~Spent(q.nonce, Mutations')
    BY <1>1, <1>2, <1>3 DEF RunInv, Spent
  <1>7. \A q \in Mutations' : q.nonce \in issued' \cup {SeedNonce}
    BY <1>1, <1>2 DEF RunInv
  <1>. QED
    BY <1>1, <1>5, <1>6, <1>7 DEF RunInv

\* A new challenge is nobody's.
LEMMA RunFetch ==
    ASSUME ServerInv, ClientInv, RunInv, NEW c \in Clients, FetchNonce(c)
    PROVE  RunInv' /\ ClientInv'
  <1>t. client \in [Clients -> ClientState] /\ SeedNonce \notin Nonces
    BY KeyAssumption DEF ClientInv
  <1>1. PICK n \in Nonces : /\ IssueNonce(n)
                            /\ \/ client' = [client EXCEPT ![c].step = "nonce", ![c].nonce = n]
                               \/ client' = client
    BY DEF FetchNonce
  <1>2. /\ n \notin issued /\ issued' = issued \cup {n}
        /\ handler' = handler /\ mem' = mem /\ db' = db
        /\ refused' = refused
    BY <1>1 DEF IssueNonce, FetchNonce
  <1>. DEFINE x == [client[c] EXCEPT !.step = "nonce", !.nonce = n]
  <1>3. client[c] = NotRunning
    BY <1>t DEF FetchNonce, ClientState
  <1>4. x \in ClientState /\ x.step = "nonce" /\ x.nonce = n
    <2>1. NotRunning \in [step : {"start"}, nonce : {None}, version : {0}, handler : {None}]
      BY DEF NotRunning
    <2>2. /\ x \in [step : {"nonce"}, nonce : Nonces, version : {0}, handler : {None}]
          /\ x.step = "nonce" /\ x.nonce = n
      BY <1>3, <2>1
    <2>. HIDE DEF x
    <2>. QED
      BY <2>2 DEF ClientState
  <1>5. client' = [client EXCEPT ![c] = x] \/ client' = client
    BY <1>1, <1>t
  <1>. HIDE DEF x
  <1>6. /\ client' \in [Clients -> ClientState]
        /\ \A d \in Clients : d # c => client'[d] = client[d]
        /\ client'[c] \in {x, NotRunning}
    BY <1>3, <1>4, <1>5, <1>t
  <1>7. ClientInv'
    BY <1>2, <1>6 DEF ClientInv
  <1>8. Mutations' = Mutations
    BY <1>2 DEF Mutations
  <1>9. \A d \in Clients : Unsent(d)' =>
            \/ d = c /\ client'[d].nonce = n
            \/ d # c /\ Unsent(d) /\ client'[d] = client[d]
    <2>1. \A d \in Clients : Unsent(d)' <=> client'[d].step \in {"nonce", "version"}
      BY DEF Unsent
    <2>2. \A d \in Clients : Unsent(d) <=> client[d].step \in {"nonce", "version"}
      BY DEF Unsent
    <2>3. NotRunning.step = "start"
      BY DEF NotRunning
    <2>. QED
      BY <1>4, <1>6, <2>1, <2>2, <2>3
  <1>10. /\ \A q \in Mutations : q.nonce # n
         /\ \A h \in Handlers : handler[h] # Idle => handler[h].req.nonce # n
         /\ \A q \in refused : q.nonce # n
         /\ \A d \in Clients : Unsent(d) => client[d].nonce # n
    BY <1>2, <1>t DEF RunInv
  <1>11. ASSUME NEW d \in Clients, Unsent(d)'
         PROVE  LET nonce == client'[d].nonce
                IN  /\ nonce \in issued' /\ ~Spent(nonce, Mutations')
                    /\ \A h \in Handlers : handler'[h] # Idle => handler'[h].req.nonce # nonce
                    /\ \A q \in refused' : q.nonce # nonce
                    /\ \A e \in Clients : e # d /\ Unsent(e)' => client'[e].nonce # nonce
    BY <1>2, <1>8, <1>9, <1>10, <1>11 DEF RunInv, Spent
  <1>12. \A q \in refused' : q.nonce \in issued' /\ ~Spent(q.nonce, Mutations')
    BY <1>2, <1>8 DEF RunInv
  <1>13. \A q \in Mutations' : q.nonce \in issued' \cup {SeedNonce}
    BY <1>2, <1>8 DEF RunInv
  <1>14. \A h \in Handlers : handler'[h] # Idle =>
            LET nonce == handler'[h].req.nonce
            IN  /\ nonce \in issued'
                /\ \A g \in Handlers :
                      g # h /\ handler'[g] # Idle => handler'[g].req.nonce # nonce
                /\ \A q \in refused' : q.nonce # nonce
                /\ handler'[h].pc # "committed" =>
                      \A q \in db'.applied : q.nonce # nonce
                /\ handler'[h].pc \notin {"memory", "committed"} =>
                      \A q \in mem'.applied : q.nonce # nonce
    BY <1>2 DEF RunInv
  <1>15. RunInv'
    BY <1>11, <1>12, <1>13, <1>14 DEF RunInv
  <1>. QED
    BY <1>7, <1>15

\* What a submission adds.
LEMMA SubmitShape ==
    ASSUME ServerInv, ClientInv, NEW c \in Clients, Submit(c)
    PROVE  \E h \in Handlers :
              /\ handler[h] = Idle /\ handler'[h].pc = "wait"
              /\ \A g \in Handlers : g # h => handler'[g] = handler[g]
              /\ client' \in [Clients -> ClientState]
              /\ client[c].step = "version" /\ client'[c].step = "sent"
              /\ \A d \in Clients : d # c => client'[d] = client[d]
              /\ LET req == handler'[h].req
                 IN  /\ req.nonce = client[c].nonce /\ req.version = client[c].version
                     /\ req.action.kind = "publish_site" /\ req.action.name = Domain
                     /\ req.action.manifest.domain = Domain
              /\ UNCHANGED << mem, db, issued, content, accepted, confirmed, refused >>
  <1>t. TypeOK /\ client \in [Clients -> ClientState]
    BY DEF ServerInv, BaseInv, ClientInv
  <1>1. PICK h \in Handlers, m \in Packages :
            /\ m \in {Built(c)} \cup Packaged(c)
            /\ Receive(h, Signed(c, m), m)
            /\ client' = [client EXCEPT ![c].step = "sent", ![c].handler = h]
    BY DEF Submit
  <1>2. m.domain = Domain
    BY <1>1, PublisherAssumption DEF Built, Packaged, PackageDir
  <1>. DEFINE req == Signed(c, m)
              x == [pc |-> "wait", req |-> req, now |-> clock, package |-> m]
              y == [client[c] EXCEPT !.step = "sent", !.handler = h]
  <1>3. /\ req.nonce = client[c].nonce /\ req.version = client[c].version
        /\ req.action.kind = "publish_site" /\ req.action.name = Domain
        /\ req.action.manifest = m
    BY DEF Signed
  <1>. HIDE DEF req
  <1>4. handler' = [handler EXCEPT ![h] = x] /\ handler[h] = Idle
    BY <1>1 DEF Receive, req
  <1>5. x.pc = "wait" /\ x.req = req
    OBVIOUS
  <1>6. client[c] \in [step : {"version"}, nonce : Nonces, version : Nat, handler : {None}]
    BY <1>t DEF Submit, ClientState, NotRunning
  <1>7. y \in ClientState /\ y.step = "sent"
    BY <1>6 DEF ClientState
  <1>8. client' = [client EXCEPT ![c] = y]
    BY <1>1, <1>t
  <1>. HIDE DEF x, y
  <1>9. handler'[h] = x /\ \A g \in Handlers : g # h => handler'[g] = handler[g]
    BY <1>4, <1>t DEF TypeOK
  <1>10. /\ client' \in [Clients -> ClientState] /\ client'[c] = y
         /\ \A d \in Clients : d # c => client'[d] = client[d]
    BY <1>7, <1>8, <1>t
  <1>11. UNCHANGED << mem, db, issued, content, accepted, confirmed, refused >>
    BY <1>1 DEF Receive, Submit
  <1>. QED
    BY <1>2, <1>3, <1>4, <1>5, <1>6, <1>7, <1>9, <1>10, <1>11

LEMMA RunSubmit ==
    ASSUME ServerInv, ClientInv, RunInv, NEW c \in Clients, Submit(c)
    PROVE  RunInv'
  <1>1. PICK h \in Handlers :
            /\ handler[h] = Idle /\ handler'[h].pc = "wait"
            /\ \A g \in Handlers : g # h => handler'[g] = handler[g]
            /\ client[c].step = "version" /\ client'[c].step = "sent"
            /\ \A d \in Clients : d # c => client'[d] = client[d]
            /\ handler'[h].req.nonce = client[c].nonce
            /\ UNCHANGED << mem, db, issued, refused >>
    BY SubmitShape
  <1>. DEFINE new == client[c].nonce
  <1>2. /\ new \in issued /\ ~Spent(new, Mutations)
        /\ \A g \in Handlers : handler[g] # Idle => handler[g].req.nonce # new
        /\ \A q \in refused : q.nonce # new
        /\ \A d \in Clients : d # c /\ Unsent(d) => client[d].nonce # new
    BY <1>1 DEF RunInv, Unsent
  <1>. HIDE DEF new
  <1>3. Mutations' = Mutations
    BY <1>1 DEF Mutations
  <1>4. \A d \in Clients : Unsent(d)' => d # c /\ Unsent(d) /\ client'[d] = client[d]
    <2>1. \A d \in Clients : Unsent(d)' <=> client'[d].step \in {"nonce", "version"}
      BY DEF Unsent
    <2>. QED
      BY <1>1, <2>1 DEF Unsent
  <1>5. /\ handler'[h].req.nonce = new /\ mem' = mem /\ db' = db /\ issued' = issued
        /\ refused' = refused
    BY <1>1 DEF new
  <1>6. ASSUME NEW d \in Clients, Unsent(d)'
        PROVE  LET nonce == client'[d].nonce
               IN  /\ nonce \in issued' /\ ~Spent(nonce, Mutations')
                   /\ \A g \in Handlers : handler'[g] # Idle => handler'[g].req.nonce # nonce
                   /\ \A q \in refused' : q.nonce # nonce
                   /\ \A e \in Clients : e # d /\ Unsent(e)' => client'[e].nonce # nonce
    <2>1. d # c /\ Unsent(d) /\ client'[d] = client[d]
      BY <1>4, <1>6
    <2>2. \A g \in Handlers : handler'[g] # Idle => handler'[g].req.nonce # client[d].nonce
      BY <1>1, <1>2, <1>5, <2>1 DEF RunInv
    <2>3. \A e \in Clients : e # d /\ Unsent(e)' => client'[e].nonce # client[d].nonce
      BY <1>4, <2>1 DEF RunInv
    <2>. QED
      BY <1>3, <1>5, <2>1, <2>2, <2>3 DEF RunInv
  <1>7. ASSUME NEW g \in Handlers, handler'[g] # Idle
        PROVE  LET nonce == handler'[g].req.nonce
               IN  /\ nonce \in issued'
                   /\ \A k \in Handlers :
                         k # g /\ handler'[k] # Idle => handler'[k].req.nonce # nonce
                   /\ \A q \in refused' : q.nonce # nonce
                   /\ handler'[g].pc # "committed" =>
                         \A q \in db'.applied : q.nonce # nonce
                   /\ handler'[g].pc \notin {"memory", "committed"} =>
                         \A q \in mem'.applied : q.nonce # nonce
    <2>1. CASE g = h
      BY <1>1, <1>2, <1>5, <2>1 DEF Spent, Mutations
    <2>2. CASE g # h
      BY <1>1, <1>2, <1>5, <1>7, <2>2 DEF RunInv
    <2>. QED
      BY <2>1, <2>2
  <1>8. \A q \in refused' : q.nonce \in issued' /\ ~Spent(q.nonce, Mutations')
    BY <1>3, <1>5 DEF RunInv
  <1>9. \A q \in Mutations' : q.nonce \in issued' \cup {SeedNonce}
    BY <1>3, <1>5 DEF RunInv
  <1>. QED
    BY <1>6, <1>7, <1>8, <1>9 DEF RunInv

LEMMA RunStep ==
    ASSUME ServerInv, ClientInv, RunInv, [NextPublish]_publishVars
    PROVE  RunInv'
  BY StepShapes, RunQuiet, RunApply, RunSeed, RunFetch, RunSubmit

LEMMA ClientStep ==
    ASSUME ServerInv, ClientInv, RunInv, [NextPublish]_publishVars
    PROVE  ClientInv'
  <1>1. ASSUME client' \in [Clients -> ClientState],
               \A h \in Handlers : handler'[h] # Idle =>
                  handler[h] # Idle /\ handler'[h].req = handler[h].req
        PROVE  ClientInv'
    BY <1>1 DEF ClientInv
  <1>2. CASE Quiet
    BY <1>1, <1>2 DEF Quiet
  <1>3. ASSUME NEW h \in Handlers, ApplyInMemory(h) \/ Commit(h), Told
        PROVE  ClientInv'
    <2>1. client' = client
      BY <1>3, ApplyShape DEF clientVars
    <2>. QED
      BY <1>1, <1>3, <2>1, ApplyShape DEF ClientInv
  <1>4. ASSUME NEW entry \in SeedFile, SeedEntry(entry), Told
        PROVE  ClientInv'
    <2>1. client' = client
      BY <1>4, SeedShape DEF clientVars
    <2>. QED
      BY <1>1, <1>4, <2>1, SeedShape DEF ClientInv
  <1>5. ASSUME NEW c \in Clients, Submit(c)
        PROVE  ClientInv'
    <2>1. PICK h \in Handlers :
              /\ \A g \in Handlers : g # h => handler'[g] = handler[g]
              /\ client' \in [Clients -> ClientState]
              /\ handler'[h].req.action.kind = "publish_site"
              /\ handler'[h].req.action.name = Domain
              /\ handler'[h].req.action.manifest.domain = Domain
      BY <1>5, SubmitShape
    <2>. QED
      BY <2>1 DEF ClientInv
  <1>. QED
    BY <1>2, <1>3, <1>4, <1>5, StepShapes, RunFetch

-----------------------------------------------------------------------------
(* The record is what the latest publication named.                        *)

\* An accepted publication becomes the record and the highest version.
LEMMA NamedPublish ==
    ASSUME NEW s \in Store, NEW req \in MutationRequest, NEW now \in Nat, NEW t,
           req.action.kind = "publish_site", req.action.name = Domain,
           req.action.manifest.domain = Domain,
           Accepts(s, req, now, t), Named(s, content)
    PROVE  Named(Apply(s, req, now), content)
  <1>. DEFINE y == Apply(s, req, now)
              new == [owner |-> req.actor, manifest |-> req.action.manifest,
                      status |-> "active",
                      expires_at |-> IF s.zone.domains[Domain] = None THEN NoExpiry
                                     ELSE s.zone.domains[Domain].expires_at,
                      signer |-> OfficialOperator]
  <1>k. Publishing(req) /\ target_key(req.action) = DomainKey
    BY DEF Publishing, target_key, DomainKey
  <1>1. PublishAllowed(s.zone, content, req, t)
    BY DEF Accepts, ActionAllowed
  <1>2. Parse[Domain] = Domain /\ req.action.manifest \in content
    BY <1>1 DEF PublishAllowed
  <1>3. s.zone \in Zone /\ s.zone.domains \in [DomainNames -> DomainRecord \cup {None}]
    BY DEF Store, Zone
  <1>4. PublishEffect(s.zone, req) = [s.zone EXCEPT !.domains[Domain] = new]
    BY <1>2 DEF PublishEffect
  <1>5. ActionEffect(s.zone, req) = PublishEffect(s.zone, req)
    BY DEF ActionEffect
  <1>6. y.zone.domains = ActionEffect(s.zone, req).domains
    <2>1. ActionEffect(s.zone, req) \in Zone
      BY <1>3, ActionEffectIsZone DEF Accepts
    <2>2. y.zone = SignedZone(s.zone, req, now)
      BY ApplyIsStore
    <2>. QED
      BY <2>1, <2>2 DEF SignedZone, Zone
  <1>7. new.manifest = req.action.manifest
    OBVIOUS
  <1>8. y.zone.domains[Domain] = new
    <2>. HIDE DEF new
    <2>. QED
      BY <1>3, <1>4, <1>5, <1>6, DomainKeyIsDomain DEF Zone
  <1>9. new # None
    <2>1. req.actor \in Keys /\ req.action.manifest \in Manifest
      BY ActionFields DEF MutationRequest
    <2>2. new.expires_at \in Expiry
      BY <1>3, DomainKeyIsDomain DEF DomainRecord, Expiry
    <2>3. /\ new.owner = req.actor /\ new.status = "active" /\ new.signer = OfficialOperator
          /\ new = [owner |-> new.owner, manifest |-> new.manifest, status |-> new.status,
                    expires_at |-> new.expires_at, signer |-> new.signer]
      OBVIOUS
    <2>. HIDE DEF new
    <2>4. new \in DomainRecord
      BY <1>7, <2>1, <2>2, <2>3, KeyAssumption DEF DomainRecord, DomainStatus
    <2>. QED
      BY <2>4, AbsenceAssumption
  <1>10. /\ y.applied = s.applied \cup {req}
         /\ y.versions[DomainKey] = req.version
         /\ s.versions[DomainKey] < req.version
         /\ s.versions[DomainKey] \in Nat /\ req.version \in Nat
         /\ \A q \in s.applied : q.version \in Nat
    <2>1. s.versions \in [TldNames \cup DomainNames -> Nat] /\ req.version \in Nat
          /\ \A q \in s.applied : q.version \in Nat
      BY DEF Store, MutationRequest
    <2>2. /\ y.applied = s.applied \cup {req}
          /\ y.versions = [s.versions EXCEPT ![DomainKey] = req.version]
      BY <1>k DEF Apply, Record
    <2>. QED
      BY <1>k, <2>1, <2>2, DomainKeyIsDomain DEF Accepts
  <1>. HIDE DEF y, new
  <1>11. ASSUME NEW q \in y.applied, Publishing(q)
         PROVE  /\ q.version <= y.versions[DomainKey]
                /\ q.version = y.versions[DomainKey] =>
                      new # None /\ new.manifest = q.action.manifest
                /\ \E last \in y.applied :
                      Publishing(last) /\ last.version = y.versions[DomainKey]
    <2>1. CASE q = req
      BY <1>k, <1>7, <1>9, <1>10, <2>1
    <2>2. CASE q \in s.applied
      <3>1. q.version <= s.versions[DomainKey]
        BY <1>11, <2>2 DEF Named
      <3>. QED
        BY <1>k, <1>10, <2>2, <3>1
    <2>. QED
      BY <1>10, <2>1, <2>2
  <1>. QED
    BY <1>2, <1>7, <1>8, <1>11 DEF Named, y

\* A store in which the domain has not changed.
LEMMA NamedKept ==
    ASSUME NEW s, NEW y, NEW docs, NEW more, docs \subseteq more, Named(s, docs),
           y.zone.domains[Domain] = s.zone.domains[Domain],
           y.versions[DomainKey] = s.versions[DomainKey],
           s.applied \subseteq y.applied,
           \A q \in y.applied : Publishing(q) => q \in s.applied
    PROVE  Named(y, more)
  BY DEF Named

LEMMA RecordStep ==
    ASSUME ServerInv, ClientInv, RecordInv, [NextPublish]_publishVars
    PROVE  RecordInv'
  <1>t. TypeOK /\ mem \in Store /\ db \in Store
    BY DEF ServerInv, BaseInv, TypeOK
  <1>n. Named(db, content) /\ Named(mem, content)
    BY DEF RecordInv
  <1>1. CASE Quiet
    <2>1. \A docs : Named(EmptyStore, docs)
      BY DomainKeyIsDomain DEF Named, EmptyStore, EmptyZone
    <2>2. Named(db', content') /\ Named(mem', content')
      BY <1>1, <1>n, <2>1, NamedKept DEF Quiet
    <2>3. /\ confirmed' \subseteq accepted'
          /\ \A req \in confirmed' : Publishing(req)
      BY <1>1 DEF Quiet, RecordInv
    <2>. QED
      BY <2>2, <2>3 DEF RecordInv
  <1>2. ASSUME NEW c \in Clients, FetchNonce(c)
        PROVE  RecordInv'
    BY <1>2 DEF FetchNonce, IssueNonce, RecordInv
  <1>3. ASSUME NEW c \in Clients, Submit(c)
        PROVE  RecordInv'
    <2>1. UNCHANGED << mem, db, content, accepted, confirmed >>
      BY <1>3, SubmitShape
    <2>. QED
      BY <2>1 DEF RecordInv
  <1>4. ASSUME NEW h \in Handlers, ApplyInMemory(h), Told
        PROVE  RecordInv'
    <2>. DEFINE req == handler[h].req
    <2>1. confirmed' = confirmed /\ accepted' = accepted
      BY <1>4, ApplyShape DEF clientVars
    <2>2. /\ req \in MutationRequest /\ handler[h].now \in Nat
          /\ handler[h] # Idle
      <3>1. handler[h].pc # "idle"
        BY <1>4 DEF ApplyInMemory, ReadyToApply
      <3>. QED
        BY <1>t, <3>1, HandlerFields DEF Idle
    <2>3. /\ req.action.kind = "publish_site" /\ req.action.name = Domain
          /\ req.action.manifest.domain = Domain
      BY <2>2 DEF ClientInv
    <2>4. /\ Accepts(mem, req, handler[h].now, clock)
          /\ mem' = Apply(mem, req, handler[h].now) /\ db' = db /\ content' = content
      BY <1>4, <2>3 DEF ApplyInMemory
    <2>. HIDE DEF req
    <2>5. Named(mem', content')
      BY <1>n, <1>t, <2>2, <2>3, <2>4, NamedPublish
    <2>. QED
      BY <2>1, <2>4, <2>5 DEF RecordInv
  <1>5. ASSUME NEW h \in Handlers, Commit(h), Told
        PROVE  RecordInv'
    <2>1. db' = mem /\ mem' = mem /\ content' = content
      BY <1>5 DEF Commit, ServerInv, SyncInv
    <2>2. confirmed' = confirmed /\ accepted' = accepted
      BY <1>5, ApplyShape DEF clientVars
    <2>. QED
      BY <2>1, <2>2 DEF RecordInv
  <1>6. ASSUME NEW entry \in SeedFile, SeedEntry(entry), Told
        PROVE  RecordInv'
    <2>. DEFINE req == SeedRequest(entry)
    <2>1. confirmed' = confirmed /\ accepted' = accepted /\ mem' = mem /\ content' = content
      BY <1>6, SeedShape DEF clientVars
    <2>2. /\ req \in MutationRequest /\ db'.zone = SignedZone(db.zone, req, clock)
          /\ db'.versions = [db.versions EXCEPT ![target_key(req.action)] = req.version]
          /\ db'.applied = db.applied \cup {req}
      BY <1>6, SeedEffect DEF ServerInv
    <2>3. ~Publishing(req) /\ Domain \in DomainNames /\ DomainKey \in TldNames \cup DomainNames
      BY DomainKeyIsDomain
    <2>4. db.zone \in Zone /\ db.versions \in [TldNames \cup DomainNames -> Nat]
      BY <1>t DEF Store
    <2>5. ActionEffect(db.zone, req) \in Zone
      BY <1>6, <2>2, <2>4, ActionEffectIsZone DEF SeedEntry, Accepts
    <2>6. ActionEffect(db.zone, req).domains = db.zone.domains
      <3>1. req.action.kind \in {"create_tld", "reserve_tld", "block_tld"}
        BY RequestAssumption DEF SeedRequest
      <3>. HIDE DEF req
      <3>2. ActionEffect(db.zone, req) \in {CreateTldEffect(db.zone, req),
                                            RestrictTldEffect(db.zone, req)}
        BY <3>1 DEF ActionEffect
      <3>. QED
        BY <2>4, <3>2 DEF CreateTldEffect, RestrictTldEffect, Zone
    <2>. HIDE DEF req
    <2>7. db'.zone.domains = db.zone.domains
      BY <2>2, <2>5, <2>6 DEF SignedZone, Zone
    <2>8. db'.versions[DomainKey] = db.versions[DomainKey]
      BY <2>2, <2>3, <2>4 DEF Publishing
    <2>9. /\ db.applied \subseteq db'.applied
          /\ \A q \in db'.applied : Publishing(q) => q \in db.applied
          /\ db'.zone.domains[Domain] = db.zone.domains[Domain]
          /\ content \subseteq content'
      BY <2>1, <2>2, <2>3, <2>7
    <2>10. Named(db', content')
      BY <1>n, <2>8, <2>9, NamedKept
    <2>. QED
      BY <2>1, <2>10, <1>n DEF RecordInv
  <1>. QED
    BY <1>1, <1>2, <1>3, <1>4, <1>5, <1>6, StepShapes

-----------------------------------------------------------------------------
(* Versions count publications.                                            *)

LEMMA PublicationsAppend ==
    ASSUME NEW log \in Seq(AuditRecord), NEW event \in AuditRecord
    PROVE  LET new == Append(log, event)
               upto(l, i) == { j \in 1 .. i : Publishing(l[j].req) }
           IN  /\ Cardinality(Publications(log)) \in Nat
               /\ Publishing(event.req) => Cardinality(Publications(new)) =
                                              Cardinality(Publications(log)) + 1
               /\ ~Publishing(event.req) => Publications(new) = Publications(log)
               /\ upto(new, Len(log) + 1) = Publications(new)
               /\ \A i \in DOMAIN log : upto(new, i) = upto(log, i)
  <1>. DEFINE n == Len(log)
              new == Append(log, event)
  <1>1. /\ n \in Nat /\ DOMAIN log = 1 .. n /\ DOMAIN new = 1 .. n + 1
        /\ \A i \in 1 .. n : new[i] = log[i]
        /\ new[n + 1] = event
    BY AppendEvent
  <1>. HIDE DEF n, new
  <1>2. IsFiniteSet(Publications(log)) /\ n + 1 \notin Publications(log)
    <2>1. IsFiniteSet(1 .. n)
      BY <1>1, FS_Interval
    <2>2. Publications(log) \subseteq 1 .. n
      BY <1>1 DEF Publications
    <2>. QED
      BY <1>1, <2>1, <2>2, FS_Subset
  <1>3. Publishing(event.req) => Publications(new) = Publications(log) \cup {n + 1}
    BY <1>1 DEF Publications
  <1>4. ~Publishing(event.req) => Publications(new) = Publications(log)
    BY <1>1 DEF Publications
  <1>5. /\ Cardinality(Publications(log)) \in Nat
        /\ Cardinality(Publications(log) \cup {n + 1}) = Cardinality(Publications(log)) + 1
    BY <1>2, FS_CardinalityType, FS_AddElement
  <1>6. { j \in 1 .. n + 1 : Publishing(new[j].req) } = Publications(new)
    BY <1>1 DEF Publications
  <1>7. \A i \in DOMAIN log : { j \in 1 .. i : Publishing(new[j].req) }
                               = { j \in 1 .. i : Publishing(log[j].req) }
    BY <1>1
  <1>. QED
    BY <1>3, <1>4, <1>5, <1>6, <1>7 DEF n, new

LEMMA CountStep ==
    ASSUME ServerInv, ClientInv, CountInv, [NextPublish]_publishVars
    PROVE  CountInv'
  <1>. DEFINE known == db.versions[DomainKey]
  <1>t. /\ TypeOK /\ db \in Store /\ client \in [Clients -> ClientState]
        /\ db.audit \in Seq(AuditRecord) /\ known \in Nat
        /\ db.versions \in [TldNames \cup DomainNames -> Nat]
    BY StoreNumbers, DomainKeyIsDomain DEF ServerInv, BaseInv, TypeOK, ClientInv
  <1>v. /\ \A c \in Clients : client[c].step = "version" => client[c].version \in Nat
        /\ \A h \in Handlers : handler[h] # Idle => handler[h].req.version \in Nat
    BY <1>t, HandlerFields DEF ClientState, NotRunning, MutationRequest
  <1>a. /\ \A c \in Clients : client[c].step = "version" => client[c].version <= known + 1
        /\ \A h \in Handlers : handler[h] # Idle => handler[h].req.version <= known + 1
    BY DEF CountInv
  <1>0. ASSUME db' = db,
               \A c \in Clients : client'[c].step = "version" => client'[c].version <= known + 1,
               \A h \in Handlers : handler'[h] # Idle => handler'[h].req.version <= known + 1
        PROVE  CountInv'
    BY <1>0 DEF CountInv, NoBlindOverwrite
  <1>1. CASE Quiet
    <2>1. \A c \in Clients : client'[c].step = "version" => client'[c].version <= known + 1
      BY <1>1, <1>a, <1>t DEF Quiet, NotRunning
    <2>2. \A h \in Handlers : handler'[h] # Idle => handler'[h].req.version <= known + 1
      BY <1>1, <1>a DEF Quiet
    <2>. QED
      BY <1>0, <1>1, <2>1, <2>2 DEF Quiet
  <1>2. ASSUME NEW c \in Clients, FetchNonce(c)
        PROVE  CountInv'
    <2>1. db' = db /\ handler' = handler
      BY <1>2 DEF FetchNonce, IssueNonce
    <2>2. \A d \in Clients : client'[d].step = "version" => client'[d] = client[d]
      BY <1>2, <1>t DEF FetchNonce, ClientState, NotRunning
    <2>. QED
      BY <1>0, <1>a, <2>1, <2>2
  <1>3. ASSUME NEW c \in Clients, Submit(c)
        PROVE  CountInv'
    <2>1. PICK h \in Handlers :
              /\ \A g \in Handlers : g # h => handler'[g] = handler[g]
              /\ client[c].step = "version" /\ client'[c].step = "sent"
              /\ \A d \in Clients : d # c => client'[d] = client[d]
              /\ handler'[h].req.version = client[c].version
              /\ db' = db
      BY <1>3, SubmitShape
    <2>2. \A d \in Clients : client'[d].step = "version" => client'[d].version <= known + 1
      BY <1>a, <2>1
    <2>3. \A g \in Handlers : handler'[g] # Idle => handler'[g].req.version <= known + 1
      BY <1>a, <2>1
    <2>. QED
      BY <1>0, <2>1, <2>2, <2>3
  <1>4. ASSUME NEW h \in Handlers, ApplyInMemory(h), Told
        PROVE  CountInv'
    <2>1. client' = client /\ db' = db
      BY <1>4, ApplyShape DEF clientVars, ApplyInMemory
    <2>2. \A g \in Handlers : handler'[g] # Idle =>
              handler[g] # Idle /\ handler'[g].req = handler[g].req
      BY <1>4, ApplyShape
    <2>. QED
      BY <1>0, <1>a, <2>1, <2>2
  <1>. DEFINE last == Len(db.audit) + 1
  <1>5. ASSUME NEW event \in AuditRecord, db'.audit = Append(db.audit, event),
               db'.versions[DomainKey] = IF Publishing(event.req) THEN known + 1 ELSE known,
               Publishing(event.req) => event.req.version = known + 1,
               client' = client,
               \A h \in Handlers : handler'[h] # Idle =>
                  handler[h] # Idle /\ handler'[h].req = handler[h].req
        PROVE  CountInv'
    <2>. DEFINE upto(l, i) == { j \in 1 .. i : Publishing(l[j].req) }
    <2>1. /\ DOMAIN db'.audit = DOMAIN db.audit \cup {last}
          /\ \A i \in DOMAIN db.audit : db'.audit[i] = db.audit[i]
          /\ db'.audit[last] = event
      BY <1>t, <1>5, AppendEvent
    <2>2. /\ Publishing(event.req) => Cardinality(Publications(db'.audit)) =
                                          Cardinality(Publications(db.audit)) + 1
          /\ ~Publishing(event.req) => Publications(db'.audit) = Publications(db.audit)
          /\ upto(db'.audit, last) = Publications(db'.audit)
          /\ \A i \in DOMAIN db.audit : upto(db'.audit, i) = upto(db.audit, i)
      BY <1>t, <1>5, PublicationsAppend
    <2>3. known = Cardinality(Publications(db.audit))
      BY DEF CountInv
    <2>4. \A i \in DOMAIN db.audit : Publishing(db.audit[i].req) =>
              db.audit[i].req.version = Cardinality(upto(db.audit, i))
      BY DEF CountInv, NoBlindOverwrite, Publishing, DomainKey
    <2>5. db'.versions[DomainKey] = Cardinality(Publications(db'.audit))
      BY <1>5, <2>2, <2>3
    <2>6. ASSUME NEW i \in DOMAIN db'.audit, Publishing(db'.audit[i].req)
          PROVE  db'.audit[i].req.version = Cardinality(upto(db'.audit, i))
      <3>1. CASE i = last
        BY <1>5, <2>1, <2>2, <2>3, <2>6, <3>1
      <3>2. CASE i \in DOMAIN db.audit
        BY <2>1, <2>2, <2>4, <2>6, <3>2
      <3>. QED
        BY <2>1, <3>1, <3>2
    <2>7. NoBlindOverwrite'
      BY <2>6 DEF NoBlindOverwrite, Publishing, DomainKey
    <2>8. known <= db'.versions[DomainKey] /\ db'.versions[DomainKey] \in Nat
      BY <1>t, <1>5
    <2>9. /\ \A c \in Clients : client'[c].step = "version" =>
                client'[c].version <= db'.versions[DomainKey] + 1
          /\ \A h \in Handlers : handler'[h] # Idle =>
                handler'[h].req.version <= db'.versions[DomainKey] + 1
      BY <1>a, <1>t, <1>v, <1>5, <2>8
    <2>. QED
      BY <2>5, <2>7, <2>9 DEF CountInv
  <1>6. ASSUME NEW h \in Handlers, Commit(h), Told
        PROVE  CountInv'
    <2>. DEFINE req == handler[h].req
                event == mem.audit[Len(mem.audit)]
    <2>1. /\ event \in AuditRecord /\ event.req = req
          /\ db'.versions = [db.versions EXCEPT ![target_key(req.action)] = req.version]
          /\ db'.audit = Append(db.audit, event)
      BY <1>6, CommitEffect DEF ServerInv
    <2>2. /\ handler[h] # Idle /\ client' = client
          /\ \A g \in Handlers : handler'[g] # Idle =>
                handler[g] # Idle /\ handler'[g].req = handler[g].req
      BY <1>6, ApplyShape DEF clientVars
    <2>3. Publishing(req) /\ target_key(req.action) = DomainKey
      BY <2>2 DEF ClientInv, Publishing, target_key, DomainKey
    <2>4. known < req.version
      BY <1>6, <2>3 DEF ServerInv, AdvanceInv, VersionInv, Commit
    <2>. HIDE DEF req, event
    <2>5. req.version = known + 1
      BY <1>a, <1>t, <1>v, <2>2, <2>4 DEF req
    <2>6. db'.versions[DomainKey] = known + 1
      BY <1>t, <2>1, <2>3, <2>5, DomainKeyIsDomain
    <2>. QED
      BY <1>5, <2>1, <2>2, <2>3, <2>5, <2>6
  <1>7. ASSUME NEW entry \in SeedFile, SeedEntry(entry), Told
        PROVE  CountInv'
    <2>. DEFINE req == SeedRequest(entry)
    <2>1. PICK event \in AuditRecord :
              event.req = req /\ db'.audit = Append(db.audit, event)
      BY <1>7, SeedEffect DEF ServerInv
    <2>2. db'.versions = [db.versions EXCEPT ![target_key(req.action)] = req.version]
      BY <1>7, SeedEffect DEF ServerInv
    <2>3. ~Publishing(req)
      BY DomainKeyIsDomain
    <2>. HIDE DEF req
    <2>4. db'.versions[DomainKey] = known
      BY <1>t, <2>2, <2>3, DomainKeyIsDomain DEF Publishing
    <2>5. client' = client /\ \A h \in Handlers : handler'[h] = Idle
      BY <1>7, SeedShape DEF clientVars
    <2>. QED
      BY <1>5, <2>1, <2>3, <2>4, <2>5
  <1>. QED
    BY <1>1, <1>2, <1>3, <1>4, <1>6, <1>7, StepShapes

LEMMA PublishInit == InitPublish => PublishInv
  <1>. SUFFICES ASSUME InitPublish PROVE PublishInv
    OBVIOUS
  <1>1. Init /\ client = [c \in Clients |-> NotRunning] /\ confirmed = {} /\ refused = {}
    BY DEF InitPublish
  <1>2. /\ db = EmptyStore /\ mem = EmptyStore /\ accepted = {}
        /\ \A h \in Handlers : handler[h] = Idle /\ handler[h].pc = "idle"
    BY <1>1 DEF Init, Idle
  <1>3. ServerInv
    BY <1>1, <1>2, BaseInit, AdvanceInit, SyncInit DEF ServerInv, AnswerInv, AcceptedIsDurable
  <1>4. /\ client \in [Clients -> ClientState]
        /\ \A c \in Clients : client[c].step = "start"
    BY <1>1 DEF ClientState, NotRunning
  <1>5. ClientInv
    BY <1>2, <1>4 DEF ClientInv
  <1>6. RunInv
    BY <1>1, <1>2, <1>4 DEF RunInv, Unsent, Mutations, EmptyStore
  <1>7. RecordInv
    BY <1>1, <1>2, DomainKeyIsDomain DEF RecordInv, Named, EmptyStore, EmptyZone
  <1>8. CountInv
    <2>1. db.audit = << >> /\ DOMAIN db.audit = {}
      BY <1>2 DEF EmptyStore
    <2>2. db.versions[DomainKey] = 0
      BY <1>2, DomainKeyIsDomain DEF EmptyStore
    <2>3. Publications(db.audit) = {}
      BY <2>1 DEF Publications
    <2>. QED
      BY <1>2, <1>4, <2>1, <2>2, <2>3, FS_EmptySet DEF CountInv, NoBlindOverwrite
  <1>. QED
    BY <1>3, <1>5, <1>6, <1>7, <1>8 DEF PublishInv

LEMMA PublishStep == PublishInv /\ [NextPublish]_publishVars => PublishInv'
  <1>. SUFFICES ASSUME PublishInv, [NextPublish]_publishVars PROVE PublishInv'
    OBVIOUS
  <1>1. ServerInv /\ ClientInv /\ RunInv /\ RecordInv /\ CountInv
    BY DEF PublishInv
  <1>2. [Next]_vars /\ ~HalfWrite
    BY <1>1, PublishIsServer DEF ServerInv, ClientInv
  <1>3. ServerInv'
    BY <1>1, <1>2, BaseStep, AdvanceStep, SyncStep, AnswerStep DEF ServerInv
  <1>4. ClientInv' /\ RunInv' /\ RecordInv' /\ CountInv'
    BY <1>1, ClientStep, RunStep, RecordStep, CountStep
  <1>. QED
    BY <1>3, <1>4 DEF PublishInv

LEMMA PublishAlways == SpecPublish => []PublishInv
  BY PublishInit, PublishStep, PTL DEF SpecPublish

\* Whatever is raced, retried, lost or crashed: the mutation of a client that reads
\* "[ok]" is in the database, and until a later mutation of the domain its record names
\* the client's manifest, which the node holds (report_mutation_outcome).
THEOREM OkIsPublished == SpecPublish => []OkMeansPublished
  <1>1. PublishInv => OkMeansPublished
    <2>. SUFFICES ASSUME PublishInv PROVE OkMeansPublished
      OBVIOUS
    <2>1. /\ confirmed \subseteq db.applied
          /\ \A r \in confirmed : Publishing(r)
          /\ Named(db, content) /\ db \in Store
      BY DEF PublishInv, ServerInv, BaseInv, TypeOK, AnswerInv, AcceptedIsDurable, RecordInv
    <2>. DEFINE rec == db.zone.domains[Domain]
    <2>2. ASSUME NEW r \in confirmed,
                 \A q \in db.applied : target_key(q.action) = Lower[Domain]
                                          => q.version <= r.version
          PROVE  rec # None /\ rec.manifest = r.action.manifest
      <3>1. PICK q \in db.applied : Publishing(q) /\ q.version = db.versions[DomainKey]
        BY <2>1 DEF Named
      <3>2. q.version <= r.version
        BY <2>2, <3>1 DEF Publishing, DomainKey
      <3>3. r.version <= db.versions[DomainKey]
        BY <2>1 DEF Named
      <3>4. r.version \in Nat /\ q.version \in Nat
        BY <2>1, <3>1 DEF Store, MutationRequest
      <3>5. r.version = db.versions[DomainKey]
        BY <3>1, <3>2, <3>3, <3>4
      <3>. QED
        BY <2>1, <3>5 DEF Named
    <2>3. rec # None => rec.manifest \in content
      BY <2>1 DEF Named
    <2>. QED
      BY <2>1, <2>2, <2>3 DEF OkMeansPublished
  <1>. QED
    BY <1>1, PublishAlways, PTL

\* A client that reads "rejected" has published nothing and never will with that
\* envelope: its challenge is spent (run_mutation).
THEOREM RefusedIsNothing == SpecPublish => []RefusedMeansNothing
  <1>1. PublishInv => RefusedMeansNothing
    BY DEF PublishInv, RunInv, Spent, Mutations, RefusedMeansNothing
  <1>. QED
    BY <1>1, PublishAlways, PTL

\* Publishers who share a key overwrite only what they have seen: the publications of
\* a domain are numbered without a gap (next_target_version, apply's version check).
THEOREM OverwritesAreSeen == SpecPublish => []NoBlindOverwrite
  <1>1. PublishInv => NoBlindOverwrite
    BY DEF PublishInv, CountInv
  <1>. QED
    BY <1>1, PublishAlways, PTL
=============================================================================
