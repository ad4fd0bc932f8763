--------------------------- MODULE RootTrustProofs ---------------------------
(***************************************************************************)
(* That a node resolves only with zones that verify under its pin, keeps   *)
(* the pin, and never goes back to an older zone while its refreshes do    *)
(* not overlap: for any keys, tasks, versions, faults and restarts.        *)
(***************************************************************************)
EXTENDS RootTrust, TLAPS

Safe == configured # NoKey \/ ~overlapped

Working == {"known", "write", "rename", "install"}

MaybeZone == Zones \cup {NoZone}

\* What the argument needs of the types.
Typed ==
    /\ overlapped \in BOOLEAN
    /\ latest \in [Keys -> 1 .. MaxVersion]
    /\ root \in MaybeZone
    /\ cache \in MaybeZone
    /\ tmp \in MaybeZone
    /\ task \in [Tasks -> [pc : Steps, zone : MaybeZone]]

Alone ==
    ~overlapped => \A t, u \in Tasks : ~At(t, "idle") /\ ~At(u, "idle") => t = u

PinsConfigured == configured # NoKey => pinned = configured

Verifiable(z) == z # NoZone => Verifies(z, pinned)

\* Everything stored or in use is under the pin.
StoredUnderPin == Verifiable(root) /\ Verifiable(cache) /\ Verifiable(tmp)

WorksUnderPin(t) == task[t].pc \in Working => Verifies(task[t].zone, pinned)

\* A task about to pin has written its key to the file, and nobody pinned.
AboutToPin(t) ==
    At(t, "pin") => /\ pinned = NoKey
                    /\ pinFile = task[t].zone.key
                    /\ Verifies(task[t].zone, task[t].zone.key)

PinIsFiled == configured = NoKey /\ pinned # NoKey => pinFile = pinned

UnderPin ==
    /\ StoredUnderPin
    /\ \A t \in Tasks : WorksUnderPin(t) /\ AboutToPin(t)
    /\ PinIsFiled

TrustInv == Typed /\ Alone /\ PinsConfigured /\ (Safe => UnderPin)

-----------------------------------------------------------------------------

LEMMA InitTrust == Init => TrustInv
  <1> SUFFICES ASSUME Init PROVE TrustInv
    OBVIOUS
  <1>1. Typed
    <2>1. latest \in [Keys -> 1 .. MaxVersion]
      BY RootTrustAssumption DEF Init
    <2>2. /\ overlapped \in BOOLEAN
          /\ task \in [Tasks -> [pc : Steps, zone : MaybeZone]]
      BY DEF Init, Idle, Steps, MaybeZone
    <2>. QED
      BY <2>1, <2>2 DEF Init, Typed, MaybeZone
  <1>2. Alone /\ PinsConfigured
    BY DEF Init, Idle, Alone, At, PinsConfigured
  <1>3. StoredUnderPin /\ PinIsFiled
    BY DEF Init, StoredUnderPin, Verifiable, PinIsFiled
  <1>4. \A t \in Tasks : WorksUnderPin(t) /\ AboutToPin(t)
    BY DEF Init, Idle, WorksUnderPin, AboutToPin, Working, At
  <1>. QED
    BY <1>1, <1>2, <1>3, <1>4 DEF TrustInv, UnderPin

\* What every step of a refresh of t keeps.
LEMMA RefreshFrame ==
    ASSUME Typed, NEW t \in Tasks, Refresh(t)
    PROVE  /\ configured' = configured
           /\ latest' = latest
           /\ \A u \in Tasks \ {t} : task'[u] = task[u]
           /\ overlapped => overlapped'
           /\ ~At(t, "idle") => overlapped' = overlapped
           /\ At(t, "idle") /\ ~overlapped' => \A u \in Tasks : At(u, "idle")
  <1>1. \/ Begins(t)
        \/ ~At(t, "idle") /\ UNCHANGED env
    BY DEF Refresh, Fetch, FetchFails, VerifyPinned, VerifyFirst, PinFileFails,
           Pin, CheckKnown, WriteTmp, StoreFails, Rename, Install, FallBack, At
  <1>2. \/ \E pc \in Steps : Goto(t, pc)
        \/ \E pc \in Steps : \E z : GotoWith(t, pc, z)
        \/ Finish(t)
    BY DEF Refresh, Fetch, FetchFails, VerifyPinned, VerifyFirst, PinFileFails,
           Pin, CheckKnown, WriteTmp, StoreFails, Rename, Install, FallBack, Steps
  <1>3. \A u \in Tasks \ {t} : task'[u] = task[u]
    BY <1>2 DEF Typed, Goto, GotoWith, Finish
  <1>4. CASE Begins(t)
    BY <1>3, <1>4 DEF Begins, At, Typed
  <1>5. CASE ~At(t, "idle") /\ UNCHANGED env
    BY <1>3, <1>5 DEF At, env, Typed
  <1>. QED
    BY <1>1, <1>4, <1>5

\* Providers answer with zones, settled or not.
LEMMA OffersAreZones ==
    ASSUME Typed PROVE Offers \subseteq Zones
  <1>1. Newest \in Zones
    BY RootTrustAssumption DEF Newest, Zones, Typed
  <1>. QED
    BY <1>1 DEF Offers

\* What the disk cache or memory falls back to.
LEMMA FallBackIsZone ==
    ASSUME Typed
    PROVE  Cached \in MaybeZone /\ Known \in MaybeZone
  BY DEF Typed, Cached, Known, MaybeZone

LEMMA RefreshOverlaps ==
    ASSUME Typed, NEW t \in Tasks, Refresh(t)
    PROVE  overlapped' \in BOOLEAN
  BY DEF Typed, Refresh, Fetch, FetchFails, Begins, VerifyPinned, VerifyFirst,
         PinFileFails, Pin, CheckKnown, WriteTmp, StoreFails, Rename, Install,
         FallBack, env

LEMMA RefreshTyped ==
    ASSUME Typed, NEW t \in Tasks, Refresh(t)
    PROVE  Typed'
  <1>0. latest' = latest /\ overlapped' \in BOOLEAN
    BY RefreshFrame, RefreshOverlaps
  <1> USE DEF Typed, Steps
  <1>1. CASE Fetch(t)
    BY <1>0, <1>1, OffersAreZones DEF Fetch, Begins, GotoWith, files, MaybeZone
  <1>2. CASE FetchFails(t)
    BY <1>0, <1>2 DEF FetchFails, Begins, Goto, files
  <1>3. CASE VerifyPinned(t)
    BY <1>0, <1>3 DEF VerifyPinned, Goto, files
  <1>4. CASE VerifyFirst(t)
    BY <1>0, <1>4 DEF VerifyFirst, Goto
  <1>5. CASE PinFileFails(t)
    BY <1>0, <1>5 DEF PinFileFails, Goto, files
  <1>6. CASE Pin(t)
    BY <1>0, <1>6 DEF Pin, Goto, files
  <1>7. CASE CheckKnown(t)
    BY <1>0, <1>7, FallBackIsZone DEF CheckKnown, Goto, GotoWith, files
  <1>8. CASE WriteTmp(t)
    BY <1>0, <1>8 DEF WriteTmp, Goto
  <1>9. CASE StoreFails(t)
    BY <1>0, <1>9 DEF StoreFails, Finish, Idle, files, MaybeZone
  <1>10. CASE Rename(t)
    BY <1>0, <1>10 DEF Rename, Finish, Goto, Idle, MaybeZone
  <1>11. CASE Install(t)
    BY <1>0, <1>11 DEF Install, Finish, Idle, files, MaybeZone
  <1>12. CASE FallBack(t)
    BY <1>0, <1>12, FallBackIsZone DEF FallBack, GotoWith, Finish, Idle, files,
       MaybeZone
  <1>. QED
    BY <1>1, <1>2, <1>3, <1>4, <1>5, <1>6, <1>7, <1>8, <1>9, <1>10, <1>11,
       <1>12 DEF Refresh

\* While refreshes do not overlap, at most one task is away from its idle step.
LEMMA RefreshAlone ==
    ASSUME Typed, Alone, NEW t \in Tasks, Refresh(t)
    PROVE  Alone'
  <1> SUFFICES ASSUME ~overlapped', NEW v \in Tasks, NEW w \in Tasks,
                      ~At(v, "idle")', ~At(w, "idle")'
               PROVE  v = w
    BY DEF Alone
  <1>1. \A u \in Tasks : u # t => (At(u, "idle")' <=> At(u, "idle"))
    <2>1. \A u \in Tasks \ {t} : task'[u] = task[u]
      BY RefreshFrame
    <2>. QED
      BY <2>1 DEF At
  <1>2. ~overlapped
    BY RefreshFrame
  <1>3. CASE At(t, "idle")
    <2>1. \A u \in Tasks : At(u, "idle")
      BY <1>3, RefreshFrame
    <2>. QED
      BY <2>1, <1>1
  <1>4. CASE ~At(t, "idle")
    BY <1>1, <1>2, <1>4 DEF Alone
  <1>. QED
    BY <1>3, <1>4

\* No zone is signed by the missing key.
LEMMA NobodysZone ==
    ASSUME NEW z \in MaybeZone
    PROVE  ~Verifies(z, NoKey)
  BY RootTrustAssumption, NoZoneAssumption DEF MaybeZone, Verifies, Zones

\* What Known and Cached answer is under the pin.
LEMMA FallBackVerifies ==
    ASSUME StoredUnderPin
    PROVE  /\ Cached # NoZone => Verifies(Cached, pinned)
           /\ Known # NoZone => Verifies(Known, pinned)
  BY DEF StoredUnderPin, Verifiable, Cached, Known, Verifies

-----------------------------------------------------------------------------
(***************************************************************************)
(* A step of a refresh keeps what is stored, in use or under way under the *)
(* pin.                                                                    *)
(***************************************************************************)
\* The steps that leave the pin and the files alone and move one task.
LEMMA MoveKeeps ==
    ASSUME Typed, UnderPin, NEW t \in Tasks,
           UNCHANGED << configured, pinned, pinFile, root, cache, tmp >>,
           \A u \in Tasks \ {t} : task'[u] = task[u],
           WorksUnderPin(t)', AboutToPin(t)'
    PROVE  UnderPin'
  <1>1. \A u \in Tasks \ {t} : (WorksUnderPin(u) /\ AboutToPin(u))'
    BY DEF UnderPin, WorksUnderPin, AboutToPin, At
  <1>. QED
    BY <1>1 DEF UnderPin, StoredUnderPin, Verifiable, PinIsFiled

LEMMA RefreshKeeps ==
    ASSUME TrustInv, NEW t \in Tasks, Refresh(t), Safe'
    PROVE  UnderPin'
  <1>0. /\ Typed /\ Alone /\ PinsConfigured /\ UnderPin
        /\ configured' = configured
        /\ \A u \in Tasks \ {t} : task'[u] = task[u]
    BY RefreshFrame DEF TrustInv, Safe
  <1>a. StoredUnderPin /\ WorksUnderPin(t) /\ AboutToPin(t) /\ PinIsFiled
    BY <1>0 DEF UnderPin
  <1>b. /\ Cached # NoZone => Verifies(Cached, pinned)
        /\ Known # NoZone => Verifies(Known, pinned)
    BY <1>a, FallBackVerifies
  <1>1. CASE Fetch(t)
    <2>1. (WorksUnderPin(t) /\ AboutToPin(t))'
      BY <1>0, <1>1 DEF Typed, Fetch, Begins, GotoWith, WorksUnderPin, AboutToPin,
         At, Working
    <2>. QED
      BY <1>0, <1>1, <2>1, MoveKeeps DEF Fetch, Begins, files
  <1>2. CASE FetchFails(t)
    <2>1. (WorksUnderPin(t) /\ AboutToPin(t))'
      BY <1>0, <1>2 DEF Typed, FetchFails, Begins, Goto, WorksUnderPin, AboutToPin,
         At, Working
    <2>. QED
      BY <1>0, <1>2, <2>1, MoveKeeps DEF FetchFails, Begins, files
  <1>3. CASE VerifyPinned(t)
    <2>1. (WorksUnderPin(t) /\ AboutToPin(t))'
      BY <1>0, <1>3 DEF Typed, VerifyPinned, Goto, WorksUnderPin, AboutToPin, At,
         Working, Verifies
    <2>. QED
      BY <1>0, <1>3, <2>1, MoveKeeps DEF VerifyPinned, files
  <1>4. CASE VerifyFirst(t)
    <2>1. configured = NoKey /\ pinned = NoKey
      BY <1>0, <1>4 DEF VerifyFirst, PinsConfigured
    <2>2. \A u \in Tasks \ {t} : At(u, "idle")
      BY <1>0, <1>4, <2>1, RefreshFrame DEF Safe, Alone, VerifyFirst, At
    <2>3. \A u \in Tasks \ {t} : (WorksUnderPin(u) /\ AboutToPin(u))'
      BY <1>0, <2>2 DEF WorksUnderPin, AboutToPin, At, Working
    <2>4. (WorksUnderPin(t) /\ AboutToPin(t))'
      BY <1>0, <1>4 DEF Typed, VerifyFirst, Goto, WorksUnderPin, AboutToPin, At,
         Working, Verifies
    <2>. QED
      BY <1>0, <1>4, <1>a, <2>1, <2>3, <2>4
      DEF VerifyFirst, UnderPin, StoredUnderPin, Verifiable, PinIsFiled, Verifies
  <1>5. CASE PinFileFails(t)
    <2>1. (WorksUnderPin(t) /\ AboutToPin(t))'
      BY <1>0, <1>5 DEF Typed, PinFileFails, Goto, WorksUnderPin, AboutToPin, At,
         Working
    <2>. QED
      BY <1>0, <1>5, <2>1, MoveKeeps DEF PinFileFails, files
  <1>6. CASE Pin(t)
    <2>1. configured = NoKey /\ pinned = NoKey
      BY <1>0, <1>6, <1>a DEF Pin, PinsConfigured, AboutToPin
    <2>2. \A u \in Tasks \ {t} : At(u, "idle")
      BY <1>0, <1>6, <2>1, RefreshFrame DEF Safe, Alone, Pin, At
    <2>3. \A u \in Tasks \ {t} : (WorksUnderPin(u) /\ AboutToPin(u))'
      BY <1>0, <2>2 DEF WorksUnderPin, AboutToPin, At, Working
    <2>4. (WorksUnderPin(t) /\ AboutToPin(t))'
      BY <1>0, <1>6, <1>a DEF Typed, Pin, Goto, WorksUnderPin, AboutToPin, At,
         Working, Verifies
    <2>5. root = NoZone /\ cache = NoZone /\ tmp = NoZone
      BY <1>0, <1>a, <2>1, NobodysZone DEF Typed, StoredUnderPin, Verifiable
    <2>. QED
      BY <1>0, <1>6, <1>a, <2>1, <2>3, <2>4, <2>5
      DEF Pin, files, UnderPin, StoredUnderPin, Verifiable, PinIsFiled, AboutToPin,
          Verifies
  <1>7. CASE CheckKnown(t)
    <2>1. (WorksUnderPin(t) /\ AboutToPin(t))'
      BY <1>0, <1>7, <1>a, <1>b DEF Typed, CheckKnown, IsOlder, Goto, GotoWith,
         WorksUnderPin, AboutToPin, At, Working, Verifies
    <2>. QED
      BY <1>0, <1>7, <2>1, MoveKeeps DEF CheckKnown, files
  <1>8. CASE WriteTmp(t)
    <2>1. (WorksUnderPin(t) /\ AboutToPin(t))' /\ Verifies(task[t].zone, pinned)
      BY <1>0, <1>8, <1>a DEF Typed, WriteTmp, Goto, WorksUnderPin, AboutToPin, At,
         Working, Verifies
    <2>2. \A u \in Tasks \ {t} : (WorksUnderPin(u) /\ AboutToPin(u))'
      BY <1>0, <1>8 DEF WriteTmp, UnderPin, WorksUnderPin, AboutToPin, At
    <2>. QED
      BY <1>0, <1>8, <1>a, <2>1, <2>2
      DEF WriteTmp, UnderPin, StoredUnderPin, Verifiable, PinIsFiled
  <1>9. CASE StoreFails(t)
    <2>1. (WorksUnderPin(t) /\ AboutToPin(t))'
      BY <1>0, <1>9 DEF Typed, StoreFails, Finish, Idle, WorksUnderPin, AboutToPin,
         At, Working
    <2>. QED
      BY <1>0, <1>9, <2>1, MoveKeeps DEF StoreFails, files
  <1>10. CASE Rename(t)
    <2>1. (WorksUnderPin(t) /\ AboutToPin(t))'
      BY <1>0, <1>10, <1>a DEF Typed, Rename, Goto, Finish, Idle, WorksUnderPin,
         AboutToPin, At, Working, Verifies
    <2>2. \A u \in Tasks \ {t} : (WorksUnderPin(u) /\ AboutToPin(u))'
      BY <1>0, <1>10 DEF Rename, UnderPin, WorksUnderPin, AboutToPin, At
    <2>. QED
      BY <1>0, <1>10, <1>a, <2>1, <2>2
      DEF Rename, UnderPin, StoredUnderPin, Verifiable, PinIsFiled
  <1>11. CASE Install(t)
    <2>1. (WorksUnderPin(t) /\ AboutToPin(t))' /\ Verifies(task[t].zone, pinned)
      BY <1>0, <1>11, <1>a DEF Typed, Install, Finish, Idle, WorksUnderPin,
         AboutToPin, At, Working
    <2>2. \A u \in Tasks \ {t} : (WorksUnderPin(u) /\ AboutToPin(u))'
      BY <1>0, <1>11 DEF Install, files, UnderPin, WorksUnderPin, AboutToPin, At
    <2>. QED
      BY <1>0, <1>11, <1>a, <2>1, <2>2
      DEF Install, files, UnderPin, StoredUnderPin, Verifiable, PinIsFiled
  <1>12. CASE FallBack(t)
    <2>1. (WorksUnderPin(t) /\ AboutToPin(t))'
      BY <1>0, <1>12, <1>b DEF Typed, FallBack, GotoWith, Finish, Idle,
         WorksUnderPin, AboutToPin, At, Working
    <2>. QED
      BY <1>0, <1>12, <2>1, MoveKeeps DEF FallBack, files
  <1>. QED
    BY <1>1, <1>2, <1>3, <1>4, <1>5, <1>6, <1>7, <1>8, <1>9, <1>10, <1>11,
       <1>12 DEF Refresh

\* A configured key stays the pin.
LEMMA RefreshPinsConfigured ==
    ASSUME TrustInv, NEW t \in Tasks, Refresh(t)
    PROVE  PinsConfigured'
  <1>1. configured' = configured /\ (configured # NoKey => Safe)
    BY RefreshFrame DEF TrustInv, Safe
  <1>2. CASE Pin(t)
    <2>1. configured # NoKey => pinned = NoKey
      BY <1>1, <1>2 DEF TrustInv, UnderPin, AboutToPin, Pin
    <2>. QED
      BY <1>1, <2>1 DEF TrustInv, PinsConfigured
  <1>3. CASE ~Pin(t)
    <2>1. pinned' = pinned
      BY <1>3 DEF Refresh, Fetch, FetchFails, Begins, VerifyPinned, VerifyFirst,
         PinFileFails, CheckKnown, WriteTmp, StoreFails, Rename, Install, FallBack
    <2>. QED
      BY <1>1, <2>1 DEF TrustInv, PinsConfigured
  <1>. QED
    BY <1>2, <1>3

LEMMA RestartKeeps ==
    ASSUME TrustInv, Restart
    PROVE  TrustInv'
  <1>1. /\ configured' = configured /\ overlapped' = overlapped
        /\ latest' = latest /\ root' = NoZone /\ UNCHANGED files
        /\ \A t \in Tasks : task'[t] = Idle
        /\ task' = [t \in Tasks |-> Idle]
    BY DEF Restart
  <1>2. Typed'
    BY <1>1 DEF TrustInv, Typed, Idle, Steps, MaybeZone, files
  <1>3. Alone' /\ PinsConfigured'
    BY <1>1 DEF Restart, Alone, PinsConfigured, At, Idle
  <1>4. ASSUME Safe PROVE UnderPin'
    <2>1. StoredUnderPin /\ PinIsFiled /\ PinsConfigured /\ Typed
      BY <1>4 DEF TrustInv, UnderPin
    <2>2. cache # NoZone \/ tmp # NoZone => pinned # NoKey
      BY <2>1, NobodysZone DEF StoredUnderPin, Verifiable, Typed
    <2>3. pinned # NoKey => pinned' = pinned
      BY <2>1 DEF Restart, PinIsFiled, PinsConfigured
    <2>4. StoredUnderPin' /\ PinIsFiled'
      BY <1>1, <2>1, <2>2, <2>3
      DEF Restart, StoredUnderPin, PinIsFiled, Verifiable, files
    <2>5. \A t \in Tasks : (WorksUnderPin(t) /\ AboutToPin(t))'
      BY <1>1 DEF WorksUnderPin, AboutToPin, At, Idle, Working
    <2>. QED
      BY <2>4, <2>5 DEF UnderPin
  <1>. QED
    BY <1>1, <1>2, <1>3, <1>4 DEF TrustInv, Safe

LEMMA NextKeepsTrust ==
    ASSUME TrustInv, [Next]_vars
    PROVE  TrustInv'
  <1>1. ASSUME NEW t \in Tasks, Refresh(t) PROVE TrustInv'
    BY <1>1, RefreshTyped, RefreshAlone, RefreshPinsConfigured, RefreshKeeps
    DEF TrustInv
  <1>2. ASSUME UNCHANGED << configured, pinned, root, files, task, overlapped >>,
               latest' \in [Keys -> 1 .. MaxVersion]
        PROVE  TrustInv'
    <2>1. /\ configured' = configured /\ pinned' = pinned /\ root' = root
          /\ pinFile' = pinFile /\ cache' = cache /\ tmp' = tmp
          /\ task' = task /\ overlapped' = overlapped
      BY <1>2 DEF files
    <2>2. Typed' /\ Alone' /\ PinsConfigured'
      BY <1>2, <2>1 DEF TrustInv, Typed, Alone, At, PinsConfigured
    <2>3. ASSUME Safe PROVE UnderPin'
      BY <2>1, <2>3 DEF TrustInv, UnderPin, StoredUnderPin, Verifiable,
         PinIsFiled, WorksUnderPin, AboutToPin, At
    <2>. QED
      BY <2>1, <2>2, <2>3 DEF TrustInv, Safe
  <1>3. ASSUME NEW k \in Keys, Publish(k) PROVE TrustInv'
    <2>1. latest' \in [Keys -> 1 .. MaxVersion]
      BY <1>3, RootTrustAssumption DEF Publish, TrustInv, Typed
    <2>. QED
      BY <1>2, <1>3, <2>1 DEF Publish
  <1>4. CASE Settle
    BY <1>2, <1>4 DEF Settle, TrustInv, Typed
  <1>5. CASE Restart
    BY <1>5, RestartKeeps
  <1>6. CASE UNCHANGED vars
    BY <1>2, <1>6 DEF vars, files, TrustInv, Typed
  <1>. QED
    BY <1>1, <1>3, <1>4, <1>5, <1>6 DEF Next

\* The invariant holds in every state the node and its providers reach.
THEOREM TrustHolds == Spec => []TrustInv
  BY InitTrust, NextKeepsTrust, PTL DEF Spec

\* A node resolves with and stores only zones whose signature verifies under
\* its pin (refresh_root, verify_zone): for any number of tasks when it was
\* given a key, and while first refreshes do not overlap when it was not.
THEOREM ResolvesUnderThePin == Spec => []UsesVerifiedZones
  <1>1. TrustInv => UsesVerifiedZones
    BY DEF TrustInv, Safe, UnderPin, StoredUnderPin, Verifiable, UsesVerifiedZones
  <1>. QED
    BY <1>1, TrustHolds, PTL

\* The pin of a node never changes, across restarts too (verify_zone,
\* Resolver::new), with the same exception.
THEOREM PinHolds == Spec => PinIsForever
  <1>1. ASSUME TrustInv, [Next]_vars, pinned # NoKey, Safe
        PROVE  pinned' = pinned
    <2>1. PinIsFiled /\ PinsConfigured /\ \A t \in Tasks : AboutToPin(t)
      BY <1>1 DEF TrustInv, UnderPin
    <2>2. ASSUME NEW t \in Tasks, Refresh(t) PROVE pinned' = pinned
      <3>1. ~Pin(t)
        BY <1>1, <2>1 DEF Pin, AboutToPin
      <3>. QED
        BY <2>2, <3>1 DEF Refresh, Fetch, FetchFails, Begins, VerifyPinned,
           VerifyFirst, PinFileFails, CheckKnown, WriteTmp, StoreFails, Rename,
           Install, FallBack
    <2>3. CASE Restart
      BY <1>1, <2>1, <2>3 DEF Restart, PinIsFiled, PinsConfigured
    <2>. QED
      BY <1>1, <2>2, <2>3 DEF Next, Publish, Settle, vars
  <1>2. TrustInv /\ [Next]_vars
        => [pinned # NoKey /\ (configured # NoKey \/ ~overlapped)
              => pinned' = pinned]_vars
    BY <1>1 DEF Safe
  <1>. QED
    BY <1>2, TrustHolds, PTL DEF Spec, PinIsForever

-----------------------------------------------------------------------------
(***************************************************************************)
(* No rollback.  While refreshes do not overlap, the disk cache is never   *)
(* behind what the node has resolved with, and a zone under way is between *)
(* the two.                                                                *)
(***************************************************************************)
CacheLeads == high > 0 => cache # NoZone /\ cache.version >= high

RootIsHighest == root # NoZone => root.version = high

Climbs(t) ==
    /\ task[t].pc \in {"write", "rename"} =>
          task[t].zone # NoZone /\ task[t].zone.version >= high
    /\ At(t, "rename") => tmp = task[t].zone
    /\ At(t, "install") =>
          /\ task[t].zone # NoZone /\ cache # NoZone
          /\ high =< task[t].zone.version
          /\ task[t].zone.version =< cache.version

Advance ==
    ~overlapped => /\ high \in Nat
                   /\ CacheLeads
                   /\ RootIsHighest
                   /\ \A t \in Tasks : Climbs(t)

\* A zone has a version.
LEMMA VersionsAreNumbers ==
    ASSUME NEW z \in MaybeZone, z # NoZone
    PROVE  z.version \in Nat \ {0}
  BY RootTrustAssumption DEF MaybeZone, Zones

\* What a refresh may fall back to is no older than what was resolved with,
\* and no newer than the cache.
LEMMA FallBackIsHigh ==
    ASSUME TrustInv, Advance, ~overlapped
    PROVE  /\ Known # NoZone => /\ cache # NoZone
                               /\ high =< Known.version
                               /\ Known.version =< cache.version
           /\ Known = NoZone => high = 0
           /\ Cached # NoZone => /\ cache # NoZone
                                /\ high =< Cached.version
                                /\ Cached.version =< cache.version
  <1>1. Typed /\ StoredUnderPin /\ CacheLeads /\ RootIsHighest /\ high \in Nat
    BY DEF TrustInv, Safe, UnderPin, Advance
  <1>2. cache # NoZone => cache.version \in Nat \ {0} /\ Verifies(cache, pinned)
    BY <1>1, VersionsAreNumbers DEF Typed, StoredUnderPin, Verifiable
  <1>3. root # NoZone => root.version \in Nat \ {0}
    BY <1>1, VersionsAreNumbers DEF Typed
  <1>4. Cached = cache
    BY <1>2 DEF Cached, Verifies
  <1>5. cache # NoZone => high =< cache.version
    BY <1>1, <1>2 DEF CacheLeads
  <1>6. root # NoZone => /\ cache # NoZone
                         /\ high =< root.version
                         /\ root.version =< cache.version
    BY <1>1, <1>3 DEF CacheLeads, RootIsHighest
  <1>7. root = NoZone /\ cache = NoZone => high = 0
    BY <1>1 DEF CacheLeads
  <1>. QED
    BY <1>2, <1>4, <1>5, <1>6, <1>7 DEF Known

LEMMA RefreshAdvances ==
    ASSUME TrustInv, Advance, NEW t \in Tasks, Refresh(t)
    PROVE  Advance'
  <1> SUFFICES ASSUME ~overlapped'
               PROVE  /\ high' \in Nat /\ CacheLeads' /\ RootIsHighest'
                      /\ \A u \in Tasks : Climbs(u)'
    BY DEF Advance
  <1>0. /\ Typed /\ ~overlapped /\ Alone /\ high \in Nat
        /\ CacheLeads /\ RootIsHighest /\ Climbs(t) /\ WorksUnderPin(t)
        /\ \A u \in Tasks \ {t} : task'[u] = task[u]
    BY RefreshFrame DEF TrustInv, Advance, Safe, UnderPin
  <1>a. \A u \in Tasks \ {t} : At(u, "idle")
    BY <1>0, RefreshFrame DEF Alone
  <1>b. \A u \in Tasks \ {t} : Climbs(u)'
    BY <1>0, <1>a DEF Climbs, At
  <1>c. ASSUME UNCHANGED << root, cache, tmp, high >>, Climbs(t)'
        PROVE  /\ high' \in Nat /\ CacheLeads' /\ RootIsHighest'
               /\ \A u \in Tasks : Climbs(u)'
    BY <1>0, <1>b, <1>c DEF CacheLeads, RootIsHighest
  <1>d. task[t].zone # NoZone => task[t].zone.version \in Nat \ {0}
    BY <1>0, VersionsAreNumbers DEF Typed
  <1>1. CASE Fetch(t) \/ FetchFails(t)
    <2>1. Climbs(t)'
      BY <1>0, <1>1 DEF Typed, Fetch, FetchFails, Goto, GotoWith, Climbs, At
    <2>. QED
      BY <1>1, <1>c, <2>1 DEF Fetch, FetchFails, Begins, files
  <1>2. CASE VerifyPinned(t) \/ VerifyFirst(t) \/ PinFileFails(t) \/ Pin(t)
    <2>1. Climbs(t)'
      BY <1>0, <1>2 DEF Typed, VerifyPinned, VerifyFirst, PinFileFails, Pin, Goto,
         Climbs, At
    <2>. QED
      BY <1>2, <1>c, <2>1 DEF VerifyPinned, VerifyFirst, PinFileFails, Pin, files
  <1>3. CASE CheckKnown(t)
    <2>1. task[t].zone # NoZone
      BY <1>0, <1>3 DEF CheckKnown, WorksUnderPin, Working, At, Verifies
    <2>2. Known # NoZone => Known.version \in Nat \ {0}
      BY <1>0, FallBackIsZone, VersionsAreNumbers
    <2>3. CASE IsOlder(task[t].zone, Known)
      <3>1. task'[t] = [pc |-> "install", zone |-> Known] /\ Known # NoZone
        BY <1>0, <1>3, <2>3 DEF Typed, CheckKnown, GotoWith, IsOlder
      <3>2. cache' = cache /\ high' = high
        BY <1>3 DEF CheckKnown, files
      <3>3. Climbs(t)'
        BY <1>0, <3>1, <3>2, FallBackIsHigh DEF Climbs, At
      <3>. QED
        BY <1>3, <1>c, <3>3 DEF CheckKnown, files
    <2>4. CASE ~IsOlder(task[t].zone, Known)
      <3>1. task'[t].pc = "write" /\ task'[t].zone = task[t].zone
        BY <1>0, <1>3, <2>4 DEF Typed, CheckKnown, Goto
      <3>2. high' = high
        BY <1>3 DEF CheckKnown
      <3>3. task[t].zone.version >= high
        BY <1>0, <1>d, <2>1, <2>2, <2>4, FallBackIsHigh DEF IsOlder
      <3>4. Climbs(t)'
        BY <2>1, <3>1, <3>2, <3>3 DEF Climbs, At
      <3>. QED
        BY <1>3, <1>c, <3>4 DEF CheckKnown, files
    <2>. QED
      BY <2>3, <2>4
  <1>4. CASE WriteTmp(t)
    <2>1. /\ task'[t].pc = "rename" /\ task'[t].zone = task[t].zone
          /\ tmp' = task[t].zone /\ UNCHANGED << root, cache, high >>
      BY <1>0, <1>4 DEF Typed, WriteTmp, Goto
    <2>2. Climbs(t)'
      BY <1>0, <1>4, <2>1 DEF WriteTmp, Climbs, At
    <2>. QED
      BY <1>0, <1>b, <2>1, <2>2 DEF CacheLeads, RootIsHighest
  <1>5. CASE StoreFails(t)
    <2>1. Climbs(t)'
      BY <1>0, <1>5 DEF Typed, StoreFails, Finish, Idle, Climbs, At
    <2>. QED
      BY <1>5, <1>c, <2>1 DEF StoreFails, files
  <1>6. CASE Rename(t)
    <2>1. tmp = task[t].zone /\ tmp # NoZone /\ task[t].zone.version >= high
      BY <1>0, <1>6 DEF Rename, Climbs, At
    <2>2. /\ task'[t].pc = "install" /\ task'[t].zone = task[t].zone
          /\ cache' = task[t].zone /\ UNCHANGED << root, high >>
      BY <1>0, <1>6, <2>1 DEF Typed, Rename, Goto
    <2>3. Climbs(t)'
      BY <1>0, <1>d, <2>1, <2>2 DEF Climbs, At
    <2>. QED
      BY <1>0, <1>b, <2>1, <2>2, <2>3 DEF CacheLeads, RootIsHighest
  <1>7. CASE Install(t)
    <2>1. /\ task[t].zone # NoZone /\ cache # NoZone
          /\ high =< task[t].zone.version /\ task[t].zone.version =< cache.version
      BY <1>0, <1>7 DEF Install, Climbs, At
    <2>2. root' = task[t].zone /\ high' = task[t].zone.version /\ cache' = cache
      BY <1>0, <1>7, <1>d, <2>1 DEF Install, files
    <2>3. Climbs(t)'
      BY <1>0, <1>7 DEF Typed, Install, Finish, Idle, Climbs, At
    <2>4. cache.version \in Nat
      BY <1>0, <2>1, VersionsAreNumbers DEF Typed
    <2>. QED
      BY <1>d, <1>b, <2>1, <2>2, <2>3, <2>4 DEF CacheLeads, RootIsHighest
  <1>8. CASE FallBack(t)
    <2>1. \/ task'[t] = [pc |-> "install", zone |-> Cached] /\ Cached # NoZone
          \/ task'[t] = Idle
      BY <1>0, <1>8 DEF Typed, FallBack, GotoWith, Finish
    <2>2. cache' = cache /\ high' = high
      BY <1>8 DEF FallBack, files
    <2>3. Climbs(t)'
      BY <1>0, <2>1, <2>2, FallBackIsHigh DEF Climbs, At, Idle
    <2>. QED
      BY <1>8, <1>c, <2>3 DEF FallBack, files
  <1>. QED
    BY <1>1, <1>2, <1>3, <1>4, <1>5, <1>6, <1>7, <1>8 DEF Refresh

LEMMA NextAdvances ==
    ASSUME TrustInv, Advance, [Next]_vars
    PROVE  Advance'
  <1>1. ASSUME NEW t \in Tasks, Refresh(t) PROVE Advance'
    BY <1>1, RefreshAdvances
  <1>2. ASSUME UNCHANGED << root, files, task, high, overlapped >> PROVE Advance'
    <2>1. /\ root' = root /\ cache' = cache /\ tmp' = tmp /\ task' = task
          /\ high' = high /\ overlapped' = overlapped
      BY <1>2 DEF files
    <2>. QED
      BY <2>1 DEF Advance, CacheLeads, RootIsHighest, Climbs, At
  <1>3. ASSUME NEW k \in Keys, Publish(k) PROVE Advance'
    BY <1>2, <1>3 DEF Publish
  <1>4. CASE Settle
    BY <1>2, <1>4 DEF Settle
  <1>5. CASE Restart
    <2>1. /\ root' = NoZone /\ cache' = cache /\ high' = high
          /\ overlapped' = overlapped /\ \A t \in Tasks : task'[t] = Idle
      BY <1>5 DEF Restart, files
    <2>. QED
      BY <2>1 DEF Advance, CacheLeads, RootIsHighest, Climbs, At, Idle
  <1>6. CASE UNCHANGED vars
    BY <1>2, <1>6 DEF vars, files
  <1>. QED
    BY <1>1, <1>3, <1>4, <1>5, <1>6 DEF Next

\* The zone in use is the newest the node ever resolved with, across restarts,
\* failed fetches and failed stores, while refreshes do not overlap
\* (refresh_root, RootCache::store).
THEOREM NeverRollsBack == Spec => []NoRootRollback
  <1>1. Init => Advance
    BY DEF Init, Idle, Advance, CacheLeads, RootIsHighest, Climbs, At
  <1>2. TrustInv /\ Advance /\ [Next]_vars => Advance'
    BY NextAdvances
  <1>3. Advance => NoRootRollback
    BY DEF Advance, RootIsHighest, NoRootRollback
  <1>. QED
    BY <1>1, <1>2, <1>3, TrustHolds, PTL DEF Spec
=============================================================================
