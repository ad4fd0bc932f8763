---------------------------- MODULE ContentCache ----------------------------
(***************************************************************************)
(* The block cache of a storage or CDN node (federate-cdn CdnCache over a  *)
(* federate-storage BlockStore) as the node's request handlers use it:     *)
(* read a block, on a miss fetch it and put it, evict least recently used  *)
(* blocks past the size cap.                                               *)
(*                                                                         *)
(* The index and the block files are two stores.  A mutex guards the       *)
(* index, but files are read and written outside it, in place, and the     *)
(* index file is written by put alone.  A block file is absent, torn       *)
(* (being written, or left by a failed write or a crash) or whole; reads   *)
(* verify the hash, so a torn block is a miss.                             *)
(***************************************************************************)
EXTENDS Naturals, FiniteSets, FiniteSetsExt

CONSTANTS
    Blocks,
    Size,        \* Size[b]: bytes of block b
    Cap,         \* max_bytes
    Threads,     \* request handlers
    NoThread,
    FetchOnMiss, \* TRUE for the cdn role
    MaxClock,    \* bound on the seconds clock
    Faults       \* which of "write" and "remove" may fail

ASSUME ContentCacheAssumption ==
    /\ IsFiniteSet(Blocks) /\ Blocks # {}
    /\ Size \in [Blocks -> Nat \ {0}]
    /\ Cap \in Nat
    /\ NoThread \notin Threads
    /\ FetchOnMiss \in BOOLEAN
    /\ MaxClock \in Nat
    /\ Faults \subseteq {"write", "remove"}

VARIABLES
    file,    \* file[b]: state of block b's file under blocks/
    index,   \* CdnCache.index: block -> last_used, for the cached blocks
    saved,   \* cdn-index.json
    lock,    \* the thread that holds the index mutex
    req,     \* the request each handler works on
    clock,
    stray    \* history: files a fault, a crash or an install left untracked

cacheVars == << file, index, saved, lock, req, clock, stray >>

Times == 0 .. MaxClock

Indexes == UNION {[S -> Times] : S \in SUBSET Blocks}

Steps == {"idle", "touch", "fetch", "write", "unlinked", "index", "evict"}

Requests == [block : Blocks, step : Steps]

Bytes(S) == MapThenSumSet(LAMBDA b : Size[b], S)

Present == {b \in Blocks : file[b] # "none"}

\* Blocks some handler has begun to write and not yet recorded and saved.
InPut(b) ==
    \E t \in Threads :
        /\ req[t].block = b
        /\ req[t].step \in {"write", "unlinked", "index", "evict"}

Used(i, b, now) == [x \in DOMAIN i \cup {b} |-> IF x = b THEN now ELSE i[x]]

Without(i, b) == [x \in DOMAIN i \ {b} |-> i[x]]

Goto(t, step) == req' = [req EXCEPT ![t].step = step]

\* A data directory no node has run in.
InitCache ==
    /\ file = [b \in Blocks |-> "none"]
    /\ index = [b \in {} |-> 0]
    /\ saved = index
    /\ lock = NoThread
    /\ req = [t \in Threads |->
                 [block |-> CHOOSE b \in Blocks : TRUE, step |-> "idle"]]
    /\ clock = 0
    /\ stray = {}

-----------------------------------------------------------------------------
(* One request: CdnCache::get, on a miss the fetch and CdnCache::put. *)

\* get reads and verifies the file before it takes the mutex.
Ask(t, b) ==
    /\ req[t].step = "idle"
    /\ file[b] = "whole" \/ FetchOnMiss
    /\ req' = [req EXCEPT ![t] =
                  [block |-> b,
                   step |-> IF file[b] = "whole" THEN "touch" ELSE "fetch"]]
    /\ UNCHANGED << file, index, saved, lock, clock, stray >>

Touch(t) ==
    /\ req[t].step = "touch"
    /\ lock = NoThread
    /\ index' = Used(index, req[t].block, clock)
    /\ Goto(t, "idle")
    /\ UNCHANGED << file, saved, lock, clock, stray >>

FetchFails(t) ==
    /\ req[t].step = "fetch"
    /\ Goto(t, "idle")
    /\ UNCHANGED << file, index, saved, lock, clock, stray >>

\* BlockStore::put: fs::write truncates the file, then fills it.
PutOpens(t) ==
    /\ req[t].step = "fetch"
    /\ file' = [file EXCEPT ![req[t].block] = "torn"]
    /\ Goto(t, "write")
    /\ UNCHANGED << index, saved, lock, clock, stray >>

\* Of several writers of one file the last makes it whole; one whose file was
\* evicted under it fills a file without a name.
PutWrites(t) ==
    /\ req[t].step \in {"write", "unlinked"}
    /\ file' = IF \/ req[t].step = "unlinked"
                  \/ \E u \in Threads \ {t} :
                         req[u] = [block |-> req[t].block, step |-> "write"]
               THEN file
               ELSE [file EXCEPT ![req[t].block] = "whole"]
    /\ Goto(t, "index")
    /\ UNCHANGED << index, saved, lock, clock, stray >>

PutFails(t) ==
    /\ "write" \in Faults
    /\ req[t].step = "write"
    /\ stray' = stray \cup {req[t].block}
    /\ Goto(t, "idle")
    /\ UNCHANGED << file, index, saved, lock, clock >>

\* put takes the mutex and keeps it until the index is saved.
PutRecords(t) ==
    /\ req[t].step = "index"
    /\ lock = NoThread
    /\ lock' = t
    /\ index' = Used(index, req[t].block, clock)
    /\ Goto(t, "evict")
    /\ UNCHANGED << file, saved, clock, stray >>

Others(t) == DOMAIN index \ {req[t].block}

MustEvict_NotCountingOwn(t) == Bytes(Others(t)) > Cap

MustEvict(t) == Bytes(DOMAIN index) > Cap /\ Others(t) # {}

Oldest(t) == {b \in Others(t) : \A c \in Others(t) : index[b] <= index[c]}

Unlinks(b) ==
    [t \in Threads |-> IF req[t] = [block |-> b, step |-> "write"]
                       THEN [req[t] EXCEPT !.step = "unlinked"]
                       ELSE req[t]]

Evict_EntryOnly(t) ==
    /\ lock = t
    /\ MustEvict(t)
    /\ \E b \in Oldest(t) : index' = Without(index, b)
    /\ UNCHANGED << file, saved, lock, req, clock, stray >>

\* remove().ok(): the entry goes whether or not the file did.
Evict(t) ==
    /\ lock = t
    /\ MustEvict(t)
    /\ \E b \in Oldest(t) :
           /\ index' = Without(index, b)
           /\ \/ /\ file' = [file EXCEPT ![b] = "none"]
                 /\ stray' = stray \ {b}
                 /\ req' = Unlinks(b)
              \/ /\ "remove" \in Faults
                 /\ stray' = stray \cup ({b} \cap Present)
                 /\ UNCHANGED << file, req >>
    /\ UNCHANGED << saved, lock, clock >>

PutSaves_OnEviction(t) ==
    /\ lock = t
    /\ ~MustEvict(t)
    /\ saved' = IF \E b \in DOMAIN saved : b \notin DOMAIN index
                THEN index ELSE saved
    /\ stray' = stray \ {req[t].block}
    /\ lock' = NoThread
    /\ Goto(t, "idle")
    /\ UNCHANGED << file, index, clock >>

PutSaves(t) ==
    /\ lock = t
    /\ ~MustEvict(t)
    /\ saved' = index
    /\ stray' = stray \ {req[t].block}
    /\ lock' = NoThread
    /\ Goto(t, "idle")
    /\ UNCHANGED << file, index, clock >>

-----------------------------------------------------------------------------
(* Around the requests. *)

\* federate site build --install: blocks go into the store, not the index.
Install(b) ==
    /\ file[b] = "none"
    /\ file' = [file EXCEPT ![b] = "whole"]
    /\ stray' = stray \cup {b}
    /\ UNCHANGED << index, saved, lock, req, clock >>

\* CdnCache::new reads the index file back; nothing scans the blocks.
Restart ==
    /\ index' = saved
    /\ lock' = NoThread
    /\ req' = [t \in Threads |-> [req[t] EXCEPT !.step = "idle"]]
    /\ stray' = Present \ DOMAIN saved
    /\ UNCHANGED << file, saved, clock >>

Tick ==
    /\ clock < MaxClock
    /\ clock' = clock + 1
    /\ UNCHANGED << file, index, saved, lock, req, stray >>

NextCache ==
    \/ \E t \in Threads :
           \/ \E b \in Blocks : Ask(t, b)
           \/ Touch(t) \/ FetchFails(t)
           \/ PutOpens(t) \/ PutWrites(t) \/ PutFails(t)
           \/ PutRecords(t) \/ Evict(t) \/ PutSaves(t)
    \/ \E b \in Blocks : Install(b)
    \/ Restart \/ Tick

SpecCache == InitCache /\ [][NextCache]_cacheVars

-----------------------------------------------------------------------------

\* The state has the shape the code gives it; the mutex is held by a put.
CacheTypeOK ==
    /\ file \in [Blocks -> {"none", "torn", "whole"}]
    /\ index \in Indexes
    /\ saved \in Indexes
    /\ lock \in Threads \cup {NoThread}
    /\ req \in [Threads -> Requests]
    /\ clock \in Times
    /\ stray \subseteq Blocks
    /\ \A t \in Threads : lock = t <=> req[t].step = "evict"

\* No handler loses track of a file: whatever gets, puts and evictions of one
\* block overlap, a block on disk is in the index or its put is under way.
\* Only a failed write or removal, a crash or an install leaves one behind
\* (CdnCache::get, CdnCache::put).
FilesAreIndexed ==
    \A b \in Present \ stray : b \in DOMAIN index \/ InPut(b)

\* "A size-bounded content-addressed cache": tracked files whose puts are over
\* stay within the cap, or are one block that alone exceeds it.
DiskBounded ==
    LET kept == {b \in Present \ stray : ~InPut(b)}
    IN  Bytes(kept) <= Cap \/ Cardinality(kept) = 1

\* A crash loses track only of blocks whose put was not over: the saved index
\* has every other file the index had (CdnCache::persist_index, new).
CrashForgetsOnlyPuts ==
    [][Restart => \A b \in stray' \ stray : InPut(b)]_cacheVars
=============================================================================
