----------------------------- MODULE Resolution -----------------------------
(***************************************************************************)
(* resolve_traced_inner of federate-resolution: a request for a name goes  *)
(* from the verified root zone over the TLD's registry and the domain      *)
(* record to the manifest and the content block, each layer verified, each *)
(* with its own cache, while other requests do the same.  One TLD, one     *)
(* domain and one site are enough: registries of different TLDs share      *)
(* nothing, and content is addressed by its hash.                          *)
(*                                                                         *)
(* A registry document is known by its operator and version; what it says  *)
(* of the domain was settled when it was published.  Time enters only      *)
(* through what has expired.  RootTrust is about how the zone itself comes *)
(* to the node: here it may change to any other between two steps.         *)
(***************************************************************************)
EXTENDS Integers, Sequences, FiniteSets

CONSTANTS
    Operators,     \* TLD operator keys
    Tasks,         \* requests that run at the same time
    NoDoc,         \* no registry document
    Modes,         \* the registry types the root may give the TLD
    Providers,     \* how many registry providers the TLD record lists
    MaxVersion,    \* bound on registry versions of one operator
    MaxZones,      \* bound on changes of the root zone
    Published,     \* what operators' record files may hold for the domain
    Faults         \* which of "store", "tamper" and "forge" may happen

ASSUME ResolutionAssumption ==
    /\ Modes \subseteq {"root_managed", "manifest", "live", "offline"}
    /\ Providers \in Nat
    /\ MaxVersion \in Nat
    /\ MaxZones \in Nat
    /\ Faults \subseteq {"store", "tamper", "forge"}

(***************************************************************************)
(* What a registry, or the zone, holds for the domain: nothing, a record   *)
(* in use, a suspended one, or one another key signed.                     *)
(***************************************************************************)
Records == {"absent", "active", "suspended", "missigned"}

Docs == [operator : Operators, version : 1 .. MaxVersion]

TldRecord == [operator : Operators, mode : Modes,
              resolvable : BOOLEAN, pin : Docs \cup {NoDoc},
              record : Records]

ASSUME NoDocAssumption == NoDoc \notin Docs

ASSUME PublishedAssumption == Published \subseteq Records

Content == {"manifest", "block"}

Answers == {"none", "content", "security", "tld_unavailable", "unavailable",
            "domain_not_found", "domain_unavailable", "path_not_found",
            "error"}

VARIABLES
    tld,        \* the TLD's record in the zone the node holds
    zones,      \* how often it changed
    published,  \* published[o]: what o's registries say, by version
    expired,    \* which of "tld" and "domain" have expired
    cache,      \* the file registries/<tld>.json
    content,    \* the manifest cache and the block store
    task,       \* the requests
    used        \* history: the live registry last answered from

vars == << tld, zones, published, expired, cache, content, task, used >>

world == << tld, zones, published, expired >>

Steps == {"begin", "fetch", "compare", "store", "fallback", "pinned",
          "record", "manifest", "path", "block", "got", "put", "done"}

NewTask(r) == [pc |-> "begin", tld |-> r, doc |-> NoDoc, left |-> Providers,
               record |-> "absent", forged |-> FALSE, answer |-> "none"]

TypeOK ==
    /\ tld \in TldRecord
    /\ zones \in 0 .. MaxZones
    /\ published \in [Operators -> Seq(Records)]
    /\ expired \subseteq {"tld", "domain"}
    /\ cache \in Docs \cup {NoDoc}
    /\ content \in [Content -> {"none", "good", "bad"}]
    /\ task \in [Tasks -> [pc : Steps, tld : TldRecord,
                           doc : Docs \cup {NoDoc}, left : 0 .. Providers,
                           record : Records, forged : BOOLEAN,
                           answer : Answers]]
    /\ used \in Docs \cup {NoDoc}

PublishedDocs ==
    { d \in Docs : d.version <= Len(published[d.operator]) }

Holds(d) == published[d.operator][d.version]

\* Records the zone may hold; what a record's mode does not look at is left
\* at one value.
ZoneRecords(docs) ==
    { r \in TldRecord : /\ r.pin \in docs \cup {NoDoc}
                        /\ r.mode # "manifest" => r.pin = NoDoc
                        /\ r.mode # "root_managed" => r.record = "absent" }

Init ==
    /\ published = [o \in Operators |-> << >>]
    /\ tld \in ZoneRecords({})
    /\ zones = 0
    /\ expired = {}
    /\ cache = NoDoc
    /\ content = [c \in Content |-> "none"]
    /\ task = [t \in Tasks |-> [NewTask(tld) EXCEPT !.pc = "done"]]
    /\ used = NoDoc

-----------------------------------------------------------------------------
(***************************************************************************)
(* The world: operators publish, the root changes the TLD's record, time   *)
(* passes, files are damaged.                                              *)
(***************************************************************************)
\* operator build-registry: a record that is not under the operator's own key
\* ends it; `--version` is a clock unless given, and taken to increase.
Builds(records) == records \ {"missigned"}

Publish(o) ==
    /\ Len(published[o]) < MaxVersion
    /\ \E r \in Builds(Published) :
           published' = [published EXCEPT ![o] = Append(@, r)]
    /\ UNCHANGED << tld, zones, expired, cache, content, task, used >>

ChangeZone ==
    /\ zones < MaxZones
    /\ zones' = zones + 1
    /\ tld' \in ZoneRecords(PublishedDocs)
    /\ UNCHANGED << published, expired, cache, content, task, used >>

Expire ==
    /\ \E x \in {"tld", "domain"} \ expired : expired' = expired \cup {x}
    /\ UNCHANGED << tld, zones, published, cache, content, task, used >>

Tamper ==
    /\ "tamper" \in Faults
    /\ \E c \in Content :
          content[c] = "good" /\ content' = [content EXCEPT ![c] = "bad"]
    /\ UNCHANGED << world, cache, task, used >>

-----------------------------------------------------------------------------
At(t, pc) == task[t].pc = pc

End(t, answer) ==
    task' = [task EXCEPT ![t].pc = "done", ![t].answer = answer]

Step(t, pc) == task' = [task EXCEPT ![t].pc = pc]

\* A document serves the request when it verifies under its operator key.
Take(t, d, pc) == task' = [task EXCEPT ![t].pc = pc, ![t].doc = d]

\* A new request reads the zone the node holds, once.
Request(t) ==
    /\ At(t, "done")
    /\ task' = [task EXCEPT ![t] = NewTask(tld)]
    /\ UNCHANGED << world, cache, content, used >>

Unavailable(r) == ~r.resolvable \/ "tld" \in expired

\* Steps 4 to 6: status and expiry first, then the registry by its type.
Begin(t) ==
    LET r == task[t].tld
    IN  /\ At(t, "begin")
        /\ \/ Unavailable(r) /\ End(t, "tld_unavailable")
           \/ /\ ~Unavailable(r)
              /\ \/ /\ r.mode = "root_managed"
                    /\ task' = [task EXCEPT ![t].pc = "record",
                                            ![t].record = r.record]
                 \/ r.mode = "offline" /\ End(t, "unavailable")
                 \/ r.mode = "live" /\ Step(t, "fetch")
                 \/ /\ r.mode = "manifest"
                    /\ IF r.pin = NoDoc THEN End(t, "unavailable")
                       ELSE Step(t, "pinned")
        /\ UNCHANGED << world, cache, content, used >>

(***************************************************************************)
(* tld_registry, delegated_manifest: the document the root pinned by its   *)
(* hash, from the manifest cache or from any provider.                     *)
(***************************************************************************)
Authorised(t, d) == d.operator = task[t].tld.operator

FetchPinned(t) ==
    /\ At(t, "pinned")
    /\ \/ /\ Authorised(t, task[t].tld.pin)
          /\ task' = [task EXCEPT ![t].pc = "record",
                                  ![t].doc = task[t].tld.pin,
                                  ![t].record = Holds(task[t].tld.pin)]
       \/ ~Authorised(t, task[t].tld.pin) /\ End(t, "security")
       \/ End(t, "unavailable")
       \/ "forge" \in Faults /\ End(t, "security")
    /\ UNCHANGED << world, cache, content, used >>

(***************************************************************************)
(* fetch_registry_live: the listed providers and then the HTTP endpoint,   *)
(* until one answers.  An answer that does not verify ends the request.    *)
(***************************************************************************)
FetchLive(t) ==
    /\ At(t, "fetch")
    /\ \/ \E d \in PublishedDocs : Authorised(t, d) /\ Take(t, d, "compare")
       \/ /\ task[t].left > 0
          /\ task' = [task EXCEPT ![t].left = @ - 1]
       \/ task[t].left = 0 /\ Step(t, "fallback")
    /\ UNCHANGED << world, cache, content, used >>

FetchForged_TryNext(t) ==
    /\ "forge" \in Faults
    /\ At(t, "fetch")
    /\ task[t].left > 0
    /\ task' = [task EXCEPT ![t].left = @ - 1, ![t].forged = TRUE]
    /\ UNCHANGED << world, cache, content, used >>

FetchForged(t) ==
    /\ "forge" \in Faults \/ \E d \in PublishedDocs : ~Authorised(t, d)
    /\ At(t, "fetch")
    /\ task' = [task EXCEPT ![t].pc = "done", ![t].forged = TRUE,
                            ![t].answer = "security"]
    /\ UNCHANGED << world, cache, content, used >>

\* cached_registry: re-verified against the operator of the request's zone.
Cached(t) ==
    IF cache # NoDoc /\ Authorised(t, cache) THEN cache ELSE NoDoc

\* The document the request goes on with, and its record for the domain.
Use(t, d) ==
    /\ task' = [task EXCEPT ![t].pc = "record", ![t].doc = d,
                            ![t].record = Holds(d)]
    /\ used' = d

IsOlder(d, cached) == cached # NoDoc /\ d.version < cached.version

Compare(t) ==
    /\ At(t, "compare")
    /\ IF IsOlder(task[t].doc, Cached(t))
       THEN Use(t, Cached(t))
       ELSE Step(t, "store") /\ UNCHANGED used
    /\ UNCHANGED << world, cache, content >>

StoreRegistry_FirstOnly(t) ==
    /\ At(t, "store")
    /\ cache' = IF cache = NoDoc THEN task[t].doc ELSE cache
    /\ Use(t, task[t].doc)
    /\ UNCHANGED << world, content >>

\* store_registry is best effort: the document is used all the same.
StoreRegistry(t) ==
    /\ At(t, "store")
    /\ \/ cache' = task[t].doc
       \/ "store" \in Faults /\ UNCHANGED cache
    /\ Use(t, task[t].doc)
    /\ UNCHANGED << world, content >>

FallBack_None(t) ==
    /\ At(t, "fallback")
    /\ End(t, "unavailable")
    /\ UNCHANGED << world, cache, content, used >>

\* No provider answered: the last verified registry, if there is one.
FallBack(t) ==
    /\ At(t, "fallback")
    /\ IF Cached(t) # NoDoc THEN Use(t, Cached(t))
       ELSE End(t, "unavailable") /\ UNCHANGED used
    /\ UNCHANGED << world, cache, content >>

CheckRecord_NoStatus(t) ==
    LET rec == task[t].record
    IN  /\ At(t, "record")
        /\ \/ rec = "absent" /\ End(t, "domain_not_found")
           \/ rec = "missigned" /\ End(t, "security")
           \/ rec \in {"active", "suspended"} /\ Step(t, "manifest")
        /\ UNCHANGED << world, cache, content, used >>

\* Step 7: the record itself, signed by the operator, in force.
CheckRecord(t) ==
    LET rec == task[t].record
    IN  /\ At(t, "record")
        /\ \/ rec = "absent" /\ End(t, "domain_not_found")
           \/ rec = "missigned" /\ End(t, "security")
           \/ rec = "suspended" /\ End(t, "domain_unavailable")
           \/ /\ rec = "active"
              /\ IF "domain" \in expired THEN End(t, "domain_unavailable")
                 ELSE Step(t, "manifest")
        /\ UNCHANGED << world, cache, content, used >>

(***************************************************************************)
(* Step 8, manifest_bytes: the cached bytes count only if they hash to     *)
(* their name; damaged ones are removed and fetched again.  Sources are    *)
(* tried in turn; a wrong answer of the last one is a hash mismatch.       *)
(***************************************************************************)
ReadManifest(t) ==
    /\ At(t, "manifest")
    /\ content["manifest"] = "good"
    /\ Step(t, "path")
    /\ UNCHANGED << world, cache, content, used >>

FetchManifest(t) ==
    /\ At(t, "manifest")
    /\ content["manifest"] # "good"
    /\ \/ /\ content' = [content EXCEPT !["manifest"] = "good"]
          /\ Step(t, "path")
       \/ /\ content' = [content EXCEPT !["manifest"] = "none"]
          /\ \/ End(t, "error")
             \/ "forge" \in Faults /\ End(t, "security")
    /\ UNCHANGED << world, cache, used >>

\* The owner's signature over the manifest, then the path in it.
CheckPath(t) ==
    /\ At(t, "path")
    /\ \/ Step(t, "block")
       \/ End(t, "path_not_found")
       \/ "forge" \in Faults /\ End(t, "security")
    /\ UNCHANGED << world, cache, content, used >>

\* Step 9, block_traced: a stored block is served only if its hash is right.
ReadBlock(t) ==
    /\ At(t, "block")
    /\ content["block"] = "good"
    /\ End(t, "content")
    /\ UNCHANGED << world, cache, content, used >>

FetchBlock(t) ==
    /\ At(t, "block")
    /\ content["block"] # "good"
    /\ \/ Step(t, "got")
       \/ End(t, "error")
       \/ "forge" \in Faults /\ End(t, "security")
    /\ UNCHANGED << world, cache, content, used >>

\* BlockStore::put writes in place: until it is done the file is torn.
PutStarts(t) ==
    /\ At(t, "got")
    /\ content' = [content EXCEPT !["block"] = "bad"]
    /\ Step(t, "put")
    /\ UNCHANGED << world, cache, used >>

\* Cleared meanwhile, the file written has no name any more.
PutBlock(t) ==
    /\ At(t, "put")
    /\ content' = [content EXCEPT
                      !["block"] = IF @ = "none" THEN "none" ELSE "good"]
    /\ End(t, "content")
    /\ UNCHANGED << world, cache, used >>

\* DELETE /cache/clear of the local daemon, whatever request is under way.
ClearBlocks ==
    /\ content["block"] # "none"
    /\ content' = [content EXCEPT !["block"] = "none"]
    /\ UNCHANGED << world, cache, task, used >>

Resolve(t) ==
    \/ Begin(t)
    \/ FetchPinned(t)
    \/ FetchLive(t) \/ FetchForged(t) \/ Compare(t) \/ StoreRegistry(t)
    \/ FallBack(t)
    \/ CheckRecord(t)
    \/ ReadManifest(t) \/ FetchManifest(t) \/ CheckPath(t)
    \/ ReadBlock(t) \/ FetchBlock(t) \/ PutStarts(t) \/ PutBlock(t)

\* handle of federate-gateway: the HTTP status a browser gets.  A browser that
\* holds the block already (ETag) gets 304 in place of 200.
HttpStatus(answer) ==
    CASE answer = "content" -> 200
      [] answer \in {"domain_not_found", "path_not_found"} -> 404
      [] answer \in {"tld_unavailable", "unavailable", "domain_unavailable"} -> 503
      [] answer \in {"security", "error"} -> 502

\* The process ends anywhere; files stay.
Restart ==
    /\ task' = [t \in Tasks |-> [NewTask(tld) EXCEPT !.pc = "done"]]
    /\ UNCHANGED << tld, zones, published, expired, cache, content, used >>

Next ==
    \/ \E o \in Operators : Publish(o)
    \/ ChangeZone
    \/ Expire
    \/ Tamper
    \/ \E t \in Tasks : Request(t) \/ Resolve(t)
    \/ ClearBlocks
    \/ Restart

Spec == Init /\ [][Next]_vars

-----------------------------------------------------------------------------
(***************************************************************************)
(* Properties                                                              *)
(***************************************************************************)

Answered(t, status) ==
    task[t].answer # "none" /\ HttpStatus(task[t].answer) = status

\* A gateway answers 200 only on an unbroken chain: a TLD the request's zone
\* lets resolve, a registry of the operator that zone names, and a record in
\* use in that registry (resolve_traced_inner, handle).
ContentIsAuthorised ==
    \A t \in Tasks : LET r == task[t].tld IN
       Answered(t, 200) =>
          /\ r.resolvable
          /\ r.mode = "root_managed" => r.record = "active"
          /\ r.mode # "root_managed" => /\ task[t].doc # NoDoc
                                        /\ Authorised(t, task[t].doc)
                                        /\ Holds(task[t].doc) = "active"

\* A request that met a registry which does not verify ends with 502, "The
\* content was not served"; it never goes on to another provider or to the
\* cache (tld_registry: signature failures fail closed).
FailsClosed == \A t \in Tasks : task[t].forged => Answered(t, 502)

\* The node never answers from an older live registry than the one it answered
\* from before, unless the root has given the TLD to another operator in
\* between (tld_registry, rollback protection).
RegistryAdvances ==
    [][ used # NoDoc /\ used.operator = used'.operator
           => used'.version >= used.version ]_vars

\* A delegated TLD the node has resolved through its operator's registry
\* keeps resolving while every provider is unreachable (registry cache).
OfflineKeepsResolving ==
    [][ \A t \in Tasks :
          At(t, "fallback") /\ task'[t].answer = "unavailable"
             => used = NoDoc \/ used.operator # task[t].tld.operator ]_vars
=============================================================================
