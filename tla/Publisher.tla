----------------------------- MODULE Publisher -----------------------------
(***************************************************************************)
(* Publishers (`federate publish package` and `registry submit-package`)   *)
(* of one domain, who share its owner key, beside the registry server they *)
(* publish to.                                                             *)
(*                                                                         *)
(* One run of the command asks for a challenge, asks which version comes   *)
(* next, signs and submits, and tells its user what the server answered.   *)
(* Each request ends in an answer, or in none: the connection breaks, the  *)
(* server crashes, or the client's own timeout passes while the server     *)
(* works on.  The user may then run the command again.                     *)
(*                                                                         *)
(* The server is RegistryStore, for the submissions the clients make and   *)
(* without readers.  Its transactions and snapshots do not fail here: then *)
(* memory and database part, which is RegistryStore's matter.              *)
(***************************************************************************)
EXTENDS RegistryStore

CONSTANTS
    Clients,
    Domain,   \* the domain they publish
    Owner,    \* their key
    Site,     \* Site[c]: the revision in c's site directory
    Folder    \* Folder[c]: manifests of earlier builds in c's package directory

ASSUME PublisherAssumption ==
    /\ Domain \in DomainNames
    /\ Folder \in [Clients -> SUBSET Manifest]
    /\ \A c \in Clients : \A m \in Folder[c] : m.domain = Domain

VARIABLES
    client,    \* client[c]: how far the run of c is
    confirmed, \* history: requests whose client said "[ok] mutation accepted"
    refused    \* history: requests whose client said "rejected"

clientVars == << client, confirmed, refused >>

publishVars == << vars, clientVars >>

NotRunning == [step |-> "start", nonce |-> None, version |-> 0, handler |-> None]

ClientState ==
    {NotRunning}
    \cup [step : {"nonce"}, nonce : Nonces, version : {0}, handler : {None}]
    \cup [step : {"version"}, nonce : Nonces, version : Nat, handler : {None}]
    \cup [step : {"sent"}, nonce : Nonces, version : Nat, handler : Handlers]

InitPublish ==
    /\ Init
    /\ client = [c \in Clients |-> NotRunning]
    /\ confirmed = {}
    /\ refused = {}

-----------------------------------------------------------------------------
(* One run of the command.                                                 *)

\* fetch_mutation_nonce; an answer that is lost ends the run.
FetchNonce(c) ==
    /\ client[c].step = "start"
    /\ \E n \in Nonces :
           /\ IssueNonce(n)
           /\ \/ client' = [client EXCEPT ![c].step = "nonce", ![c].nonce = n]
              \/ UNCHANGED client
    /\ UNCHANGED << confirmed, refused >>

\* (mutant) a gap, so that a run may overtake another.
NextTarget_Skips(key) == mem.versions[key] + 2

\* mutation_target, under the read lock.
NextTarget(key) == mem.versions[key] + 1

NextTargetVersion(c) ==
    /\ client[c].step = "nonce"
    /\ up /\ ~WriteLocked
    /\ client' = [client EXCEPT ![c].step = "version",
                                ![c].version = NextTarget(Lower[Domain])]
    /\ UNCHANGED << vars, confirmed, refused >>

\* publish package: the manifest of the site as it is.
Built(c) == [domain |-> Domain, owner |-> Owner, rev |-> Site[c]]

\* site package: the new manifest is written under its own hash, so the older
\* ones stay beside it.
PackageDir(c) == Folder[c] \cup {Built(c)}

\* submit-package: the last manifest the listing of the directory shows, in no
\* particular order, unless another key owns it.
Packaged(c) == { m \in PackageDir(c) : m.owner = Owner }

\* submit_site_package: the signed request of c's run.
Signed(c, m) ==
    [nonce |-> client[c].nonce, actor |-> Owner,
     version |-> client[c].version, issued_at |-> clock, genuine |-> TRUE,
     action |-> [kind |-> "publish_site", name |-> Domain, manifest |-> m]]

\* (bound: Requests and Packages hold what the clients can sign)
Submit(c) ==
    /\ client[c].step = "version"
    /\ \E h \in Handlers, m \in Packages \cap ({Built(c)} \cup Packaged(c)) :
           /\ Signed(c, m) \in Requests
           /\ Receive(h, Signed(c, m), m)
           /\ client' = [client EXCEPT ![c].step = "sent", ![c].handler = h]
    /\ UNCHANGED << confirmed, refused >>

\* (mutant) the same envelope is sent again.
GiveUp_Resends(c) ==
    /\ client[c].step = "sent"
    /\ client' = [client EXCEPT ![c].step = "version", ![c].handler = None]
    /\ UNCHANGED << vars, confirmed, refused >>

\* die: any error ends the run; a submission goes on without its client, or
\* is dropped where the server waits for the lock.
GiveUp(c) ==
    /\ client[c].step # "start"
    /\ client' = [client EXCEPT ![c] = NotRunning]
    /\ \/ UNCHANGED vars
       \/ client[c].step = "sent" /\ Disconnect(client[c].handler)
    /\ UNCHANGED << confirmed, refused >>

-----------------------------------------------------------------------------
(* The server, and what its clients are told.                              *)

WaitsFor(h) == { c \in Clients : client[c].step = "sent" /\ client[c].handler = h }

Ended == { h \in Handlers : handler[h] # Idle /\ handler'[h] = Idle }

\* report_mutation_outcome: the clients of the handlers that end in this step
\* read the answer; in a crash there is none.
Told ==
    /\ client' = [c \in Clients |-> IF \E h \in Ended : c \in WaitsFor(h)
                                    THEN NotRunning ELSE client[c]]
    /\ LET answered == IF up' THEN { h \in Ended : WaitsFor(h) # {} } ELSE {}
           requests == { handler[h].req : h \in answered }
       IN  /\ confirmed' = confirmed \cup (requests \cap (accepted' \ accepted))
           /\ refused' = refused \cup (requests \ accepted')

ServerProgress(h) == Progress(h) /\ Told

ServerFailure(h) ==
    /\ ConsumeNonceFails(h) \/ StoreContentFails(h)
    /\ Told

Environment ==
    /\ Crash \/ Start \/ Tick \/ \E entry \in SeedFile : SeedEntry(entry)
    /\ Told

NextPublish ==
    \/ \E c \in Clients :
           FetchNonce(c) \/ NextTargetVersion(c) \/ Submit(c) \/ GiveUp(c)
    \/ \E h \in Handlers : ServerProgress(h) \/ ServerFailure(h)
    \/ Environment

SpecPublish ==
    /\ InitPublish
    /\ [][NextPublish]_publishVars
    /\ \A h \in Handlers : WF_publishVars(ServerProgress(h))

-----------------------------------------------------------------------------

\* A client that reads "[ok]" has published: its mutation survives every crash,
\* and until a later mutation of the domain the record names its manifest, and
\* the node holds it ("On success the domain resolves immediately").
OkMeansPublished ==
    /\ confirmed \subseteq db.applied
    /\ LET rec == db.zone.domains[Domain]
       IN  /\ rec # None => rec.manifest \in content
           /\ \A r \in confirmed :
                  (\A q \in db.applied : target_key(q.action) = Lower[Domain]
                                           => q.version <= r.version)
                      => rec # None /\ rec.manifest = r.action.manifest

\* A client that reads "rejected" has published nothing, now or later, although
\* its challenge is spent and its blocks may be stored (run_mutation).
RefusedMeansNothing == refused \cap (db.applied \cup mem.applied) = {}

\* Publishers who share a key overwrite only what they have seen: a publish is
\* accepted only as the successor of the version its client read, so of two
\* racing runs, or a run and the one before it whose answer was lost, one must
\* read again (next_target_version).
NoBlindOverwrite ==
    LET Publishes(i) == target_key(db.audit[i].req.action) = Lower[Domain]
    IN  \A i \in DOMAIN db.audit :
            Publishes(i) => db.audit[i].req.version =
                                Cardinality({ j \in 1 .. i : Publishes(j) })

\* A run whose submission arrived is told the outcome, or its connection ends:
\* no step of the server leaves a client waiting for ever.
EveryRunIsAnswered ==
    \A c \in Clients : client[c].step = "sent" ~> client[c].step # "sent"
=============================================================================
