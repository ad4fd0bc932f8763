# Verification of Federate

TLA+ specifications of the Rust workspace under `src/`, the TLC runs that check
them on small instances, and machine-checked proofs of the properties that
matter most. `PROJECT.json` is the index: components, runs, the source lines
behind every definition, mutants, findings, hazards and theorems.

Contents: 1 the system · 2 the modules · 3 the runs, their bounds and what they
show · 4 fairness · 5 abstractions · 6 what is proved · 7 the finding and other
disagreements met · 8 what is not modelled · 9 what is left.

## 1. The system

Federate is a namespace and content network of its own. A *root zone*, signed
by the Federate Root Key, lists TLDs and, for root-managed TLDs, their domains.
*Node 1* (`federate-server`) is the only writer of the zone. Everybody else
fetches the zone, TLD registries, site manifests and content blocks from nodes
that need not be trusted, and verifies every layer. Everything is Rust on
tokio; state is shared behind `RwLock`s and files, without a replicated log.

| Component (crates) | State | Operations | Hard behaviour | What makes it correct |
|---|---|---|---|---|
| Zone and rules (`naming`, `root`, `mutation::request`, `apply_action`) | TLD and domain records, blocklists | eleven kinds of mutation | sequences of legal mutations that reach an illegal zone | who may change what; enforcement sticks; records verify |
| Registry store and mutation service (`mutation`, `server`) | the zone, registries, version counters, applied ids and audit log, in memory and in `registry.redb`; nonces; content files | submit, challenge, read, boot, seed | write lock over several I/O steps, crash between any two, I/O errors, replayed and delayed requests | a mutation applies once, whole, durably when acknowledged; memory and database agree; versions advance; the node always boots |
| Node directory (`directory`), node runtime (`node`) | node table, provider lists, a JSON snapshot, the health checker's list | register, announce, prune, probe and mark, restart | two locks, awaits between a list and its use, late requests, lost probes, crash with a stale snapshot | the snapshot agrees with the table; no wrong removals; live nodes converge |
| Root trust (`resolution`, `root` cache; loops in `federated`, `dnsd`, `noded`) | pin, zone in memory, zone on disk | refresh, fall back, restart | concurrent refreshes, one temporary file, failing disk, lying or lagging providers | only verified zones; no rollback; the pin stays; the newest zone is reached |
| Name resolution (`resolution`, `registry`, `storage`) | registry cache, manifest cache, block store | resolve a URL to content | a request works on the zone it started with; providers lie, lag or vanish; torn files | content needs the whole chain; forged registries end the request; registries do not go back; offline still works |
| Registry lifecycle (`mutation::store`, `legacy_json`, `server` boot) | the files of the registry directory, a backup | init, open, migrate, backup, restore, verify | a death between any two file operations; a server that comes up meanwhile | a registry is never started over; its history is never lost; a restore says what it left |
| Content cache (`cdn`, `storage`) | block files, LRU index, saved index | get, put, evict, install, restart | file and index change in separate steps, of several handlers at once | the index tracks the files; the cap holds; a crash forgets little |
| Transport and relays (`transport`, `protocol`, handlers of `noded`, `server`) | connection slots, sessions, what each node holds | dial, accept, handshake, request, relay | providers that relay to each other in a cycle; slots held while waiting; forging peers | only verified content passes on; slots come back |
| DNS (`dns`, `dnsd`), gateway (`gateway`, `gatewayd`) | gateway list, zone, permits of UDP and TCP | receive, admit, look up, answer or forward, refresh | overload, idle TCP clients, a directory that crashes, a node that dies | queries are answered; Federate names stay at home; dead gateways leave |
| CLI (`cli`) | key files, package directories | publish, build a registry, install, manage | an answer is lost; two machines share a key | what it prints is what is durable; no blind overwrite |
| Registry view, bootstrap, client, core, identity, URI, search | – | pure functions, single requests | – | – |

How they interact: the CLI asks Node 1 for a challenge and a target version and
submits a signed envelope (*Publisher*, on top of *RegistryStore*); the server
re-signs the zone. The files it leaves behind have a life of their own
(*Lifecycle*). Resolving nodes poll the zone
(*RootTrust*), and every request reads whatever zone is in memory at that moment
(*Resolution*; the zone changing under a request is `ChangeZone` there). Nodes
register with the directory, which probes their `/health`; DNS servers ask it who
is healthy (*NameService*, on top of *Directory*), resolvers who has a block.
Nodes fetch blocks and registries from each other (*Relay*) and keep blocks in a
bounded cache (*ContentCache*). There are no callbacks:
components meet in HTTP or native requests, in shared maps under locks, and in
files.

## 2. The modules

| Module | Models | Uses |
|---|---|---|
| `RootZone` | record types, naming rules, each arm of `apply_action` as an `...Allowed` guard and an `...Effect` function, re-signing | – |
| `SignedRegistry` | the abstract registry: one store that changes only by accepting one signed mutation in one step. The governance properties are stated here | `RootZone` |
| `RegistryStore` | the server's write path: `run_mutation`, `mutation_nonce`, `RegistryStore::apply`, `commit_mutation`, boot, offline seeding | `RootZone` |
| `RegistryPromise` | the refinement mapping: `Promise == INSTANCE SignedRegistryProofs WITH st <- db, ...` and `DatabaseKeepsThePromise` | `RegistryStore`, `SignedRegistryProofs` |
| `Publisher` | the CLI's publish flow, several clients with one key, lost answers | `RegistryStore` |
| `Lifecycle` | the files of the registry directory: init, migration, backup, restore | – |
| `Directory` | the node directory with its health checker and the nodes that register | – |
| `NameService` | the DNS server and its gateway list | `Directory` |
| `RootTrust` | `Resolver::new`, `verify_zone`, `refresh_root`, `RootCache` | – |
| `Resolution` | `resolve_traced_inner`, `tld_registry`, the manifest and block caches, the gateway's status codes | – |
| `ContentCache` | `CdnCache` over `BlockStore` under several handlers | – |
| `Relay` | sessions, slots and relaying handlers of several nodes | – |
| `MC...` | instances | the module of that name; `MCRegistryStore`: `RegistryPromise` |
| `RootZoneProofs` | lemmas about the rules: what each arm keeps and whom it answers to | `RootZone` |
| `SignedRegistryProofs` | theorems about the abstract registry | `SignedRegistry`, `RootZoneProofs` |
| `RegistryStoreProofs` | theorems about the server, its refinement and its publishers | `RegistryPromise`, `Publisher`, `RootZoneProofs` |
| `NameServiceProofs` | theorems about the directory and the DNS server beside it | `NameService` |
| `DiskProofs` | theorems about what the nodes keep on disk: the files of the registry and the content cache | `Lifecycle`, `ContentCache` |
| `RootTrustProofs`, `ResolutionProofs`, `RelayProofs` | theorems about the module of that name | that module |

`ContentCache` calls its specification `SpecCache` (with `InitCache`, `NextCache`,
`cacheVars`), `Publisher` its own `SpecPublish`, because each shares a proof module with
another one.

A definition whose comment begins "(mutant)", or whose name is another's with a
suffix (`Registered_KeepsFailures`), is a plausible bug of the definition that
follows it; nothing else uses it.

### RegistryStore and the code

`mem` is the `RegistryStore` value behind the server's `RwLock`, `db` the tables
of `registry.redb`, `nonces` its nonce table, `content` the `manifests/`
directory. `handler[h].pc` says where the code of one `run_mutation` call stands:

| pc | the code is |
|---|---|
| `wait` | past `now = unix_now()`, waiting for `state.store.write()` |
| `consumed` | past `consume_nonce`, a transaction of its own |
| `stored` | past `store_blocks`/`store_manifest` of a package |
| `memory` | in `apply`, after `self.zone`, registries, versions, ids and audit were replaced, before `commit_mutation` |
| `committed` | after the transaction, before the snapshot and the answer |

The lock is held from `consumed` to the answer (`Holding`). Each action is one of
these steps; for each fallible call there is an action that takes the error
path as the code does, with what is left changed (`ApplyWriteFails` and
`CommitFails` leave memory edited). `Commit` writes the zone *from memory* and
adds its own rows to the tables, as `commit_mutation` does, which is why a
failed transaction can surface in a later one. `Disconnect` is axum dropping the
handler at its only await. `served` and `accepted` are history.

### Directory and the code

One action per lock section. `prune_stale` keeps `nodes` locked while it waits
for `providers`: `PruneNodes`, then `PruneProviders`, and `NodesFree` closes
`nodes` in between. `announce_blocks` checks in one section and inserts in
another. The health checker's `pc` goes `prune → (scrub) → list → pick ⇄ probe`.
`net` holds registrations on their way; one that its sender gave up on may still
arrive, after a newer one. `missed` and `contact` are history.

### RootTrust and the code

`task[t].pc` is the position in one `refresh_root` call: `verify` (fetched, in
`verify_zone`), `pin` (file written, lock not yet taken), `known`
(`last_verified_zone` and comparison), `write`, `rename` (`RootCache::store`),
`install` (`*self.root.write()`), or one of the fallbacks `rejected`, `offline`.
`tmp` is the single temporary file all refreshes share. `Loops` are the tasks of
daemons that refresh for ever; a task outside it refreshes only when no zone is
in memory, as `root()` does.

### Resolution and the code

`task[t].tld` is the record of the zone the request read once, at its start.
`pc` follows the numbered steps of `resolve_traced_inner`. A live registry is
known by operator and version; `Cached(t)` re-verifies the cached file under the
operator *of the request's zone*. The content layers are `good`, `bad` (damaged,
or torn by a `put` under way) or absent.

### Lifecycle and the code

A registry is counted, not spelt out: `zone` is its version and `rows[r]` how many
rows of history, audit log and target versions a file has. `server` and `command`
say how far the boot of `federate-server` and the operator's command are; each
file operation is an action, and `CommandDies` or `ServerStops` may come between
any two. `db`, `backup` and `copied` may be `NoFile` or `Torn`, a file redb cannot open.

### ContentCache and the code

`file[b]` is the block file, `index` the mutex-guarded map, `saved` the index file.
`req[t].step` follows one request: read the file, take the mutex and touch
(`Ask`, `Touch`), or fetch, open, write, record, evict, save. A file is written in
place, so it is `torn` meanwhile; an eviction may unlink it under its writer
(`unlinked`). `stray` is history: the files a fault, a crash or an install leaves
outside the index.

### Relay and the code

A call is one connection. `dialed` has no slot yet, `open` and later phases hold one
of `Slots`. A handler that relays is `fetching` between providers and `awaiting`
while another call, whose `client` it is, runs. `Leave` is a client that stops
waiting; its handler runs on.

### NameService and the code

`task[t].phase` is how far a UDP packet or a TCP connection is; `Udp` and `Tcp` have
permits of their own. Of the resolver two bits are kept: a verified zone in memory
(`zone`) and one on disk (`cached`). The rest of the state is `Directory`'s, whose
healthy nodes are `Listed`.

### Publisher and the code

`client[c].step` is how far one run of `federate publish package` or `registry
submit-package` is: nonce, target version, submission, answer. `confirmed` and
`refused` are what the client printed. `Told` pairs every server step with the
answer that reaches, or no longer reaches, its client.

## 3. Runs

State counts are distinct states; each passing run ends within two minutes. One
type invariant, `RegistryStore`'s, is among the runs; the others are part of the
inductive invariants of section 6.

| Run | Instance | Properties |
|---|---|---|
| `crash` (337k) | 2 submissions, 2 challenges, a package, seed file, crash anywhere; nonce, content and snapshot writes may fail (no request here writes a registry) | `TypeOK`, `AllOrNothing`, `AuditChains`, `ServedNeverRollsBack`, `DatabaseKeepsThePromise` (versions 0 to 3) |
| `faults` (1.5M) | 1 submission at a time, 3 challenges, every I/O step may fail; delegation, re-pinning, a forged and a late rival | `OneMutationPerChallenge`, `TargetVersionsAdvance`, `AcceptedIsDurable`, `Bootable`, `ZoneVersionAdvances` |
| `commitfails` | as `crash`, the transaction may fail | **violates** `AllOrNothing` |
| `governance` (17k) | every kind of mutation from root, operator, owner and stranger, one official and one restricted TLD | `RecordsVerify`, `OwnershipIsTheOperators`, `EnforcementSticks` |
| `publish` (175k) | 2 machines with one owner key, 3 runs, an old and a foreign package beside theirs; crash, failing nonce and content writes, lost answers | `OkMeansPublished`, `RefusedMeansNothing`, `NoBlindOverwrite`, `EveryRunIsAnswered` |
| `life` (22k) | 3 mutations, every kind of damaged file, every command | `HistoryIsSomewhere`, `NeverStartsOver`, `RestoreTells` |
| `dir_restart` (1.4M) | 2 nodes for a table of 1, 2 addresses, 3 restarts or moves, lost requests and probes | `SnapshotHasTheTable`, `OfflineNeedsProbes`, `SeenNodesKept` |
| `names` (77k) | 1 gateway, 2 addresses, 2 packets, 1 connection, 1 permit each; a directory with all faults; fairness | `FederateStaysHome`, `PacketsAreAnswered`, `DeadGatewaysLeaveDns`, `AddressConverges` |
| `root` (755k) | a loop and an on-demand refresh that may overlap, configured key or first-use pinning, a foreign root, failing fetches and stores, 1 restart; fairness | `UsesVerifiedZones`, `NoRootRollback`, `PinIsForever`, `FollowsTheRoot` |
| `res_chain` (3.5M) | 1 request at a time, all four registry types, 2 operators, 2 registry versions, the zone changes once, forging, damage, expiry, restart | `ContentIsAuthorised`, `FailsClosed`, `RegistryAdvances`, `OfflineKeepsResolving` |
| `cache` (397k) | 2 handlers, 3 blocks, one larger than the cap; failing writes and removals, restarts, installs | `FilesAreIndexed`, `DiskBounded`, `CrashForgetsOnlyPuts` |
| `relay` (338k) | 2 nodes that relay to each other and to a third with wrong copies, one of them v0; 1 slot each, 3 connections; fairness | `OnlyVerified`, `SlotsComeBack` |

What they show:

- **Registry.** With crashes at every point and the nonce, package or snapshot write failing, a
  reader never sees what a restart would take back, and the database behaves as
  `SignedRegistry` says (`DatabaseKeepsThePromise`, a refinement): nonces, memory,
  lock and crashes are invisible in it. When a registry write or the
  transaction may fail too, memory and database part (section 7), but what is
  *durable* keeps its promises: a challenge is spent once, versions of a target
  and of the zone advance, acknowledged mutations are there, and the next boot's
  fail-closed checks pass.
- **Governance.** Whatever the order of mutations, published records carry the
  signature resolution asks for, ownership moves only by the TLD operator's
  hand, and revocation is terminal except for root.
- **Publishing.** What the client prints is what is durable, whichever answer is
  lost; of two machines that read the same version one is refused.
- **Lifecycle.** A death between any two file operations starts no registry over
  and loses no history; a restore that says "restored" left a database that
  verifies. It does not show that a *refused* restore leaves the old one: it does
  not (section 7).
- **Directory and DNS.** No interleaving of registration, checker and crash makes
  the snapshot forget a registration or lets a probe that a re-registration
  overtook push a node offline by itself. A gateway that dies leaves DNS for
  good, however often the directory restarts from its snapshot; one that stays
  is found at its address. Full TCP permits do not stop UDP.
- **Root trust.** Refreshes that do not overlap are rollback-free across crashes
  and disk errors. When they overlap, a node with a configured key still uses
  verified zones only and reaches the newest, but may step back for a while; one
  without may even re-pin (section 7). `~overlapped` in the properties is that
  condition: no two refreshes have run at the same time so far.
- **Resolution.** No combination of lagging or forging providers, damaged
  files and a zone replaced mid-request yields content off the chain.
- **Content cache, relays.** Overlapping gets, puts and evictions lose no file;
  only faults, crashes and installs do, and a crash only unfinished puts. Cycles
  of relays keep no slot for ever and pass on nothing unverified.

**Why the bounds are enough.** Two submissions exhibit every lock race, since a
third only waits; the challenge-bound properties need a challenge used by two
requests and one that expires, hence `NonceTTL = 1`, clocks to 3. Names do not
interact except domain with its TLD, so one of each (two TLDs for governance:
official against restricted). `AuditTail = 2` is exceeded. Three challenges are
three runs of the publisher: a race and a rerun. A table of 1 with two contenders
fills, refuses, prunes and readmits; `MaxClock = MaxAge + 1` prunes. Two root
versions on two keys tell older from newer and own from foreign. A zone that
changes once (`MaxZones = 1`) changes to *every* record under every request; two
versions and two operators give every order of versions. Three blocks, one
above the cap, make the cache evict one block, several, and never the one just
put. Three connections close the cycle a → b → a with every slot taken.
`names` runs the product of two nearly independent systems; its bound `Apart`
(`MCNameService`) lets queries be asked only while no gateway has run, and gateways
and the directory restart only where no query was asked, because the two meet in
`gateways` alone, which an answer reads and nothing else of a query does; the
proof of `FederateStaysHome` needs no such bound. Each property of a passing run
has a mutant of the code (in the modules, next to the definition it changes) that
violates it on the very same instance, so no bound is too small for its case to
occur.

## 4. Fairness

Safety runs assume none. Liveness assumes only what the runtime gives:

- `publish`: weak fairness of each submission's own step on the server. tokio polls
  every ready task, and its `RwLock` is fair, so a waiting writer is not
  overtaken for ever; crashes, faults, clients and time are not forced.
- `names`: weak fairness of the directory's health checker (every probe has a five
  second timeout), of restarting the directory (its supervisor) and of a running
  node re-registering; strong fairness of handling a registration, because the
  same one is sent again each minute and the network does not lose every one;
  weak fairness of a packet's next step (every wait has a deadline); strong
  fairness of the gateway refresh, every ten seconds: a directory that runs again
  and again is reached again and again. Lost requests and probes stay possible
  for ever. Clients and Node 1 owe nothing; in particular the write of a TCP
  reply has no deadline and no fairness.
- `root`: weak fairness of each refresh (every await has a timeout, and a loop
  starts the next one a minute later). `settled` is not forced: the property says
  "once the network serves the newest zone".
- `relay`: weak fairness of each handler's next step and of each deadline. That a
  connection is accepted is not assumed.

## 5. Abstractions

- A signature is whom it verifies for, a hash is what it names, a mutation id is
  the envelope; collisions and forgery of signatures are excluded. A request or
  zone that does *not* verify is a value of its own (`genuine`, `signed`,
  `forge`).
- A code section without an await, a file write or a lock release is one action.
- Clocks are small integers. An unparseable `expires_at` is time 0: expired,
  as in `expired_at`. In `Directory` the entry's timestamp is the clock of the
  locked step; the code reads it a few lines earlier.
- Spelling is the pair `Parse`/`Lower` of functions on names; the runs use one
  spelling per name, the theorems hold for any.
- `Lifecycle`: one operator command at a time, and a restore starts with the server
  stopped, as `backups.md` asks. The zone snapshot and the content stores, which
  no backup holds, are left out.
- `Directory`: latency is left out (it only orders lists); failure counts above
  three are one; the address stands for the whole signed endpoint.
- `NameService`: a query is for a Federate name or for another; record types, TTLs,
  the answer limit and parsing do not matter to the properties. A fetched zone
  can be stored. Where it cannot, the name goes upstream (section 7).
- `RootTrust`: a cached zone under an empty pin would pin its key; the pin is
  written before anything is cached, so the path is left out.
- `Resolution`: one TLD, one domain, one path; registries of different TLDs and
  contents of different hashes share nothing. Fetch order over providers is a
  counter; the sources of a manifest or block are one choice. A 304 is a 200.
- `ContentCache`: the clock counts the seconds `last_used` is kept in; ties are broken
  in any way. A resolver's own block store, without index and cap, is not the cache.
- `Relay`: frames arrive whole or not at all; a closed session ends at once; a
  provider list is fixed (the directory's ranking only orders it).
- `Publisher`: transactions and snapshots do not fail there (`AllOrNothing` would
  break); readers of the zone are left out. `Requests` and `Packages` hold what the
  clients can sign, so a client whose envelope is outside them does not submit.
- Every counter that grows is bounded in a guard (`MaxClock`, `MaxNet`, `MaxMoves`,
  `MaxVersion`, `MaxRestarts`, `MaxZones`, `MaxMutations`, `Calls`); the bounds are
  constants, and the theorems hold for any of them.

## 6. What is proved

Each `...Proofs` module proves its theorems for **every** value of the constants,
from the assumptions its component's module names and nothing else. A theorem
with a further condition says so in its ASSUME.

| Theorem | States | Conditions |
|---|---|---|
| *SignedRegistryProofs* | | |
| `RecordsAlwaysVerify` | `RecordsVerify` | – |
| `OwnershipIsGoverned` | `OwnershipIsTheOperators` | – |
| `EnforcementIsGoverned` | `EnforcementSticks` | – |
| *RegistryStoreProofs* | | |
| `TypeCorrect` | `TypeOK` | – |
| `ChallengesAreSpentOnce` | `OneMutationPerChallenge` | – |
| `VersionsAdvance` | `TargetVersionsAdvance` | – |
| `ZonesAdvance` | `ZoneVersionAdvances` | – |
| `AnswersAreDurable` | `AcceptedIsDurable` | – |
| `MemoryIsTheDatabase` | `AllOrNothing` | `WritesSucceed` |
| `AuditLogChains` | `AuditChains` | `WritesSucceed` |
| `NoServedRollback` | `ServedNeverRollsBack` | `WritesSucceed` |
| `AlwaysBootable` | `Bootable` | – |
| `RootRecordsVerify` | `RecordsVerify`, on the database | – |
| `DatabaseImplementsThePromise` | `DatabaseKeepsThePromise` | `WritesSucceed`, `Versions = Nat` |
| `OwnershipIsKept` | `OwnershipIsTheOperators`, on the database | the same |
| `EnforcementIsKept` | `EnforcementSticks`, on the database | the same |
| `OkIsPublished` | `OkMeansPublished` | – |
| `RefusedIsNothing` | `RefusedMeansNothing` | – |
| `OverwritesAreSeen` | `NoBlindOverwrite` | – |
| *DiskProofs* | | |
| `HistorySurvives` | `HistoryIsSomewhere` | – |
| `StartsOnce` | `NeverStartsOver` | – |
| `RestoreIsHonest` | `RestoreTells` | – |
| `FilesTracked` | `FilesAreIndexed` | – |
| `CacheIsBounded` | `DiskBounded` | – |
| `OnlyPutsForgotten` | `CrashForgetsOnlyPuts` | – |
| *NameServiceProofs* | | |
| `OfflineIsEarned` | `OfflineNeedsProbes` | – |
| `SeenStayTracked` | `SeenNodesKept` | – |
| `SnapshotIsTheTable` | `SnapshotHasTheTable` | no failing write of the snapshot |
| `NamesStayHome` | `FederateStaysHome` | – |
| *RootTrustProofs* | | |
| `ResolvesUnderThePin` | `UsesVerifiedZones` | – |
| `PinHolds` | `PinIsForever` | – |
| `NeverRollsBack` | `NoRootRollback` | – |
| *ResolutionProofs* | | |
| `ServesTheAuthorised` | `ContentIsAuthorised` | – |
| `ForgeriesFailClosed` | `FailsClosed` | – |
| `KeepsResolvingOffline` | `OfflineKeepsResolving` | registries can be stored |
| `RegistryNeverRollsBack` | `RegistryAdvances` | the same, and one request at a time |
| *RelayProofs* | | |
| `RelaysVerify` | `OnlyVerified` | – |

`WritesSucceed`: no transaction fails, nor does the writing of a registry, the one write
that follows the change of memory. Nonce, package and snapshot writes may fail. That is
what the `crash` run lets fail, and `commitfails` shows that the condition is needed.
`Versions` only bounds for TLC which versions an abstract step may give a zone and a seed
sign.

The inductive invariants, and why each is stronger than what it proves:

- **RegistryStore.** `BaseInv` = types + no submission survives a crash + at most
  one holds the lock + a submission in `memory` finds its own event at the end of
  memory's log, which makes `Commit` well typed. `ChallengeInv`: a challenge is in
  at most one place – the table, a submission past `consume_nonce`, or the durable
  log; without the middle place the nonce is gone from the table a while before
  the mutation is in the log. `AdvanceInv`: memory is never behind the database in
  any version, and a submission in `memory` carries a version above the durable
  one; it survives failed transactions because memory only runs ahead. `AnswerInv`:
  a submission in `committed` is in the durable `applied` set. `SyncInv`: outside
  `memory` the two copies are equal, inside, memory is exactly what the transaction
  will make of the database. The conditions of the theorems that rest on it are needed:
  `commitfails` shows it. `BootInv`: no mutation takes a TLD away, changes its operator
  or its registry type, so a zone in memory that failed transactions left ahead of
  the tables still fits the registries in them; it also says that every domain record
  of both zones verifies. Like `AdvanceInv` it survives failed
  transactions. It uses the assumption that `None` is not a record.
- **The refinement.** The mapping takes the database for the abstract store and the
  content store for itself. `PendingInv`: a submission in `memory` passed, at some
  clock reading, the rules on the *database* (memory was equal to it, and more content
  never forbids), and memory's zone is the edit of the database's, re-signed. So
  `Commit` is one `Accept`, `SeedEntry` another, content writes are `StoreDocument`, and
  everything else stutters. The abstract registry's own theorems follow from `Accept` and
  what one action may do to a domain (`ActionIsGoverned`, `ActionKeepsTlds`); with the
  refinement they hold of the database, by implication alone.
- **Publisher.** `PublishIsServer`: every step of the system is one of the server's and
  none of the half writes `commitfails` is about, so `BaseInv`, `AdvanceInv`, `SyncInv`
  and `AnswerInv` carry over. `StepShapes` divides the steps into the quiet ones, which
  apply nothing, and five others. On top of these, `RunInv`: a challenge belongs to one
  run, then to one submission, then to what was accepted or refused; with a challenge in
  two places a refused client's envelope could still be accepted. `RecordInv`: the domain's
  record names the manifest of the publication that has the domain's version, in memory
  and in the database, and that publication exists. `CountInv`: the domain's version is the
  number of its publications in the log, and no run or submission carries a version more
  than one ahead. A version read under the lock is the database's (`SyncInv`), one that
  passes the check is above the database's (`AdvanceInv`), so it is the next.
- **Lifecycle.** `LifeInv` says, for every position of the boot (`ServerInv`), the
  import (`ImportInv`: rows are complete in the order they are written) and the
  restore (`RestoreInv`: what is being restored is the backup, or grew from it),
  what the database file is; `WholeInv`, that nothing falls short once the JSON files
  are gone. It needs the bound that no table runs ahead of the zone.
- **Directory.** `DirInv` adds to the types what an entry is (`Probed`: offline means
  three failures, of which at most one belongs to a probe a registration
  overtook), that such a probe found the count at zero (`Overtaken`), that both
  tables stay within what `register` admits, and that `last_seen` is the last
  contact. `Mirrored`, for the snapshot, adds that file and table name the same
  nodes and addresses while no prune is half done.
- **NameService.** `ZoneInv`: a zone in memory was stored first, and stays stored.
- **RootTrust.** `TrustInv`: under the condition of the properties, the zone in use,
  the cache, the shared temporary file and the zone of every task past its
  verification are under the pin, and a task about to pin has written its key to
  the file. `Advance` orders versions: the zone in memory is the highest
  used, the cache is no older, and what a task is about to store or install lies
  between.
- **Resolution.** `ChainInv` follows one request: what it has read when, that a
  document in hand is authorised by the operator of *its* zone, that a request
  that met a forgery has ended. `LastIsCached`, for the last two theorems, says
  that the document last answered from is the cached one; it needs writes that
  do not fail. `NoneNewer`, for the last, says that a request about to store has
  found its document no older than the cache; a second request breaks it.
- **ContentCache.** The invariant adds that the put that holds the mutex is in the
  index, and that the saved index tracks files as the index does: without the
  second, `Restart` is not inductive. For the cap it adds `SavedFits`: what the last
  saved index names fits `Cap`, or is one block. Every file whose put is over is in
  that saved index, whatever files have gone since. The sums need that a sum over a part is no
  greater than over the whole and that removing a block subtracts its size: facts
  about a sum defined over finite sets, proved by a smallest counterexample
  (`SmallestSet`), from the library's theorem that strict inclusion of finite sets
  is well-founded.
- **Relay.** The invariant adds who waits for whom: the client of a call, when it is
  a handler, is alive, awaiting, and awaits nothing else, so an answer reaches
  the handler that asked.

Only model-checked is liveness: `EveryRunIsAnswered`, `PacketsAreAnswered`,
`DeadGatewaysLeaveDns`, `AddressConverges`, `FollowsTheRoot`, `SlotsComeBack`. Liveness
under fairness and `ENABLED` are beyond the prover. Every safety and action property of
a passing run is stated by a theorem.

## 7. The finding, and other disagreements met

The finding has a run of its own: `commitfails` – `apply` edits memory before
`commit_mutation` (`store.rs:441-467`); on an error the edit stays and is served,
although `store.rs:17-18` and `security.md:48` promise all or nothing.

Met while modelling and not kept as a run:

| What the code does | How to see it | What is said of it |
|---|---|---|
| After a failed transaction the next one commits the zone of both: the audit chain has a gap | `crash` with `"commit"` in `Faults`: `AuditChains` | `security.md:59-61` |
| After a failed transaction readers saw a version that a restart takes back | the same: `ServedNeverRollsBack` | `root-registry.md:86-89` |
| `block_tld`, then `set_tld_status` to official, makes a blocklisted name resolvable (`store.rs:785`, `:852`) | `governance` with "no blocked TLD is resolvable" | `tld-hierarchy.md:64-66`: it "can never exist" |
| Two spellings of one domain have two version counters, so an older request overwrites a newer one (`request.rs:158`) | `governance` with a spelling `Parse` maps to `a.fed` and `Lower` does not | `request.rs:5-6` |
| Two overlapping refreshes may install the older zone last (`resolution:298-316`) | `root` without `~overlapped` in `NoRootRollback` | `signatures.md:107-109` |
| Two first refreshes may each pin, the second over the first (`resolution:201-213`) | `root` without the condition of `PinIsForever` | `resolution/src/lib.rs:129-131` |
| `gatewayd` has no refresh loop and keeps the first zone it got | `root` with `Loops = {}`: `FollowsTheRoot` | `publishing.md:96` |
| Two concurrent requests can put an older registry back (`resolution:528`) | `res_chain` with `Tasks = {t1, t2}`: `RegistryAdvances` | `tld-hierarchy.md:107-110` |
| A registry that could not be cached is used, and rollback protection forgets it (`resolution:728`) | `res_chain` with `"store"` in `Faults` | `signatures.md:111-114` |
| The migration is one transaction per table: after a death in between the server boots on a partial history, and the migration refuses to run again (`store.rs:1034-1070`) | `life`: `HistoryIsSomewhere` without `LegacyExists` | `migrations.md:29-34` |
| A death of the first boot between the creation of the file and its first zone: `open` refuses for ever (`store.rs:97`) | `life`: the state `server = "down"`, `db = Empty` | – |
| `restore` copies before it verifies: a refused restore leaves the bad file, and the server boots from one whose audit events are forged (`store.rs:1135`) | `life`: `db` after `said = "failed"` | – |
| A backup of a running server is taken, and a failed copy stays and blocks the next | `BackupBegins` has no such guard | `backups.md:33-34` |
| Restoring an older backup brings consumed nonces back and takes versions back | by design of `restore` | `store.rs:964`: once "EVER" |
| A successful health check changes `last_seen` in memory only: a restart prunes by the older value (`directory:543`) | `SeenNodesKept` with `contact` kept over `WithPersistence` | `node-directory.md:45-46` |
| An announcement that passed its lookup before a prune leaves a provider entry behind; queries skip it (`directory:469`) | `\A p \in providers : p[2] \in Tracked` | `node-directory.md:45-47` |
| Gateways stay in DNS while the directory cannot be reached | `DeadGatewaysLeaveDns` without `running` | `dns-nodes.md:25`: "within seconds" |
| A fetched zone that cannot be stored is not used (`?` at `resolution:309`): Federate names go upstream | `names` with a `RefreshRoot` that fails to store | – |
| The write of a TCP reply has no deadline: a client that does not read keeps its permit | `PacketsAreAnswered` stated for `Tcp` | – |
| The comment of `root` says memory, disk, network; the code asks the network before the disk (`resolution:332`) | `RefreshRoot` | the comment |
| A get that verified a block before its eviction leaves an index entry without a file, a phantom until it is the oldest | `\A b \in DOMAIN index : file[b] # "none"` | – |
| An eviction between the write and the index entry of a put makes an acknowledged put vanish | the same | – |
| Strays (after a crash, a failed write, an install) escape the cap until a get touches them | `DiskBounded` without `\ stray` | – |
| A node sends a block as JSON bytes, about four bytes for one: blocks above some 17 MiB exceed `MAX_FRAME_BYTES` (`protocol:50`) | not modelled | – |
| Relays in a cycle have no hop limit: a request for a missing block keeps calls going until their deadlines | `relay`: bounded by `Calls` | – |
| A failed snapshot or commit is answered "rejected" although memory or database changed | `publish` with `"snapshot"` or `"commit"` in `Faults`: `RefusedMeansNothing` | `store.rs:17-18` |
| A rerun after a lost answer publishes the same manifest a second time | allowed by `NoBlindOverwrite` | – |
| The challenge is consumed and the content stored before the mutation is judged | `RefusedMeansNothing` speaks of mutations only | `publishing.md:47` |
| `submit-package` sends the last manifest `read_dir` yields, perhaps an old one (`cli/src/main.rs:2088`) | `Packaged(c)` leaves the choice open | – |
| An operator may build a registry with a version that repeats or goes back; a printed reminder is all | `Publish(o)` of `Resolution` advances | – |

## 8. Not modelled

`PROJECT.json` lists each part with its reason. In short: encodings and parsers
(URI, DNS wire format, frames, canonical JSON) are byte-level conversions no
property here depends on; bootstrap, client, core and identity have no state over
time; the registry view makes the lookups `Resolution` models; search rebuilds a
throw-away index and replaces it whole. Of the HTTP gateway only the answer's
status is modelled (it holds no state), of the node runtime the registration loop,
of the CLI what changes registries, files and stores; system set-up (DNS settings,
hosts file, certificates, services) acts on the operating system and its reports
change nothing.

## 9. What is left

- `ContentCache` composed with `Directory`'s provider lists: how long a provider entry
  outlives the block it announces.
