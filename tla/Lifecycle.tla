----------------------------- MODULE Lifecycle -----------------------------
(***************************************************************************)
(* The registry directory of one root server over its whole life: first    *)
(* boot (init_empty_registry, RegistryStore::init), later boots (open),    *)
(* the import of a pre-redb JSON layout (migrate_json_to_redb), backup and *)
(* restore of the database file, and the operator's verification.  A       *)
(* process may die, or an I/O call fail, between any two steps.            *)
(*                                                                         *)
(* A registry is reduced to the number of mutations it has accepted: the   *)
(* n-th one makes zone version n + 1 and adds a row to the mutation        *)
(* history, to the audit log and to the target versions.  What the checks  *)
(* on opening can tell apart is the kind of a file: sound, signed by a     *)
(* foreign root, with a forged audit event, or with record tables that do  *)
(* not mirror the zone.                                                    *)
(*                                                                         *)
(* One operator command runs at a time, and restore is started with the    *)
(* server stopped (docs/en-US/backups.md); the server may come up while a  *)
(* command is under way, and a backup may copy a database in use.          *)
(***************************************************************************)
EXTENDS Naturals

CONSTANTS
    MaxMutations,  \* bound on the mutations a registry accepts
    NoFile,        \* no file at a path
    Torn           \* a file redb cannot open: half written, half copied

ASSUME LifecycleAssumption == MaxMutations \in Nat

Kinds == {"sound", "foreign", "badAudit", "badTables"}

Rows == {"mutations", "audit", "versions"}

Database ==
    [zone : 0 .. MaxMutations + 1,     \* 0: no current root zone
     rows : [Rows -> 0 .. MaxMutations],
     kind : Kinds]

ASSUME FilesAssumption == NoFile # Torn /\ {NoFile, Torn} \cap Database = {}

DatabaseFile == Database \cup {NoFile, Torn}

\* A legacy registry: state.json and its two logs hold everything accepted.
LegacyJson == [zone : 1 .. MaxMutations + 1, kind : Kinds \ {"badTables"}]

VARIABLES
    db,       \* registry.redb
    json,     \* what state.json, mutations.jsonl and audit.jsonl hold
    moved,    \* how many of the three are in legacy-json-backup/
    backup,   \* the file of registry backup --output and restore --input
    server,   \* federate-server: down, first boot under way, or up
    command,  \* the operator's command and how far it is
    copied,   \* the database when the backup began to copy it
    said,     \* what the last command reported
    held      \* history: the directory has held a registry

vars == << db, json, moved, backup, server, command, copied, said, held >>

Importing == {"tables", "commit", "mutations", "audit", "versions", "move"}

Commands == Importing \cup
    {"idle", "create", "copyOut", "check", "copyIn", "open", "verify"}

IsDatabase(file) == file \notin {NoFile, Torn}

LegacyExists == json # NoFile /\ moved = 0

Exists_DatabaseOnly == db # NoFile

Exists == db # NoFile \/ LegacyExists

\* redb locks the file from create or open until the process drops it.
ServerHolds == server # "down"
CommandHolds == command \in Importing \cup {"verify"}

Empty == [zone |-> 0, rows |-> [r \in Rows |-> 0], kind |-> "sound"]

CommitInitial(file, version) == [file EXCEPT !.zone = version]

WithRecordTables(kind) == IF kind = "badTables" THEN "sound" ELSE kind

CommitMutation(file) ==
    [zone |-> file.zone + 1,
     rows |-> [r \in Rows |-> file.rows[r] + 1],
     kind |-> WithRecordTables(file.kind)]

\* RegistryStore::open verifies the zone and the delegated registries, but
\* neither the audit events nor the record tables.
Opens(file) == IsDatabase(file) /\ file.zone > 0 /\ file.kind # "foreign"

Verified_AsOpened(file) == Opens(file)

\* verify_tables: the record tables are rebuilt from the zone by the next
\* commit, and nothing but this reads them.
TablesMirror(file) == file.kind # "badTables"

AuditVerifies(file) == file.kind # "badAudit"

Verified(file) == Opens(file) /\ AuditVerifies(file) /\ TablesMirror(file)

Complete(file) == \A r \in Rows : file.rows[r] = file.zone - 1

Written(version, kind) ==
    [zone |-> version, rows |-> [r \in Rows |-> version - 1], kind |-> kind]

\* A new directory, a running registry or a legacy one, and a backup that
\* was made of some complete registry, here or elsewhere.
Init ==
    /\ db \in {NoFile} \cup
              {Written(v, "sound") : v \in 1 .. MaxMutations + 1}
    /\ json \in IF db = NoFile THEN LegacyJson \cup {NoFile} ELSE {NoFile}
    /\ moved = 0
    /\ backup \in {NoFile, Torn, Empty} \cup
                  {Written(v, k) : v \in 1 .. MaxMutations + 1, k \in Kinds}
    /\ server = "down"
    /\ command = "idle"
    /\ copied = NoFile
    /\ said = "nothing"
    /\ held = (db # NoFile \/ json # NoFile)

-----------------------------------------------------------------------------
(* The server. *)

Boot ==
    /\ server = "down"
    /\ Exists
    /\ Opens(db)
    /\ ~CommandHolds
    /\ server' = "up"
    /\ UNCHANGED << db, json, moved, backup, command, copied, said, held >>

\* RedbRegistryStore::create: the test that there is no file and the new
\* file are one step, the tables a transaction of their own.
InitCreate ==
    /\ server = "down"
    /\ ~Exists
    /\ db' = Torn
    /\ server' = "tables"
    /\ UNCHANGED << json, moved, backup, command, copied, said, held >>

InitTables ==
    /\ server = "tables"
    /\ db' = Empty
    /\ server' = "commit"
    /\ UNCHANGED << json, moved, backup, command, copied, said, held >>

InitCommit ==
    /\ server = "commit"
    /\ db' = CommitInitial(db, 1)
    /\ server' = "snapshot"
    /\ held' = TRUE
    /\ UNCHANGED << json, moved, backup, command, copied, said >>

InitSnapshot ==
    /\ server = "snapshot"
    /\ server' = "up"
    /\ UNCHANGED << db, json, moved, backup, command, copied, said, held >>

Mutate ==
    /\ server = "up"
    /\ db.zone <= MaxMutations
    /\ db' = CommitMutation(db)
    /\ UNCHANGED << json, moved, backup, server, command, copied, said, held >>

\* Stopped, crashed, or ended by a failed step of its first boot.
ServerStops ==
    /\ server # "down"
    /\ server' = "down"
    /\ UNCHANGED << db, json, moved, backup, command, copied, said, held >>

-----------------------------------------------------------------------------
(* federate registry migrate-json-to-redb. *)

\* legacy_json::load: any signature that does not verify aborts.
Loads(legacy) == legacy.kind = "sound"

MigrateLoad ==
    /\ command = "idle"
    /\ db = NoFile
    /\ LegacyExists
    /\ Loads(json)
    /\ command' = "create"
    /\ said' = "nothing"
    /\ UNCHANGED << db, json, moved, backup, server, copied, held >>

MigrateCreate ==
    /\ command = "create"
    /\ db = NoFile
    /\ db' = Torn
    /\ command' = "tables"
    /\ UNCHANGED << json, moved, backup, server, copied, said, held >>

MigrateTables ==
    /\ command = "tables"
    /\ db' = Empty
    /\ command' = "commit"
    /\ UNCHANGED << json, moved, backup, server, copied, said, held >>

MigrateCommit ==
    /\ command = "commit"
    /\ db' = CommitInitial(db, json.zone)
    /\ command' = "mutations"
    /\ UNCHANGED << json, moved, backup, server, copied, said, held >>

AfterRows_NoVersions ==
    [mutations |-> "audit", audit |-> "move", versions |-> "move"]

AfterRows ==
    [mutations |-> "audit", audit |-> "versions", versions |-> "move"]

\* append_mutation, append_audit_event, put_target_version: one transaction
\* for each row.
ImportRow(r) ==
    /\ command = r
    /\ IF db.rows[r] < json.zone - 1
       THEN /\ db' = [db EXCEPT !.rows[r] = @ + 1]
            /\ UNCHANGED command
       ELSE /\ command' = AfterRows[r]
            /\ UNCHANGED db
    /\ UNCHANGED << json, moved, backup, server, copied, said, held >>

\* backup_files: state.json first.
MoveJson ==
    /\ command = "move"
    /\ IF moved < 3
       THEN moved' = moved + 1 /\ UNCHANGED << command, said >>
       ELSE command' = "idle" /\ said' = "migrated" /\ UNCHANGED moved
    /\ UNCHANGED << db, json, backup, server, copied, held >>

-----------------------------------------------------------------------------
(* federate registry backup, restore and db verify. *)

BackupBegins ==
    /\ command = "idle"
    /\ db # NoFile
    /\ backup = NoFile
    /\ backup' = Torn
    /\ copied' = db
    /\ command' = "copyOut"
    /\ said' = "nothing"
    /\ UNCHANGED << db, json, moved, server, held >>

\* The copy takes no lock: of a database that changed meanwhile it holds the
\* old state, the new one, or neither.
BackupCopies ==
    /\ command = "copyOut"
    /\ backup' \in {copied, db} \cup (IF db # copied THEN {Torn} ELSE {})
    /\ copied' = NoFile
    /\ command' = "check"
    /\ UNCHANGED << db, json, moved, server, said, held >>

\* The copy must open as a database; one that does not stays where it is.
BackupChecks ==
    /\ command = "check"
    /\ command' = "idle"
    /\ said' = IF IsDatabase(backup) THEN "backed up" ELSE "failed"
    /\ UNCHANGED << db, json, moved, backup, server, copied, held >>

DiscardBackup ==
    /\ command = "idle"
    /\ backup # NoFile
    /\ backup' = NoFile
    /\ said' = "nothing"
    /\ UNCHANGED << db, json, moved, server, command, copied, held >>

\* fs::copy truncates the destination before anything is verified.
RestoreBegins(force) ==
    /\ command = "idle"
    /\ server = "down"
    /\ backup # NoFile
    /\ db # NoFile => force
    /\ db' = Torn
    /\ command' = "copyIn"
    /\ said' = "nothing"
    /\ UNCHANGED << json, moved, backup, server, copied, held >>

RestoreCopies ==
    /\ command = "copyIn"
    /\ db' = backup
    /\ command' = "open"
    /\ held' = (held \/ (IsDatabase(backup) /\ backup.zone > 0))
    /\ UNCHANGED << json, moved, backup, server, copied, said >>

RestoreOpens ==
    /\ command = "open"
    /\ IF Opens(db) /\ ~ServerHolds
       THEN command' = "verify" /\ UNCHANGED said
       ELSE command' = "idle" /\ said' = "failed"
    /\ UNCHANGED << db, json, moved, backup, server, copied, held >>

RestoreVerifies ==
    /\ command = "verify"
    /\ command' = "idle"
    /\ said' = IF Verified(db) THEN "restored" ELSE "failed"
    /\ UNCHANGED << db, json, moved, backup, server, copied, held >>

\* federate registry db verify opens the database under its lock.
DbVerify ==
    /\ command = "idle"
    /\ said' = IF ~ServerHolds /\ Verified(db) THEN "verified" ELSE "failed"
    /\ UNCHANGED << db, json, moved, backup, server, command, copied, held >>

\* Killed, or ended by a failed step.
CommandDies ==
    /\ command # "idle"
    /\ command' = "idle"
    /\ copied' = NoFile
    /\ said' = "failed"
    /\ UNCHANGED << db, json, moved, backup, server, held >>

-----------------------------------------------------------------------------

Next ==
    \/ Boot \/ InitCreate \/ InitTables \/ InitCommit \/ InitSnapshot
    \/ Mutate \/ ServerStops
    \/ MigrateLoad \/ MigrateCreate \/ MigrateTables \/ MigrateCommit
    \/ \E r \in Rows : ImportRow(r)
    \/ MoveJson
    \/ BackupBegins \/ BackupCopies \/ BackupChecks \/ DiscardBackup
    \/ \E force \in BOOLEAN : RestoreBegins(force)
    \/ RestoreCopies \/ RestoreOpens \/ RestoreVerifies
    \/ DbVerify \/ CommandDies

Spec == Init /\ [][Next]_vars

-----------------------------------------------------------------------------

\* The state has the shape the code gives it.
TypeOK ==
    /\ db \in DatabaseFile
    /\ json \in LegacyJson \cup {NoFile}
    /\ moved \in 0 .. 3
    /\ backup \in DatabaseFile
    /\ server \in {"down", "tables", "commit", "snapshot", "up"}
    /\ command \in Commands
    /\ copied \in DatabaseFile
    /\ said \in {"nothing", "migrated", "backed up", "restored", "verified",
                 "failed"}
    /\ held \in BOOLEAN

\* Whatever dies when, an empty registry is never initialised where one has
\* been before, be it a database, a restored backup or a legacy layout
\* (RegistryStore::exists, init_empty_registry).
NeverStartsOver == [][server = "commit" /\ server' = "snapshot" => ~held]_vars

\* Accepted mutations are never lost by a migration: a database whose history,
\* audit log or target versions fall short of its zone, or a backup of it,
\* exists only while the JSON files are still where the migration found them
\* (migrate_json_to_redb moves them last).
HistoryIsSomewhere ==
    \A file \in {db, backup} :
        Opens(file) => Complete(file) \/ LegacyExists

\* A restore that reports success left a database that verifies in full and
\* is no older than the backup, also when the server came up, accepted
\* mutations and went down again before the restore opened the file
\* (restore_registry).
RestoreTells ==
    [][said' = "restored" /\ said # "restored" =>
           /\ IsDatabase(db')
           /\ db'.kind = "sound"
           /\ db'.zone >= backup.zone]_vars
=============================================================================
