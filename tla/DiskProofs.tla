----------------------------- MODULE DiskProofs -----------------------------
(***************************************************************************)
(* What a node keeps on its disk.                                          *)
(*                                                                         *)
(* The registry directory of a root server: its history survives           *)
(* migrations, backups, restores and crashes between any two of their      *)
(* steps, an empty registry never replaces one, and a restore tells the    *)
(* truth, for any number of mutations.                                     *)
(*                                                                         *)
(* The block cache of a storage node: handlers never lose track of a file, *)
(* a crash forgets only unfinished puts, and the files stay within the     *)
(* cap, for any blocks, sizes, cap and number of handlers.                 *)
(***************************************************************************)
EXTENDS Lifecycle, ContentCache, FiniteSetTheorems, WellFoundedInduction, TLAPS

Whole(data) == Opens(data) => Complete(data)

\* No table runs ahead of the zone.
Bounded(data) ==
    IsDatabase(data) =>
        \A r \in Rows : data.rows[r] < data.zone \/ data.rows[r] = 0

FilesOK == TypeOK /\ Bounded(db) /\ Bounded(backup) /\ Bounded(copied)

\* How far the first boot is, and what no database file means.
ServerInv ==
    /\ server = "tables" => db = Torn /\ ~held
    /\ server = "commit" => db = Empty /\ ~held
    /\ server \in {"snapshot", "up"} => Opens(db)
    /\ db = NoFile => /\ server = "down" /\ moved = 0
                      /\ Whole(backup) /\ Whole(copied)
                      /\ held => json # NoFile

\* How far the import is: rows are complete in the order they are written.
ImportInv ==
    /\ command = "create" => LegacyExists
    /\ command \in Importing =>
           /\ server = "down" /\ json # NoFile
           /\ Whole(backup) /\ Whole(copied)
           /\ command # "move" => moved = 0
           /\ command = "tables" => db = Torn
           /\ command = "commit" => db = Empty
           /\ command \in Rows \cup {"move"} =>
                  IsDatabase(db) /\ db.zone = json.zone
           /\ command \in {"audit", "versions", "move"} =>
                  db.rows["mutations"] = db.zone - 1
           /\ command \in {"versions", "move"} => db.rows["audit"] = db.zone - 1
           /\ command = "move" => db.rows["versions"] = db.zone - 1

\* A database being restored is the backup, or has grown from it.
RestoreInv ==
    /\ command = "copyIn" => server = "down" /\ db = Torn /\ backup # NoFile
    /\ command \in {"open", "verify"} =>
           /\ server \in {"down", "up"} /\ db # NoFile
           /\ \/ db = backup
              \/ IsDatabase(db) /\ IsDatabase(backup) /\ db.zone >= backup.zone

\* Without the JSON files nothing falls short.
WholeInv == LegacyExists \/ (Whole(db) /\ Whole(backup) /\ Whole(copied))

LifeInv == FilesOK /\ ServerInv /\ ImportInv /\ RestoreInv /\ WholeInv

-----------------------------------------------------------------------------

LEMMA FilesDiffer ==
    /\ NoFile # Torn
    /\ \A data \in Database : IsDatabase(data)
    /\ Empty \in Database
    /\ \A v \in 1 .. MaxMutations + 1, k \in Kinds : Written(v, k) \in Database
  BY FilesAssumption, LifecycleAssumption
  DEF IsDatabase, Empty, Database, Written, Rows, Kinds

LEMMA CommittedIsDatabase ==
    ASSUME NEW data \in Database, Opens(data), Bounded(data),
           data.zone <= MaxMutations
    PROVE  /\ CommitMutation(data) \in Database
           /\ Bounded(CommitMutation(data))
           /\ Opens(CommitMutation(data))
           /\ Whole(data) => Whole(CommitMutation(data))
           /\ CommitMutation(data).zone = data.zone + 1
  <1>1. IsDatabase(data) /\ data.zone \in Nat /\ data.zone > 0 /\ data.kind # "foreign"
    BY LifecycleAssumption DEF Opens, Database
  <1>2. \A r \in Rows : /\ data.rows[r] \in Nat
                        /\ data.rows[r] < data.zone \/ data.rows[r] = 0
    BY <1>1, LifecycleAssumption DEF Database, Bounded
  <1>3. WithRecordTables(data.kind) \in Kinds \ {"foreign"}
    BY <1>1 DEF WithRecordTables, Database, Kinds
  <1>4. CommitMutation(data) \in Database
    BY <1>1, <1>2, <1>3, LifecycleAssumption DEF CommitMutation, Database
  <1>5. IsDatabase(CommitMutation(data))
    BY <1>4, FilesDiffer
  <1>6. /\ CommitMutation(data).zone = data.zone + 1
        /\ \A r \in Rows : CommitMutation(data).rows[r] = data.rows[r] + 1
        /\ CommitMutation(data).kind # "foreign"
    BY <1>3 DEF CommitMutation
  <1>7. Opens(CommitMutation(data))
    BY <1>1, <1>5, <1>6 DEF Opens
  <1>8. Whole(data) => Whole(CommitMutation(data))
    BY <1>1, <1>2, <1>6 DEF Whole, Opens, Complete
  <1>9. Bounded(CommitMutation(data))
    BY <1>1, <1>2, <1>6 DEF Bounded
  <1>. QED
    BY <1>4, <1>6, <1>7, <1>8, <1>9

LEMMA InitLife == Init => LifeInv
  <1> SUFFICES ASSUME Init PROVE LifeInv
    OBVIOUS
  <1>1. \A v \in 1 .. MaxMutations + 1, k \in Kinds :
            Whole(Written(v, k)) /\ Bounded(Written(v, k))
    BY LifecycleAssumption DEF Whole, Complete, Bounded, Written, Rows
  <1>2. /\ ~IsDatabase(NoFile) /\ ~IsDatabase(Torn)
        /\ Whole(NoFile) /\ Whole(Torn) /\ Bounded(NoFile) /\ Bounded(Torn)
    BY DEF IsDatabase, Whole, Opens, Bounded
  <1>3. Whole(Empty) /\ Bounded(Empty)
    BY DEF Whole, Opens, Bounded, Empty
  <1>4. /\ db \in DatabaseFile /\ Whole(db) /\ Bounded(db)
        /\ backup \in DatabaseFile /\ Whole(backup) /\ Bounded(backup)
        /\ copied \in DatabaseFile /\ Whole(copied) /\ Bounded(copied)
    BY <1>1, <1>2, <1>3, FilesDiffer DEF Init, DatabaseFile, Kinds
  <1>5. FilesOK
    BY <1>4 DEF Init, FilesOK, TypeOK, Commands
  <1>. QED
    BY <1>4, <1>5 DEF Init, LifeInv, ServerInv, ImportInv, RestoreInv, WholeInv,
       Importing

\* Facts the steps share: no file and a torn one are whole and bounded.
LEMMA NothingIsWhole ==
    /\ ~IsDatabase(NoFile) /\ ~IsDatabase(Torn) /\ ~Opens(NoFile) /\ ~Opens(Torn)
    /\ Whole(NoFile) /\ Whole(Torn) /\ Bounded(NoFile) /\ Bounded(Torn)
    /\ IsDatabase(Empty) /\ ~Opens(Empty) /\ Whole(Empty) /\ Bounded(Empty)
    /\ Empty \in DatabaseFile /\ NoFile \in DatabaseFile /\ Torn \in DatabaseFile
    /\ NoFile # Torn /\ NoFile # Empty /\ Torn # Empty
  <1>1. IsDatabase(Empty)
    BY FilesDiffer
  <1>. QED
    BY <1>1, FilesDiffer DEF IsDatabase, Whole, Opens, Bounded, Empty,
       DatabaseFile

LEMMA NextKeepsLife ==
    ASSUME LifeInv, [Next]_vars
    PROVE  LifeInv'
  <1> USE NothingIsWhole
  <1>1. CASE Boot
    BY <1>1 DEF Boot, LifeInv, FilesOK, TypeOK, ServerInv, ImportInv,
       RestoreInv, WholeInv, LegacyExists, Exists, Importing, Commands,
       CommandHolds, ServerHolds, Rows
  <1>2. CASE InitCreate
    BY <1>2 DEF InitCreate, LifeInv, FilesOK, TypeOK, ServerInv, ImportInv,
       RestoreInv, WholeInv, LegacyExists, Exists, Importing, Commands,
       CommandHolds, ServerHolds, Rows
  <1>3. CASE InitTables
    BY <1>3 DEF InitTables, LifeInv, FilesOK, TypeOK, ServerInv, ImportInv,
       RestoreInv, WholeInv, LegacyExists, Exists, Importing, Commands,
       CommandHolds, ServerHolds, Rows
  <1>4. CASE InitCommit
    <2>1. /\ db = Empty /\ db' = [Empty EXCEPT !.zone = 1]
          /\ server = "commit" /\ server' = "snapshot" /\ held' = TRUE
          /\ UNCHANGED << json, moved, backup, command, copied, said >>
      BY <1>4 DEF InitCommit, CommitInitial, LifeInv, ServerInv
    <2>2. db' = Written(1, "sound")
      BY <2>1 DEF Empty, Written
    <2>3. db' \in Database /\ IsDatabase(db') /\ db' # NoFile
      BY <2>2, FilesDiffer, LifecycleAssumption DEF Kinds, IsDatabase
    <2>4. Opens(db') /\ Whole(db') /\ Bounded(db')
      BY <2>2, <2>3 DEF Opens, Whole, Complete, Bounded, Written, Rows
    <2>5. FilesOK'
      BY <2>1, <2>3, <2>4 DEF LifeInv, FilesOK, TypeOK, DatabaseFile
    <2>6. command \notin Importing /\ command \notin {"copyIn", "open", "verify"}
      BY <2>1 DEF LifeInv, ImportInv, RestoreInv
    <2>7. ServerInv' /\ ImportInv' /\ RestoreInv' /\ WholeInv'
      BY <2>1, <2>3, <2>4, <2>6 DEF LifeInv, ServerInv, ImportInv, RestoreInv,
         WholeInv, LegacyExists
    <2>. QED
      BY <2>5, <2>7 DEF LifeInv
  <1>5. CASE InitSnapshot
    BY <1>5 DEF InitSnapshot, LifeInv, FilesOK, TypeOK, ServerInv,
       ImportInv, RestoreInv, WholeInv, LegacyExists, Exists, Importing,
       Commands, CommandHolds, ServerHolds, Rows
  <1>6. CASE Mutate
    <2>1. /\ db' = CommitMutation(db) /\ server = "up" /\ db.zone <= MaxMutations
          /\ UNCHANGED << json, moved, backup, server, command, copied, said, held >>
      BY <1>6 DEF Mutate
    <2>2. Opens(db) /\ db \in Database /\ Bounded(db)
      BY <2>1 DEF LifeInv, ServerInv, FilesOK, TypeOK, DatabaseFile, Opens,
         IsDatabase
    <2>3. /\ db' \in Database /\ Bounded(db') /\ Opens(db')
          /\ Whole(db) => Whole(db')
          /\ db'.zone = db.zone + 1
      BY <2>1, <2>2, CommittedIsDatabase
    <2>4. db' # NoFile /\ IsDatabase(db') /\ IsDatabase(db) /\ db.zone \in Nat
      BY <2>2, <2>3, FilesDiffer, LifecycleAssumption DEF IsDatabase, Database
    <2>5. FilesOK'
      BY <2>1, <2>3 DEF LifeInv, FilesOK, TypeOK, DatabaseFile
    <2>6. ServerInv' /\ ImportInv' /\ WholeInv'
      BY <2>1, <2>3, <2>4 DEF LifeInv, ServerInv, ImportInv, WholeInv,
         LegacyExists
    <2>7. IsDatabase(backup) => backup.zone \in Nat
      <3>1. IsDatabase(backup) => backup \in Database
        BY DEF LifeInv, FilesOK, TypeOK, DatabaseFile, IsDatabase
      <3>. QED
        BY <3>1, LifecycleAssumption DEF Database
    <2>8. RestoreInv'
      BY <2>1, <2>3, <2>4, <2>7 DEF LifeInv, RestoreInv
    <2>. QED
      BY <2>5, <2>6, <2>8 DEF LifeInv
  <1>7. CASE ServerStops
    <2>1. FilesOK'
      BY <1>7 DEF ServerStops, LifeInv, FilesOK, TypeOK, Commands, Importing
    <2>2. ServerInv'
      BY <1>7 DEF ServerStops, LifeInv, FilesOK, TypeOK, ServerInv, LegacyExists
    <2>3. ImportInv'
      BY <1>7 DEF ServerStops, LifeInv, ServerInv, ImportInv, Importing, Rows,
         LegacyExists
    <2>4. RestoreInv'
      BY <1>7 DEF ServerStops, LifeInv, RestoreInv, Importing, Rows
    <2>5. WholeInv'
      BY <1>7 DEF ServerStops, LifeInv, FilesOK, RestoreInv, WholeInv,
         LegacyExists
    <2>. QED
      BY <2>1, <2>2, <2>3, <2>4, <2>5 DEF LifeInv
  <1>8. CASE MigrateLoad
    BY <1>8 DEF MigrateLoad, LifeInv, FilesOK, TypeOK, ServerInv, ImportInv,
       RestoreInv, WholeInv, LegacyExists, Exists, Importing, Commands,
       CommandHolds, ServerHolds, Rows
  <1>9. CASE MigrateCreate
    <2>1. /\ command = "create" /\ command' = "tables" /\ db' = Torn
          /\ UNCHANGED << json, moved, backup, server, copied, said, held >>
      BY <1>9 DEF MigrateCreate
    <2>2. /\ server = "down" /\ json # NoFile /\ moved = 0
          /\ Whole(backup) /\ Whole(copied)
      <3>1. LegacyExists /\ db = NoFile
        BY <2>1, <1>9 DEF MigrateCreate, LifeInv, ImportInv
      <3>. QED
        BY <3>1 DEF LifeInv, ServerInv, LegacyExists
    <2>3. FilesOK'
      BY <2>1 DEF LifeInv, FilesOK, TypeOK, Commands, Importing
    <2>4. ServerInv' /\ RestoreInv' /\ WholeInv'
      BY <2>1, <2>2 DEF ServerInv, RestoreInv, WholeInv, LegacyExists
    <2>5. ImportInv'
      BY <2>1, <2>2 DEF ImportInv, Importing, Rows, LegacyExists
    <2>. QED
      BY <2>3, <2>4, <2>5 DEF LifeInv
  <1>10. CASE MigrateTables
    BY <1>10 DEF MigrateTables, LifeInv, FilesOK, TypeOK, ServerInv,
       ImportInv, RestoreInv, WholeInv, LegacyExists, Exists, Importing,
       Commands, CommandHolds, ServerHolds, Rows
  <1>11. CASE MigrateCommit
    <2>1. /\ db = Empty /\ db' = [Empty EXCEPT !.zone = json.zone]
          /\ json \in LegacyJson
          /\ command = "commit" /\ command' = "mutations" /\ server = "down"
          /\ UNCHANGED << json, moved, backup, server, copied, said, held >>
      BY <1>11 DEF MigrateCommit, CommitInitial, LifeInv, FilesOK, TypeOK,
         ImportInv, Importing
    <2>2. db' = [zone |-> json.zone, rows |-> [r \in Rows |-> 0], kind |-> "sound"]
      BY <2>1 DEF Empty
    <2>3. db' \in Database /\ db'.zone = json.zone
      <3>1. json.zone \in 0 .. MaxMutations + 1
        BY <2>1, LifecycleAssumption DEF LegacyJson
      <3>2. [r \in Rows |-> 0] \in [Rows -> 0 .. MaxMutations]
        BY LifecycleAssumption
      <3>. QED
        BY <2>2, <3>1, <3>2 DEF Database, Kinds
    <2>4. IsDatabase(db') /\ db' # NoFile /\ Bounded(db')
      BY <2>2, <2>3, FilesDiffer DEF Bounded, IsDatabase
    <2>5. FilesOK'
      BY <2>1, <2>3, <2>4 DEF LifeInv, FilesOK, TypeOK, Commands, Importing,
         DatabaseFile
    <2>6. ServerInv' /\ RestoreInv'
      BY <2>1, <2>4 DEF ServerInv, RestoreInv
    <2>7. ImportInv' /\ WholeInv'
      BY <2>1, <2>3, <2>4 DEF LifeInv, ImportInv, Importing, Rows, WholeInv,
         LegacyExists
    <2>. QED
      BY <2>5, <2>6, <2>7 DEF LifeInv
  <1>12. CASE MoveJson
    <2>1. /\ db' = db /\ json' = json /\ backup' = backup /\ server' = server
          /\ copied' = copied /\ held' = held /\ moved' \in 0 .. 3
          /\ command = "move" /\ command' \in {"idle", "move"}
      <3>1. moved' \in 0 .. 3
        <4>1. moved \in 0 .. 3
          BY DEF LifeInv, FilesOK, TypeOK
        <4>2. CASE moved < 3
          BY <1>12, <4>1, <4>2 DEF MoveJson
        <4>3. CASE ~(moved < 3)
          BY <1>12, <4>1, <4>3 DEF MoveJson
        <4>. QED
          BY <4>2, <4>3
      <3>. QED
        BY <1>12, <3>1 DEF MoveJson
    <2>2. FilesOK'
      BY <1>12, <2>1 DEF MoveJson, LifeInv, FilesOK, TypeOK, Commands, Importing
    <2>3. /\ IsDatabase(db) /\ Whole(db) /\ Whole(backup) /\ Whole(copied)
      BY <2>1 DEF LifeInv, ImportInv, Importing, Whole, Complete, Rows
    <2>4. db # NoFile
      BY <2>3 DEF IsDatabase
    <2>5. ServerInv' /\ RestoreInv' /\ WholeInv'
      BY <2>1, <2>3, <2>4 DEF LifeInv, ServerInv, RestoreInv, WholeInv
    <2>6. ImportInv'
      BY <2>1 DEF LifeInv, ImportInv, Importing, Rows
    <2>. QED
      BY <2>2, <2>5, <2>6 DEF LifeInv
  <1>13. CASE BackupBegins
    BY <1>13 DEF BackupBegins, LifeInv, FilesOK, TypeOK, ServerInv,
       ImportInv, RestoreInv, WholeInv, LegacyExists, Exists, Importing,
       Commands, CommandHolds, ServerHolds, Rows
  <1>14. CASE BackupCopies
    <2>1. FilesOK'
      BY <1>14 DEF BackupCopies, LifeInv, FilesOK, TypeOK, Commands, Importing
    <2>2. ServerInv'
      BY <1>14 DEF BackupCopies, LifeInv, FilesOK, TypeOK, ServerInv, LegacyExists
    <2>3. ImportInv'
      BY <1>14 DEF BackupCopies, LifeInv, ServerInv, ImportInv, Importing, Rows,
         LegacyExists
    <2>4. RestoreInv'
      BY <1>14 DEF BackupCopies, LifeInv, RestoreInv, Importing, Rows
    <2>5. WholeInv'
      BY <1>14 DEF BackupCopies, LifeInv, FilesOK, RestoreInv, WholeInv,
         LegacyExists
    <2>. QED
      BY <2>1, <2>2, <2>3, <2>4, <2>5 DEF LifeInv
  <1>15. CASE BackupChecks
    BY <1>15 DEF BackupChecks, LifeInv, FilesOK, TypeOK, ServerInv,
       ImportInv, RestoreInv, WholeInv, LegacyExists, Exists, Importing,
       Commands, CommandHolds, ServerHolds, Rows
  <1>16. CASE DiscardBackup
    BY <1>16 DEF DiscardBackup, LifeInv, FilesOK, TypeOK, ServerInv,
       ImportInv, RestoreInv, WholeInv, LegacyExists, Exists, Importing,
       Commands, CommandHolds, ServerHolds, Rows
  <1>17. CASE RestoreCopies
    BY <1>17 DEF RestoreCopies, LifeInv, FilesOK, TypeOK, ServerInv,
       ImportInv, RestoreInv, WholeInv, LegacyExists, Exists, Importing,
       Commands, CommandHolds, ServerHolds, Rows
  <1>18. CASE RestoreOpens
    BY <1>18 DEF RestoreOpens, LifeInv, FilesOK, TypeOK, ServerInv,
       ImportInv, RestoreInv, WholeInv, LegacyExists, Exists, Importing,
       Commands, CommandHolds, ServerHolds, Rows
  <1>19. CASE RestoreVerifies
    BY <1>19 DEF RestoreVerifies, LifeInv, FilesOK, TypeOK, ServerInv,
       ImportInv, RestoreInv, WholeInv, LegacyExists, Exists, Importing,
       Commands, CommandHolds, ServerHolds, Rows
  <1>20. CASE DbVerify
    BY <1>20 DEF DbVerify, LifeInv, FilesOK, TypeOK, ServerInv, ImportInv,
       RestoreInv, WholeInv, LegacyExists, Exists, Importing, Commands,
       CommandHolds, ServerHolds, Rows
  <1>21. CASE CommandDies
    BY <1>21 DEF CommandDies, LifeInv, FilesOK, TypeOK, ServerInv,
       ImportInv, RestoreInv, WholeInv, LegacyExists, Exists, Importing,
       Commands, CommandHolds, ServerHolds, Rows
  <1>30. ASSUME NEW r \in Rows, ImportRow(r) PROVE LifeInv'
    <2>1. /\ command = r /\ r \in Importing
          /\ UNCHANGED << json, moved, backup, server, copied, said, held >>
      BY <1>30 DEF ImportRow, Rows, Importing
    <2>2. /\ IsDatabase(db) /\ db \in Database /\ db.zone = json.zone
          /\ server = "down" /\ json # NoFile /\ moved = 0
          /\ json \in LegacyJson
      BY <1>30, <2>1 DEF LifeInv, ImportInv, Rows, FilesOK, TypeOK,
         DatabaseFile,
         IsDatabase
    <2>3. /\ db.zone \in 1 .. MaxMutations + 1 /\ db.rows \in [Rows -> Nat]
          /\ \A x \in Rows : db.rows[x] =< MaxMutations
      BY <2>2, LifecycleAssumption DEF Database, LegacyJson
    <2>4. CASE db.rows[r] < json.zone - 1
      <3>1. /\ db' = [db EXCEPT !.rows = [db.rows EXCEPT ![r] = db.rows[r] + 1]]
            /\ command' = command
        BY <1>30, <2>4 DEF ImportRow
      <3>2. /\ db'.zone = db.zone /\ db'.kind = db.kind
            /\ db'.rows = [db.rows EXCEPT ![r] = db.rows[r] + 1]
        BY <2>2, <3>1 DEF Database
      <3>3. db' \in Database
        BY <2>2, <2>3, <2>4, <3>1, <3>2, LifecycleAssumption DEF Database
      <3>4. IsDatabase(db') /\ db' # NoFile /\ Bounded(db')
        BY <2>2, <2>3, <2>4, <3>2, <3>3, FilesDiffer
        DEF Bounded, IsDatabase, LifeInv, FilesOK
      <3>5. FilesOK'
        BY <2>1, <3>1, <3>3, <3>4 DEF LifeInv, FilesOK, TypeOK, DatabaseFile
      <3>6. \A x \in Rows \ {r} : db'.rows[x] = db.rows[x]
        BY <2>3, <3>2
      <3>7. ImportInv'
        BY <2>1, <2>2, <3>1, <3>2, <3>4, <3>6 DEF LifeInv, ImportInv, Rows
      <3>8. ServerInv' /\ RestoreInv' /\ WholeInv'
        BY <2>1, <2>2, <3>1, <3>4 DEF LifeInv, ServerInv, RestoreInv, WholeInv,
           LegacyExists, Importing, Rows
      <3>. QED
        BY <3>5, <3>7, <3>8 DEF LifeInv
    <2>5. CASE ~(db.rows[r] < json.zone - 1)
      <3>1. db' = db /\ command' = AfterRows[r]
        BY <1>30, <2>5 DEF ImportRow
      <3>2. db.rows[r] = db.zone - 1
        BY <2>2, <2>3, <2>5 DEF LifeInv, FilesOK, Bounded
      <3>3. command' \in {"audit", "versions", "move"} /\ command' = AfterRows[r]
        BY <3>1 DEF AfterRows, Rows
      <3>4. FilesOK'
        BY <2>1, <3>1, <3>3 DEF LifeInv, FilesOK, TypeOK, Commands, Importing
      <3>5. ImportInv'
        BY <2>1, <2>2, <3>1, <3>2, <3>3 DEF LifeInv, ImportInv, Importing, Rows,
           AfterRows
      <3>6. ServerInv' /\ RestoreInv' /\ WholeInv'
        BY <2>1, <2>2, <3>1, <3>3 DEF LifeInv, ServerInv, RestoreInv, WholeInv,
           LegacyExists, IsDatabase
      <3>. QED
        BY <3>4, <3>5, <3>6 DEF LifeInv
    <2>. QED
      BY <2>4, <2>5
  <1>31. ASSUME NEW force \in BOOLEAN, RestoreBegins(force) PROVE LifeInv'
    BY <1>31 DEF RestoreBegins, LifeInv, FilesOK, TypeOK, ServerInv,
       ImportInv, RestoreInv, WholeInv, LegacyExists, Importing, Commands,
       Rows
  <1>32. CASE UNCHANGED vars
    <2>1. /\ db' = db /\ json' = json /\ moved' = moved /\ backup' = backup
          /\ server' = server /\ command' = command /\ copied' = copied
          /\ said' = said /\ held' = held
      BY <1>32 DEF vars
    <2>2. FilesOK' /\ ServerInv'
      BY <2>1 DEF LifeInv, FilesOK, TypeOK, ServerInv
    <2>3. ImportInv' /\ RestoreInv' /\ WholeInv'
      BY <2>1 DEF LifeInv, ImportInv, RestoreInv, WholeInv, LegacyExists
    <2>. QED
      BY <2>2, <2>3 DEF LifeInv
  <1>. QED
    BY <1>1, <1>2, <1>3, <1>4, <1>5, <1>6, <1>7, <1>8, <1>9, <1>10, <1>11,
       <1>12, <1>13, <1>14, <1>15, <1>16, <1>17, <1>18, <1>19, <1>20, <1>21,
       <1>30, <1>31, <1>32 DEF Next

\* The invariant holds in every state of the directory.
THEOREM LifeHolds == Spec => []LifeInv
  BY InitLife, NextKeepsLife, PTL DEF Spec

\* Whichever step of a migration, a backup or a restore a crash or a failure
\* comes after, accepted mutations are in the database, or in the JSON files
\* that are still where they were (migrate_json_to_redb, restore_registry).
THEOREM HistorySurvives == Spec => []HistoryIsSomewhere
  <1>1. LifeInv => HistoryIsSomewhere
    BY DEF LifeInv, WholeInv, Whole, HistoryIsSomewhere
  <1>. QED
    BY <1>1, LifeHolds, PTL

\* No empty registry is committed where one has been (init_empty_registry).
THEOREM StartsOnce == Spec => NeverStartsOver
  <1>1. LifeInv /\ [Next]_vars
        => [server = "commit" /\ server' = "snapshot" => ~held]_vars
    BY DEF LifeInv, ServerInv
  <1>. QED
    BY <1>1, LifeHolds, PTL DEF Spec, NeverStartsOver

\* A restore that reports success left a sound database no older than the
\* backup (restore_registry).
THEOREM RestoreIsHonest == Spec => RestoreTells
  <1>1. ASSUME LifeInv, [Next]_vars, said' = "restored", said # "restored"
        PROVE  /\ IsDatabase(db') /\ db'.kind = "sound"
               /\ db'.zone >= backup.zone
    <2>1. RestoreVerifies
      BY <1>1 DEF Next, Boot, InitCreate, InitTables, InitCommit, InitSnapshot,
         Mutate, ServerStops, MigrateLoad, MigrateCreate, MigrateTables,
         MigrateCommit, ImportRow, MoveJson, BackupBegins, BackupCopies,
         BackupChecks, DiscardBackup, RestoreBegins, RestoreCopies, RestoreOpens,
         DbVerify, CommandDies, vars
    <2>2. command = "verify" /\ Verified(db) /\ db' = db
      BY <1>1, <2>1 DEF RestoreVerifies
    <2>3. IsDatabase(db) /\ db.kind \notin {"foreign", "badAudit", "badTables"}
      BY <2>2 DEF Verified, Opens, AuditVerifies, TablesMirror
    <2>4. db \in Database
      BY <1>1, <2>3 DEF LifeInv, FilesOK, TypeOK, DatabaseFile, IsDatabase
    <2>5. db.kind = "sound" /\ db.zone \in Nat
      BY <2>3, <2>4, LifecycleAssumption DEF Database, Kinds
    <2>6. db = backup \/ db.zone >= backup.zone
      BY <1>1, <2>2 DEF LifeInv, RestoreInv
    <2>. QED
      BY <2>2, <2>3, <2>5, <2>6
  <1>2. LifeInv /\ [Next]_vars
        => [said' = "restored" /\ said # "restored" =>
              /\ IsDatabase(db')
              /\ db'.kind = "sound"
              /\ db'.zone >= backup.zone]_vars
    BY <1>1
  <1>. QED
    BY <1>2, LifeHolds, PTL DEF Spec, RestoreTells

-----------------------------------------------------------------------------
(***************************************************************************)
(* The block cache.  The inductive invariant adds three facts: the block   *)
(* of the put that holds the mutex is in the index, so that the saved      *)
(* index will name it; the saved index tracks files as the index does; and *)
(* what it names fits the cap.                                             *)
(***************************************************************************)

RecordedIsIndexed ==
    \A t \in Threads : req[t].step = "evict" => req[t].block \in DOMAIN index

FilesAreSaved ==
    \A b \in Present \ stray : b \in DOMAIN saved \/ InPut(b)

\* The saved index was within the cap, or left of one block alone.
SavedFits ==
    Bytes(DOMAIN saved) <= Cap \/ \E b \in Blocks : DOMAIN saved \subseteq {b}

CacheInv ==
    /\ CacheTypeOK
    /\ RecordedIsIndexed
    /\ FilesAreIndexed
    /\ FilesAreSaved
    /\ SavedFits

-----------------------------------------------------------------------------
(***************************************************************************)
(* The bytes of a set of blocks.  Induction over finite sets is by a       *)
(* smallest counterexample.                                                *)
(***************************************************************************)

\* A set of sets of blocks has a smallest one: what induction rests on.
LEMMA SmallestSet ==
    ASSUME NEW T \in SUBSET (SUBSET Blocks), T # {}
    PROVE  \E S \in T : \A R \in T : R \subseteq S => R = S
  <1>0. IsFiniteSet(Blocks)
    BY ContentCacheAssumption
  <1>1. IsWellFoundedOn(StrictSubsetOrdering(Blocks), SUBSET Blocks)
    <2>1. IsWellFoundedOn(StrictSubsetOrdering(Blocks), FiniteSubsetsOf(Blocks))
      BY FS_StrictSubsetOrderingWellFounded
    <2>2. FiniteSubsetsOf(Blocks) = SUBSET Blocks
      BY <1>0, FS_FiniteSubsetsOfFinite
    <2>. QED
      BY <2>1, <2>2
  <1>2. PICK S \in T : \A R \in T : <<R, S>> \notin StrictSubsetOrdering(Blocks)
    BY <1>1, WFMin
  <1>. QED
    BY <1>2 DEF StrictSubsetOrdering

Pick(S) == CHOOSE b \in S : TRUE

\* f adds up the sizes of every part of S, taking one block at a time.
AddsUp(f, S) ==
    f = [s \in SUBSET S |->
            IF s = {} THEN 0 ELSE Size[Pick(s)] + f[s \ {Pick(s)}]]

\* Bytes is computed by the function that adds up its set.
LEMMA BytesAddUp ==
    \A S : Bytes(S) = (CHOOSE f : AddsUp(f, S))[S]
  BY DEF Bytes, MapThenSumSet, MapThenFoldSet, AddsUp, Pick

\* Only one function adds up a set.
LEMMA OneSum ==
    ASSUME NEW S \in SUBSET Blocks, NEW f, NEW g, AddsUp(f, S), AddsUp(g, S)
    PROVE  f = g
  <1>. DEFINE Bad == {s \in SUBSET S : f[s] # g[s]}
  <1>0. Bad \in SUBSET (SUBSET Blocks)
    OBVIOUS
  <1>. HIDE DEF Bad
  <1>1. ASSUME Bad # {} PROVE FALSE
    <2>1. PICK s \in Bad : \A r \in Bad : r \subseteq s => r = s
      BY <1>0, <1>1, SmallestSet
    <2>. USE DEF Bad
    <2>2. CASE s = {}
      BY <2>2 DEF AddsUp
    <2>3. CASE s # {}
      <3>1. Pick(s) \in s
        BY <2>3 DEF Pick
      <3>2. f[s \ {Pick(s)}] = g[s \ {Pick(s)}]
        BY <2>1, <3>1
      <3>3. /\ f[s] = Size[Pick(s)] + f[s \ {Pick(s)}]
            /\ g[s] = Size[Pick(s)] + g[s \ {Pick(s)}]
        BY <2>3 DEF AddsUp
      <3>. QED
        BY <3>2, <3>3
    <2>. QED
      BY <2>2, <2>3
  <1>2. f = [s \in SUBSET S |-> f[s]] /\ g = [s \in SUBSET S |-> g[s]]
    BY DEF AddsUp
  <1>. QED
    BY <1>1, <1>2 DEF Bad

\* What adds up a set adds up its parts.
LEMMA PartAddsUp ==
    ASSUME NEW S, NEW R \in SUBSET S, NEW f, AddsUp(f, S)
    PROVE  AddsUp([s \in SUBSET R |-> f[s]], R)
  <1>. DEFINE g == [s \in SUBSET R |-> f[s]]
  <1>1. ASSUME NEW s \in SUBSET R
        PROVE  g[s] = IF s = {} THEN 0 ELSE Size[Pick(s)] + g[s \ {Pick(s)}]
    <2>1. s \in SUBSET S /\ s \ {Pick(s)} \in SUBSET R
      OBVIOUS
    <2>2. f[s] = IF s = {} THEN 0 ELSE Size[Pick(s)] + f[s \ {Pick(s)}]
      BY <2>1 DEF AddsUp
    <2>. QED
      BY <2>1, <2>2
  <1>. QED
    BY <1>1 DEF AddsUp

\* Every set of blocks has a function that adds it up.
LEMMA SumExists ==
    ASSUME NEW S \in SUBSET Blocks
    PROVE  \E f : AddsUp(f, S)
  <1>. DEFINE Bad == {s \in SUBSET Blocks : ~ \E f : AddsUp(f, s)}
  <1>0. Bad \in SUBSET (SUBSET Blocks)
    OBVIOUS
  <1>. HIDE DEF Bad
  <1>1. ASSUME Bad # {} PROVE FALSE
    <2>1. PICK R \in Bad : \A r \in Bad : r \subseteq R => r = R
      BY <1>0, <1>1, SmallestSet
    <2>. USE DEF Bad
    <2>. DEFINE Of(s) == (CHOOSE f : AddsUp(f, s))[s]
                G == [s \in SUBSET R |->
                         IF s = {} THEN 0 ELSE Size[Pick(s)] + Of(s \ {Pick(s)})]
    <2>2. ASSUME NEW s \in SUBSET R, s # R PROVE G[s] = Of(s)
      <3>1. PICK f : AddsUp(f, s) /\ f = CHOOSE h : AddsUp(h, s)
        BY <2>1, <2>2
      <3>2. CASE s = {}
        BY <3>1, <3>2 DEF AddsUp
      <3>3. CASE s # {}
        <4>. DEFINE r == s \ {Pick(s)}
        <4>1. Pick(s) \in s /\ r \in SUBSET s /\ r \in SUBSET Blocks
          BY <2>1, <3>3 DEF Pick
        <4>2. AddsUp([x \in SUBSET r |-> f[x]], r)
          <5>1. r \in SUBSET s /\ AddsUp(f, s)
            BY <3>1, <4>1
          <5>. HIDE DEF r, Of, G
          <5>. QED
            BY <5>1, PartAddsUp
        <4>3. AddsUp(CHOOSE h : AddsUp(h, r), r)
          BY <4>2
        <4>4. (CHOOSE h : AddsUp(h, r)) = [x \in SUBSET r |-> f[x]]
          BY <4>1, <4>2, <4>3, OneSum
        <4>5. Of(r) = f[r]
          BY <4>4
        <4>6. f[s] = Size[Pick(s)] + f[r]
          BY <3>1, <3>3 DEF AddsUp
        <4>7. Of(s) = f[s]
          BY <3>1
        <4>8. G[s] = Size[Pick(s)] + Of(r)
          BY <3>3
        <4>. QED
          BY <4>5, <4>6, <4>7, <4>8
      <3>. QED
        BY <3>2, <3>3
    <2>3. ASSUME NEW s \in SUBSET R, s # {}
          PROVE  G[s] = Size[Pick(s)] + G[s \ {Pick(s)}]
      <3>1. Pick(s) \in s
        BY <2>3 DEF Pick
      <3>2. s \ {Pick(s)} \in SUBSET R /\ s \ {Pick(s)} # R
        BY <3>1
      <3>3. G[s \ {Pick(s)}] = Of(s \ {Pick(s)})
        BY <2>2, <3>2
      <3>. QED
        BY <2>3, <3>3
    <2>4. G[{}] = 0
      OBVIOUS
    <2>5. G = [s \in SUBSET R |-> G[s]]
      OBVIOUS
    <2>. HIDE DEF G
    <2>6. AddsUp(G, R)
      BY <2>3, <2>4, <2>5 DEF AddsUp
    <2>. QED
      BY <2>1, <2>6
  <1>. QED
    BY <1>1 DEF Bad

\* The bytes of no blocks, and of some, whatever block is taken first.
LEMMA BytesOfSome ==
    /\ Bytes({}) = 0
    /\ \A S \in SUBSET Blocks : S # {} =>
          /\ Pick(S) \in S
          /\ Bytes(S) = Size[Pick(S)] + Bytes(S \ {Pick(S)})
  <1>. DEFINE F(S) == CHOOSE f : AddsUp(f, S)
  <1>1. ASSUME NEW S \in SUBSET Blocks
        PROVE  AddsUp(F(S), S) /\ Bytes(S) = F(S)[S]
    BY SumExists, BytesAddUp
  <1>2. Bytes({}) = 0
    BY <1>1 DEF AddsUp
  <1>3. ASSUME NEW S \in SUBSET Blocks, S # {}
        PROVE  /\ Pick(S) \in S
               /\ Bytes(S) = Size[Pick(S)] + Bytes(S \ {Pick(S)})
    <2>. DEFINE R == S \ {Pick(S)}
    <2>1. Pick(S) \in S /\ R \in SUBSET S /\ R \in SUBSET Blocks
      BY <1>3 DEF Pick
    <2>2. AddsUp([s \in SUBSET R |-> F(S)[s]], R)
      <3>. HIDE DEF R, F
      <3>. QED
        BY <1>1, <2>1, PartAddsUp
    <2>3. F(R) = [s \in SUBSET R |-> F(S)[s]]
      BY <1>1, <2>1, <2>2, OneSum
    <2>4. Bytes(R) = F(S)[R]
      BY <1>1, <2>1, <2>3
    <2>5. F(S)[S] = Size[Pick(S)] + F(S)[R]
      <3>1. PICK f : f = F(S) /\ AddsUp(f, S)
        BY <1>1
      <3>. HIDE DEF F
      <3>. QED
        BY <1>3, <3>1 DEF AddsUp
    <2>. QED
      BY <1>1, <2>1, <2>4, <2>5
  <1>. QED
    BY <1>2, <1>3

\* A number of bytes.
LEMMA BytesIsNat ==
    ASSUME NEW S \in SUBSET Blocks
    PROVE  Bytes(S) \in Nat
  <1>. DEFINE Bad == {s \in SUBSET Blocks : Bytes(s) \notin Nat}
  <1>0. Bad \in SUBSET (SUBSET Blocks)
    OBVIOUS
  <1>. HIDE DEF Bad
  <1>1. ASSUME Bad # {} PROVE FALSE
    <2>1. PICK R \in Bad : \A r \in Bad : r \subseteq R => r = R
      BY <1>0, <1>1, SmallestSet
    <2>. USE DEF Bad
    <2>2. R # {}
      <3>1. Bytes({}) \in Nat
        BY BytesOfSome
      <3>. QED
        BY <2>1, <3>1
    <2>3. Pick(R) \in R /\ Bytes(R) = Size[Pick(R)] + Bytes(R \ {Pick(R)})
      BY <2>1, <2>2, BytesOfSome
    <2>4. Bytes(R \ {Pick(R)}) \in Nat
      BY <2>1, <2>3
    <2>5. Size[Pick(R)] \in Nat
      BY <2>1, <2>3, ContentCacheAssumption
    <2>. QED
      BY <2>1, <2>3, <2>4, <2>5
  <1>. QED
    BY <1>1 DEF Bad

\* Any block may be taken first.
LEMMA BytesWithout ==
    ASSUME NEW S \in SUBSET Blocks, NEW b \in S
    PROVE  Bytes(S) = Bytes(S \ {b}) + Size[b]
  <1>. DEFINE Bad == {s \in SUBSET Blocks :
                        \E x \in s : Bytes(s) # Bytes(s \ {x}) + Size[x]}
  <1>0. Bad \in SUBSET (SUBSET Blocks)
    OBVIOUS
  <1>. HIDE DEF Bad
  <1>1. ASSUME Bad # {} PROVE FALSE
    <2>1. PICK R \in Bad : \A r \in Bad : r \subseteq R => r = R
      BY <1>0, <1>1, SmallestSet
    <2>. USE DEF Bad
    <2>2. PICK x \in R : Bytes(R) # Bytes(R \ {x}) + Size[x]
      BY <2>1
    <2>. DEFINE y == Pick(R)
    <2>3. y \in R /\ Bytes(R) = Size[y] + Bytes(R \ {y})
      BY <2>1, <2>2, BytesOfSome
    <2>4. Size[x] \in Nat /\ Size[y] \in Nat
      BY <2>1, <2>2, <2>3, ContentCacheAssumption
    <2>5. /\ Bytes(R \ {x}) \in Nat /\ Bytes(R \ {y}) \in Nat
          /\ Bytes((R \ {y}) \ {x}) \in Nat
      BY <2>1, BytesIsNat
    <2>. HIDE DEF y
    <2>6. x # y
      BY <2>2, <2>3, <2>4, <2>5
    <2>7. R \ {y} \notin Bad /\ R \ {x} \notin Bad
      BY <2>1, <2>2, <2>3
    <2>8. Bytes(R \ {y}) = Bytes((R \ {y}) \ {x}) + Size[x]
      BY <2>1, <2>2, <2>6, <2>7
    <2>9. Bytes(R \ {x}) = Bytes((R \ {x}) \ {y}) + Size[y]
      BY <2>1, <2>3, <2>6, <2>7
    <2>10. (R \ {x}) \ {y} = (R \ {y}) \ {x}
      OBVIOUS
    <2>. QED
      BY <2>2, <2>3, <2>4, <2>5, <2>8, <2>9, <2>10
  <1>. QED
    BY <1>1 DEF Bad

\* Fewer blocks have no more bytes.
LEMMA FewerBytes ==
    ASSUME NEW S \in SUBSET Blocks, NEW R \in SUBSET S
    PROVE  Bytes(R) =< Bytes(S)
  <1>. DEFINE Bad == {s \in SUBSET Blocks :
                        \E r \in SUBSET s : ~(Bytes(r) =< Bytes(s))}
  <1>0. Bad \in SUBSET (SUBSET Blocks)
    OBVIOUS
  <1>. HIDE DEF Bad
  <1>1. ASSUME Bad # {} PROVE FALSE
    <2>1. PICK s \in Bad : \A r \in Bad : r \subseteq s => r = s
      BY <1>0, <1>1, SmallestSet
    <2>. USE DEF Bad
    <2>2. PICK r \in SUBSET s : ~(Bytes(r) =< Bytes(s))
      BY <2>1
    <2>3. Bytes(r) \in Nat /\ Bytes(s) \in Nat
      BY <2>1, BytesIsNat
    <2>4. PICK x \in s : x \notin r
      BY <2>2, <2>3
    <2>5. r \in SUBSET (s \ {x}) /\ s \ {x} \notin Bad
      BY <2>1, <2>4
    <2>6. Bytes(r) =< Bytes(s \ {x}) /\ Bytes(s \ {x}) \in Nat
      BY <2>1, <2>5, BytesIsNat
    <2>7. Bytes(s) = Bytes(s \ {x}) + Size[x] /\ Size[x] \in Nat
      BY <2>1, <2>4, BytesWithout, ContentCacheAssumption
    <2>. QED
      BY <2>2, <2>3, <2>6, <2>7
  <1>. QED
    BY <1>1 DEF Bad

\* A handler that keeps its block and stays in its put keeps the block in a put.
LEMMA PutGoesOn ==
    ASSUME NEW b \in Blocks, InPut(b),
           \A t \in Threads :
               req[t].block = b /\ req[t].step \in {"write", "unlinked", "index", "evict"}
                   => /\ req'[t].block = b
                      /\ req'[t].step \in {"write", "unlinked", "index", "evict"}
    PROVE  InPut(b)'
  BY DEF InPut

\* CdnCache::new on an empty directory.
LEMMA InitCacheInv == InitCache => CacheInv
  <1> SUFFICES ASSUME InitCache PROVE CacheInv
    OBVIOUS
  <1> USE DEF InitCache
  <1>1. Present = {}
    BY DEF Present
  <1>2. index \in Indexes
    BY DEF Indexes, Times
  <1>3. req \in [Threads -> Requests]
    <2>1. (CHOOSE b \in Blocks : TRUE) \in Blocks
      BY ContentCacheAssumption
    <2>. QED
      BY <2>1 DEF Requests, Steps
  <1>4. CacheTypeOK
    BY <1>2, <1>3, ContentCacheAssumption DEF CacheTypeOK, Times
  <1>5. SavedFits
    BY ContentCacheAssumption DEF SavedFits
  <1>. QED
    BY <1>1, <1>4, <1>5
    DEF CacheInv, RecordedIsIndexed, FilesAreIndexed, FilesAreSaved

\* The parts of CacheTypeOK every step needs, without the set of all indexes.
LEMMA IndexDomain ==
    ASSUME NEW i \in Indexes
    PROVE  /\ DOMAIN i \subseteq Blocks
           /\ i \in [DOMAIN i -> Times]
  BY DEF Indexes

LEMMA UsedIsIndex ==
    ASSUME NEW i \in Indexes, NEW b \in Blocks, NEW now \in Times
    PROVE  /\ Used(i, b, now) \in Indexes
           /\ DOMAIN Used(i, b, now) = DOMAIN i \cup {b}
  <1>1. DOMAIN i \cup {b} \in SUBSET Blocks
    BY IndexDomain
  <1>2. Used(i, b, now) \in [DOMAIN i \cup {b} -> Times]
    BY IndexDomain DEF Used
  <1>. QED
    BY <1>1, <1>2 DEF Indexes

LEMMA WithoutIsIndex ==
    ASSUME NEW i \in Indexes, NEW b \in Blocks
    PROVE  /\ Without(i, b) \in Indexes
           /\ DOMAIN Without(i, b) = DOMAIN i \ {b}
  <1>1. DOMAIN i \ {b} \in SUBSET Blocks
    BY IndexDomain
  <1>2. Without(i, b) \in [DOMAIN i \ {b} -> Times]
    BY IndexDomain DEF Without
  <1>. QED
    BY <1>1, <1>2 DEF Indexes

LEMMA CacheTypeStep ==
    ASSUME CacheTypeOK, [NextCache]_cacheVars
    PROVE  CacheTypeOK'
  <1> USE DEF CacheTypeOK, Requests, Steps
  <1>1. ASSUME NEW t \in Threads, NEW b \in Blocks, Ask(t, b)
        PROVE  CacheTypeOK'
    BY <1>1 DEF Ask
  <1>2. ASSUME NEW t \in Threads, Touch(t)
        PROVE  CacheTypeOK'
    BY <1>2, UsedIsIndex, ContentCacheAssumption DEF Touch, Goto
  <1>3. ASSUME NEW t \in Threads, FetchFails(t)
        PROVE  CacheTypeOK'
    BY <1>3 DEF FetchFails, Goto
  <1>4. ASSUME NEW t \in Threads, PutOpens(t)
        PROVE  CacheTypeOK'
    BY <1>4 DEF PutOpens, Goto
  <1>5. ASSUME NEW t \in Threads, PutWrites(t)
        PROVE  CacheTypeOK'
    BY <1>5 DEF PutWrites, Goto
  <1>6. ASSUME NEW t \in Threads, PutFails(t)
        PROVE  CacheTypeOK'
    BY <1>6 DEF PutFails, Goto
  <1>7. ASSUME NEW t \in Threads, PutRecords(t)
        PROVE  CacheTypeOK'
    BY <1>7, UsedIsIndex, ContentCacheAssumption DEF PutRecords, Goto
  <1>8. ASSUME NEW t \in Threads, Evict(t)
        PROVE  CacheTypeOK'
    <2>1. PICK b \in Blocks :
              /\ index' = Without(index, b)
              /\ \/ /\ file' = [file EXCEPT ![b] = "none"]
                    /\ stray' = stray \ {b}
                    /\ req' = Unlinks(b)
                 \/ /\ stray' = stray \cup ({b} \cap Present)
                    /\ UNCHANGED << file, req >>
      BY <1>8, IndexDomain DEF Evict, Oldest, Others
    <2>2. Unlinks(b) \in [Threads -> Requests]
      BY DEF Unlinks
    <2>3. \A u \in Threads : Unlinks(b)[u].step = "evict" <=> req[u].step = "evict"
      BY DEF Unlinks
    <2>4. UNCHANGED << saved, lock, clock >>
      BY <1>8 DEF Evict
    <2>5. index' \in Indexes
      BY <2>1, WithoutIsIndex
    <2>6. /\ file' \in [Blocks -> {"none", "torn", "whole"}]
          /\ stray' \subseteq Blocks
          /\ req' \in [Threads -> Requests]
          /\ \A u \in Threads : req'[u].step = "evict" <=> req[u].step = "evict"
      BY <2>1, <2>2, <2>3
    <2>. QED
      BY <2>4, <2>5, <2>6
  <1>9. ASSUME NEW t \in Threads, PutSaves(t)
        PROVE  CacheTypeOK'
    BY <1>9, ContentCacheAssumption DEF PutSaves, Goto
  <1>10. ASSUME NEW b \in Blocks, Install(b)
         PROVE  CacheTypeOK'
    BY <1>10 DEF Install
  <1>11. ASSUME Restart
         PROVE  CacheTypeOK'
    BY <1>11, ContentCacheAssumption DEF Restart, Present
  <1>12. ASSUME Tick
         PROVE  CacheTypeOK'
    BY <1>12, ContentCacheAssumption DEF Tick, Times
  <1>13. ASSUME UNCHANGED cacheVars
         PROVE  CacheTypeOK'
    BY <1>13 DEF cacheVars
  <1>. QED
    BY <1>1, <1>2, <1>3, <1>4, <1>5, <1>6, <1>7, <1>8, <1>9, <1>10, <1>11,
       <1>12, <1>13 DEF NextCache

\* A put saves the index when it need not evict any more.
LEMMA SavedFitsStep ==
    ASSUME CacheTypeOK, SavedFits, [NextCache]_cacheVars
    PROVE  SavedFits'
  <1>1. ASSUME NEW t \in Threads, PutSaves(t)
        PROVE  SavedFits'
    <2>1. saved' = index /\ ~MustEvict(t)
      BY <1>1 DEF PutSaves
    <2>2. CASE Bytes(DOMAIN index) > Cap
      <3>1. DOMAIN index \subseteq {req[t].block} /\ req[t].block \in Blocks
        BY <2>1, <2>2 DEF MustEvict, Others, CacheTypeOK, Requests
      <3>. QED
        BY <2>1, <3>1 DEF SavedFits
    <2>3. CASE ~(Bytes(DOMAIN index) > Cap)
      <3>1. Bytes(DOMAIN index) \in Nat
        BY IndexDomain, BytesIsNat DEF CacheTypeOK
      <3>2. Bytes(DOMAIN index) <= Cap
        BY <2>3, <3>1, ContentCacheAssumption
      <3>. QED
        BY <2>1, <3>2 DEF SavedFits
    <2>. QED
      BY <2>2, <2>3
  <1>2. CASE saved' = saved
    BY <1>2 DEF SavedFits
  <1>3. \/ \E t \in Threads : PutSaves(t)
        \/ saved' = saved
    BY DEF NextCache, cacheVars, Ask, Touch, FetchFails, PutOpens, PutWrites,
       PutFails, PutRecords, Evict, Install, Restart, Tick
  <1>. QED
    BY <1>1, <1>2, <1>3

\* RecordedIsIndexed, FilesAreIndexed and FilesAreSaved are kept together: put
\* saves the index before it lets go of its block, and what an eviction takes
\* out of the index it takes off the disk, or loses as a stray.
LEMMA CacheInvStep ==
    ASSUME CacheInv, [NextCache]_cacheVars
    PROVE  CacheInv'
  <1>t. CacheTypeOK /\ CacheTypeOK'
    BY CacheTypeStep DEF CacheInv
  <1>i. RecordedIsIndexed /\ FilesAreIndexed /\ FilesAreSaved
    BY DEF CacheInv
  <1> DEFINE Tracking == RecordedIsIndexed /\ FilesAreIndexed /\ FilesAreSaved
  <1> USE DEF RecordedIsIndexed, FilesAreIndexed, FilesAreSaved, Present, InPut,
              Goto
  <1>1. ASSUME NEW t \in Threads, NEW b \in Blocks, Ask(t, b)
        PROVE  Tracking'
    BY <1>1, <1>t, <1>i DEF Ask, CacheTypeOK, Requests
  <1>2. ASSUME NEW t \in Threads, Touch(t)
        PROVE  Tracking'
    <2>1. DOMAIN index' = DOMAIN index \cup {req[t].block}
      BY <1>2 DEF Touch, Used
    <2>. QED
      BY <1>2, <1>t, <1>i, <2>1 DEF Touch, CacheTypeOK, Requests
  <1>3. ASSUME NEW t \in Threads, FetchFails(t)
        PROVE  Tracking'
    BY <1>3, <1>t, <1>i DEF FetchFails, CacheTypeOK, Requests
  <1>4. ASSUME NEW t \in Threads, PutOpens(t)
        PROVE  Tracking'
    BY <1>4, <1>t, <1>i DEF PutOpens, CacheTypeOK, Requests
  <1>5. ASSUME NEW t \in Threads, PutWrites(t)
        PROVE  Tracking'
    BY <1>5, <1>t, <1>i DEF PutWrites, CacheTypeOK, Requests
  <1>6. ASSUME NEW t \in Threads, PutFails(t)
        PROVE  Tracking'
    BY <1>6, <1>t, <1>i DEF PutFails, CacheTypeOK, Requests
  <1>7. ASSUME NEW t \in Threads, PutRecords(t)
        PROVE  Tracking'
    <2>1. DOMAIN index' = DOMAIN index \cup {req[t].block}
      BY <1>7 DEF PutRecords, Used
    <2>. QED
      BY <1>7, <1>t, <1>i, <2>1 DEF PutRecords, CacheTypeOK, Requests
  <1>8. ASSUME NEW t \in Threads, Evict(t)
        PROVE  Tracking'
    <2>1. PICK b \in Others(t) :
              /\ index' = Without(index, b)
              /\ \/ /\ file' = [file EXCEPT ![b] = "none"]
                    /\ stray' = stray \ {b}
                    /\ req' = Unlinks(b)
                 \/ /\ stray' = stray \cup ({b} \cap Present)
                    /\ UNCHANGED << file, req >>
      BY <1>8 DEF Evict, Oldest
    <2>2. saved' = saved /\ lock = t /\ DOMAIN index' = DOMAIN index \ {b}
      BY <1>8, <2>1 DEF Evict, Without
    <2>3. b \in Blocks /\ b # req[t].block
      BY <2>1, <1>t, IndexDomain DEF Others, CacheTypeOK
    <2>4. /\ \A u \in Threads : /\ req'[u].block = req[u].block
                                /\ req'[u].step = "evict" <=> req[u].step = "evict"
          /\ \A c \in Blocks : InPut(c)' <=> InPut(c)
      BY <2>1, <1>t DEF Unlinks, CacheTypeOK, Requests
    <2>5. Present' \ stray' \subseteq (Present \ stray) \ {b}
      BY <2>1, <2>3, <1>t DEF CacheTypeOK
    <2>6. RecordedIsIndexed'
      BY <2>2, <2>3, <2>4, <1>t, <1>i DEF CacheTypeOK
    <2>. QED
      BY <2>2, <2>4, <2>5, <2>6, <1>i
  <1>9. ASSUME NEW t \in Threads, PutSaves(t)
        PROVE  Tracking'
    <2>1. req[t].block \in DOMAIN index /\ req[t].step = "evict"
      BY <1>9, <1>t, <1>i DEF PutSaves, CacheTypeOK
    <2>2. \A b \in Blocks : b # req[t].block => (InPut(b) => InPut(b)')
      BY <1>9, <1>t DEF PutSaves, CacheTypeOK
    <2>. QED
      BY <1>9, <1>t, <1>i, <2>1, <2>2 DEF PutSaves, CacheTypeOK, Requests
  <1>10. ASSUME NEW b \in Blocks, Install(b)
         PROVE  Tracking'
    BY <1>10, <1>t, <1>i DEF Install, CacheTypeOK
  <1>11. ASSUME Restart
         PROVE  Tracking'
    BY <1>11, <1>t DEF Restart, CacheTypeOK, Requests
  <1>12. ASSUME Tick \/ UNCHANGED cacheVars
         PROVE  Tracking'
    BY <1>12, <1>i DEF Tick, cacheVars
  <1>13. SavedFits'
    BY <1>t, SavedFitsStep DEF CacheInv
  <1>. QED
    BY <1>t, <1>1, <1>2, <1>3, <1>4, <1>5, <1>6, <1>7, <1>8, <1>9, <1>10,
       <1>11, <1>12, <1>13 DEF NextCache, CacheInv

\* CdnCache::get and put never leave a file on disk that is in neither the
\* index nor a put under way, whatever handlers overlap.
THEOREM FilesTracked == SpecCache => []FilesAreIndexed
  <1>1. InitCache => CacheInv
    BY InitCacheInv
  <1>2. CacheInv /\ [NextCache]_cacheVars => CacheInv'
    BY CacheInvStep
  <1>3. CacheInv => FilesAreIndexed
    BY DEF CacheInv
  <1>. QED
    BY <1>1, <1>2, <1>3, PTL DEF SpecCache

\* A restart of CdnCache::new loses track only of blocks whose put was not
\* over.
THEOREM OnlyPutsForgotten == SpecCache => CrashForgetsOnlyPuts
  <1>1. InitCache => CacheInv
    BY InitCacheInv
  <1>2. CacheInv /\ [NextCache]_cacheVars => CacheInv'
    BY CacheInvStep
  <1>3. CacheInv /\ [NextCache]_cacheVars =>
            [Restart => \A b \in stray' \ stray : InPut(b)]_cacheVars
    <2> SUFFICES ASSUME CacheInv, Restart, NEW b \in stray' \ stray
                 PROVE  InPut(b)
      OBVIOUS
    <2>. QED
      BY DEF CacheInv, FilesAreSaved, Restart
  <1>. QED
    BY <1>1, <1>2, <1>3, PTL DEF SpecCache, CrashForgetsOnlyPuts
\* The tracked files whose puts are over are named by the saved index, and
\* what it names is within max_bytes, or one block that alone exceeds it.
LEMMA KeptFits == CacheInv => DiskBounded
  <1> SUFFICES ASSUME CacheInv PROVE DiskBounded
    OBVIOUS
  <1>. DEFINE kept == {b \in Present \ stray : ~InPut(b)}
  <1>1. DOMAIN saved \in SUBSET Blocks /\ kept \in SUBSET (DOMAIN saved)
    <2>1. DOMAIN saved \in SUBSET Blocks
      BY IndexDomain DEF CacheInv, CacheTypeOK
    <2>2. kept \in SUBSET (DOMAIN saved)
      BY DEF CacheInv, FilesAreSaved
    <2>. QED
      BY <2>1, <2>2
  <1>. HIDE DEF kept
  <1>2. Bytes(kept) \in Nat /\ Bytes(DOMAIN saved) \in Nat
        /\ Bytes(kept) =< Bytes(DOMAIN saved) /\ Cap \in Nat
    BY <1>1, BytesIsNat, FewerBytes, ContentCacheAssumption
  <1>3. CASE Bytes(DOMAIN saved) <= Cap
    <2>1. Bytes(kept) <= Cap
      BY <1>2, <1>3
    <2>. QED
      BY <2>1 DEF DiskBounded, kept
  <1>4. ASSUME NEW b \in Blocks, DOMAIN saved \subseteq {b}
        PROVE  DiskBounded
    <2>1. CASE kept = {}
      <3>1. Bytes(kept) <= Cap
        BY <1>2, <2>1, BytesOfSome
      <3>. QED
        BY <3>1 DEF DiskBounded, kept
    <2>2. CASE kept = {b}
      <3>1. Cardinality(kept) = 1
        BY <2>2, FS_Singleton
      <3>. QED
        BY <3>1 DEF DiskBounded, kept
    <2>. QED
      BY <1>1, <1>4, <2>1, <2>2
  <1>. QED
    BY <1>3, <1>4 DEF CacheInv, SavedFits

\* "A size-bounded content-addressed cache": whatever handlers overlap, fail
\* and restart, the files CdnCache tracks fit its max_bytes once their puts
\* are over, or are one block that alone exceeds it.
THEOREM CacheIsBounded == SpecCache => []DiskBounded
  <1>1. InitCache => CacheInv
    BY InitCacheInv
  <1>2. CacheInv /\ [NextCache]_cacheVars => CacheInv'
    BY CacheInvStep
  <1>3. CacheInv => DiskBounded
    BY KeptFits
  <1>. QED
    BY <1>1, <1>2, <1>3, PTL DEF SpecCache
=============================================================================
