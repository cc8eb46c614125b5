---------------------------- MODULE SchemaMigration ----------------------------
(***************************************************************************)
(* The SQLite schema and its migrations: SQLiteStorage.initialize, run by  *)
(* tools (CLI commands, service constructors) directly and by the host     *)
(* through diagnostics.migrate_with_backup.                                *)
(*                                                                         *)
(* Python's sqlite3 opens a transaction before INSERT and UPDATE only.  A  *)
(* DDL statement outside a transaction is therefore durable at once, and   *)
(* the first DML statement of an initialize starts the transaction that    *)
(* holds everything up to the commit at the end of connect().  A migration *)
(* is thus a list of statements of which any prefix may survive a crash.   *)
(*                                                                         *)
(* Tables only ever gain columns, in the order of the scripts, so a table  *)
(* is its width: 0 absent, 1 as created, n + 1 with the n columns that     *)
(* later versions add.  The exception, model_promotions, which v8 rebuilds,*)
(* also has its rows.  Indexes are left out (every one is created IF NOT   *)
(* EXISTS) except the one that moves with model_promotions and the two     *)
(* unique ones that v10 first creates over rows that v9 did not constrain: *)
(* those are created like tables and may refuse the rows they find.        *)
(***************************************************************************)
EXTENDS Integers, Sequences, FiniteSets

CONSTANTS
  Hosts,         \* host processes; the instance lock admits one at a time
  Tools,         \* processes that open the storage without the host
  Nobody,        \* no process holds SQLite's write lock
  StartVersions, \* schema versions of the database found at the beginning
  Refusals,      \* sets of the unique indexes of v10 that v9 rows may violate
  Audit,         \* ids of the model_promotions rows of a v7 database
  Keep,          \* keep of _apply_backup_retention
  MaxStarts      \* bound: process starts in a behaviour

Processes == Hosts \cup Tools
Latest == 10  \* DB_SCHEMA_VERSION

\* Unique indexes over tables of v9, which admitted any rows: of 'running' runs
\* of one namespace a crash could leave several.
RunningNamespace == "idx_running_detection_namespace"
OccurrenceEvaluation == "idx_occurrence_evaluation"
UniqueIndexes == {RunningNamespace, OccurrenceEvaluation}

ASSUME MigrationAssumption ==
  /\ Hosts \cap Tools = {} /\ Nobody \notin Processes
  /\ IsFiniteSet(Processes)
  /\ StartVersions \subseteq 0..(Latest + 1)
  /\ Refusals \subseteq SUBSET UniqueIndexes
  /\ Keep \in Nat \ {0} /\ MaxStarts \in Nat

Promotions == "model_promotions"
Renamed == "model_promotions_v7"

VARIABLES
  db,        \* the committed database
  owner,     \* the process inside a transaction, or Nobody
  pending,   \* what the owner's transaction would commit; db without owner
  content,   \* the other rows: whether telemetry_events and feature_windows
             \* have any, and the unique indexes that the rows violate
  phase,     \* what each process is doing
  at,        \* the next statement of its script
  seen,      \* the width of the last table whose columns it listed
  backups,   \* the backup files, oldest first
  starts,    \* process starts so far
  found,     \* history: the database when the last host started
  intact,    \* history: whether each process found an intact database
  alone      \* history: no other process was active since

store == <<db, owner, pending, content>>
local == <<phase, at, seen>>
history == <<starts, found, intact, alone>>
vars == <<store, local, backups, history>>

-----------------------------------------------------------------------------
(* The scripts.  Only statements that change the schema, the promotions or  *)
(* the transaction are listed.                                              *)

Statement(op, t, n) == <<[op |-> op, table |-> t, n |-> n]>>
Create(t) == Statement("create", t, 1)
Creates(ts) == [i \in DOMAIN ts |-> Create(ts[i])[1]]
Record(v) == Statement("record", "schema_version", v)
Index == Statement("index", Promotions, 1)

\* Variant: the columns that exist are not looked up first.
AddBlindly(t, first, last) ==
  [i \in 1..(last - first + 1) |-> Statement("add", t, first + i)[1]]

\* _columns once, then one guarded ALTER TABLE for each of the columns.
AddColumns(t, first, last) ==
  Statement("columns", t, 0)
    \o [i \in 1..(last - first + 1) |-> Statement("add", t, first + i)[1]]

V1 == Creates(<<"telemetry_events", "anomalies">>) \o Record(1)

V2 == AddColumns("anomalies", 1, 2)
        \o Creates(<<"collection_sessions", "collector_state">>) \o Record(2)

V3 == AddColumns("collection_sessions", 1, 2) \o Record(3)

V4 == AddColumns("telemetry_events", 1, 7)
        \o Statement("backfill", "telemetry_events", 0)
        \o Creates(<<"quarantined_events", "feature_windows",
                     "feature_materialization_state", "data_quality_runs",
                     "dataset_snapshots">>)
        \o Record(4)

V5 == AddColumns("feature_materialization_state", 1, 7)
        \o Creates(<<"collector_observations", "late_event_records",
                     "duplicate_event_records">>)
        \o Record(5)

V6 == AddColumns("feature_materialization_state", 8, 8) \o Record(6)

V7 == Creates(<<"training_runs", "model_versions", "model_evaluations",
                Promotions, "scoring_runs", "scored_windows">>)
        \o Record(7)

\* Variant: the old table is dropped before its rows are copied.
V8DropFirst == Statement("columns", Promotions, 0)
                 \o Statement("rename", Promotions, 0)
                 \o Statement("recreate", Promotions, 0)
                 \o Statement("drop", Renamed, 0)
                 \o Statement("copy", Promotions, 0)
                 \o Index \o Record(8)

\* "new_model_id" in columns holds for the new table as well as for the old
\* one: the test only says that the table exists.
V8 == Statement("columns", Promotions, 0)
        \o Statement("rename", Promotions, 0)
        \o Statement("recreate", Promotions, 0)
        \o Statement("copy", Promotions, 0)
        \o Statement("drop", Renamed, 0)
        \o Index \o Record(8)

DetectionTables == Creates(<<"detection_policies", "detection_runs",
                             "detection_evaluations">>)

FindingTables == Creates(<<"findings", "finding_occurrences",
                           "finding_state_history", "detection_suppressions",
                           "detection_watermarks", "detection_worker_leases">>)

V9 == DetectionTables \o FindingTables \o Record(9)

V10 == AddColumns("feature_windows", 1, 2)
         \o Statement("backfill", "feature_windows", 0)
         \o AddColumns("detection_runs", 1, 15)
         \o Statement("update", "detection_runs", 0)
         \o Create(RunningNamespace)
         \o AddColumns("detection_evaluations", 1, 3)
         \o Create(OccurrenceEvaluation)
         \o AddColumns("findings", 1, 1)
         \o AddColumns("detection_worker_leases", 1, 6)
         \o Create("detection_policy_activations") \o Record(10)

\* _ensure_required_indexes creates every index, IF NOT EXISTS; the unique ones
\* of v10 exist by then.
EnsureRequiredIndexes == Index

Script == V1 \o V2 \o V3 \o V4 \o V5 \o V6 \o V7 \o V8 \o V9 \o V10
            \o EnsureRequiredIndexes \o Statement("assert", "schema_version", 0)

\* Variant: "if version < n - 1" leaves the next migration out.
FirstAfterNext(v) ==
  IF v = 0 THEN 1
           ELSE 1 + (CHOOSE i \in DOMAIN Script : Script[i] = Record(v + 1)[1])

\* The chain of "if version < n" in initialize: a database at version v is
\* brought up by every statement after the one that recorded v.
FirstAfter(v) ==
  IF v = 0 THEN 1
           ELSE 1 + (CHOOSE i \in DOMAIN Script : Script[i] = Record(v)[1])

-----------------------------------------------------------------------------
(* The database: its tables, the versions recorded in schema_version, the   *)
(* rows of model_promotions, and the table its index is on.                 *)

Tables == {Script[i].table : i \in DOMAIN Script}

MaxOf(S) == CHOOSE m \in S : \A n \in S : n <= m

\* The width of table t in a database migrated to version v.
WidthAt(t, v) ==
  MaxOf({0} \cup {Script[j].n : j \in
     {j \in DOMAIN Script : /\ Script[j].op \in {"create", "add"}
                           /\ Script[j].table = t
                           /\ \E i \in DOMAIN Script :
                                j < i /\ Script[i] = Record(v)[1]}})

FullWidth == [t \in Tables |-> WidthAt(t, Latest)]

Successors == {"", "model", "null"}
Rows == [id : Audit, successor : Successors]
Databases == [width : [Tables -> Nat], applied : SUBSET (1..(Latest + 1)),
              audit : [{Promotions, Renamed} -> SUBSET Rows],
              index : {"none", Promotions, Renamed}]

Version(d) == MaxOf({0} \cup d.applied)

\* A database at version v as earlier releases left it: up to v7 a retirement
\* had the successor "", from v8 on NULL.
HistoricalDatabase(v, successor) ==
  LET known == IF v < Latest THEN v ELSE Latest
  IN  [width   |-> [t \in Tables |-> IF t = "schema_version" /\ v > 0 THEN 1
                                       ELSE WidthAt(t, known)],
       applied |-> 1..v,
       audit   |-> [t \in {Promotions, Renamed} |->
          IF v < 7 \/ t = Renamed THEN {}
          ELSE {[id |-> a,
                 successor |-> IF v > 7 /\ successor[a] = "" THEN "null"
                                                             ELSE successor[a]]
                : a \in Audit}],
       index   |-> IF v < 8 THEN "none" ELSE Promotions]

\* What _assert_schema_integrity requires: every table, and of the columns
\* that were added later only the ones that required_columns names.
RequiredWidth ==
  [t \in Tables |->
     CASE t = "telemetry_events" -> 8
       [] t = "feature_materialization_state" -> 9
       [] t = "feature_windows" -> 3
       [] t = "detection_runs" -> 13
       [] t = "detection_evaluations" -> 2
       [] t = "findings" -> 2
       [] t = "detection_worker_leases" -> 7
       [] t = Renamed -> 0
       [] OTHER -> 1]

Sound(d) ==
  /\ \A t \in Tables : d.width[t] >= RequiredWidth[t]
  /\ d.index # "none"

\* What each process sees: the committed database, the owner its transaction.
View(p) == IF owner = p THEN pending ELSE db

\* The column is not among those listed before.
NotListed(s, width) == width < s.n

\* The statement fails with an OperationalError, a unique index with an
\* IntegrityError on the rows it does not admit (or the assertion raises).
Raises(s, d, width) ==
  \/ s.op = "create" /\ s.table \in content.refused /\ d.width[s.table] = 0
  \/ /\ s.op = "add" /\ NotListed(s, width)
     /\ d.width[s.table] >= s.n \/ d.width[s.table] = 0
  \/ /\ s.op = "index" /\ d.width[Promotions] = 0
  \/ /\ s.op = "rename" /\ width > 0
     /\ d.width[Promotions] = 0 \/ d.width[Renamed] > 0
  \/ /\ s.op = "recreate" /\ width > 0 /\ d.width[Promotions] > 0
  \/ /\ s.op = "copy" /\ width > 0
     /\ \/ d.width[Promotions] = 0 \/ d.width[Renamed] = 0
        \/ \E r, q \in d.audit[Promotions] \cup d.audit[Renamed] :
             r \in d.audit[Promotions] /\ q \in d.audit[Renamed] /\ r.id = q.id
  \/ /\ s.op = "drop" /\ width > 0 /\ d.width[Renamed] = 0
  \/ /\ s.op \in {"update", "backfill"} /\ d.width[s.table] = 0
  \/ /\ s.op = "assert" /\ ~Sound(d)

\* NULLIF(new_model_id, '')
Nullified(rows) ==
  {[r EXCEPT !.successor = IF @ = "" THEN "null" ELSE @] : r \in rows}

\* The database after the statement.
Effect(s, d, width) ==
  CASE s.op = "create" /\ d.width[s.table] = 0 ->
         [d EXCEPT !.width[s.table] = 1]
    [] s.op = "add" /\ NotListed(s, width) ->
         [d EXCEPT !.width[s.table] = s.n]
    [] s.op = "index" /\ d.index = "none" ->
         [d EXCEPT !.index = Promotions]
    [] s.op = "rename" /\ width > 0 ->
         [d EXCEPT !.width[Renamed] = d.width[Promotions],
                   !.width[Promotions] = 0,
                   !.audit[Renamed] = d.audit[Promotions],
                   !.audit[Promotions] = {},
                   !.index = IF @ = Promotions THEN Renamed ELSE @]
    [] s.op = "recreate" /\ width > 0 ->
         [d EXCEPT !.width[Promotions] = 1]
    [] s.op = "copy" /\ width > 0 ->
         [d EXCEPT !.audit[Promotions] = @ \cup Nullified(d.audit[Renamed])]
    [] s.op = "drop" /\ width > 0 ->
         [d EXCEPT !.width[Renamed] = 0, !.audit[Renamed] = {},
                   !.index = IF @ = Renamed THEN "none" ELSE @]
    [] s.op = "record" ->
         [d EXCEPT !.applied = @ \cup {s.n}]
    [] OTHER -> d

\* INSERT and UPDATE start a transaction, a loop over no rows does not.
OpensTransaction(s, width) ==
  \/ s.op \in {"record", "update"}
  \/ s.op = "backfill" /\ content.populated
  \/ s.op = "copy" /\ width > 0

NeedsLock(s, d, width) ==
  OpensTransaction(s, width) \/ Effect(s, d, width) # d

\* The rebuild of model_promotions was not cut short, the version is known, and
\* the unique indexes of v10 admit the rows.
Intact(d) ==
  /\ content.refused = {}
  /\ Version(d) <= Latest
  /\ d.width[Renamed] = 0
  /\ Version(d) >= 7 => d.width[Promotions] > 0

-----------------------------------------------------------------------------
Active(p) == phase[p] \notin {"idle", "done", "failed"}

Goto(p, next) == phase' = [phase EXCEPT ![p] = next]

\* The connection is closed without a commit.
Rollback(p) ==
  /\ owner' = IF owner = p THEN Nobody ELSE owner
  /\ pending' = IF owner = p THEN db ELSE pending
  /\ UNCHANGED <<db, content>>

\* What a process had in memory is gone.
Forget(p) == at' = [at EXCEPT ![p] = 1] /\ seen' = [seen EXCEPT ![p] = 0]

Fail(p) ==
  /\ Goto(p, "failed") /\ Rollback(p) /\ Forget(p)
  /\ UNCHANGED <<backups, history>>

\* A durable change outside any transaction.
Autocommit(d) == db' = d /\ pending' = d /\ UNCHANGED <<owner, content>>

Start(p) ==
  /\ ~Active(p) /\ starts < MaxStarts
  /\ p \in Hosts => \A h \in Hosts : ~Active(h)
  /\ Goto(p, IF p \in Hosts THEN "inspect" ELSE "open")
  /\ starts' = starts + 1
  /\ found' = IF p \in Hosts THEN db ELSE found
  /\ intact' = [intact EXCEPT ![p] = Intact(db)]
  /\ alone' = [q \in Processes |->
                 IF q = p THEN \A o \in Processes : ~Active(o)
                          ELSE alone[q] /\ ~Active(q)]
  /\ UNCHANGED <<store, at, seen, backups>>

\* inspect_schema
Inspection(d) ==
  CASE d.width["schema_version"] = 0 -> "missing"
    [] d.width["schema_version"] > 0 /\ Version(d) < Latest -> "older"
    [] d.width["schema_version"] > 0 /\ Version(d) > Latest -> "newer"
    [] OTHER -> IF Sound(d) THEN "current_valid" ELSE "current_corrupt"

\* migrate_with_backup up to the backup.
Inspect(p) ==
  /\ phase[p] = "inspect"
  /\ Goto(p, CASE Inspection(db) \in {"newer", "current_corrupt"} -> "failed"
               [] Inspection(db) = "current_valid" -> "verify"
               [] OTHER -> "backup")
  /\ UNCHANGED <<store, at, seen, backups, history>>

\* backup_before_migration looks again; its exceptions are not caught.
DecideBackup(p) ==
  /\ phase[p] = "backup"
  /\ Goto(p, CASE Inspection(db) \in {"newer", "current_corrupt"} -> "failed"
               [] Inspection(db) \in {"missing", "current_valid"} -> "open"
               [] OTHER -> "copy")
  /\ UNCHANGED <<store, at, seen, backups, history>>

\* Variant: no retention.
EveryOne(files) == files

\* Variant: sorted the wrong way round.
Oldest(files) == SubSeq(files, 1, IF Len(files) > Keep THEN Keep ELSE Len(files))

\* _apply_backup_retention
Newest(files) ==
  IF Len(files) > Keep THEN SubSeq(files, Len(files) - Keep + 1, Len(files))
                       ELSE files

\* source.backup(destination) copies the committed database.
CopyBackup(p) ==
  /\ phase[p] = "copy"
  /\ backups' = Newest(Append(backups, db))
  /\ Goto(p, "open")
  /\ UNCHANGED <<store, at, seen, history>>

\* CREATE TABLE IF NOT EXISTS schema_version
Open(p) ==
  /\ phase[p] = "open"
  /\ db.width["schema_version"] > 0 \/ owner = Nobody
  /\ IF db.width["schema_version"] > 0
       THEN UNCHANGED store
       ELSE Autocommit([db EXCEPT !.width["schema_version"] = 1])
  /\ Goto(p, "read")
  /\ UNCHANGED <<at, seen, backups, history>>

\* migrate_with_backup verifies once more after initialize.
Finished(p) == IF p \in Hosts THEN "verify" ELSE "done"

ReadVersion(p) ==
  /\ phase[p] = "read"
  /\ LET v == Version(db)
     IN  \/ /\ v > Latest \/ (v = Latest /\ ~Sound(db))
            /\ Goto(p, "failed") /\ UNCHANGED at
         \/ /\ v = Latest /\ Sound(db)
            /\ Goto(p, Finished(p)) /\ UNCHANGED at
         \/ /\ v < Latest
            /\ Goto(p, "run") /\ at' = [at EXCEPT ![p] = FirstAfter(v)]
  /\ UNCHANGED <<store, seen, backups, history>>

\* One statement of the script but the last.
Execute(p) ==
  /\ phase[p] = "run" /\ at[p] < Len(Script)
  /\ LET s == Script[at[p]]
         d == View(p)
         e == Effect(s, d, seen[p])
     IN  /\ ~Raises(s, d, seen[p])
         /\ NeedsLock(s, d, seen[p]) => owner \in {p, Nobody}
         /\ \/ /\ owner = p \/ OpensTransaction(s, seen[p])
               /\ owner' = p /\ pending' = e
               /\ UNCHANGED <<db, content>>
            \/ /\ owner # p /\ ~OpensTransaction(s, seen[p])
               /\ IF e = d THEN UNCHANGED store ELSE Autocommit(e)
         /\ seen' = [seen EXCEPT ![p] =
                       IF s.op = "columns" THEN d.width[s.table] ELSE @]
  /\ at' = [at EXCEPT ![p] = @ + 1]
  /\ UNCHANGED <<phase, backups, history>>

\* The assertion holds; connect() commits.
Commit(p) ==
  /\ phase[p] = "run" /\ at[p] = Len(Script)
  /\ ~Raises(Script[at[p]], View(p), seen[p])
  /\ db' = View(p)
  /\ owner' = IF owner = p THEN Nobody ELSE owner
  /\ Goto(p, Finished(p)) /\ Forget(p)
  /\ UNCHANGED <<pending, content, backups, history>>

\* The statement raises, and initialize with it.
Raise(p) ==
  /\ phase[p] = "run"
  /\ Raises(Script[at[p]], View(p), seen[p])
  /\ Fail(p)

\* Another process holds the write lock for longer than the busy timeout.
Locked(p) ==
  /\ owner \notin {p, Nobody}
  /\ \/ phase[p] = "open" /\ db.width["schema_version"] = 0
     \/ /\ phase[p] = "run"
        /\ NeedsLock(Script[at[p]], db, seen[p])
  /\ Fail(p)

\* verify_schema_integrity
Verify(p) ==
  /\ phase[p] = "verify"
  /\ Goto(p, IF Sound(db) THEN "done" ELSE "failed")
  /\ UNCHANGED <<store, at, seen, backups, history>>

\* The process dies; SQLite rolls its transaction back.
Crash(p) ==
  /\ Active(p)
  /\ Goto(p, "idle") /\ Rollback(p) /\ Forget(p)
  /\ UNCHANGED <<backups, history>>

Init ==
  /\ \E v \in StartVersions, f \in [Audit -> {"", "model"}], rows \in BOOLEAN :
       /\ db = HistoricalDatabase(v, f)
       /\ content \in [populated : {rows /\ v > 0},
                      refused : IF v = 9 THEN Refusals ELSE {{}}]
  /\ owner = Nobody /\ pending = db
  /\ phase = [p \in Processes |-> "idle"]
  /\ at = [p \in Processes |-> 1]
  /\ seen = [p \in Processes |-> 0]
  /\ backups = <<>>
  /\ starts = 0
  /\ found = db
  /\ intact = [p \in Processes |-> TRUE]
  /\ alone = [p \in Processes |-> FALSE]

Next ==
  \E p \in Processes :
    \/ Start(p) \/ Inspect(p) \/ DecideBackup(p) \/ CopyBackup(p)
    \/ Open(p) \/ ReadVersion(p) \/ Execute(p) \/ Commit(p)
    \/ Raise(p) \/ Locked(p) \/ Verify(p) \/ Crash(p)

Spec == Init /\ [][Next]_vars

-----------------------------------------------------------------------------
\* Every variable has its type, only a transaction hides changes, and retention
\* keeps the number of backup files.
TypeOK ==
  /\ db \in Databases /\ pending \in Databases
  /\ owner \in Processes \cup {Nobody}
  /\ (owner = Nobody => pending = db)
  /\ content \in [populated : BOOLEAN, refused : SUBSET UniqueIndexes]
  /\ phase \in [Processes -> {"idle", "inspect", "backup", "copy", "open",
                              "read", "run", "verify", "done", "failed"}]
  /\ at \in [Processes -> DOMAIN Script]
  /\ seen \in [Processes -> Nat]
  /\ backups \in Seq(Databases) /\ Len(backups) <= Keep
  /\ starts \in 0..MaxStarts
  /\ found \in Databases
  /\ intact \in [Processes -> BOOLEAN]
  /\ alone \in [Processes -> BOOLEAN]

AuditIds(d) == {r.id : r \in d.audit[Promotions] \cup d.audit[Renamed]}

\* No crash, race or lock timeout in the rebuild of model_promotions (v8)
\* loses an audit row: every row is in the table or in the renamed one.
AuditRowsKept == [][AuditIds(db) \subseteq AuditIds(db')]_vars

\* A database that says v10 has every table with all its columns, whichever
\* version it came from and however often its migration was cut short or
\* raced, although the integrity assertion does not look at every column; and
\* its audit rows hold no empty successor.
CurrentSchemaIsComplete ==
  Version(db) = Latest =>
    /\ \A t \in Tables \ {Promotions, Renamed} : db.width[t] >= FullWidth[t]
    /\ \A r \in db.audit[Promotions] : r.successor # ""

\* Initialisation can be repeated: a process that was alone fails only on a
\* database whose v8 rebuild was cut short, that is newer than the program, or
\* whose v9 rows a unique index of v10 does not admit.
FailureHasCause ==
  \A p \in Processes : phase[p] = "failed" /\ alone[p] => ~intact[p]

\* While a host that nobody disturbs migrates, the database it found is among
\* the backups, after retention.
BackupHoldsOldDatabase ==
  \A h \in Hosts :
    Active(h) /\ alone[h] /\ db # found =>
      \/ Inspection(found) = "missing"
      \/ \E i \in DOMAIN backups : backups[i] = found

=============================================================================
