# SentinelUEBA in TLA+

SentinelUEBA is a local-first user and entity behaviour analytics system: a
Python backend over one SQLite database, started by a host process that serves
an API and a web page on the loopback interface. This directory holds TLA+
specifications of the parts of it that are concurrent or that must survive
crashes, TLC configurations that check them on small instances, and TLAPS
proofs that hold for every instance. Paths below are relative to
`backend/src/sentinelueba/` unless they start with `docs/`.

## 1. Inventory

| Component | State | Operations | Interacts with | What is hard |
|---|---|---|---|---|
| Worker lease and loop (`detection/service.py` 1057-1411) | one row per worker key in `detection_worker_leases` (owner, status, stop_requested, expires_at); per process: main thread, heartbeat thread, `ownership_lost`, `stop_event` | `_acquire_worker_lease`, `worker_run_foreground`, `_worker_heartbeat_loop`, `worker_stop`, `_release_worker_lease` | runs the run-once engine; started by manager, CLI, host | two threads and several processes write one row; expiry; stuck or failed heartbeats; crash |
| Worker manager (`detection/worker_manager.py`) | in-memory handles per database and key | `start`, `stop`, `status`, `shutdown_process`, finally block of the thread | lease; API and host shutdown | acts on handles copied under a lock after the lock is gone |
| Run-once engine (`detection/service.py` 204-811, `storage/sqlite.py` 1934-1988, 2821-3064) | `detection_runs`, `detection_evaluations`, `detection_watermarks` | `run_once`, `_run_profile_once`, `backfill` | feature windows, model registry, findings | champion looked up twice; concurrent runs of one namespace; windows rewritten between listing and evaluation; failing windows; crash |
| Findings and triage (`storage/sqlite.py` 2821-3064, `detection/service.py` 889-938) | `findings`, `finding_occurrences`, `finding_state_history` | persist an evaluation, `transition_finding` | run engine, analysts (API, CLI) | windows out of order; check and update in two steps |
| Suppressions (`detection/service.py` 953-1055, 1775-1842) | `detection_suppressions` | create, revoke, expire; read while deciding | run engine | stale read |
| Host and single instance (`runtime/supervisor.py`, `instance.py`, `control.py`, `state.py`) | `host.lock` or a named mutex, `control.token`, `status.json`, the runtime context | `run_host`, lock enter/exit, `request_shutdown` | worker manager, collector manager, API | stale-lock recovery, torn files, cleanup after unlock |
| Policies (`detection/policies.py`, `service.py` 93-198) | `detection_policies`, `detection_policy_activations` | register built-ins, activate | run engine | check outside the transaction |
| Rules and fusion (`detection/rules.py`, `fusion.py`, `engine.py`) | none | pure functions | run engine | thresholds and rounding |
| Model registry, training, scoring (`ml/stage3_service.py`, `sqlite.py` 2207-2820) | `training_runs`, `model_versions`, `model_evaluations`, `model_promotions`, `scoring_runs`; bundle directories | train, recommend, promote, retire, rollback, score | snapshots, run engine | lifecycle checked before the transaction; a crash leaves a running row |
| Feature materialization (`features/materialization.py`, `sqlite.py` 1682-2127) | `feature_windows`, `feature_materialization_state` | materialize, rebuild | events, run engine | watermark over a time chosen before commit; two materializers |
| Collectors (`collectors/`, `sqlite.py` 1227-1403, 3249-3397) | session thread, cursors, `collection_sessions`, `collector_state`, events | start, stop, poll, insert | OS, database | cursor moved before the insert; start against stop; several processes over one cursor; stale sessions |
| Dataset snapshots (`datasets/snapshots.py`) | Parquet files, `dataset_snapshots` | create, verify | training, backfill | file before row |
| Schema and migration (`sqlite.py` 43-1225, `runtime/diagnostics.py`) | `schema_version` and all tables; backups | initialize, `migrate_with_backup` | host start, every command | DDL that is durable at once beside DML in a transaction; crash, race or lock timeout in the middle; backups against retention |
| Telemetry intake, quality, retention | events, quarantine | validate, normalize, delete | collectors | sequential |
| Installation check, import, configuration, service wrapper, API, CLI, frontend, packaging | files | I/O | all | no protocol of their own |

What makes the modelled components correct is stated property by property
below; the other components are listed with their status in
`PROJECT.json`, and every hazard at its line under `hazards`.

## 2. Modules

| Module | Models |
|---|---|
| `WorkerLease` | the lease of one worker key, its workers, heartbeats, the manager and its stop calls |
| `DetectionRun` | `_run_profile_once` for one dataset kind and profile, several runs at a time |
| `EvaluationLedger` | what detection runs promise; `DetectionRun` implements it |
| `FindingStore` | decisions becoming occurrences of findings, triage, suppressions |
| `HostInstance` | `run_host` under `SingleInstanceLock`, with every file operation a step |
| `Materialization` | incremental materialization and rebuilds of one profile's feature windows, several processes at a time, beside the inserts they read |
| `ModelRegistry` | training runs of one kind and profile, the bundles they leave, and the lifecycle of their models |
| `SchemaMigration` | the statements of all migrations, run by hosts and tools that may die, race or time out between any two; backup and retention |
| `CollectionSession` | one collector manager per process over one database: start, stop, the thread, three collectors, what is stored |
| `SessionLedger` | what sessions and stored events promise to their readers; `CollectionSession` implements it |
| `MC*` | names for the model values of TLC's instances, and symmetry sets |
| `*Proofs` | theorems and their proofs |

Every SQL statement in autocommit mode and every `BEGIN IMMEDIATE` block is one
step; what the code does between two of them is a step of its own. Reads that
only feed the next write in the same block are not separate. Time stamps are
reduced to what conditions compare (`expired`, the order of windows). Variables
called history exist in no table; they record what the properties except
(`forfeited`, `released`, `touched`, `late` and `reopened` of the findings,
`unlogged`, `stale`, `overtaken`, `raced`; `found`, `intact` and `alone` of the
migration; `skipped`, `dropped`, `replay` and `gap` of the collection).

### WorkerLease

A worker is one incarnation: one `owner_id`, one acquisition, one thread
(managed by the API host, or the main thread of a foreground process).
`lease` is the row, `pc`/`hb` are the places of the worker's thread and of its
heartbeat thread, `lost` and `stopEvent` its two events, `handle` the manager's
dictionary entry for the key, `call` a `stop` or `shutdown_process` in progress.

| Action | Code |
|---|---|
| `Acquire` | `_acquire_worker_lease`; a refused call changes nothing |
| `Register` | rest of `DetectionWorkerManager.start` under the lock, with the give-back of the lease |
| `RunOnce`, `IdleBeat`, `CheckLost`, `CheckStop`, `Wait` | one turn of the loop in `worker_run_foreground` |
| `StoreRaises`, `Interrupt` | leaving the loop by an exception or by Ctrl+C |
| `StopHeartbeat`, `JoinHeartbeat`, `Release`, `ReleaseRaises`, `Leave` | the finally blocks |
| `HeartbeatWake`, `HeartbeatWrite`, `HeartbeatDies` | `_worker_heartbeat_loop` |
| `RequestStop` | `worker_stop` from another process |
| `Snapshot`, `CallRequest`, `CallSignal`, `CallJoin`, `CallPop` | `stop` and `shutdown_process`, statement by statement |
| `Expire`, `Crash`, `HostCrash` | the clock; the death of a process |

The code does not promise mutual exclusion of cycles: an expired or stopping
row is taken over while the old thread may still run. `OneUnforfeitedHolder`
says what it does promise. `forfeited` gets a worker when its unreleased row
that has expired or is marked for stopping is taken over.

### DetectionRun and EvaluationLedger

A window is its position in the order `window_start, window_id`, its content a
`feature_input_hash`. `run` holds what a caller has in memory between its
statements. `Hint`, `InsertRow`, `Resolve`, `Bind`, `Block`, `List`, `Evaluate`,
`EvaluateRaises`, `AdvanceWatermark` and `Finish` follow `_run_profile_once`
from top to bottom; `Rematerialize` and `ChangeChampion` are the environment;
`Die` is a crash or an exception outside the try blocks, after which the row
stays `running`. A policy is its mode, since only the mode and the flags of the
built-in policies steer the run. The four counters of a run row move together
in `persist_detection_evaluation_atomic`, so `examined` stands for them.
`EvaluationLedger` is the promise to readers: identities are written once, by
runs in progress, runs end at most once and a blocked run evaluated nothing.
The refinement maps `status` to the status column and `ledger` to itself.

### FindingStore

`Decide` is `_decide_window` with everything it reads (rules and model decide,
suppressions are looked up); its result waits in memory until `Persist`, which
is the whole transaction: insert or ignore the evaluation, find an active
finding in reach, attach or open, write history. A window skipped by the
quality gate is stored without a finding and counts as `no_finding`. `Check`
and `Transition` are the two halves of `transition_finding`. A window's time is
a slot number and `Reach` is the hour of correlation in slots.

### HostInstance

A host is a process that calls `run_host` once. `lockFile` and `mutex` are the
two locks, of which a platform uses one; `token` and `status` are the files. The
model keeps who wrote a file, since nobody compares more. `TruncateStatus` and
`WriteStatus` are two steps because `write_private_text` truncates in place.
`CreateLock`, `ReadStatus`, `ProbeProcess`, `UnlinkStale` and `RecreateLock` are
the five system calls of `_try_file_lock`: anything may happen between the look
at the status (`holder` keeps the pid it named) and the look at the process.
`sawAlive` is a history variable: the process named was alive when the status was
read, and was found dead. What a host remembers is forgotten (`Forget`) when
`run_host` ends or its process dies; `publish` is the argument of `write_status`.
States `ready` and `degraded` are one, as both serve. Pids are not reused.

### ModelRegistry

A model is a training run and a family. `runs`, `models`, `verified` (a
`verified_at` is set), `evaluated` and `audit` are the four tables, `bundles`
the directories under the models directory, `pc` the place of each training,
`call` the lifecycle call in progress of each caller: an operator, or a
training that promotes what it recommended.

| Action | Code |
|---|---|
| `Start` | `create_training_run_if_no_running` |
| `CreateBundle`, `RegisterModel`, `EvaluateModel` | one turn of the loop over families in `train` |
| `Finalize`, `VerifyCandidates`, `RecommendBest` | the rest of `train`; the promotion it may ask for continues as a call with `Check` |
| `Raise`, `CleanRows`, `CleanBundles`, `CleanRun` | the except block, statement by statement |
| `Die` | the process dies, or the except block raises |
| `Request`, `Verify` | the first read of a lifecycle call, and `verify_model` with the check for an evaluation |
| `Lookup`, `Promote` | `promote_model`: the SELECTs, which Python's sqlite3 runs before it opens a transaction, and the transaction |
| `Retire`, `Recommend` | `retire_model`; the UPDATE of `recommend` |
| `GiveUp` | an error in a call |

None of the writes tests the status it was allowed for, so transitions that
`docs/MODEL_REGISTRY.md` does not list do happen when calls overlap: a
recommendation that was checked earlier takes the championship from a model,
and a promotion checked earlier crowns one that was retired meanwhile. The
properties say what holds all the same; `unlogged` (history) are the models
that lost the championship without an audit row. What a verification computes
over a bundle's files is one test, `Passes`.

### Materialization

Events are their ids, which break ties of ingestion stamps; `at`, `stamp` and
`stored` are their timestamps, their `ingested_at` and the committed rows of
`telemetry_events`. `rows` maps a window to the events its row was computed
from: those in it and, for the novelty features, all earlier ones. An empty set
is no row. `state` holds both watermarks, `late` the late records, and `pass` what
the call of `materialize` in each process has read so far.

| Action | Code |
|---|---|
| `Stamp`, `Store`, `RollBack` | `_insert_events_with_metadata`: `datetime.now()`, then the INSERT that waits for the writer lock, then the end of the transaction |
| `Begin` | `materialize_features` or `rebuild_features` with the lock of the process, `get_materialization_state` |
| `ReadNew`, `RecordLate`, `ReadRange`, `ReadBaseline` | the incremental half of `materialize`, statement by statement; each late record is a transaction |
| `ReadAll`, `DeleteAll` | the full half, for a rebuild and for a first pass |
| `Replace`, `UpdateState` | windows and watermarks in one transaction; the watermarks alone when no window is affected |
| `Die` | the pass raises, or its process dies |

`_FEATURE_LOCKS` excludes passes within a process; the host, which serves the
API, and every CLI command are processes of their own, so passes overlap. Two things
go wrong then, and the properties except exactly these. A pass that has read
before another one wrote replaces its windows and its watermark with an older
view; `raced` says that passes have crossed, until a rebuild that no other pass
disturbed. And an event that was stamped before a slower writer let it commit
lies behind a watermark that has seen a later stamp; `overtaken` holds such events
until a pass reads them as new, which only a rebuild does for those a watermark
has passed.

### SchemaMigration

`db` is what is committed, `pending` what the process inside a transaction
(`owner`) would commit. Python's `sqlite3` opens a transaction before INSERT
and UPDATE only, so each DDL statement before the first of these is durable at
once, and everything after it becomes durable with the commit of `connect()`.
`Script` is the list of all statements of `_apply_v1` to `_apply_v10`; a
database at version v runs those after the one that recorded v. Tables only gain
columns, in the order of the scripts, so a table is a width (0 is absent);
`model_promotions`, which v8 renames, creates anew, copies and drops, also has
its rows. Two unique indexes are created like tables, `UniqueIndexes`: v10 first
makes them over `detection_runs` and `finding_occurrences` of a v9 database,
which admitted any rows. `content.refused` says which of them the rows violate
(two `running` runs of one namespace, say, which crashes leave); their creation
then raises, and with it `initialize`. No other index can be refused: it is not
unique, or its table or columns are made in the same version. What
`_ensure_required_indexes` creates exists by then, but for the index of
`model_promotions`.

| Action | Code |
|---|---|
| `Start` | a command constructs the storage, or a host enters `migrate_with_backup`; the instance lock admits one host |
| `Inspect`, `DecideBackup`, `CopyBackup` | `inspect_schema`, `backup_before_migration` with `_apply_backup_retention` |
| `Open`, `ReadVersion` | `initialize` up to the chain of `if version < n` |
| `Execute`, `Raise`, `Commit` | one statement; a statement or the final assertion that fails; the commit |
| `Locked` | the busy timeout runs out while somebody else is inside a transaction |
| `Verify` | `verify_schema_integrity` |
| `Crash` | the process dies; SQLite rolls back |

`RequiredWidth` is what `_assert_schema_integrity` looks for, which is less than
all columns; `CurrentSchemaIsComplete` says that nothing is missing all the
same. `FailureHasCause` excepts three states of the database, which `Intact`
names: a v8 rebuild that was cut short, a newer version, and rows that a unique
index of v10 does not admit (see below for the first and the last).

### CollectionSession

Every process has a `CollectorManager`. `rows` are the sessions, `saved` is the
cursor in `collector_state`, `storedBy` tells which session stored the event of
a record of the security log, `quarantined` which records were rejected. Of a
process, `pc` is the place of its thread, `cursor` and `previous` are what its
collectors remember, `batch` is the last poll.

| Action | Code |
|---|---|
| `Construct` | `get_manager`, which runs `mark_stale_running_sessions` |
| `BeginStart`, `AbortStart`, `Launch` | `start`: up to `build_collectors`; no collector or no row; session row and thread |
| `Stop` | `stop` |
| `StartCollectors` | `collector.start` of each; a snapshot or the look for the newest record may fail |
| `Poll` | `poll` of the collector whose turn it is |
| `Save`, `SaveFails`, `Recover` | the insert with the cursor in one transaction and the observation; the rollback; the except block, which stores an empty cursor |
| `Heartbeat`, `StopCollectors` | the rest of the loop; the collectors' part of the finally block |
| `Settle`, `Finish` | the last look at the stop event; `finish_session` with what it saw |
| `Die` | the process ends, and its daemon thread with it |
| `Log` | the environment: a record is written to the security log |

The process table and the connections are chosen anew at every poll, with
process ids that are used again. `replay` is the machine as a reader of the
session's events must imagine it; `NothingLost` compares it with what the
collectors compare with, as far as valid events can tell of it (`Reportable`).
What `validate_event` refuses is quarantined, of the log as of the snapshots:
the changes of sockets without a remote end (`Unconnected`) always, those of a
process with too long a name or path (`Oversized`) too. When the save of a
change fails, `replay` is given up for the rest of the session (`gap`).

`stop` takes no lock, so a stop may come between `Settle` and `Finish`; the
session then ends as completed or error. `StopIsObeyed` speaks of stops before
the last look.

`SessionLedger` is the promise to readers of `collection_sessions` and of the
events: a session ends once and takes no event after that, an event keeps its
session, counts are those of stored events. The refinement takes `status` and
`counted` from the columns of `rows`. An interrupted session is still open
there, since its thread may be alive: only the owner of a session ends it.

## 3. Runs

`Spec` has no fairness; `FairSpec` has weak fairness for the steps of threads
that were started. Every run is exhaustive for its instance.

| Run | Instance | Shows |
|---|---|---|
| `worker_manager` | two managed workers, one stop/shutdown call, failing heartbeats | lease exclusion, finality of releases, stop requests stick and have a holder, superseded owners do not write |
| `worker_live` | a managed and a foreground worker, heartbeats do not raise, `FairSpec` | superseded workers end; stop requests are obeyed, also when another start takes the row first |
| `run` | a backfill in batches of two and a limited run over two windows of which one always fails, two models, hybrid policies, `FairSpec` | counters, namespaces, refinement of the ledger; a successful backfill left nothing behind; every run ends |
| `finding_windows` | two runs, one analyst, three windows, two scores | summaries, single attachment, incidents not split, history and status |
| `host` | three hosts, lock file or named mutex, `FairSpec` | one owner, except under the lock file after a crash or after a host ended between two looks at it; a dead status means a crash; a shutdown request is obeyed |
| `materialization` | three events with two choices of timestamps, two processes, two stamps | the watermark passes no event by; incremental passes and a rebuild agree |
| `registry` | two trainings of two families, one operator, three audit rows | one training at a time, none after one that died unfinished, one usable champion, clean failures, a true audit history |
| `migration` | a host and a tool, two process starts, databases of version 0, 2, 7, 9 and 11, with and without rows, those of v9 also with rows that either unique index refuses, one audit row, one backup kept | audit rows are kept; a v10 database is complete; initialisation can be repeated but where `Intact` says; the backup holds what the host found |
| `collection` | the host and a command, two sessions, one record, one process id with three births of which one is refused, a socket without a remote end, one failing transaction | a stop in time is obeyed; refinement of the ledger of sessions, and with it the counters of finished ones; nothing lost without a failed transaction but what is not valid |

Two workers are needed for a takeover; two runs for a race, one window for a
race on an identity, two for a batch that is full and holds a failing one, three
for a window between two others; three hosts for a lock that a second
takes for the first's and that is a third's; two families for a half-registered training, two trainings for a
champion and its challenger, and a training's own promotion beside the
operator's for two callers; three events for a late one that changes the windows
of two others, stored in any order, and two processes for passes that cross; two starts for a migration that is
repeated or raced, and the five versions for every statement to be the first
one that runs: v2 before the columns of the telemetry tables, v7 before
the rebuild, v9 before the columns and unique indexes of the detection tables, v11 for a newer
program's database; two processes for a record that both store, two births for a
process id that is used again and a third for a process whose events are refused
in between. The one socket of `collection` has no remote end; changes of valid
connections go the same way as those of processes, which stand for them. The proofs
cover any number of each. Bounds that
are not sizes of the instance: `MaxChanges` ends triage of a finding after that many
history entries; `MaxStamp` ends the clock that events are stamped from; `MaxAudits` ends the operators' requests; a worker acquires
once, `MaxStarts` counts process starts, `MaxRecords`, `MaxSessions` and
`MaxFaults` what the collection meets; `Refusals` are the sets of unique indexes
that v9 rows may violate (both at once fails where the first does); a run or a training runs once and a host starts once, so that `Workers`,
`Runs`, `Trainings` and `Hosts` bound the number of incarnations.
`HostInstance`, `ModelRegistry` and `SchemaMigration` run without deadlock
checking: all hosts may end, all trainings may be done when the bound on the
audit is reached, and all migrations when the starts are used up. The
other runs check for deadlock.

### Runs that end in a violation

Each checks a sentence of the documentation and finds it broken by what the
code does.

| Run | Sentence | What happens |
|---|---|---|
| `worker_stop_lost` | `docs/CONTINUOUS_DETECTION.md:21` runs until Ctrl+C or stop request | a heartbeat raises once, its thread ends in silence; the stop request is wiped out by the next owner and the first worker never learns of it |
| `finding_reopened` | `docs/FINDING_LIFECYCLE.md:21` not silently reopened | a transition checked against the older status takes a resolved finding back |
| `host_files_lost` | `docs/RUNTIME_SUPERVISOR.md:17` cleans only when it owns the instance | the cleanup comes after the lock was given back and removes the files of the next host |

Other places where the models show the code doing less than a document says,
without a run of their own:

- `stop` pops whatever handle the key has, also that of a worker started after
  the one it joined (`worker_manager.py:141`, `CallPop`; `docs/ARCHITECTURE.md:103`).
- When the champion goes between the two lookups of a hybrid run, evaluations
  without a model are stored under the hybrid policy (`detection/service.py:1438`,
  `Resolve`; `docs/DETECTION_POLICIES.md:9`).
- A window that arrives between two findings joins the later one and leaves the
  earlier apart although both are within the hour (`sqlite.py:2892`,
  `Correlated`; `docs/decisions/0017-finding-correlation.md:5`). Hence `late`.
- A suppression created between decision and transaction does not prevent the
  finding (`detection/service.py:628`; `docs/FINDING_LIFECYCLE.md:24`).
- After a crash two hosts may both find the lock file stale and both get in
  (`runtime/instance.py:79`; `docs/WINDOWS_PORTABLE.md:26`). It takes no crash
  when a host ends in good order between another's look at its status
  (`instance.py:77`) and at its process (`:78`): the lock that is then unlinked
  as stale may be a third host's, and there are two owners
  (`docs/RUNTIME_SUPERVISOR.md:3`, `:15`). Both only where the named mutex is not
  available; `SingleOwnerUnlessOvertaken` says that these are the only ways.
- A v9 database in which crashes left two `running` runs of one namespace, or one
  evaluation attached twice, is not migrated: `CREATE UNIQUE INDEX` raises
  (`sqlite.py:1155`, `:1179`, `Raises`; `docs/ARCHITECTURE.md:62`,
  `docs/decisions/0004-sqlite-feature-store.md:54`) in the first process to open
  it, alone and undisturbed, and in every later one.
- The lifecycle transitions of overlapping registry calls named above.
- Incremental passes skip an overtaken event, and after passes of two processes
  crossed they leave windows and watermarks a rebuild would not
  (`sqlite.py:1281`, `services/pipeline.py:693`; `docs/DATA_PIPELINE.md:38`).
  An event that one pass recorded as late within the policy may be skipped by
  another whose watermark has moved on, without a record of it.
- A v7 database whose v8 rebuild is cut short after RENAME or CREATE, by a crash
  or a lock timeout, or whose rebuild two processes began at a time, is never
  migrated again: `"new_model_id" in columns` holds for the new table as well as
  for the old one, so every later start fails at RENAME, or at the index when the
  new table was never made (`sqlite.py:860`; `docs/decisions/0004-sqlite-feature-store.md:54`
  says that historical databases migrate to v10). The rows survive in
  `model_promotions_v7`, and the host's backup holds the database of before.
  `FailureHasCause` excepts this through `Intact`.
- A command that only constructs a manager marks the live session of another
  process as interrupted; its heartbeats then change no row until it finishes
  and overwrites the status (`sqlite.py:3388`, `Construct`). When a transaction
  of `_run`'s finally block fails, the session stays `running` and nothing
  finishes it until the next `Construct`.
- After a failed insert the stored cursor is empty: when the process dies before
  the next poll, the next session begins at the newest record and passes over
  those between (`collectors/manager.py:266`). `NothingLost` excepts these as `skipped`.
- Listening sockets and UDP sockets without a peer are compared like connections,
  but their events never become rows: `NetworkPayload` requires a remote end, and
  each is quarantined (`collectors/network.py:137`, `validation/events.py:58`,
  `Valid`; `docs/WINDOWS_COLLECTION.md:8` lists opened and closed TCP/UDP metadata).
- A stop between the last look at the event and the session's row finds the
  session completed or in error (`collectors/manager.py:194`, `Settle`).

### Fairness

Threads of a process that runs are scheduled, statements return, and joins
have timeouts; hence weak fairness of the steps of each worker's main thread
and heartbeat, of each run once it was called, and of each host once it was
started. Of a run the fairness is that of its steps taken together: a run that
can go on does, and nothing is said of which window or outcome comes next.
Nothing is assumed about people, the clock, or crashes: starts, stop
calls, expiry and exceptions may never come. `RunTerminates` needs fewer
failing windows than a batch holds; with a full batch of them an unlimited
backfill lists the same windows for ever.

## 4. Proofs

All theorems hold for every value of the constants that satisfies the named
`ASSUME`s (set inclusions, a model value outside a set, finiteness of the sets
that are counted).

- `WorkerLeaseProofs`: the inductive invariant joins `TypeOK` with what the
  lease says of the threads: an owner that has not been superseded and has not
  released is the row's owner, a forfeited worker is recorded, a row that
  carries a stop request is unreleased, a released worker's row is not live
  unless its heartbeat overran. `LeaseExclusion` needs the first two:
  two holders that did not forfeit would both be the row's owner. The action
  properties follow from the owner guard of each UPDATE.
- `DetectionRunProofs`: the inductive invariant relates a run's memory to its
  row: while it evaluates, its row is running and carries its policy, and its
  model unless it lost its champion. The unique index then gives
  `NamespacesDisjoint`. For the counters, the identities a run has written are
  a finite set that grows by one exactly when its counter does; `ImplementsLedger`
  adds that a run that can be blocked has written nothing.
- `FindingStoreProofs`: occurrences point to findings and carry identities
  that were stored as `finding`; a decision that is still to be persisted finds
  its identity stored or not. `IncidentsAreNotSplit` needs that a slot that is
  not late lies beyond every occurrence of its fingerprint.
- `HostInstanceProofs`: a readable status names a host that will remove it, or
  that crashed. So a host that goes to probe a process either read its name while
  it was alive or after it crashed (`LookInv`), and under the lock file, until a
  host crashed or ended between those two looks, a host inside the lock is the
  one that made the file and nobody is about to unlink it. Under the mutex the
  holder is the only one inside.
- `ModelRegistryProofs`: a training that is neither finished nor finalized has the
  only running row, also when it is dead; what a training has cleaned up stays gone; a row has its bundle and a finalized row
  its evaluation and its successful run; a call past its verification is about
  a finalized model or a deleted one. With these the unique index gives one
  usable champion, and the history is right because a row appended to it
  changes what it says of two models only (`CrownedAppend`).
- `MaterializationProofs`: the inductive invariant has two halves. Of a pass that
  no other has written under, it says that what it has not read as new lies
  beyond all it has, that it holds the late records of what it will skip, and
  that its range and its baseline hold every event the watermark has passed or
  the rows contain. Of the tables, it says that no watermark of event time is
  before an event behind the ingestion watermark, and that windows are closed: a
  window with an event of its own has every earlier event that is in its window.
  `WatermarkCovers` is inductive with these, `RowsMatchRebuild` follows from the
  last. The arithmetic of `align_window_start` is in `AlignFacts`.

- `CollectionSessionProofs`: two lemmas say that the changes between two process
  tables (connection tables), those that are refused left out, turn what can be
  told of the first into what can be told of the second
  (`ProcessReplay`, `ConnectionReplay`). The inductive invariant adds
  to `NothingLost` and `FinishedCountsItsEvents` what a batch between poll and save is
  (the changes that lead from what a reader of the stored events saw to what the
  collector compares with from now on), that a process is starting only where no
  thread lives, and that a living thread has a session of its own that nobody
  finished, whose stored events it has counted. `StopsAreObeyed` needs the
  second: only a start clears the stop event, and what the last look has seen
  nothing but the end of the thread takes back. The last gives
  `ImplementsSessionLedger`, step by step: what a thread stores, reports or ends is
  its own open session, with the count the ledger asks for. `FinishedCountsItsEvents`
  is also what the refinement implies, so that no run checks it by itself.
- `SchemaMigrationProofs`: first the script, 107 statements of which the proofs use
  a dozen facts (`ScriptFacts`): what may precede a statement, in which order the
  versions, the rebuild and the assertion come, that a table is created before
  its columns are listed, which columns there are. They are shown section by
  section, since the sections are sequences joined with `\o`. Then four
  inductive invariants, each checked by TLC before it was proved:
  - `RowsHeld`: who is about to drop the renamed table owns the transaction that
    copied its rows. Gives `AuditRowsSurvive`.
  - `Undisturbed` and `BackupFirst`: a host that is alone has the database it
    found, or has saved it. Gives `BackupsHoldOldDatabase`.
  - `SchemaKept`: a process at a statement sees every column of the statements
    before it, also in the view another transaction gave it, because columns
    are never taken away and a column that was listed stays; a recorded version
    has its columns in the committed and in the pending database; from the
    rename on no audit row has an empty successor. Gives `CurrentSchemasAreComplete`.
  - `VersionsHaveTable` and `Unfailing`: for a process that is alone and found an
    intact database, the columns it listed are the columns there are up to where
    it is, the tables of the rebuild are in the state its next statement
    expects, no unique index is refused, and the index of the promotions is there
    when the assertion looks. With `SchemaKept`
    no statement then raises (`SmoothRuns`). Gives `FailuresHaveCause`.

Also in `DetectionRunProofs`, `BackfillsCoverWindows` rests on a second inductive
invariant (`Coverage`): as long as no evaluation raised, what is pending once a
listing came out short is in the batch at hand or was rewritten since.

Every safety property a run checks, invariant, action property or refinement, is proved.
Only model-checked are the four liveness properties (`SupersededWorkerEnds`,
`StopRequestIsObeyed`, `RunTerminates`, `ShutdownIsObeyed`): they need ENABLED, which
the prover does not have. The modules with proofs have no RECURSIVE operators.

## 5. Plan

Done, in this order because the rest depends on it: the worker, the run engine,
the findings, the host, the model registry, materialization, the migrations and
the collection sessions. What is left:

1. Policies: registration outside a write transaction, activation and its audit
   chain (`detection/service.py` 93-198); the scopes of suppressions and the
   check for an equivalent one (953-1055).
2. The observations of the real dataset, whose coverage intervals reach into
   windows that were computed before.
3. Fusion and severity as operators against a reference definition; dataset
   snapshots and scoring runs.
4. Composition: host, worker and run engine, for what a shutdown leaves behind.

## 6. Not modelled

Numerical code, parsing and validation of records, file hashing, ACLs, the web
page, the Windows service wrapper and the build are left out: they are
sequential, and tests reach them. Scoring runs and dataset snapshots write once,
in one transaction or by one rename, and nothing else changes what they wrote;
they come last. Rules, fusion and severity are pure. Policies are registered
once and never change; `DetectionRun` uses the mode of one. A limited run whose first
windows always fail spends its limit on them every time; no document
excludes that, and it is visible in `DetectionRun` (`Poison`) but not stated as a
property. A run row that a crash left `running` blocks its namespace for ever;
the models keep that behaviour. The command line's Ctrl+C asks for a stop of the
key, after the worker has given its lease back, and may so stop another worker
(`cli.py:1002`); in `WorkerLease` that is a `RequestStop`, which anybody may
make. The migration leaves out the indexes that no data of an older release can
violate, other than that of `model_promotions`. An unreadable database file, clocks, and the deadline of
a collection (the loop may end at any head) are left out as well. Materialization leaves out the collector
observations of the real dataset, retention, which deletes real events under the
windows computed from them, and window sizes that do not divide a day. Window
rows of different profiles do not touch, but for the watermarks, which they
share; the model has one profile.
