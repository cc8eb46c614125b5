--------------------------- MODULE CollectionSession ---------------------------
(***************************************************************************)
(* Collection sessions: CollectorManager (collectors/manager.py), one per  *)
(* process, its thread, the collectors it polls and what it writes: events *)
(* with the collector's cursor in one transaction, observations, the       *)
(* heartbeat and the final state of the session row.                       *)
(*                                                                         *)
(* Every process that calls get_manager (the API host, a CLI command) has  *)
(* a manager of its own over the same database.  A process may die between *)
(* any two steps; the daemon thread dies with it, also when a command just *)
(* ends.  A transaction may fail (database is locked), at most MaxFaults   *)
(* times.                                                                  *)
(*                                                                         *)
(* The processes and connections of the machine may change in any way from *)
(* one poll to the next; its security log has numbered records.  The       *)
(* collector of system metrics, which has no state, and all times are left *)
(* out.  Events of the snapshot collectors carry the time of their poll in *)
(* their ids and are never duplicates (so that only the authentication     *)
(* events need counting); events of the security log are known by record.  *)
(* What validate_event refuses is quarantined and not stored, of every     *)
(* collector; of quarantined_events the records of the log are kept here.  *)
(***************************************************************************)
EXTENDS Integers, FiniteSets

CONSTANTS
  Processes,    \* operating-system processes with a collector manager
  Selections,   \* the sets of collectors each process may enable
  Pids,         \* process ids of the machine
  Births,       \* create times of processes
  Connections,  \* sockets, by key
  Unconnected,  \* those without a remote end: listening and UDP sockets
  Oversized,    \* processes, by id and create time, that exceed ProcessPayload
  Ignored,      \* records parse_auth_payload finds of no interest
  MaxRecords,   \* bound: records of the security log
  MaxSessions,  \* bound: sessions
  MaxFaults     \* bound: transactions that fail

Records == 1..MaxRecords
Sessions == 1..MaxSessions
Collectors == {"process", "network", "auth"}

ASSUME CollectionAssumption ==
  /\ Selections \in [Processes -> SUBSET ((SUBSET Collectors) \ {{}})]
  /\ 0 \notin Births
  /\ IsFiniteSet(Pids) /\ IsFiniteSet(Connections)
  /\ Ignored \subseteq Records /\ MaxRecords \in Nat
  /\ MaxSessions \in Nat /\ MaxFaults \in Nat

VARIABLES
  logged,      \* number of the newest record of the security log
  rejected,    \* the records whose event validate_event rejects
  faults,      \* failed transactions so far
  \* the database
  saved,       \* the cursor in collector_state; NoCursor for {} and no row
  storedBy,    \* the session that stored a record's event, or 0
  quarantined, \* records in quarantined_events
  rows,        \* collection_sessions
  \* each process
  starting,    \* a call is inside start
  stopEvent,   \* _stop_event
  session,     \* _session_id of the thread
  pc,          \* where the thread is; "over" without one
  turn,        \* the collector it works on
  enabled,     \* _collectors
  cursor,      \* the auth collector's cursor
  previous,    \* the snapshot collectors' _previous
  batch,       \* the events of the last poll
  counters,    \* _counters["authentication"]
  outcome,     \* status in _run
  \* history
  skipped,     \* records passed over because there was no cursor to start from
  dropped,     \* records in a batch that could not be saved
  replay,      \* the machine as the session's stored events tell it
  gap          \* snapshot events of the session could not be saved

environment == <<logged, rejected>>
database == <<saved, storedBy, quarantined, rows>>
manager == <<starting, stopEvent, session, enabled>>
memory == <<cursor, previous, batch, counters, outcome>>
history == <<skipped, dropped, replay, gap>>
vars == <<environment, faults, database, manager, pc, turn, memory, history>>

-----------------------------------------------------------------------------
(* What the collectors see and report.                                     *)

NoCursor == -1  \* "last_record_id" is not in the cursor

\* A process id is not in use, a connection not open.
Absent == 0

\* What a snapshot of the processes, of the connections may show.
ProcessTables == [Pids -> Births \cup {Absent}]
ConnectionTables == [Connections -> {Absent, 1}]

Machines == [process : ProcessTables, network : ConnectionTables]
Nothing == [process |-> [p \in Pids |-> Absent],
            network |-> [c \in Connections |-> Absent]]

Change(action, key, birth) == [action |-> action, key |-> key, birth |-> birth]

\* diff_process_snapshots
ProcessChanges(before, now) ==
  {Change("started", p, now[p]) : p \in
     {q \in Pids : now[q] # Absent /\ before[q] # now[q]}}
    \cup {Change("stopped", p, before[p]) : p \in
            {q \in Pids : before[q] # Absent /\ before[q] # now[q]}}

\* diff_network_snapshots
NetworkChanges(before, now) ==
  {Change("opened", c, 1) : c \in
     {d \in Connections : before[d] = Absent /\ now[d] # Absent}}
    \cup {Change("closed", c, 1) : c \in
            {d \in Connections : before[d] # Absent /\ now[d] = Absent}}

\* validate_event, of a snapshot's change: NetworkPayload requires
\* remote_address and remote_port, which a socket without a remote end has
\* not; ProcessPayload bounds the length of names and paths.
Valid(e) ==
  IF e.action \in {"opened", "closed"} THEN e.key \notin Unconnected
                                       ELSE <<e.key, e.birth>> \notin Oversized
Accepted(changes) == {e \in changes : Valid(e)}

\* What of a snapshot valid events can tell.
ToldProcesses(table) ==
  [k \in Pids |-> IF <<k, table[k]>> \in Oversized THEN Absent ELSE table[k]]
ToldConnections(table) ==
  [k \in Connections |-> IF k \in Unconnected THEN Absent ELSE table[k]]
Reportable(machine) == [process |-> ToldProcesses(machine.process),
                        network |-> ToldConnections(machine.network)]

\* The records among rs that parse_auth_payload makes an event of.
Parsed(rs) == rs \ Ignored

\* What a reader of the events takes the machine for: a start counts after
\* the stop of the process that had the id before.
Replayed(seen, events) ==
  [k \in DOMAIN seen |->
     LET of(actions) == {e \in events : e.key = k /\ e.action \in actions}
     IN  CASE of({"started", "opened"}) # {} ->
                (CHOOSE e \in of({"started", "opened"}) : TRUE).birth
           [] of({"started", "opened"}) = {} /\ of({"stopped", "closed"}) # {} ->
                Absent
           [] OTHER -> seen[k]]

NoEvents == [records |-> {}, changes |-> {}]

\* A record is written to the security log.
Log ==
  /\ logged < MaxRecords
  /\ logged' = logged + 1
  /\ UNCHANGED <<rejected, faults, database, manager, pc, turn, memory, history>>

-----------------------------------------------------------------------------
(* The manager's methods.                                                  *)

Alive(p) == pc[p] # "over"

\* Variant: the UPDATE has no WHERE but leaves out sessions without a row.
MarkEverySession ==
  [n \in Sessions |->
     IF rows[n].status # "none"
       THEN [rows[n] EXCEPT !.status = "interrupted"] ELSE rows[n]]

\* mark_stale_running_sessions: of whichever process they are.
MarkStaleRunningSessions ==
  [n \in Sessions |->
     IF rows[n].status = "running"
       THEN [rows[n] EXCEPT !.status = "interrupted"] ELSE rows[n]]

\* get_manager, in a process that does not collect (yet).
Construct(p) ==
  /\ ~starting[p] /\ ~Alive(p)
  /\ rows' = MarkStaleRunningSessions
  /\ UNCHANGED <<environment, faults, saved, storedBy, quarantined, manager, pc,
                 turn, memory, history>>

\* check_availability: the collectors asked for that the machine has.
Available(p) == Selections[p]

\* Variant: the thread is not looked at.
AnyStart(p) == ~starting[p]

\* start holds _lock and refuses while the thread is alive.
MayStart(p) == ~starting[p] /\ ~Alive(p)

\* start up to the choice of collectors.
BeginStart(p, selection) ==
  /\ MayStart(p)
  /\ starting' = [starting EXCEPT ![p] = TRUE]
  /\ stopEvent' = [stopEvent EXCEPT ![p] = FALSE]
  /\ counters' = [counters EXCEPT ![p] = 0]
  /\ enabled' = [enabled EXCEPT ![p] = selection]
  /\ cursor' = [cursor EXCEPT ![p] = saved]
  /\ previous' = [previous EXCEPT ![p] = Nothing]
  /\ UNCHANGED <<environment, faults, database, session, pc, turn,
                 batch, outcome, history>>

\* There is no thread.  What only the next start would overwrite is forgotten.
Gone(p) ==
  /\ pc' = [pc EXCEPT ![p] = "over"]
  /\ stopEvent' = [stopEvent EXCEPT ![p] = FALSE]
  /\ turn' = [turn EXCEPT ![p] = "auth"]
  /\ session' = [session EXCEPT ![p] = 0]
  /\ enabled' = [enabled EXCEPT ![p] = {}]
  /\ cursor' = [cursor EXCEPT ![p] = NoCursor]
  /\ previous' = [previous EXCEPT ![p] = Nothing]
  /\ batch' = [batch EXCEPT ![p] = NoEvents]
  /\ counters' = [counters EXCEPT ![p] = 0]
  /\ outcome' = [outcome EXCEPT ![p] = "completed"]
  /\ replay' = [replay EXCEPT ![p] = Nothing]
  /\ gap' = [gap EXCEPT ![p] = FALSE]

\* No collector is available, or the row cannot be inserted.
AbortStart(p) ==
  /\ starting[p] /\ Gone(p)
  /\ starting' = [starting EXCEPT ![p] = FALSE]
  /\ UNCHANGED <<environment, faults, database, skipped, dropped>>

\* start_session, under the next free id.
InsertSession(n) ==
  /\ rows[n].status = "none" /\ \A m \in 1..(n - 1) : rows[m].status # "none"
  /\ rows' = [rows EXCEPT ![n].status = "running"]

\* The rest of start: the session's row and the thread.
Launch(p) ==
  /\ starting[p]
  /\ \E n \in Sessions :
       InsertSession(n) /\ session' = [session EXCEPT ![p] = n]
  /\ starting' = [starting EXCEPT ![p] = FALSE]
  /\ pc' = [pc EXCEPT ![p] = "begin"]
  /\ outcome' = [outcome EXCEPT ![p] = "completed"]
  /\ UNCHANGED <<environment, faults, saved, storedBy, quarantined,
                 stopEvent, enabled, turn, cursor, previous, batch, counters, history>>

\* stop; joining the thread changes nothing.  Without a thread or a start
\* under way the event is cleared again before anybody looks at it.
Stop(p) ==
  /\ starting[p] \/ Alive(p)
  /\ ~stopEvent[p]
  /\ stopEvent' = [stopEvent EXCEPT ![p] = TRUE]
  /\ UNCHANGED <<environment, faults, database, starting, session, enabled,
                 pc, turn, memory, history>>

-----------------------------------------------------------------------------
(* The thread: _run and _collect_once.                                     *)

Order == <<"process", "network", "auth">>
Position(c) == CHOOSE i \in 1..3 : Order[i] = c

\* Variant: collectors that are not available are polled as well.
FollowingAny(p, i) == {c \in Collectors : Position(c) > i}

Following(p, i) == {c \in enabled[p] : Position(c) > i}
FirstOf(cs) == CHOOSE c \in cs : \A d \in cs : Position(c) <= Position(d)

At(p, l) == pc[p] = l
Goto(p, l) == pc' = [pc EXCEPT ![p] = l]

Fault == faults < MaxFaults /\ faults' = faults + 1

\* The next collector of the round, or the heartbeat.
NextCollector(p) ==
  LET rest == Following(p, Position(turn[p]))
  IN  /\ Goto(p, IF rest = {} THEN "heartbeat" ELSE "poll")
      /\ turn' = [turn EXCEPT ![p] = IF rest = {} THEN @ ELSE FirstOf(rest)]

\* An exception that _collect_once does not catch.
Break(p) ==
  /\ Goto(p, "finally")
  /\ outcome' = [outcome EXCEPT ![p] = "error"]

\* The head of the loop, with the wait before it: the stop event may be set,
\* and the deadline, if there is one, over.
Loop(p) ==
  \/ /\ ~stopEvent[p] /\ Goto(p, "poll")
     /\ turn' = [turn EXCEPT ![p] = FirstOf(enabled[p])]
  \/ Goto(p, "finally") /\ UNCHANGED turn

\* _latest_record_id: without an answer the collector begins at the oldest record.
LatestRecord(answered) == IF answered THEN logged ELSE 0

\* What the snapshots of the collectors cs may show.  One that fails when the
\* collector starts leaves _previous empty, as an empty one does.
Snapshots(cs) ==
  [process : IF "process" \in cs THEN ProcessTables ELSE {Nothing.process},
   network : IF "network" \in cs THEN ConnectionTables ELSE {Nothing.network}]

\* collector.start of every collector.  The look for the newest record may fail.
StartCollectors(p) ==
  /\ At(p, "begin") /\ Loop(p)
  /\ \E seen \in Snapshots(enabled[p]) :
       /\ previous' = [previous EXCEPT ![p] = seen]
       /\ replay' = [replay EXCEPT ![p] = Reportable(seen)]
  /\ IF cursor[p] = NoCursor /\ "auth" \in enabled[p]
       THEN \E answered \in BOOLEAN :
              /\ cursor' = [cursor EXCEPT ![p] = LatestRecord(answered)]
              /\ skipped' = skipped \cup 1..LatestRecord(answered)
       ELSE UNCHANGED <<cursor, skipped>>
  /\ gap' = [gap EXCEPT ![p] = FALSE]
  /\ UNCHANGED <<environment, faults, database, manager, batch, counters, outcome,
                 dropped>>

\* Variant: the cursor follows every record that is read.
MovedWhileReading(p) == IF turn[p] = "auth" THEN logged ELSE cursor[p]

\* _read_live_events moves the cursor when it has read everything.
AfterFailedRead(p) == cursor[p]

\* The security log is read from the cursor on; reading may fail.
PollAuth(p) ==
  LET last == IF cursor[p] = NoCursor THEN 0 ELSE cursor[p]
  IN  /\ turn[p] = "auth"
      /\ \/ /\ batch' = [batch EXCEPT ![p] = NoEvents]
            /\ cursor' = [cursor EXCEPT ![p] = AfterFailedRead(p)]
         \/ /\ batch' = [batch EXCEPT ![p] =
                  [NoEvents EXCEPT !.records = Parsed((last + 1)..logged)]]
            /\ cursor' = [cursor EXCEPT ![p] = IF logged > last THEN logged ELSE last]
      /\ UNCHANGED previous

\* A new snapshot is compared with the previous one.
PollProcesses(p, now) ==
  /\ turn[p] = "process"
  /\ batch' = [batch EXCEPT ![p] = [NoEvents EXCEPT !.changes =
                 ProcessChanges(previous[p].process, now)]]
  /\ previous' = [previous EXCEPT ![p].process = now]
  /\ UNCHANGED cursor

PollConnections(p, now) ==
  /\ turn[p] = "network"
  /\ batch' = [batch EXCEPT ![p] = [NoEvents EXCEPT !.changes =
                 NetworkChanges(previous[p].network, now)]]
  /\ previous' = [previous EXCEPT ![p].network = now]
  /\ UNCHANGED cursor

\* The snapshot fails: no events, and the previous one stays.
SnapshotFails(p) ==
  /\ turn[p] # "auth"
  /\ batch' = [batch EXCEPT ![p] = NoEvents]
  /\ UNCHANGED <<cursor, previous>>

\* poll of the collector whose turn it is.
Poll(p) ==
  /\ At(p, "poll") /\ Goto(p, "save")
  /\ \/ PollAuth(p)
     \/ \E now \in ProcessTables : PollProcesses(p, now)
     \/ \E now \in ConnectionTables : PollConnections(p, now)
     \/ SnapshotFails(p)
  /\ UNCHANGED <<environment, faults, database, manager, turn, counters, outcome, history>>

\* The records INSERT OR IGNORE has added; the others are duplicates.
New(p) == {r \in batch[p].records \ rejected : storedBy[r] = 0}

\* The records whose event validate_event rejects.
Rejected(p) == batch[p].records \cap rejected

\* The changes of the batch that become events.
Stored(p) == Accepted(batch[p].changes)

\* cursor.rowcount, summed up.
Inserted(p) == Cardinality(New(p))

\* _counters["authentication"] after the round's insert.
Counted(p) == counters[p] + Inserted(p)

\* upsert_collector_state, of which only the auth collector's cursor is looked at.
Upserted(c, position) == IF c = "auth" THEN position ELSE saved

\* record_collector_observation goes well, and the round goes on.
Observe(p) == NextCollector(p) /\ UNCHANGED faults

\* insert_events_and_update_collector_state, or _insert_events_with_metadata
\* for a collector without a cursor; then the observation, which may fail on
\* its own.
Save(p) ==
  /\ At(p, "save")
  /\ \/ Observe(p)
     \/ Fault /\ Goto(p, "recover") /\ UNCHANGED turn
  /\ storedBy' = [r \in Records |-> IF r \in New(p) THEN session[p] ELSE storedBy[r]]
  /\ quarantined' = quarantined \cup Rejected(p)
  /\ saved' = Upserted(turn[p], cursor[p])
  /\ counters' = [counters EXCEPT ![p] = Counted(p)]
  /\ replay' = IF gap[p] \/ turn[p] = "auth" THEN replay
                ELSE [replay EXCEPT ![p][turn[p]] = Replayed(@, Stored(p))]
  /\ batch' = [batch EXCEPT ![p] = NoEvents]
  /\ UNCHANGED <<environment, rows, manager, cursor, previous, outcome, skipped,
                 dropped, gap>>

\* The transaction is rolled back.  With a change that is missing, replaying
\* the events is given up.
SaveFails(p) ==
  /\ At(p, "save") /\ Goto(p, "recover") /\ Fault
  /\ dropped' = dropped \cup batch[p].records
  /\ gap' = [gap EXCEPT ![p] = @ \/ Stored(p) # {}]
  /\ replay' = IF Stored(p) # {} THEN [replay EXCEPT ![p] = Nothing] ELSE replay
  /\ batch' = [batch EXCEPT ![p] = NoEvents]
  /\ UNCHANGED <<environment, database, manager, turn, cursor, previous, counters,
                 outcome, skipped>>

\* The except block: state "error" with an empty cursor, and an observation.
Recover(p) ==
  /\ At(p, "recover")
  /\ LET emptied == Upserted(turn[p], NoCursor)
     IN  \/ Observe(p) /\ saved' = emptied /\ UNCHANGED outcome
         \/ Fault /\ Break(p) /\ saved' \in {saved, emptied} /\ UNCHANGED turn
  /\ UNCHANGED <<environment, storedBy, quarantined, rows, manager,
                 cursor, previous, batch, counters, history>>

\* update_session_heartbeat, of a row that is still running.
Heartbeat(p) ==
  /\ At(p, "heartbeat")
  /\ LET n == session[p]
     IN  \/ /\ rows' = IF rows[n].status = "running"
                         THEN [rows EXCEPT ![n].counted = counters[p]] ELSE rows
            /\ Loop(p) /\ UNCHANGED <<faults, outcome>>
         \/ Fault /\ Break(p) /\ UNCHANGED <<rows, turn>>
  /\ UNCHANGED <<environment, saved, storedBy, quarantined, manager, cursor,
                 previous, batch, counters, history>>

\* collector.stop, and the cursor of the auth collector is stored.  If that
\* fails the thread ends without finishing its session.
StopCollectors(p) ==
  /\ At(p, "finally")
  /\ \/ /\ saved' = IF "auth" \in enabled[p] THEN cursor[p] ELSE saved
        /\ Goto(p, "settle")
        /\ previous' = [previous EXCEPT ![p] = Nothing]
        /\ UNCHANGED <<faults, stopEvent, session, enabled, turn, cursor, batch,
                       counters, outcome, replay, gap>>
     \/ "auth" \in enabled[p] /\ Fault /\ Gone(p) /\ UNCHANGED saved
  /\ UNCHANGED <<environment, storedBy, quarantined, rows, starting,
                 skipped, dropped>>

\* The last look at the stop event.
Settle(p) ==
  /\ At(p, "settle") /\ Goto(p, "finish")
  /\ outcome' = [outcome EXCEPT ![p] = IF stopEvent[p] THEN "stopped" ELSE @]
  /\ UNCHANGED <<environment, faults, database, manager, turn, cursor, previous,
                 batch, counters, history>>

\* finish_session, whatever the row's status is.  A stop after the last look
\* changes nothing any more.
Finish(p) ==
  /\ At(p, "finish") /\ Gone(p)
  /\ \/ /\ rows' = [rows EXCEPT ![session[p]] =
             [status |-> outcome[p], counted |-> counters[p]]]
        /\ UNCHANGED faults
     \/ Fault /\ UNCHANGED rows
  /\ UNCHANGED <<environment, saved, storedBy, quarantined, starting,
                 skipped, dropped>>

\* The process ends or is killed.
Die(p) ==
  /\ starting[p] \/ Alive(p)
  /\ starting' = [starting EXCEPT ![p] = FALSE]
  /\ Gone(p)
  /\ UNCHANGED <<environment, faults, database, skipped, dropped>>

-----------------------------------------------------------------------------
Init ==
  /\ logged = 0 /\ rejected \in SUBSET Records /\ faults = 0
  /\ saved = NoCursor /\ storedBy = [r \in Records |-> 0] /\ quarantined = {}
  /\ rows = [n \in Sessions |-> [status |-> "none", counted |-> 0]]
  /\ starting = [p \in Processes |-> FALSE] /\ stopEvent = starting
  /\ session = [p \in Processes |-> 0]
  /\ pc = [p \in Processes |-> "over"] /\ turn = [p \in Processes |-> "auth"]
  /\ enabled = [p \in Processes |-> {}]
  /\ cursor = [p \in Processes |-> NoCursor]
  /\ previous = [p \in Processes |-> Nothing]
  /\ batch = [p \in Processes |-> NoEvents]
  /\ counters = [p \in Processes |-> 0]
  /\ outcome = [p \in Processes |-> "completed"]
  /\ skipped = {} /\ dropped = {}
  /\ replay = previous /\ gap = starting

Thread(p) ==
  \/ StartCollectors(p) \/ Poll(p) \/ Save(p) \/ SaveFails(p)
  \/ Recover(p) \/ Heartbeat(p) \/ StopCollectors(p) \/ Settle(p)
  \/ Finish(p)

Next ==
  \/ Log
  \/ \E p \in Processes :
       \/ Construct(p) \/ AbortStart(p) \/ Launch(p) \/ Stop(p) \/ Die(p) \/ Thread(p)
       \/ \E selection \in Available(p) : BeginStart(p, selection)

Spec == Init /\ [][Next]_vars

-----------------------------------------------------------------------------
Locations == {"over", "begin", "poll", "save", "recover",
              "heartbeat", "finally", "settle", "finish"}
Statuses == {"none", "running", "completed", "stopped", "error", "interrupted"}
Cursors == Records \cup {0, NoCursor}
Changes == [action : {"started", "stopped", "opened", "closed"},
            key : Pids \cup Connections, birth : Births \cup {1}]

\* Every variable has its type, and a living thread works for a session and on
\* a collector that is enabled.
TypeOK ==
  /\ logged \in 0..MaxRecords /\ rejected \subseteq Records
  /\ faults \in 0..MaxFaults
  /\ saved \in Cursors
  /\ storedBy \in [Records -> Sessions \cup {0}]
  /\ quarantined \subseteq Records
  /\ rows \in [Sessions -> [status : Statuses, counted : Nat]]
  /\ starting \in [Processes -> BOOLEAN]
  /\ stopEvent \in [Processes -> BOOLEAN]
  /\ session \in [Processes -> Sessions \cup {0}]
  /\ pc \in [Processes -> Locations] /\ turn \in [Processes -> Collectors]
  /\ enabled \in [Processes -> SUBSET Collectors]
  /\ cursor \in [Processes -> Cursors]
  /\ previous \in [Processes -> Machines]
  /\ batch \in [Processes -> [records : SUBSET Records, changes : SUBSET Changes]]
  /\ counters \in [Processes -> Nat]
  /\ outcome \in [Processes -> {"completed", "stopped", "error"}]
  /\ skipped \subseteq Records /\ dropped \subseteq Records
  /\ replay \in [Processes -> Machines] /\ gap \in [Processes -> BOOLEAN]
  /\ \A p \in Processes : Alive(p) =>
       /\ session[p] \in Sessions /\ enabled[p] # {}
       /\ pc[p] \in {"poll", "save", "recover"} => turn[p] \in enabled[p]

Accounted == {r \in Records : storedBy[r] # 0}
               \cup quarantined \cup Ignored \cup skipped \cup dropped

\* Every record up to the stored cursor is stored, quarantined or of no
\* interest, unless it was passed over when there was no cursor, or its batch
\* could not be saved; for the cursor in memory, unless it is in the batch at
\* hand.  So neither a crash nor a second process loses a record.
RecordsAccountedFor ==
  /\ 1..saved \subseteq Accounted
  /\ \A p \in Processes : 1..cursor[p] \subseteq Accounted \cup batch[p].records

\* Who replays a session's stored events sees of the snapshots the collectors
\* compare with all that valid events can tell, also when a process id is used
\* again between two polls, for a process whose events are refused.  Sockets
\* without a remote end are never told of.
ChangesAccountedFor ==
  \A p \in Processes :
    Alive(p) /\ ~gap[p] /\ pc[p] \notin {"begin", "save", "settle", "finish"} =>
      replay[p] = Reportable(previous[p])

\* Nothing the collectors saw is missing without a transaction having failed,
\* but what validate_event refuses.
NothingLost == RecordsAccountedFor /\ ChangesAccountedFor

EventsOf(n) == Cardinality({r \in Records : storedBy[r] = n})

\* The counters of a finished session are the number of events stored under
\* it, also when another process stored some of its records or declared it
\* interrupted; those of any other row are not more.  SessionLedgerSpec implies it.
FinishedCountsItsEvents ==
  \A n \in Sessions :
    /\ rows[n].counted <= EventsOf(n)
    /\ rows[n].status \in {"completed", "stopped", "error"} =>
         rows[n].counted = EventsOf(n)

\* The stop event is set, and the thread has the last look at it before it, or
\* saw it then.
StopInTime(p) == stopEvent[p] /\ (pc[p] = "finish" => outcome[p] = "stopped")

\* A stop in time of a living thread stays one until the thread is over,
\* whoever calls start meanwhile; the thread begins no further round, and if it
\* finishes its session it does so as stopped.  A stop after the last look finds
\* the session completed or in error.
StopIsObeyed ==
  [][\A p \in Processes : Alive(p) /\ StopInTime(p) =>
       \/ /\ StopInTime(p)'
          /\ ~(pc[p] \in {"begin", "heartbeat"} /\ pc'[p] = "poll")
       \/ /\ pc'[p] = "over"
          /\ rows' # rows => rows'[session[p]].status = "stopped"]_vars

\* The sessions and the events stored under them are a ledger (SessionLedger):
\* a session ends once and takes no event after that, an event keeps its
\* session, and a row never counts what was not stored, whichever processes
\* store, interrupt, die or finish at a time.
Ledger == INSTANCE SessionLedger WITH
            status <- [n \in Sessions |-> rows[n].status],
            counted <- [n \in Sessions |-> rows[n].counted]
SessionLedgerSpec == Ledger!Spec

=============================================================================
