---------------------------- MODULE Materialization ----------------------------
(***************************************************************************)
(* Incremental feature materialization (FeatureMaterializer.materialize)   *)
(* for the events of the synthetic dataset and of one profile: from        *)
(* telemetry_events to feature_windows, over the watermarks of             *)
(* feature_materialization_state and with late_event_records.              *)
(*                                                                         *)
(* Events have a timestamp and, taken before their INSERT waits for the    *)
(* writer lock, an ingestion stamp.  A pass reads in several statements    *)
(* and writes in transactions of its own; within a process passes exclude  *)
(* each other (_FEATURE_LOCKS), between processes nothing keeps them       *)
(* apart.  A window's row is abstracted to the events it was computed      *)
(* from: its own and, for the novelty features, all earlier ones.          *)
(***************************************************************************)
EXTENDS Naturals, FiniteSets

CONSTANTS
  Events,       \* event ids; their order breaks ties of ingestion stamps
  Timestamps,   \* the timestamps the events may have: functions from Events
  WindowSize,   \* window_minutes, which divides the day
  LateInterval, \* late_event_minutes
  Processes,    \* processes that materialize
  MaxStamp      \* bound: no event is stamped later

\* Id 0 and time 0 stand for NULL.
ASSUME MaterializationAssumption ==
  /\ Events \subseteq Nat \ {0}
  /\ Timestamps \subseteq [Events -> Nat \ {0}]
  /\ WindowSize \in Nat \ {0} /\ LateInterval \in Nat
  /\ MaxStamp \in Nat

VARIABLES
  at,        \* the events' timestamps
  stamp,     \* ingested_at, 0 before a writer has taken it
  stored,    \* the events whose insertion has committed
  clock,     \* the wall clock the stamps are read from
  rows,      \* feature_windows: the events each window was computed from
  state,     \* the row of feature_materialization_state
  late,      \* late_event_records.within_policy, by event
  pass,      \* the pass each process has in progress
  stale,     \* history: the passes in progress that another has written under
  overtaken, \* history: events stored after one with a later stamp, until a pass
             \* reads them as new
  raced      \* history: a pass has written beside another one in progress, and
             \* no undisturbed rebuild has come since

telemetry == <<at, stamp, stored, clock>>
vars == <<telemetry, rows, state, late, pass, stale, overtaken, raced>>

PCs == {"idle", "readNew", "record", "readRange", "readBaseline", "readAll",
        "replace", "deleteAll", "stateOnly"}
Times == {f[e] : f \in Timestamps, e \in Events}
States == [exists : BOOLEAN, last : Events \cup {0}, time : Times \cup {0}]
NoState == [exists |-> FALSE, last |-> 0, time |-> 0]
Passes == [pc : PCs, rebuild : BOOLEAN, full : BOOLEAN, prev : States,
           new : SUBSET Events, todo : SUBSET Events,
           read : SUBSET Events, base : SUBSET Events]
Idle == [pc |-> "idle", rebuild |-> FALSE, full |-> FALSE, prev |-> NoState,
         new |-> {}, todo |-> {}, read |-> {}, base |-> {}]

Align(t) == t - (t % WindowSize)
Windows == {Align(t) : t \in Times}

\* What _build_windows makes of a set of events.
Built(es) ==
  [w \in Windows |-> IF \E e \in es : Align(at[e]) = w
                       THEN {e \in es : Align(at[e]) <= w}
                       ELSE {}]

\* (ingested_at, event_id) of e is above that of the event m, 0 for NULL.
Beyond(e, m) == \/ m = 0
                \/ stamp[e] > stamp[m]
                \/ stamp[e] = stamp[m] /\ e > m

Init ==
  /\ at \in Timestamps
  /\ stamp = [e \in Events |-> 0]
  /\ stored = {}
  /\ clock = 1
  /\ rows = Built({})
  /\ state = NoState
  /\ late = [e \in Events |-> "none"]
  /\ pass = [p \in Processes |-> Idle]
  /\ stale = {}
  /\ overtaken = {}
  /\ raced = FALSE

-----------------------------------------------------------------------------
(***************************************************************************)
(* _insert_events_with_metadata                                            *)
(***************************************************************************)
\* datetime.now(), while the transaction has yet to begin; clocks that tick
\* slowly give one stamp twice.
Stamp(e) ==
  /\ stamp[e] = 0
  /\ \E now \in {clock, clock + 1} :
       /\ now <= MaxStamp
       /\ clock' = now
       /\ stamp' = [stamp EXCEPT ![e] = now]
  /\ UNCHANGED <<at, stored, rows, state, late, pass, stale, overtaken, raced>>

Store(e) ==
  /\ stamp[e] # 0 /\ e \notin stored
  /\ stored' = stored \cup {e}
  /\ overtaken' = IF \E f \in stored : ~Beyond(e, f) THEN overtaken \cup {e}
                                                     ELSE overtaken
  /\ UNCHANGED <<at, stamp, clock, rows, state, late, pass, stale, raced>>

\* The transaction fails, or its process dies; the event may come again.
RollBack(e) ==
  /\ stamp[e] # 0 /\ e \notin stored
  /\ stamp' = [stamp EXCEPT ![e] = 0]
  /\ UNCHANGED <<at, stored, clock, rows, state, late, pass, stale, overtaken,
                 raced>>

-----------------------------------------------------------------------------
(***************************************************************************)
(* materialize                                                             *)
(***************************************************************************)
Goto(p, l) == pass' = [pass EXCEPT ![p].pc = l]
Return(p) == pass' = [pass EXCEPT ![p] = Idle]

\* The passes of other processes that are in progress when p writes.
Others(p) == {q \in Processes \ {p} : pass[q].pc # "idle"}

\* materialize_features and rebuild_features: the lock of the process and
\* get_materialization_state.
Begin(p) ==
  /\ pass[p].pc = "idle"
  /\ \E rebuild \in BOOLEAN :
       LET full == rebuild \/ ~state.exists IN
       pass' = [pass EXCEPT ![p] =
                  [Idle EXCEPT !.pc = IF full THEN "readAll" ELSE "readNew",
                               !.rebuild = rebuild, !.full = full,
                               !.prev = state]]
  /\ UNCHANGED <<telemetry, rows, state, late, stale, overtaken, raced>>

\* Variant: events with the stamp of the last event are taken for read.
ReadNewByStamp(p) ==
  /\ pass[p].pc = "readNew"
  /\ LET last == pass[p].prev.last
         new == {e \in stored : last = 0 \/ stamp[e] > stamp[last]}
     IN  IF new = {} THEN /\ Return(p) /\ stale' = stale \ {p}
         ELSE /\ pass' = [pass EXCEPT ![p].pc = "record", ![p].new = new,
                            ![p].todo = {e \in new : at[e] < pass[p].prev.time}]
              /\ UNCHANGED stale
  /\ UNCHANGED <<telemetry, rows, state, late, overtaken, raced>>

\* Variant: events are read before their transaction has committed.
ReadUncommitted(p) ==
  /\ pass[p].pc = "readNew"
  /\ LET new == {e \in Events : stamp[e] # 0 /\ Beyond(e, pass[p].prev.last)}
     IN  IF new = {} THEN /\ Return(p) /\ stale' = stale \ {p}
         ELSE /\ pass' = [pass EXCEPT ![p].pc = "record", ![p].new = new,
                            ![p].todo = {e \in new : at[e] < pass[p].prev.time}]
              /\ UNCHANGED stale
  /\ UNCHANGED <<telemetry, rows, state, late, overtaken, raced>>

\* list_event_rows above the ingestion watermark; nothing new is a no-op.
ReadNew(p) ==
  /\ pass[p].pc = "readNew"
  /\ LET new == {e \in stored : Beyond(e, pass[p].prev.last)} IN
     IF new = {} THEN /\ Return(p) /\ stale' = stale \ {p}
     ELSE /\ pass' = [pass EXCEPT ![p].pc = "record", ![p].new = new,
                        ![p].todo = {e \in new : at[e] < pass[p].prev.time}]
          /\ UNCHANGED stale
  /\ UNCHANGED <<telemetry, rows, state, late, overtaken, raced>>

\* event.timestamp < event_time_watermark - late_event_minutes
Outside(e, time) == at[e] + LateInterval < time

\* _affected_range, one record_late_event: INSERT OR IGNORE, a transaction of
\* its own, in the order of the events.
RecordLate(p) ==
  /\ pass[p].pc = "record"
  /\ \E e \in pass[p].todo :
       /\ \A f \in pass[p].todo : \/ at[e] < at[f]
                                  \/ at[e] = at[f] /\ e <= f
       /\ late' = [late EXCEPT ![e] = IF @ # "none" THEN @
                     ELSE IF Outside(e, pass[p].prev.time) THEN "outside"
                     ELSE "within"]
       /\ pass' = [pass EXCEPT ![p].todo = pass[p].todo \ {e}]
  /\ stale' = stale \cup Others(p)
  /\ raced' = (raced \/ Others(p) # {})
  /\ UNCHANGED <<telemetry, rows, state, overtaken>>

\* The events of the pass that are not skipped, and their windows.
InPolicy(p) == {e \in pass[p].new : ~Outside(e, pass[p].prev.time)}

\* Variant: the range always ends after the last new event.
BoundedRange(p, t) ==
  /\ \E e \in InPolicy(p) : Align(at[e]) <= t
  /\ \E e \in InPolicy(p) : t < Align(at[e]) + WindowSize

\* The time range of the pass: to the end of its last window, or open when an
\* event is late within the policy.
Affected(p, t) ==
  /\ \E e \in InPolicy(p) : Align(at[e]) <= t
  /\ \/ \E e \in InPolicy(p) : at[e] < pass[p].prev.time
     \/ \E e \in InPolicy(p) : t < Align(at[e]) + WindowSize

\* list_event_rows(start, end)
ReadRange(p) ==
  /\ pass[p].pc = "record" /\ pass[p].todo = {}
  /\ pass' = IF InPolicy(p) = {}
               THEN [pass EXCEPT ![p].pc = "stateOnly"]
               ELSE [pass EXCEPT ![p].pc = "readBaseline",
                                 ![p].read = {e \in stored : Affected(p, at[e])}]
  /\ UNCHANGED <<telemetry, rows, state, late, stale, overtaken, raced>>

\* feature_novelty_baseline(before=affected_start)
ReadBaseline(p) ==
  /\ pass[p].pc = "readBaseline"
  /\ pass' = [pass EXCEPT ![p].pc = "replace",
                ![p].base = {e \in stored : \A f \in InPolicy(p) :
                                              at[e] < Align(at[f])}]
  /\ UNCHANGED <<telemetry, rows, state, late, stale, overtaken, raced>>

\* list_event_rows without bounds, for a rebuild and for a first pass.
ReadAll(p) ==
  /\ pass[p].pc = "readAll"
  /\ pass' = [pass EXCEPT ![p].read = stored, ![p].new = stored,
                ![p].pc = CASE stored # {} -> "replace"
                            [] stored = {} /\ pass[p].rebuild -> "deleteAll"
                            [] OTHER -> "stateOnly"]
  /\ UNCHANGED <<telemetry, rows, state, late, stale, overtaken, raced>>

\* _state_arguments: both watermarks from the events of the pass, neither
\* going back within it.
NextStates(p) ==
  {s \in States :
    /\ s.exists
    /\ IF pass[p].new = {} THEN s.last = pass[p].prev.last
       ELSE /\ s.last \in pass[p].new
            /\ \A e \in pass[p].new : e = s.last \/ Beyond(s.last, e)
    /\ s.time \in {at[e] : e \in pass[p].new} \cup {pass[p].prev.time}
    /\ \A e \in pass[p].new : at[e] <= s.time
    /\ pass[p].prev.time <= s.time}

\* What is deleted: everything, from the first event on, or the range.
Replaced(p, w) ==
  \/ pass[p].rebuild
  \/ pass[p].full /\ \E e \in pass[p].read : Align(at[e]) <= w
  \/ ~pass[p].full /\ Affected(p, w)

\* replace_feature_windows_and_materialization_state, one transaction.
Replace(p) ==
  /\ pass[p].pc = "replace"
  /\ rows' = [w \in Windows |->
                IF Replaced(p, w)
                  THEN Built(pass[p].read \cup pass[p].base)[w] ELSE rows[w]]
  /\ state' \in NextStates(p)
  /\ overtaken' = overtaken \ pass[p].new
  /\ raced' = (Others(p) # {} \/ (raced /\ ~(pass[p].rebuild /\ p \notin stale)))
  /\ stale' = (stale \cup Others(p)) \ {p}
  /\ Return(p)
  /\ UNCHANGED <<telemetry, late>>

\* delete_feature_windows, when a rebuild has read nothing.
DeleteAll(p) ==
  /\ pass[p].pc = "deleteAll"
  /\ rows' = Built({})
  /\ raced' = (raced \/ Others(p) # {})
  /\ stale' = stale \cup Others(p)
  /\ Goto(p, "stateOnly")
  /\ UNCHANGED <<telemetry, state, late, overtaken>>

\* _update_state, when no window is affected.
UpdateState(p) ==
  /\ pass[p].pc = "stateOnly"
  /\ state' \in NextStates(p)
  /\ overtaken' = overtaken \ pass[p].new
  /\ raced' = (raced \/ Others(p) # {})
  /\ stale' = (stale \cup Others(p)) \ {p}
  /\ Return(p)
  /\ UNCHANGED <<telemetry, rows, late>>

\* The pass raises (database is locked), or its process dies.
Die(p) ==
  /\ pass[p].pc # "idle"
  /\ Return(p)
  /\ stale' = stale \ {p}
  /\ UNCHANGED <<telemetry, rows, state, late, overtaken, raced>>

Ingest == \E e \in Events : Stamp(e) \/ Store(e) \/ RollBack(e)
Materialize == \E p \in Processes :
  \/ Begin(p) \/ ReadNew(p) \/ RecordLate(p) \/ ReadRange(p) \/ ReadBaseline(p)
  \/ ReadAll(p) \/ Replace(p) \/ DeleteAll(p) \/ UpdateState(p) \/ Die(p)

Next == Ingest \/ Materialize

Spec == Init /\ [][Next]_vars

-----------------------------------------------------------------------------
(***************************************************************************)
(* Properties                                                              *)
(***************************************************************************)
\* Every variable has its type (telemetry_events, feature_windows,
\* feature_materialization_state, late_event_records), and the watermark is the
\* place of a stored event.
TypeOK ==
  /\ at \in Timestamps
  /\ stamp \in [Events -> Nat]
  /\ stored \subseteq Events
  /\ clock \in Nat
  /\ rows \in [Windows -> SUBSET Events]
  /\ state \in States /\ state.last \in stored \cup {0}
  /\ late \in [Events -> {"none", "within", "outside"}]
  /\ pass \in [Processes -> Passes]
  /\ stale \subseteq Processes
  /\ overtaken \subseteq Events
  /\ raced \in BOOLEAN

\* The ingestion watermark passes no event by: unless passes of two processes
\* crossed, or the event was stored behind a later stamp, an event at or below
\* last_ingested_at, last_event_id is in its window or recorded as outside the
\* policy, even when passes died after they recorded it.  The watermark and the
\* windows are written together, after reads that are statements of their own.
WatermarkCovers ==
  ~raced =>
    \A e \in stored \ overtaken :
      \/ Beyond(e, state.last)
      \/ e \in rows[Align(at[e])]
      \/ late[e] = "outside"

\* Incremental passes and rebuild agree (docs/DATA_PIPELINE.md): when every
\* event is in its window, none was overtaken and no two processes' passes
\* crossed, the windows are those a rebuild would write, novelty features included.
RowsMatchRebuild ==
  /\ ~raced /\ overtaken = {}
  /\ \A e \in stored : e \in rows[Align(at[e])]
  => rows = Built(stored)
=============================================================================
