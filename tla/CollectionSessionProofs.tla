------------------------ MODULE CollectionSessionProofs ------------------------
(***************************************************************************)
(* Proofs about CollectionSession, for any number of processes, process    *)
(* ids, connections, records, sessions and failed transactions.            *)
(***************************************************************************)
EXTENDS CollectionSession, FiniteSetTheorems, TLAPS

USE CollectionAssumption

(***************************************************************************)
(* The collectors: their order, what they report and what a reader of the  *)
(* reports sees.                                                           *)
(***************************************************************************)
LEMMA PositionFacts ==
  /\ Position("process") = 1 /\ Position("network") = 2 /\ Position("auth") = 3
  /\ \A c \in Collectors : Position(c) \in 1..3
<1>1. Order[1] = "process" /\ Order[2] = "network" /\ Order[3] = "auth"
  BY DEF Order
<1>2. Position("process") = 1 /\ Position("network") = 2 /\ Position("auth") = 3
  BY <1>1 DEF Position
<1> QED
  BY <1>2 DEF Collectors

LEMMA FirstOfMember ==
  ASSUME NEW cs \in SUBSET Collectors, cs # {}
  PROVE  FirstOf(cs) \in cs
<1>1. \E c \in cs : \A d \in cs : Position(c) <= Position(d)
  <2>1. CASE "process" \in cs
    BY <2>1, PositionFacts DEF Collectors
  <2>2. CASE "process" \notin cs /\ "network" \in cs
    BY <2>2, PositionFacts DEF Collectors
  <2>3. CASE cs = {"auth"}
    BY <2>3, PositionFacts DEF Collectors
  <2> QED
    BY <2>1, <2>2, <2>3 DEF Collectors
<1> QED
  BY <1>1 DEF FirstOf

\* The accepted changes between two process tables turn what can be told of the
\* first into what can be told of the second, also where the birth of a process
\* id changed; whatever they are applied to they give a process table.
LEMMA ProcessReplay ==
  ASSUME NEW before \in ProcessTables, NEW now \in ProcessTables,
         NEW seen \in ProcessTables
  PROVE  /\ ProcessChanges(before, now) \in SUBSET Changes
         /\ Replayed(seen, Accepted(ProcessChanges(before, now))) \in ProcessTables
         /\ Replayed(ToldProcesses(before), Accepted(ProcessChanges(before, now)))
              = ToldProcesses(now)
<1> DEFINE events == Accepted(ProcessChanges(before, now))
           of(k, actions) == {e \in events : e.key = k /\ e.action \in actions}
           starts(k) == /\ now[k] # Absent /\ before[k] # now[k]
                        /\ <<k, now[k]>> \notin Oversized
           stops(k) == /\ before[k] # Absent /\ before[k] # now[k]
                       /\ <<k, before[k]>> \notin Oversized
<1>1. ProcessChanges(before, now) \in SUBSET Changes
  BY DEF ProcessChanges, Change, Changes, ProcessTables, Absent
<1>2. \A k \in Pids : of(k, {"started", "opened"}) =
        IF starts(k) THEN {Change("started", k, now[k])} ELSE {}
  BY DEF ProcessChanges, Change, Accepted, Valid
<1>3. \A k \in Pids : of(k, {"stopped", "closed"}) =
        IF stops(k) THEN {Change("stopped", k, before[k])} ELSE {}
  BY DEF ProcessChanges, Change, Accepted, Valid
<1>4. ASSUME NEW s \in ProcessTables, NEW k \in Pids
      PROVE  Replayed(s, events)[k] =
               IF starts(k) THEN now[k] ELSE IF stops(k) THEN Absent ELSE s[k]
  <2>1. DOMAIN s = Pids
    BY DEF ProcessTables
  <2>2. Replayed(s, events)[k] =
          CASE of(k, {"started", "opened"}) # {} ->
                 (CHOOSE e \in of(k, {"started", "opened"}) : TRUE).birth
            [] of(k, {"started", "opened"}) = {} /\ of(k, {"stopped", "closed"}) # {} ->
                 Absent
            [] OTHER -> s[k]
    BY <2>1 DEF Replayed
  <2>3. CASE starts(k)
    <3>1. of(k, {"started", "opened"}) = {Change("started", k, now[k])}
      BY <1>2, <2>3
    <3>2. (CHOOSE e \in of(k, {"started", "opened"}) : TRUE) = Change("started", k, now[k])
      BY <3>1
    <3>3. Change("started", k, now[k]).birth = now[k]
      BY DEF Change
    <3> HIDE DEF of, starts, stops
    <3> QED
      BY <2>2, <2>3, <3>1, <3>2, <3>3
  <2>4. CASE ~starts(k) /\ stops(k)
    <3>1. of(k, {"started", "opened"}) = {} /\ of(k, {"stopped", "closed"}) # {}
      BY <1>2, <1>3, <2>4
    <3> HIDE DEF of, starts, stops
    <3> QED
      BY <2>2, <2>4, <3>1
  <2>5. CASE ~starts(k) /\ ~stops(k)
    <3>1. of(k, {"started", "opened"}) = {} /\ of(k, {"stopped", "closed"}) = {}
      BY <1>2, <1>3, <2>5
    <3> HIDE DEF of, starts, stops
    <3> QED
      BY <2>2, <2>5, <3>1
  <2> QED
    BY <2>3, <2>4, <2>5
<1>5. \A s \in ProcessTables :
        /\ DOMAIN Replayed(s, events) = Pids
        /\ Replayed(s, events) = [k \in Pids |-> Replayed(s, events)[k]]
  BY DEF Replayed, ProcessTables
<1> HIDE DEF events
<1>6. Replayed(seen, events) \in ProcessTables
  BY <1>4, <1>5 DEF ProcessTables
<1>7. Replayed(ToldProcesses(before), events) = ToldProcesses(now)
  <2>1. ToldProcesses(before) \in ProcessTables
    BY DEF ToldProcesses, ProcessTables
  <2>2. ASSUME NEW k \in Pids
        PROVE  Replayed(ToldProcesses(before), events)[k] = ToldProcesses(now)[k]
    BY <1>4, <2>1 DEF ToldProcesses
  <2> QED
    BY <1>5, <2>1, <2>2 DEF ToldProcesses
<1> QED
  BY <1>1, <1>6, <1>7 DEF events

\* The same of two connection tables.
LEMMA ConnectionReplay ==
  ASSUME NEW before \in ConnectionTables, NEW now \in ConnectionTables,
         NEW seen \in ConnectionTables
  PROVE  /\ NetworkChanges(before, now) \in SUBSET Changes
         /\ Replayed(seen, Accepted(NetworkChanges(before, now))) \in ConnectionTables
         /\ Replayed(ToldConnections(before), Accepted(NetworkChanges(before, now)))
              = ToldConnections(now)
<1> DEFINE events == Accepted(NetworkChanges(before, now))
           of(k, actions) == {e \in events : e.key = k /\ e.action \in actions}
           opens(k) == before[k] = Absent /\ now[k] # Absent /\ k \notin Unconnected
           closes(k) == before[k] # Absent /\ now[k] = Absent /\ k \notin Unconnected
<1>1. NetworkChanges(before, now) \in SUBSET Changes
  BY DEF NetworkChanges, Change, Changes, ConnectionTables, Absent
<1>2. \A k \in Connections : of(k, {"started", "opened"}) =
        IF opens(k) THEN {Change("opened", k, 1)} ELSE {}
  BY DEF NetworkChanges, Change, Accepted, Valid
<1>3. \A k \in Connections : of(k, {"stopped", "closed"}) =
        IF closes(k) THEN {Change("closed", k, 1)} ELSE {}
  BY DEF NetworkChanges, Change, Accepted, Valid
<1>4. ASSUME NEW s \in ConnectionTables, NEW k \in Connections
      PROVE  Replayed(s, events)[k] =
               IF opens(k) THEN 1 ELSE IF closes(k) THEN Absent ELSE s[k]
  <2>1. DOMAIN s = Connections
    BY DEF ConnectionTables
  <2>2. Replayed(s, events)[k] =
          CASE of(k, {"started", "opened"}) # {} ->
                 (CHOOSE e \in of(k, {"started", "opened"}) : TRUE).birth
            [] of(k, {"started", "opened"}) = {} /\ of(k, {"stopped", "closed"}) # {} ->
                 Absent
            [] OTHER -> s[k]
    BY <2>1 DEF Replayed
  <2>3. CASE opens(k)
    <3>1. of(k, {"started", "opened"}) = {Change("opened", k, 1)}
      BY <1>2, <2>3
    <3>2. (CHOOSE e \in of(k, {"started", "opened"}) : TRUE) = Change("opened", k, 1)
      BY <3>1
    <3>3. Change("opened", k, 1).birth = 1
      BY DEF Change
    <3> HIDE DEF of, opens, closes
    <3> QED
      BY <2>2, <2>3, <3>1, <3>2, <3>3
  <2>4. CASE ~opens(k) /\ closes(k)
    <3>1. of(k, {"started", "opened"}) = {} /\ of(k, {"stopped", "closed"}) # {}
      BY <1>2, <1>3, <2>4
    <3> HIDE DEF of, opens, closes
    <3> QED
      BY <2>2, <2>4, <3>1
  <2>5. CASE ~opens(k) /\ ~closes(k)
    <3>1. of(k, {"started", "opened"}) = {} /\ of(k, {"stopped", "closed"}) = {}
      BY <1>2, <1>3, <2>5
    <3> HIDE DEF of, opens, closes
    <3> QED
      BY <2>2, <2>5, <3>1
  <2> QED
    BY <2>3, <2>4, <2>5
<1>5. \A s \in ConnectionTables :
        /\ DOMAIN Replayed(s, events) = Connections
        /\ Replayed(s, events) = [k \in Connections |-> Replayed(s, events)[k]]
  BY DEF Replayed, ConnectionTables
<1> HIDE DEF events
<1>6. Replayed(seen, events) \in ConnectionTables
  BY <1>4, <1>5 DEF ConnectionTables
<1>7. Replayed(ToldConnections(before), events) = ToldConnections(now)
  <2>1. ToldConnections(before) \in ConnectionTables
    BY DEF ToldConnections, ConnectionTables
  <2>2. ASSUME NEW k \in Connections
        PROVE  Replayed(ToldConnections(before), events)[k] = ToldConnections(now)[k]
    BY <1>4, <2>1 DEF ToldConnections, ConnectionTables, Absent
  <2> QED
    BY <1>5, <2>1, <2>2 DEF ToldConnections
<1> QED
  BY <1>1, <1>6, <1>7 DEF events

\* Comparing a snapshot with itself shows nothing.
LEMMA NoChange ==
  /\ \A t \in ProcessTables : ProcessChanges(t, t) = {}
  /\ \A t \in ConnectionTables : NetworkChanges(t, t) = {}
BY DEF ProcessChanges, NetworkChanges

\* Snapshots of which different things can be told show an accepted change.
LEMMA OnlyEqualUnchanged ==
  /\ \A s, t \in ProcessTables :
       Accepted(ProcessChanges(s, t)) = {} => ToldProcesses(s) = ToldProcesses(t)
  /\ \A s, t \in ConnectionTables :
       Accepted(NetworkChanges(s, t)) = {} => ToldConnections(s) = ToldConnections(t)
<1>1. Accepted({}) = {}
  BY DEF Accepted
<1>2. ASSUME NEW s \in ProcessTables, NEW t \in ProcessTables,
             Accepted(ProcessChanges(s, t)) = {}
      PROVE  ToldProcesses(s) = ToldProcesses(t)
  <2>1. Accepted(ProcessChanges(s, t)) = Accepted(ProcessChanges(s, s))
    BY <1>1, <1>2, NoChange
  <2>2. /\ Replayed(ToldProcesses(s), Accepted(ProcessChanges(s, t))) = ToldProcesses(t)
        /\ Replayed(ToldProcesses(s), Accepted(ProcessChanges(s, s))) = ToldProcesses(s)
    BY ProcessReplay
  <2> QED
    BY <2>1, <2>2
<1>3. ASSUME NEW s \in ConnectionTables, NEW t \in ConnectionTables,
             Accepted(NetworkChanges(s, t)) = {}
      PROVE  ToldConnections(s) = ToldConnections(t)
  <2>1. Accepted(NetworkChanges(s, t)) = Accepted(NetworkChanges(s, s))
    BY <1>1, <1>3, NoChange
  <2>2. /\ Replayed(ToldConnections(s), Accepted(NetworkChanges(s, t)))
             = ToldConnections(t)
        /\ Replayed(ToldConnections(s), Accepted(NetworkChanges(s, s)))
             = ToldConnections(s)
    BY ConnectionReplay
  <2> QED
    BY <2>1, <2>2
<1> QED
  BY <1>2, <1>3

LEMMA NothingTyped ==
  /\ Nothing \in Machines
  /\ NoEvents \in [records : SUBSET Records, changes : SUBSET Changes]
BY DEF Nothing, Machines, ProcessTables, ConnectionTables, Absent, NoEvents

\* What the collectors begin with, and what can be told of it, are machines.
LEMMA SeenTyped ==
  /\ \A cs : Snapshots(cs) \subseteq Machines
  /\ \A machine \in Machines : Reportable(machine) \in Machines
<1>1. \A cs : Snapshots(cs) \subseteq Machines
  BY NothingTyped DEF Snapshots, Machines
<1>2. ASSUME NEW machine \in Machines
      PROVE  Reportable(machine) \in Machines
  <2>1. ToldProcesses(machine.process) \in ProcessTables
    BY DEF Machines, ToldProcesses, ProcessTables
  <2>2. ToldConnections(machine.network) \in ConnectionTables
    BY DEF Machines, ToldConnections, ConnectionTables
  <2> QED
    BY <2>1, <2>2 DEF Reportable, Machines
<1> QED
  BY <1>1, <1>2

\* What can be told of a machine of which one table is another one.
LEMMA ReportableParts ==
  ASSUME NEW machine \in Machines
  PROVE  /\ Reportable(machine) = [process |-> ToldProcesses(machine.process),
                                    network |-> ToldConnections(machine.network)]
         /\ \A table :
              /\ Reportable([machine EXCEPT !.process = table])
                   = [process |-> ToldProcesses(table),
                      network |-> ToldConnections(machine.network)]
              /\ Reportable([machine EXCEPT !.network = table])
                   = [process |-> ToldProcesses(machine.process),
                      network |-> ToldConnections(table)]
BY DEF Reportable, Machines

(***************************************************************************)
(* The inductive invariant.                                                *)
(***************************************************************************)
\* start runs only where no thread does; it has reset the counters and chosen
\* the collectors.
StartingApart ==
  \A p \in Processes :
    starting[p] => ~Alive(p) /\ counters[p] = 0 /\ enabled[p] # {}

\* There is a batch only between a poll and its save.  It is what the collector
\* whose turn it is saw: records, or the changes up to its snapshot from one of
\* which, unless a save failed before, the stored events tell all they can.
BatchFollows(p) ==
  /\ pc[p] # "save" => batch[p] = NoEvents
  /\ pc[p] = "save" /\ turn[p] = "auth" =>
       /\ batch[p].changes = {}
       /\ ~gap[p] => replay[p] = Reportable(previous[p])
  /\ pc[p] = "save" /\ turn[p] = "process" =>
       /\ batch[p].records = {}
       /\ \E before \in ProcessTables :
            /\ batch[p].changes = ProcessChanges(before, previous[p].process)
            /\ ~gap[p] =>
                 replay[p] = Reportable([previous[p] EXCEPT !.process = before])
  /\ pc[p] = "save" /\ turn[p] = "network" =>
       /\ batch[p].records = {}
       /\ \E before \in ConnectionTables :
            /\ batch[p].changes = NetworkChanges(before, previous[p].network)
            /\ ~gap[p] =>
                 replay[p] = Reportable([previous[p] EXCEPT !.network = before])

BatchesFollow == \A p \in Processes : BatchFollows(p)

\* A living thread has a session of its own that nobody has finished, and has
\* counted the events stored under it.
SessionOwned(p) == Alive(p) =>
  /\ rows[session[p]].status \in {"running", "interrupted"}
  /\ counters[p] = EventsOf(session[p])
  /\ \A q \in Processes \ {p} : Alive(q) => session[q] # session[p]

SessionsOwned == \A p \in Processes : SessionOwned(p)

\* Events are stored under sessions that were started.
StoredUnderSessions ==
  \A r \in Records : storedBy[r] # 0 => rows[storedBy[r]].status # "none"

TypeInv == TypeOK /\ StartingApart /\ BatchesFollow /\ ChangesAccountedFor

\* The accounting of events and sessions.
Counting == SessionsOwned /\ StoredUnderSessions /\ FinishedCountsItsEvents

IInv == TypeInv /\ RecordsAccountedFor /\ Counting

(***************************************************************************)
(* Types.                                                                  *)
(***************************************************************************)
LEMMA InitTyped == Init => TypeInv
<1> SUFFICES ASSUME Init PROVE TypeInv
  OBVIOUS
<1>1. TypeOK
  BY NothingTyped DEF Init, TypeOK, Cursors, NoCursor, Statuses, Locations, Collectors, Alive
<1>2. StartingApart /\ BatchesFollow /\ ChangesAccountedFor
  BY DEF Init, StartingApart, BatchesFollow, BatchFollows, ChangesAccountedFor, Alive
<1> QED
  BY <1>1, <1>2 DEF TypeInv

\* A process whose thread is gone is as at the beginning.
LEMMA GoneTyped ==
  ASSUME TypeOK, NEW p \in Processes, Gone(p)
  PROVE  /\ stopEvent' \in [Processes -> BOOLEAN]
         /\ session' \in [Processes -> Sessions \cup {0}]
         /\ pc' \in [Processes -> Locations] /\ turn' \in [Processes -> Collectors]
         /\ enabled' \in [Processes -> SUBSET Collectors]
         /\ cursor' \in [Processes -> Cursors]
         /\ previous' \in [Processes -> Machines]
         /\ batch' \in [Processes -> [records : SUBSET Records, changes : SUBSET Changes]]
         /\ counters' \in [Processes -> Nat]
         /\ outcome' \in [Processes -> {"completed", "stopped", "error"}]
         /\ replay' \in [Processes -> Machines] /\ gap' \in [Processes -> BOOLEAN]
         /\ \A q \in Processes : Alive(q)' =>
              /\ session'[q] \in Sessions /\ enabled'[q] # {}
              /\ pc'[q] \in {"poll", "save", "recover"} => turn'[q] \in enabled'[q]
BY NothingTyped DEF TypeOK, Gone, Locations, Collectors, Cursors, Alive

\* The next collector, the head of the loop and a failure lead to a place and
\* a collector that is enabled.
LEMMA NextCollectorTyped ==
  ASSUME TypeOK, NEW p \in Processes, Alive(p), NextCollector(p)
  PROVE  /\ pc' \in [Processes -> Locations] /\ turn' \in [Processes -> Collectors]
         /\ pc' = [pc EXCEPT ![p] = pc'[p]]
         /\ pc'[p] \in {"heartbeat", "poll"}
         /\ pc'[p] = "poll" => turn'[p] \in enabled[p]
         /\ \A q \in Processes \ {p} : turn'[q] = turn[q]
<1> DEFINE rest == Following(p, Position(turn[p]))
<1>1. rest \in SUBSET Collectors /\ rest \subseteq enabled[p]
  BY DEF TypeOK, Following
<1>2. rest # {} => FirstOf(rest) \in rest
  <2> HIDE DEF rest
  <2> QED
    BY <1>1, FirstOfMember
<1>3. /\ pc' = [pc EXCEPT ![p] = IF rest = {} THEN "heartbeat" ELSE "poll"]
      /\ turn' = [turn EXCEPT ![p] = IF rest = {} THEN @ ELSE FirstOf(rest)]
  BY DEF NextCollector, Goto
<1> HIDE DEF rest
<1> QED
  BY <1>1, <1>2, <1>3 DEF TypeOK, Locations

LEMMA LoopTyped ==
  ASSUME TypeOK, NEW p \in Processes, Alive(p), Loop(p)
  PROVE  /\ pc' \in [Processes -> Locations] /\ turn' \in [Processes -> Collectors]
         /\ pc' = [pc EXCEPT ![p] = pc'[p]]
         /\ pc'[p] \in {"finally", "poll"}
         /\ pc'[p] = "poll" => turn'[p] \in enabled[p]
         /\ \A q \in Processes \ {p} : turn'[q] = turn[q]
<1>1. enabled[p] \in SUBSET Collectors /\ enabled[p] # {}
  BY DEF TypeOK
<1>2. FirstOf(enabled[p]) \in enabled[p]
  BY <1>1, FirstOfMember
<1>3. CASE Goto(p, "poll") /\ turn' = [turn EXCEPT ![p] = FirstOf(enabled[p])]
  BY <1>1, <1>2, <1>3 DEF TypeOK, Goto, Locations
<1>4. CASE Goto(p, "finally") /\ UNCHANGED turn
  BY <1>4 DEF TypeOK, Goto, Locations
<1> QED
  BY <1>3, <1>4 DEF Loop

LEMMA BreakTyped ==
  ASSUME TypeOK, NEW p \in Processes, Break(p)
  PROVE  /\ pc' \in [Processes -> Locations]
         /\ outcome' \in [Processes -> {"completed", "stopped", "error"}]
         /\ pc' = [pc EXCEPT ![p] = "finally"]
BY DEF TypeOK, Break, Goto, Locations

\* What a save adds are records that no session has, and finitely many.
LEMMA NewRecords ==
  ASSUME TypeOK, NEW p \in Processes
  PROVE  /\ New(p) \in SUBSET Records /\ IsFiniteSet(New(p)) /\ Inserted(p) \in Nat
         /\ \A r \in New(p) : storedBy[r] = 0
<1>1. New(p) \in SUBSET Records /\ \A r \in New(p) : storedBy[r] = 0
  BY DEF TypeOK, New
<1>2. IsFiniteSet(Records)
  BY FS_Interval DEF Records
<1>3. IsFiniteSet(New(p))
  BY <1>1, <1>2, FS_Subset
<1> QED
  BY <1>1, <1>3, FS_CardinalityType DEF Inserted

\* What is stored of the changes turns a snapshot into a snapshot.
LEMMA ReplayTyped ==
  ASSUME TypeInv, NEW p \in Processes, pc[p] = "save"
  PROVE  /\ turn[p] = "process" =>
              Replayed(replay[p].process, Stored(p)) \in ProcessTables
         /\ turn[p] = "network" =>
              Replayed(replay[p].network, Stored(p)) \in ConnectionTables
<1>1. /\ replay[p].process \in ProcessTables /\ replay[p].network \in ConnectionTables
      /\ previous[p].process \in ProcessTables /\ previous[p].network \in ConnectionTables
  BY DEF TypeInv, TypeOK, Machines
<1>2. BatchFollows(p)
  BY DEF TypeInv, BatchesFollow
<1> QED
  BY <1>1, <1>2, ProcessReplay, ConnectionReplay DEF BatchFollows, Stored

\* Every step keeps the types.  That a batch is what its collector saw is needed
\* where the stored changes are replayed.
LEMMA StepTyped == TypeInv /\ [Next]_vars => TypeOK'
<1> SUFFICES ASSUME TypeInv, [Next]_vars PROVE TypeOK'
  OBVIOUS
<1> USE DEF environment, database, manager, memory, history
<1>0. TypeOK /\ StartingApart
  BY DEF TypeInv
<1>1. CASE Log
  BY <1>0, <1>1 DEF TypeOK, Log, Alive
<1>2. ASSUME NEW p \in Processes, Construct(p) PROVE TypeOK'
  <2>1. rows' \in [Sessions -> [status : Statuses, counted : Nat]]
    <3>1. rows \in [Sessions -> [status : Statuses, counted : Nat]]
      BY <1>0 DEF TypeOK
    <3>2. \A row \in [status : Statuses, counted : Nat] :
            [row EXCEPT !.status = "interrupted"] \in [status : Statuses, counted : Nat]
      BY DEF Statuses
    <3> QED
      BY <1>2, <3>1, <3>2 DEF Construct, MarkStaleRunningSessions
  <2> QED
    BY <1>0, <1>2, <2>1 DEF TypeOK, Construct, Alive
<1>3. ASSUME NEW p \in Processes, NEW selection \in Available(p), BeginStart(p, selection)
      PROVE  TypeOK'
  <2>1. selection \in SUBSET Collectors
    BY <1>3 DEF Available
  <2>2. ~Alive(p)
    BY <1>3 DEF BeginStart, MayStart
  <2> QED
    BY <1>0, <1>3, <2>1, <2>2, NothingTyped DEF TypeOK, BeginStart, Alive
<1>4. ASSUME NEW p \in Processes, AbortStart(p) PROVE TypeOK'
  BY <1>0, <1>4, GoneTyped DEF TypeOK, AbortStart, Alive
<1>5. ASSUME NEW p \in Processes, Launch(p) PROVE TypeOK'
  <2>1. PICK n \in Sessions : InsertSession(n) /\ session' = [session EXCEPT ![p] = n]
    BY <1>5 DEF Launch
  <2>2. rows' \in [Sessions -> [status : Statuses, counted : Nat]]
    <3>1. rows \in [Sessions -> [status : Statuses, counted : Nat]]
      BY <1>0 DEF TypeOK
    <3> QED
      BY <2>1, <3>1 DEF InsertSession, Statuses
  <2>3. enabled[p] # {}
    BY <1>0, <1>5 DEF StartingApart, Launch
  <2>4. /\ pc' = [pc EXCEPT ![p] = "begin"]
        /\ starting' = [starting EXCEPT ![p] = FALSE]
        /\ outcome' = [outcome EXCEPT ![p] = "completed"]
        /\ UNCHANGED <<environment, faults, saved, storedBy, quarantined, stopEvent,
                       enabled, turn, cursor, previous, batch, counters, history>>
    BY <1>5 DEF Launch
  <2>5. /\ session' \in [Processes -> Sessions \cup {0}]
        /\ pc' \in [Processes -> Locations]
        /\ \A q \in Processes : Alive(q)' =>
             /\ session'[q] \in Sessions /\ enabled[q] # {}
             /\ pc'[q] \in {"poll", "save", "recover"} => turn[q] \in enabled[q]
    BY <1>0, <2>1, <2>3, <2>4 DEF TypeOK, Locations, Alive
  <2> QED
    BY <1>0, <2>2, <2>4, <2>5 DEF TypeOK
<1>6. ASSUME NEW p \in Processes, Stop(p) PROVE TypeOK'
  BY <1>0, <1>6 DEF TypeOK, Stop, Alive
<1>7. ASSUME NEW p \in Processes, Die(p) PROVE TypeOK'
  BY <1>0, <1>7, GoneTyped DEF TypeOK, Die, Alive
<1>8. ASSUME NEW p \in Processes, StartCollectors(p) PROVE TypeOK'
  <2>1. Alive(p) /\ Loop(p)
    BY <1>8 DEF StartCollectors, At, Alive
  <2>2. PICK seen \in Snapshots(enabled[p]) :
          /\ previous' = [previous EXCEPT ![p] = seen]
          /\ replay' = [replay EXCEPT ![p] = Reportable(seen)]
    BY <1>8 DEF StartCollectors
  <2>3. previous' \in [Processes -> Machines] /\ replay' \in [Processes -> Machines]
    <3>1. seen \in Machines /\ Reportable(seen) \in Machines
      BY SeenTyped
    <3> QED
      BY <1>0, <2>2, <3>1 DEF TypeOK
  <2>4. \A answered \in BOOLEAN : LatestRecord(answered) \in 0..MaxRecords
    BY <1>0 DEF LatestRecord, TypeOK
  <2>5. cursor' \in [Processes -> Cursors] /\ skipped' \subseteq Records
    <3>1. cursor \in [Processes -> Cursors] /\ skipped \subseteq Records
      BY <1>0 DEF TypeOK
    <3>2. \/ UNCHANGED <<cursor, skipped>>
          \/ \E newest \in 0..MaxRecords :
               /\ cursor' = [cursor EXCEPT ![p] = newest]
               /\ skipped' = skipped \cup 1..newest
      BY <1>8, <2>4 DEF StartCollectors
    <3>3. ASSUME NEW newest \in 0..MaxRecords
          PROVE  newest \in Cursors /\ 1..newest \subseteq Records
      BY DEF Cursors, Records
    <3> QED
      BY <3>1, <3>2, <3>3
  <2>6. gap' \in [Processes -> BOOLEAN]
    BY <1>0, <1>8 DEF TypeOK, StartCollectors
  <2>7. /\ pc' \in [Processes -> Locations] /\ turn' \in [Processes -> Collectors]
        /\ \A q \in Processes : Alive(q)' =>
             /\ Alive(q)
             /\ pc'[q] \in {"poll", "save", "recover"} => turn'[q] \in enabled[q]
    BY <1>0, <2>1, LoopTyped DEF TypeOK, Alive
  <2>8. UNCHANGED <<environment, faults, database, manager, batch, counters,
                    outcome, dropped>>
    BY <1>8 DEF StartCollectors
  <2> QED
    BY <1>0, <2>3, <2>5, <2>6, <2>7, <2>8 DEF TypeOK
<1>9. ASSUME NEW p \in Processes, Poll(p) PROVE TypeOK'
  <2>1. /\ pc' = [pc EXCEPT ![p] = "save"] /\ Alive(p) /\ pc[p] = "poll"
        /\ UNCHANGED <<environment, faults, database, manager, turn, counters,
                       outcome, history>>
    BY <1>9 DEF Poll, At, Goto, Alive
  <2> DEFINE Polled ==
        /\ cursor' \in [Processes -> Cursors]
        /\ previous' \in [Processes -> Machines]
        /\ batch' \in [Processes -> [records : SUBSET Records, changes : SUBSET Changes]]
  <2>2. Polled
    <3>1. CASE PollAuth(p)
      <4>1. cursor[p] \in Cursors /\ logged \in 0..MaxRecords
        BY <1>0 DEF TypeOK
      <4>2. Parsed(((IF cursor[p] = NoCursor THEN 0 ELSE cursor[p]) + 1)..logged)
              \in SUBSET Records
        BY <4>1 DEF Parsed, Cursors, NoCursor, Records
      <4> DEFINE last == IF cursor[p] = NoCursor THEN 0 ELSE cursor[p]
                 moved == IF logged > last THEN logged ELSE last
                 parsed == [NoEvents EXCEPT !.records = Parsed((last + 1)..logged)]
      <4>3. parsed \in [records : SUBSET Records, changes : SUBSET Changes]
        BY <4>2, NothingTyped
      <4>4. moved \in Cursors
        BY <4>1 DEF Cursors, NoCursor, Records
      <4>5. UNCHANGED previous
        BY <3>1 DEF PollAuth
      <4>6. \/ /\ batch' = [batch EXCEPT ![p] = NoEvents]
               /\ cursor' = [cursor EXCEPT ![p] = cursor[p]]
            \/ /\ batch' = [batch EXCEPT ![p] = parsed]
               /\ cursor' = [cursor EXCEPT ![p] = moved]
        BY <3>1 DEF PollAuth, AfterFailedRead
      <4> HIDE DEF parsed, moved
      <4>7. /\ cursor \in [Processes -> Cursors] /\ previous \in [Processes -> Machines]
            /\ batch \in [Processes -> [records : SUBSET Records, changes : SUBSET Changes]]
        BY <1>0 DEF TypeOK
      <4>8. cursor' \in [Processes -> Cursors]
        BY <4>1, <4>4, <4>6, <4>7
      <4>9. batch' \in [Processes -> [records : SUBSET Records, changes : SUBSET Changes]]
        BY <4>3, <4>6, <4>7, NothingTyped
      <4> QED
        BY <4>5, <4>7, <4>8, <4>9
    <3>2. ASSUME NEW now \in ProcessTables, PollProcesses(p, now)
          PROVE  Polled
      <4>1. previous[p].process \in ProcessTables
        BY <1>0 DEF TypeOK, Machines
      <4>2. ProcessChanges(previous[p].process, now) \in SUBSET Changes
        BY <4>1, ProcessReplay
      <4>3. [NoEvents EXCEPT !.changes = ProcessChanges(previous[p].process, now)]
              \in [records : SUBSET Records, changes : SUBSET Changes]
        BY <4>2 DEF NoEvents
      <4>4. batch' \in [Processes -> [records : SUBSET Records, changes : SUBSET Changes]]
        BY <1>0, <3>2, <4>3 DEF TypeOK, PollProcesses
      <4>5. previous \in [Processes -> Machines] /\ cursor \in [Processes -> Cursors]
        BY <1>0 DEF TypeOK
      <4> QED
        BY <3>2, <4>4, <4>5 DEF PollProcesses, Machines
    <3>3. ASSUME NEW now \in ConnectionTables, PollConnections(p, now)
          PROVE  Polled
      <4>1. previous[p].network \in ConnectionTables
        BY <1>0 DEF TypeOK, Machines
      <4>2. NetworkChanges(previous[p].network, now) \in SUBSET Changes
        BY <4>1, ConnectionReplay
      <4>3. [NoEvents EXCEPT !.changes = NetworkChanges(previous[p].network, now)]
              \in [records : SUBSET Records, changes : SUBSET Changes]
        BY <4>2 DEF NoEvents
      <4>4. batch' \in [Processes -> [records : SUBSET Records, changes : SUBSET Changes]]
        BY <1>0, <3>3, <4>3 DEF TypeOK, PollConnections
      <4>5. previous \in [Processes -> Machines] /\ cursor \in [Processes -> Cursors]
        BY <1>0 DEF TypeOK
      <4> QED
        BY <3>3, <4>4, <4>5 DEF PollConnections, Machines
    <3>4. CASE SnapshotFails(p)
      BY <1>0, <3>4, NothingTyped DEF TypeOK, SnapshotFails
    <3> QED
      BY <1>9, <3>1, <3>2, <3>3, <3>4 DEF Poll
  <2> QED
    BY <1>0, <2>1, <2>2 DEF TypeOK, Locations, Alive
<1>10. ASSUME NEW p \in Processes, Save(p) PROVE TypeOK'
  <2>1. /\ At(p, "save") /\ Alive(p) /\ pc[p] = "save"
        /\ storedBy' = [r \in Records |-> IF r \in New(p) THEN session[p] ELSE storedBy[r]]
        /\ quarantined' = quarantined \cup Rejected(p)
        /\ saved' = Upserted(turn[p], cursor[p])
        /\ counters' = [counters EXCEPT ![p] = Counted(p)]
        /\ batch' = [batch EXCEPT ![p] = NoEvents]
        /\ UNCHANGED <<environment, rows, manager, cursor, previous, outcome, skipped,
                       dropped, gap>>
    BY <1>10 DEF Save, At, Alive
  <2>2. storedBy' \in [Records -> Sessions \cup {0}] /\ quarantined' \subseteq Records
    BY <1>0, <2>1 DEF TypeOK, Rejected
  <2>3. saved' \in Cursors
    BY <1>0, <2>1 DEF TypeOK, Upserted
  <2>4. counters' \in [Processes -> Nat]
    <3>1. Counted(p) \in Nat
      BY <1>0, NewRecords DEF TypeOK, Counted
    <3> QED
      BY <1>0, <2>1, <3>1 DEF TypeOK
  <2>5. replay' \in [Processes -> Machines]
    <3>1. replay \in [Processes -> Machines] /\ turn[p] \in Collectors
      BY <1>0 DEF TypeOK
    <3>2. CASE gap[p] \/ turn[p] = "auth"
      BY <1>10, <3>1, <3>2 DEF Save
    <3>3. CASE ~gap[p] /\ turn[p] = "process"
      <4>1. replay' = [replay EXCEPT ![p].process =
                         Replayed(replay[p].process, Stored(p))]
        BY <1>10, <3>3 DEF Save
      <4>2. Replayed(replay[p].process, Stored(p)) \in ProcessTables
        BY <2>1, <3>3, ReplayTyped
      <4> QED
        BY <3>1, <4>1, <4>2 DEF Machines
    <3>4. CASE ~gap[p] /\ turn[p] = "network"
      <4>1. replay' = [replay EXCEPT ![p].network =
                         Replayed(replay[p].network, Stored(p))]
        BY <1>10, <3>4 DEF Save
      <4>2. Replayed(replay[p].network, Stored(p)) \in ConnectionTables
        BY <2>1, <3>4, ReplayTyped
      <4> QED
        BY <3>1, <4>1, <4>2 DEF Machines
    <3> QED
      BY <3>1, <3>2, <3>3, <3>4 DEF Collectors
  <2>6. /\ pc' \in [Processes -> Locations] /\ turn' \in [Processes -> Collectors]
        /\ faults' \in 0..MaxFaults
        /\ \A q \in Processes : Alive(q)' =>
             /\ Alive(q)
             /\ pc'[q] \in {"poll", "save", "recover"} => turn'[q] \in enabled[q]
    <3>1. CASE NextCollector(p) /\ UNCHANGED faults
      BY <1>0, <2>1, <3>1, NextCollectorTyped DEF TypeOK, Alive
    <3>2. CASE Fault /\ Goto(p, "recover") /\ UNCHANGED turn
      BY <1>0, <2>1, <3>2 DEF TypeOK, Alive, Fault, Goto, Locations
    <3> QED
      BY <1>10, <3>1, <3>2 DEF Save, Observe
  <2>7. batch' \in [Processes -> [records : SUBSET Records, changes : SUBSET Changes]]
    BY <1>0, <2>1, NothingTyped DEF TypeOK
  <2> QED
    BY <1>0, <2>1, <2>2, <2>3, <2>4, <2>5, <2>6, <2>7 DEF TypeOK
<1>11. ASSUME NEW p \in Processes, SaveFails(p) PROVE TypeOK'
  <2>1. replay' \in [Processes -> Machines]
    BY <1>0, <1>11, NothingTyped DEF TypeOK, SaveFails
  <2> QED
    BY <1>0, <1>11, <2>1, NothingTyped
       DEF TypeOK, SaveFails, At, Goto, Fault, Locations, Alive
<1>12. ASSUME NEW p \in Processes, Recover(p) PROVE TypeOK'
  <2>1. /\ At(p, "recover") /\ Alive(p)
        /\ UNCHANGED <<environment, storedBy, quarantined, rows, manager,
                       cursor, previous, batch, counters, history>>
    BY <1>12 DEF Recover, At, Alive
  <2>2. Upserted(turn[p], NoCursor) \in Cursors
    BY <1>0 DEF TypeOK, Upserted, Cursors
  <2>3. CASE Observe(p) /\ saved' = Upserted(turn[p], NoCursor) /\ UNCHANGED outcome
    BY <1>0, <2>1, <2>2, <2>3, NextCollectorTyped DEF TypeOK, Observe, Alive
  <2>4. CASE Fault /\ Break(p) /\ saved' \in {saved, Upserted(turn[p], NoCursor)}
             /\ UNCHANGED turn
    <3>1. saved' \in Cursors
      BY <1>0, <2>2, <2>4 DEF TypeOK
    <3>2. faults' \in 0..MaxFaults
      BY <1>0, <2>4 DEF TypeOK, Fault
    <3> QED
      BY <1>0, <2>1, <2>4, <3>1, <3>2, BreakTyped DEF TypeOK, Alive
  <2> QED
    BY <1>12, <2>3, <2>4 DEF Recover
<1>13. ASSUME NEW p \in Processes, Heartbeat(p) PROVE TypeOK'
  <2>1. /\ Alive(p)
        /\ UNCHANGED <<environment, saved, storedBy, quarantined, manager, cursor,
                       previous, batch, counters, history>>
    BY <1>13 DEF Heartbeat, At, Alive
  <2>2. CASE /\ rows' = IF rows[session[p]].status = "running"
                          THEN [rows EXCEPT ![session[p]].counted = counters[p]] ELSE rows
             /\ Loop(p) /\ UNCHANGED <<faults, outcome>>
    <3>1. rows' \in [Sessions -> [status : Statuses, counted : Nat]]
      <4>1. rows' = rows \/ rows' = [rows EXCEPT ![session[p]].counted = counters[p]]
        BY <2>2
      <4>2. /\ rows \in [Sessions -> [status : Statuses, counted : Nat]]
            /\ counters[p] \in Nat
        BY <1>0 DEF TypeOK
      <4> QED
        BY <4>1, <4>2
    <3> QED
      BY <1>0, <2>1, <2>2, <3>1, LoopTyped DEF TypeOK, Alive
  <2>3. CASE Fault /\ Break(p) /\ UNCHANGED <<rows, turn>>
    <3>1. faults' \in 0..MaxFaults
      BY <1>0, <2>3 DEF TypeOK, Fault
    <3>2. /\ pc' \in [Processes -> Locations]
          /\ outcome' \in [Processes -> {"completed", "stopped", "error"}]
          /\ pc' = [pc EXCEPT ![p] = "finally"]
      BY <1>0, <2>3, BreakTyped
    <3>3. UNCHANGED <<rows, turn>>
      BY <2>3
    <3> QED
      BY <1>0, <2>1, <3>1, <3>2, <3>3 DEF TypeOK, Alive
  <2> QED
    BY <1>13, <2>2, <2>3 DEF Heartbeat
<1>14. ASSUME NEW p \in Processes, StopCollectors(p) PROVE TypeOK'
  <2>1. /\ Alive(p)
        /\ UNCHANGED <<environment, storedBy, quarantined, rows, starting,
                       skipped, dropped>>
    BY <1>14 DEF StopCollectors, At, Alive
  <2>2. CASE /\ saved' = IF "auth" \in enabled[p] THEN cursor[p] ELSE saved
             /\ Goto(p, "settle")
             /\ previous' = [previous EXCEPT ![p] = Nothing]
             /\ UNCHANGED <<faults, stopEvent, session, enabled, turn, cursor, batch,
                            counters, outcome, replay, gap>>
    BY <1>0, <2>1, <2>2, NothingTyped DEF TypeOK, Goto, Locations, Alive
  <2>3. CASE "auth" \in enabled[p] /\ Fault /\ Gone(p) /\ UNCHANGED saved
    BY <1>0, <2>1, <2>3, GoneTyped DEF TypeOK, Fault, Alive
  <2> QED
    BY <1>14, <2>2, <2>3 DEF StopCollectors
<1>17. ASSUME NEW p \in Processes, Settle(p) PROVE TypeOK'
  BY <1>0, <1>17 DEF TypeOK, Settle, At, Goto, Locations, Alive
<1>15. ASSUME NEW p \in Processes, Finish(p) PROVE TypeOK'
  <2>1. Alive(p) /\ session[p] \in Sessions
    BY <1>0, <1>15 DEF TypeOK, Finish, At, Alive
  <2> DEFINE row == [status |-> outcome[p], counted |-> counters[p]]
  <2>2. row \in [status : Statuses, counted : Nat]
    BY <1>0 DEF TypeOK, Statuses
  <2>3. /\ rows' \in [Sessions -> [status : Statuses, counted : Nat]]
        /\ faults' \in 0..MaxFaults
    <3>1. \/ rows' = [rows EXCEPT ![session[p]] = row] /\ UNCHANGED faults
          \/ Fault /\ UNCHANGED rows
      BY <1>15 DEF Finish
    <3> HIDE DEF row
    <3>2. /\ rows \in [Sessions -> [status : Statuses, counted : Nat]]
          /\ faults \in 0..MaxFaults
      BY <1>0 DEF TypeOK
    <3>3. rows' \in [Sessions -> [status : Statuses, counted : Nat]]
      BY <2>1, <2>2, <3>1, <3>2
    <3>4. faults' \in 0..MaxFaults
      BY <3>1, <3>2 DEF Fault
    <3> QED
      BY <3>3, <3>4
  <2> QED
    BY <1>0, <1>15, <2>3, GoneTyped DEF TypeOK, Finish, Alive
<1>16. CASE UNCHANGED vars
  BY <1>0, <1>16 DEF TypeOK, vars, Alive
<1> QED
  BY <1>1, <1>2, <1>3, <1>4, <1>5, <1>6, <1>7, <1>8, <1>9, <1>10, <1>11, <1>12,
     <1>13, <1>14, <1>15, <1>16, <1>17 DEF Next, Thread

(***************************************************************************)
(* Batches and snapshots.                                                  *)
(***************************************************************************)
\* What the invariant says of one process's thread.
ThreadFollows(p) ==
  /\ starting[p] => ~Alive(p) /\ counters[p] = 0 /\ enabled[p] # {}
  /\ BatchFollows(p)
  /\ Alive(p) /\ ~gap[p] /\ pc[p] \notin {"begin", "save", "settle", "finish"} =>
       replay[p] = Reportable(previous[p])

LEMMA ThreadsFollow ==
  TypeInv <=> TypeOK /\ \A p \in Processes : ThreadFollows(p)
BY DEF TypeInv, StartingApart, BatchesFollow, ChangesAccountedFor, ThreadFollows

\* A step of which process q sees nothing.
Untouched(q) ==
  /\ starting'[q] = starting[q] /\ pc'[q] = pc[q] /\ turn'[q] = turn[q]
  /\ batch'[q] = batch[q] /\ previous'[q] = previous[q] /\ replay'[q] = replay[q]
  /\ gap'[q] = gap[q] /\ counters'[q] = counters[q] /\ enabled'[q] = enabled[q]

LEMMA UntouchedFollows ==
  ASSUME NEW q \in Processes, Untouched(q), ThreadFollows(q)
  PROVE  ThreadFollows(q)'
<1>1. /\ pc'[q] = pc[q] /\ turn'[q] = turn[q] /\ batch'[q] = batch[q]
      /\ previous'[q] = previous[q] /\ replay'[q] = replay[q] /\ gap'[q] = gap[q]
  BY DEF Untouched
<1>2. BatchFollows(q)
  BY DEF ThreadFollows
<1>3. BatchFollows(q)'
  BY <1>1, <1>2, SMTT(30) DEF BatchFollows
<1> QED
  BY <1>3 DEF Untouched, ThreadFollows, Alive

LEMMA GoneFollows ==
  ASSUME TypeOK, NEW p \in Processes, Gone(p), ~starting'[p],
         \A q \in Processes \ {p} : starting'[q] = starting[q]
  PROVE  /\ ThreadFollows(p)'
         /\ \A q \in Processes \ {p} : Untouched(q)
BY DEF TypeOK, Gone, ThreadFollows, BatchFollows, Untouched, Alive

LEMMA StepFollows == TypeInv /\ [Next]_vars => \A q \in Processes : ThreadFollows(q)'
<1> SUFFICES ASSUME TypeInv, [Next]_vars PROVE \A q \in Processes : ThreadFollows(q)'
  OBVIOUS
<1> USE DEF environment, database, manager, memory, history
<1> DEFINE Others(p) == \A q \in Processes \ {p} : Untouched(q)
<1>0. TypeOK /\ \A q \in Processes : ThreadFollows(q)
  BY ThreadsFollow
<1>a. ASSUME NEW p \in Processes, ThreadFollows(p)', Others(p)
      PROVE  \A q \in Processes : ThreadFollows(q)'
  <2> HIDE DEF Others
  <2>1. ASSUME NEW q \in Processes \ {p} PROVE ThreadFollows(q)'
    BY <1>0, <1>a, <2>1, UntouchedFollows DEF Others
  <2> QED
    BY <1>a, <2>1
<1>b. ASSUME \A q \in Processes : Untouched(q)
      PROVE  \A q \in Processes : ThreadFollows(q)'
  BY <1>0, <1>b, UntouchedFollows
<1> HIDE DEF Others
<1>1. CASE Log
  BY <1>1, <1>b DEF Log, Untouched
<1>2. ASSUME NEW p \in Processes, Construct(p)
      PROVE  \A q \in Processes : ThreadFollows(q)'
  BY <1>2, <1>b DEF Construct, Untouched
<1>3. ASSUME NEW p \in Processes, NEW selection \in Available(p), BeginStart(p, selection)
      PROVE  \A q \in Processes : ThreadFollows(q)'
  <2>1. ThreadFollows(p)'
    <3>1. selection # {}
      BY <1>3 DEF Available
    <3>2. ThreadFollows(p) /\ pc[p] = "over"
      BY <1>0, <1>3 DEF BeginStart, MayStart, Alive
    <3> QED
      BY <1>0, <1>3, <3>1, <3>2
         DEF TypeOK, BeginStart, ThreadFollows, BatchFollows, Alive
  <2>2. Others(p)
    BY <1>0, <1>3 DEF TypeOK, BeginStart, Untouched, Others
  <2> QED
    BY <1>a, <2>1, <2>2
<1>4. ASSUME NEW p \in Processes, AbortStart(p)
      PROVE  \A q \in Processes : ThreadFollows(q)'
  <2>1. Gone(p) /\ starting' = [starting EXCEPT ![p] = FALSE]
    BY <1>4 DEF AbortStart
  <2> QED
    BY <1>0, <1>a, <2>1, GoneFollows DEF TypeOK, Others
<1>5. ASSUME NEW p \in Processes, Launch(p)
      PROVE  \A q \in Processes : ThreadFollows(q)'
  <2>1. ThreadFollows(p)'
    <3>1. ThreadFollows(p) /\ pc[p] = "over"
      BY <1>0, <1>5 DEF Launch, ThreadFollows, Alive
    <3> QED
      BY <1>0, <1>5, <3>1 DEF TypeOK, Launch, ThreadFollows, BatchFollows, Alive
  <2>2. Others(p)
    BY <1>0, <1>5 DEF TypeOK, Launch, Untouched, Others
  <2> QED
    BY <1>a, <2>1, <2>2
<1>6. ASSUME NEW p \in Processes, Stop(p)
      PROVE  \A q \in Processes : ThreadFollows(q)'
  BY <1>6, <1>b DEF Stop, Untouched
<1>7. ASSUME NEW p \in Processes, Die(p)
      PROVE  \A q \in Processes : ThreadFollows(q)'
  <2>1. Gone(p) /\ starting' = [starting EXCEPT ![p] = FALSE]
    BY <1>7 DEF Die
  <2> QED
    BY <1>0, <1>a, <2>1, GoneFollows DEF TypeOK, Others
<1>c. ASSUME NEW p \in Processes, pc[p] # "over" PROVE ~starting[p]
  BY <1>0, <1>c DEF ThreadFollows, Alive
<1>8. ASSUME NEW p \in Processes, StartCollectors(p)
      PROVE  \A q \in Processes : ThreadFollows(q)'
  <2>1. /\ pc[p] = "begin" /\ Alive(p) /\ Loop(p)
        /\ gap' = [gap EXCEPT ![p] = FALSE]
        /\ UNCHANGED <<starting, batch, counters, enabled>>
        /\ \E seen : /\ previous' = [previous EXCEPT ![p] = seen]
                     /\ replay' = [replay EXCEPT ![p] = Reportable(seen)]
    BY <1>8 DEF StartCollectors, At, Alive
  <2>2. /\ pc' = [pc EXCEPT ![p] = pc'[p]] /\ pc'[p] \in {"finally", "poll"}
        /\ \A q \in Processes \ {p} : turn'[q] = turn[q]
    BY <1>0, <2>1, LoopTyped
  <2>3. batch[p] = NoEvents /\ ~starting[p]
    BY <1>0, <1>c, <2>1 DEF ThreadFollows, BatchFollows
  <2>4. ThreadFollows(p)'
    BY <1>0, <2>1, <2>2, <2>3 DEF TypeOK, ThreadFollows, BatchFollows, Alive
  <2>5. Others(p)
    BY <1>0, <2>1, <2>2 DEF TypeOK, Untouched, Others
  <2> QED
    BY <1>a, <2>4, <2>5
<1>9. ASSUME NEW p \in Processes, Poll(p)
      PROVE  \A q \in Processes : ThreadFollows(q)'
  <2>1. /\ pc[p] = "poll" /\ Alive(p) /\ pc' = [pc EXCEPT ![p] = "save"]
        /\ UNCHANGED <<starting, turn, counters, enabled, replay, gap>>
    BY <1>9 DEF Poll, At, Goto, Alive
  <2>2. /\ ~gap[p] => replay[p] = Reportable(previous[p])
        /\ ~starting[p] /\ replay[p] \in Machines /\ previous[p] \in Machines
    BY <1>0, <1>c, <2>1 DEF TypeOK, ThreadFollows
  <2>3. BatchFollows(p)' /\ Others(p)
    <3>1. CASE PollAuth(p)
      <4>1. /\ turn[p] = "auth" /\ UNCHANGED previous
            /\ \E rs : batch' = [batch EXCEPT ![p] = [NoEvents EXCEPT !.records = rs]]
        <5>1. NoEvents = [NoEvents EXCEPT !.records = {}]
          BY DEF NoEvents
        <5> QED
          BY <3>1, <5>1 DEF PollAuth
      <4>2. batch'[p].changes = {}
        BY <1>0, <4>1 DEF TypeOK, NoEvents
      <4> QED
        BY <1>0, <2>1, <2>2, <4>1, <4>2 DEF TypeOK, BatchFollows, Untouched, Others
    <3>2. ASSUME NEW now \in ProcessTables, PollProcesses(p, now)
          PROVE  BatchFollows(p)' /\ Others(p)
      <4> DEFINE before == previous[p].process
      <4>1. /\ turn[p] = "process" /\ before \in ProcessTables
            /\ batch'[p] = [NoEvents EXCEPT !.changes = ProcessChanges(before, now)]
            /\ previous'[p] = [previous[p] EXCEPT !.process = now]
        BY <1>0, <2>2, <3>2 DEF TypeOK, PollProcesses, Machines
      <4>2. /\ batch'[p].records = {}
            /\ batch'[p].changes = ProcessChanges(before, previous'[p].process)
            /\ previous[p] = [previous'[p] EXCEPT !.process = before]
        BY <2>2, <4>1 DEF NoEvents, Machines
      <4>3. BatchFollows(p)'
        BY <1>0, <2>1, <2>2, <4>1, <4>2 DEF TypeOK, BatchFollows
      <4>4. Others(p)
        BY <1>0, <2>1, <3>2 DEF TypeOK, PollProcesses, Untouched, Others
      <4> QED
        BY <4>3, <4>4
    <3>3. ASSUME NEW now \in ConnectionTables, PollConnections(p, now)
          PROVE  BatchFollows(p)' /\ Others(p)
      <4> DEFINE before == previous[p].network
      <4>1. /\ turn[p] = "network" /\ before \in ConnectionTables
            /\ batch'[p] = [NoEvents EXCEPT !.changes = NetworkChanges(before, now)]
            /\ previous'[p] = [previous[p] EXCEPT !.network = now]
        BY <1>0, <2>2, <3>3 DEF TypeOK, PollConnections, Machines
      <4>2. /\ batch'[p].records = {}
            /\ batch'[p].changes = NetworkChanges(before, previous'[p].network)
            /\ previous[p] = [previous'[p] EXCEPT !.network = before]
        BY <2>2, <4>1 DEF NoEvents, Machines
      <4>3. BatchFollows(p)'
        BY <1>0, <2>1, <2>2, <4>1, <4>2 DEF TypeOK, BatchFollows
      <4>4. Others(p)
        BY <1>0, <2>1, <3>3 DEF TypeOK, PollConnections, Untouched, Others
      <4> QED
        BY <4>3, <4>4
    <3>4. CASE SnapshotFails(p)
      <4>1. /\ turn[p] \in {"process", "network"} /\ UNCHANGED previous
            /\ batch'[p] = NoEvents
        BY <1>0, <3>4 DEF TypeOK, SnapshotFails, Collectors
      <4>2. /\ previous[p].process \in ProcessTables
            /\ previous[p].network \in ConnectionTables
            /\ previous[p] = [previous[p] EXCEPT !.process = previous[p].process]
            /\ previous[p] = [previous[p] EXCEPT !.network = previous[p].network]
        BY <2>2 DEF Machines
      <4>3. /\ ProcessChanges(previous[p].process, previous[p].process) = {}
            /\ NetworkChanges(previous[p].network, previous[p].network) = {}
        BY <4>2, NoChange
      <4>4. BatchFollows(p)'
        <5>1. /\ batch'[p].records = {} /\ batch'[p].changes = {}
              /\ turn'[p] = turn[p] /\ pc'[p] = "save" /\ gap'[p] = gap[p]
              /\ previous'[p] = previous[p] /\ replay'[p] = replay[p]
          BY <1>0, <2>1, <4>1 DEF TypeOK, NoEvents
        <5> QED
          BY <2>2, <4>1, <4>2, <4>3, <5>1 DEF BatchFollows
      <4>5. Others(p)
        BY <1>0, <2>1, <3>4 DEF TypeOK, SnapshotFails, Untouched, Others
      <4> QED
        BY <4>4, <4>5
    <3> QED
      BY <1>9, <3>1, <3>2, <3>3, <3>4 DEF Poll
  <2>4. ThreadFollows(p)'
    BY <1>0, <2>1, <2>2, <2>3 DEF TypeOK, ThreadFollows
  <2> QED
    BY <1>a, <2>3, <2>4
<1>d. ASSUME NEW p \in Processes, NextCollector(p), Alive(p)
      PROVE  /\ pc' = [pc EXCEPT ![p] = pc'[p]] /\ pc'[p] \in {"heartbeat", "poll"}
             /\ \A q \in Processes \ {p} : pc'[q] = pc[q] /\ turn'[q] = turn[q]
  BY <1>0, <1>d, NextCollectorTyped DEF TypeOK
<1>10. ASSUME NEW p \in Processes, Save(p)
       PROVE  \A q \in Processes : ThreadFollows(q)'
  <2>1. /\ pc[p] = "save" /\ Alive(p)
        /\ counters' = [counters EXCEPT ![p] = Counted(p)]
        /\ batch' = [batch EXCEPT ![p] = NoEvents]
        /\ UNCHANGED <<starting, enabled, previous, gap>>
    BY <1>10 DEF Save, At, Alive
  <2>2. /\ pc' = [pc EXCEPT ![p] = pc'[p]]
        /\ pc'[p] \in {"heartbeat", "poll", "recover"}
        /\ \A q \in Processes \ {p} : pc'[q] = pc[q] /\ turn'[q] = turn[q]
    <3>1. CASE NextCollector(p)
      BY <1>d, <2>1, <3>1
    <3>2. CASE Goto(p, "recover") /\ UNCHANGED turn
      BY <1>0, <3>2 DEF TypeOK, Goto
    <3> QED
      BY <1>10, <3>1, <3>2 DEF Save, Observe
  <2>3. /\ BatchFollows(p) /\ turn[p] \in Collectors
        /\ replay[p] \in Machines /\ previous[p] \in Machines
    BY <1>0 DEF TypeOK, ThreadFollows
  <2>4. /\ previous[p].process \in ProcessTables
        /\ previous[p].network \in ConnectionTables
    BY <2>3 DEF Machines
  <2>5. /\ ~gap[p] => replay'[p] = Reportable(previous[p])
        /\ \A q \in Processes \ {p} : replay'[q] = replay[q]
    <3>1. CASE gap[p]
      BY <1>10, <3>1 DEF Save
    <3>2. CASE ~gap[p] /\ turn[p] = "auth"
      BY <1>10, <2>1, <2>3, <3>2 DEF Save, BatchFollows
    <3>3. CASE ~gap[p] /\ turn[p] = "process"
      <4> DEFINE told == ToldProcesses(previous[p].process)
                 others == ToldConnections(previous[p].network)
      <4>1. PICK before \in ProcessTables :
              /\ batch[p].changes = ProcessChanges(before, previous[p].process)
              /\ replay[p] = Reportable([previous[p] EXCEPT !.process = before])
        BY <2>1, <2>3, <3>3 DEF BatchFollows
      <4>2. replay[p] = [process |-> ToldProcesses(before), network |-> others]
        BY <2>3, <4>1, ReportableParts
      <4>3. Replayed(ToldProcesses(before), Stored(p)) = told
        BY <2>4, <4>1, ProcessReplay DEF Stored
      <4>4. replay' = [replay EXCEPT ![p].process =
                         Replayed(replay[p].process, Stored(p))]
        BY <1>10, <3>3 DEF Save
      <4>5. replay' = [replay EXCEPT ![p].process = told]
        BY <4>2, <4>3, <4>4
      <4>6. Reportable(previous[p]) = [process |-> told, network |-> others]
        BY <2>3, ReportableParts
      <4> HIDE DEF told, others
      <4>7. replay \in [Processes -> Machines]
        BY <1>0 DEF TypeOK
      <4> QED
        BY <4>2, <4>5, <4>6, <4>7
    <3>4. CASE ~gap[p] /\ turn[p] = "network"
      <4> DEFINE told == ToldConnections(previous[p].network)
                 others == ToldProcesses(previous[p].process)
      <4>1. PICK before \in ConnectionTables :
              /\ batch[p].changes = NetworkChanges(before, previous[p].network)
              /\ replay[p] = Reportable([previous[p] EXCEPT !.network = before])
        BY <2>1, <2>3, <3>4 DEF BatchFollows
      <4>2. replay[p] = [process |-> others, network |-> ToldConnections(before)]
        BY <2>3, <4>1, ReportableParts
      <4>3. Replayed(ToldConnections(before), Stored(p)) = told
        BY <2>4, <4>1, ConnectionReplay DEF Stored
      <4>4. replay' = [replay EXCEPT ![p].network =
                         Replayed(replay[p].network, Stored(p))]
        BY <1>10, <3>4 DEF Save
      <4>5. replay' = [replay EXCEPT ![p].network = told]
        BY <4>2, <4>3, <4>4
      <4>6. Reportable(previous[p]) = [process |-> others, network |-> told]
        BY <2>3, ReportableParts
      <4> HIDE DEF told, others
      <4>7. replay \in [Processes -> Machines]
        BY <1>0 DEF TypeOK
      <4> QED
        BY <4>2, <4>5, <4>6, <4>7
    <3> QED
      BY <2>3, <3>1, <3>2, <3>3, <3>4 DEF Collectors
  <2>6. ~starting[p] /\ batch'[p] = NoEvents
    BY <1>0, <1>c, <2>1 DEF TypeOK
  <2>7. ThreadFollows(p)'
    BY <1>0, <2>1, <2>2, <2>5, <2>6 DEF TypeOK, ThreadFollows, BatchFollows
  <2>8. Others(p)
    BY <1>0, <2>1, <2>2, <2>5 DEF TypeOK, Untouched, Others
  <2> QED
    BY <1>a, <2>7, <2>8
<1>11. ASSUME NEW p \in Processes, SaveFails(p)
       PROVE  \A q \in Processes : ThreadFollows(q)'
  <2>1. /\ pc[p] = "save" /\ pc' = [pc EXCEPT ![p] = "recover"]
        /\ batch' = [batch EXCEPT ![p] = NoEvents]
        /\ gap' = [gap EXCEPT ![p] = @ \/ Stored(p) # {}]
        /\ replay' = IF Stored(p) # {} THEN [replay EXCEPT ![p] = Nothing] ELSE replay
        /\ UNCHANGED <<starting, enabled, turn, previous, counters>>
    BY <1>11 DEF SaveFails, At, Goto
  <2>2. ~gap'[p] => replay'[p] = Reportable(previous[p])
    <3> SUFFICES ASSUME ~gap'[p] PROVE replay'[p] = Reportable(previous[p])
      OBVIOUS
    <3>1. /\ ~gap[p] /\ Stored(p) = {} /\ BatchFollows(p)
          /\ turn[p] \in Collectors /\ previous[p] \in Machines
      BY <1>0, <2>1 DEF TypeOK, ThreadFollows
    <3>2. replay' = replay
      BY <2>1, <3>1
    <3>3. previous[p].process \in ProcessTables /\ previous[p].network \in ConnectionTables
      BY <3>1 DEF Machines
    <3>4. CASE turn[p] = "auth"
      BY <2>1, <3>1, <3>2, <3>4 DEF BatchFollows
    <3>5. CASE turn[p] = "process"
      <4>1. PICK before \in ProcessTables :
              /\ batch[p].changes = ProcessChanges(before, previous[p].process)
              /\ replay[p] = Reportable([previous[p] EXCEPT !.process = before])
        BY <2>1, <3>1, <3>5 DEF BatchFollows
      <4>2. ToldProcesses(before) = ToldProcesses(previous[p].process)
        BY <3>1, <3>3, <4>1, OnlyEqualUnchanged DEF Stored
      <4>3. replay[p] = [process |-> ToldProcesses(before),
                        network |-> ToldConnections(previous[p].network)]
        BY <3>1, <4>1, ReportableParts
      <4> QED
        BY <3>1, <3>2, <4>2, <4>3, ReportableParts
    <3>6. CASE turn[p] = "network"
      <4>1. PICK before \in ConnectionTables :
              /\ batch[p].changes = NetworkChanges(before, previous[p].network)
              /\ replay[p] = Reportable([previous[p] EXCEPT !.network = before])
        BY <2>1, <3>1, <3>6 DEF BatchFollows
      <4>2. ToldConnections(before) = ToldConnections(previous[p].network)
        BY <3>1, <3>3, <4>1, OnlyEqualUnchanged DEF Stored
      <4>3. replay[p] = [process |-> ToldProcesses(previous[p].process),
                        network |-> ToldConnections(before)]
        BY <3>1, <4>1, ReportableParts
      <4> QED
        BY <3>1, <3>2, <4>2, <4>3, ReportableParts
    <3> QED
      BY <3>1, <3>4, <3>5, <3>6 DEF Collectors
  <2>3. ~starting[p] /\ batch'[p] = NoEvents
    BY <1>0, <1>c, <2>1 DEF TypeOK
  <2>4. ThreadFollows(p)'
    BY <1>0, <2>1, <2>2, <2>3 DEF TypeOK, ThreadFollows, BatchFollows
  <2>5. Others(p)
    BY <1>0, <2>1 DEF TypeOK, Untouched, Others
  <2> QED
    BY <1>a, <2>4, <2>5
\* Recover and Heartbeat move a thread that has no batch and keep what it saw.
<1>e. ASSUME NEW p \in Processes, pc[p] \in {"recover", "heartbeat"},
             pc' = [pc EXCEPT ![p] = pc'[p]], pc'[p] \in {"heartbeat", "poll", "finally"},
             \A q \in Processes \ {p} : turn'[q] = turn[q],
             UNCHANGED <<starting, enabled, previous, batch, counters, replay, gap>>
      PROVE  \A q \in Processes : ThreadFollows(q)'
  <2>1. /\ ~starting[p] /\ batch[p] = NoEvents
        /\ (~gap[p] => replay[p] = Reportable(previous[p]))
    BY <1>0, <1>c, <1>e DEF ThreadFollows, BatchFollows, Alive
  <2>2. ThreadFollows(p)'
    BY <1>e, <2>1 DEF ThreadFollows, BatchFollows
  <2>3. Others(p)
    BY <1>0, <1>e DEF TypeOK, Untouched, Others
  <2> QED
    BY <1>a, <2>2, <2>3
<1>f. ASSUME NEW p \in Processes, Break(p)
      PROVE  pc' = [pc EXCEPT ![p] = pc'[p]] /\ pc'[p] = "finally"
  BY <1>0, <1>f DEF TypeOK, Break, Goto
<1>12. ASSUME NEW p \in Processes, Recover(p)
       PROVE  \A q \in Processes : ThreadFollows(q)'
  <2>1. /\ pc[p] = "recover" /\ Alive(p)
        /\ UNCHANGED <<starting, enabled, previous, batch, counters, replay, gap>>
    BY <1>12 DEF Recover, At, Alive
  <2>2. NextCollector(p) \/ (Break(p) /\ UNCHANGED turn)
    BY <1>12 DEF Recover, Observe
  <2> QED
    BY <1>d, <1>e, <1>f, <2>1, <2>2
<1>13. ASSUME NEW p \in Processes, Heartbeat(p)
       PROVE  \A q \in Processes : ThreadFollows(q)'
  <2>1. /\ pc[p] = "heartbeat" /\ Alive(p)
        /\ UNCHANGED <<starting, enabled, previous, batch, counters, replay, gap>>
    BY <1>13 DEF Heartbeat, At, Alive
  <2>2. Loop(p) \/ (Break(p) /\ UNCHANGED turn)
    BY <1>13 DEF Heartbeat
  <2> QED
    BY <1>0, <1>e, <1>f, <2>1, <2>2, LoopTyped
<1>14. ASSUME NEW p \in Processes, StopCollectors(p)
       PROVE  \A q \in Processes : ThreadFollows(q)'
  <2>1. pc[p] = "finally" /\ Alive(p) /\ UNCHANGED starting
    BY <1>14 DEF StopCollectors, At, Alive
  <2>2. ~starting[p] /\ batch[p] = NoEvents
    BY <1>0, <1>c, <2>1 DEF ThreadFollows, BatchFollows
  <2>3. CASE /\ Goto(p, "settle") /\ previous' = [previous EXCEPT ![p] = Nothing]
             /\ UNCHANGED <<enabled, turn, batch, counters, replay, gap>>
    <3>1. ThreadFollows(p)'
      BY <1>0, <2>1, <2>2, <2>3 DEF TypeOK, Goto, ThreadFollows, BatchFollows
    <3>2. Others(p)
      BY <1>0, <2>1, <2>3 DEF TypeOK, Goto, Untouched, Others
    <3> QED
      BY <1>a, <3>1, <3>2
  <2>4. CASE Gone(p)
    BY <1>0, <1>a, <2>1, <2>2, <2>4, GoneFollows DEF Others
  <2> QED
    BY <1>14, <2>3, <2>4 DEF StopCollectors
<1>17. ASSUME NEW p \in Processes, Settle(p)
       PROVE  \A q \in Processes : ThreadFollows(q)'
  <2>1. /\ pc[p] = "settle" /\ pc' = [pc EXCEPT ![p] = "finish"]
        /\ UNCHANGED <<starting, enabled, turn, previous, batch, counters, replay, gap>>
    BY <1>17 DEF Settle, At, Goto
  <2>2. ~starting[p] /\ batch[p] = NoEvents
    BY <1>0, <1>c, <2>1 DEF ThreadFollows, BatchFollows
  <2>3. ThreadFollows(p)'
    BY <1>0, <2>1, <2>2 DEF TypeOK, ThreadFollows, BatchFollows
  <2>4. Others(p)
    BY <1>0, <2>1 DEF TypeOK, Untouched, Others
  <2> QED
    BY <1>a, <2>3, <2>4
<1>15. ASSUME NEW p \in Processes, Finish(p)
       PROVE  \A q \in Processes : ThreadFollows(q)'
  <2>1. pc[p] = "finish" /\ Gone(p) /\ UNCHANGED starting
    BY <1>15 DEF Finish, At
  <2>2. ~starting[p]
    BY <1>c, <2>1
  <2> QED
    BY <1>0, <1>a, <2>1, <2>2, GoneFollows DEF Others
<1>16. CASE UNCHANGED vars
  BY <1>16, <1>b DEF vars, Untouched
<1> QED
  BY <1>1, <1>2, <1>3, <1>4, <1>5, <1>6, <1>7, <1>8, <1>9, <1>10, <1>11, <1>12,
     <1>13, <1>14, <1>15, <1>16, <1>17 DEF Next, Thread

LEMMA TypeInvHolds == Spec => []TypeInv
<1>1. TypeInv /\ [Next]_vars => TypeInv'
  BY StepTyped, StepFollows, ThreadsFollow
     DEF TypeInv, StartingApart, BatchesFollow, ChangesAccountedFor, ThreadFollows
<1> QED
  BY <1>1, InitTyped, PTL DEF Spec

\* Every reachable state is well typed, and a living thread works for a session
\* on an enabled collector, whatever start, stop and death it races with.
THEOREM TypeCorrect == Spec => []TypeOK
BY TypeInvHolds, PTL DEF TypeInv

(***************************************************************************)
(* No record is passed by.                                                 *)
(***************************************************************************)
\* What is accounted for stays so: nothing is taken out of the tables.
LEMMA AccountedGrows ==
  ASSUME TypeInv, [Next]_vars
  PROVE  Accounted \subseteq Accounted'
<1> USE DEF environment, database, manager, memory, history
<1>0. TypeOK
  BY DEF TypeInv
<1>1. ASSUME UNCHANGED storedBy, UNCHANGED quarantined,
             skipped \subseteq skipped', dropped \subseteq dropped'
      PROVE  Accounted \subseteq Accounted'
  BY <1>1 DEF Accounted
<1>2. ASSUME NEW p \in Processes, Save(p) PROVE Accounted \subseteq Accounted'
  <2>1. /\ storedBy' = [r \in Records |-> IF r \in New(p) THEN session[p] ELSE storedBy[r]]
        /\ quarantined \subseteq quarantined' /\ UNCHANGED <<skipped, dropped>>
    BY <1>2 DEF Save
  <2>2. session[p] # 0
    <3>1. Alive(p)
      BY <1>2 DEF Save, At, Alive
    <3> QED
      BY <1>0, <3>1 DEF TypeOK, Sessions
  <2>3. \A r \in Records : storedBy[r] # 0 => storedBy'[r] # 0
    BY <2>1, <2>2
  <2> QED
    BY <2>1, <2>3 DEF Accounted
<1>3. ASSUME NEW p \in Processes, SaveFails(p) PROVE Accounted \subseteq Accounted'
  BY <1>1, <1>3 DEF SaveFails
<1>4. ASSUME NEW p \in Processes, StartCollectors(p) PROVE Accounted \subseteq Accounted'
  <2>1. skipped \subseteq skipped' /\ UNCHANGED <<storedBy, quarantined, dropped>>
    BY <1>4 DEF StartCollectors
  <2> QED
    BY <1>1, <2>1
<1>5. CASE UNCHANGED <<storedBy, quarantined, skipped, dropped>>
  BY <1>1, <1>5
<1> QED
  BY <1>2, <1>3, <1>4, <1>5 DEF Next, Thread, vars, Log, Construct, AbortStart, Launch,
     Stop, Die, BeginStart, Poll, Recover, Heartbeat, StopCollectors, Settle, Finish

\* The saved cursor or the one of q has gone nowhere new.
LEMMA RecordsStep ==
  TypeInv /\ TypeInv' /\ RecordsAccountedFor /\ [Next]_vars => RecordsAccountedFor'
<1> SUFFICES ASSUME TypeInv, TypeInv', RecordsAccountedFor, [Next]_vars
             PROVE  RecordsAccountedFor'
  OBVIOUS
<1> USE DEF environment, database, manager, memory, history
<1> DEFINE Covered(q) == 1..cursor[q] \subseteq Accounted \cup batch[q].records
<1>0. /\ TypeOK /\ TypeOK' /\ Accounted \subseteq Accounted'
      /\ 1..saved \subseteq Accounted /\ \A q \in Processes : Covered(q)
      /\ \A q \in Processes : BatchFollows(q)
  BY AccountedGrows DEF TypeInv, RecordsAccountedFor, BatchesFollow
<1>a. 1..NoCursor = {}
  BY DEF NoCursor
<1>b. ASSUME NEW p \in Processes, 1..saved' \subseteq Accounted', Covered(p)',
             \A q \in Processes \ {p} : cursor'[q] = cursor[q] /\ batch'[q] = batch[q]
      PROVE  RecordsAccountedFor'
  BY <1>0, <1>b DEF RecordsAccountedFor
<1>c. ASSUME NEW p \in Processes, pc[p] # "save"
      PROVE  1..cursor[p] \subseteq Accounted
  BY <1>0, <1>c DEF BatchFollows, NoEvents
<1>d. ASSUME NEW p \in Processes, Gone(p), UNCHANGED saved
      PROVE  RecordsAccountedFor'
  <2>1. cursor'[p] = NoCursor
    BY <1>0, <1>d DEF TypeOK, Gone
  <2>2. \A q \in Processes \ {p} : cursor'[q] = cursor[q] /\ batch'[q] = batch[q]
    BY <1>0, <1>d DEF TypeOK, Gone
  <2> QED
    BY <1>0, <1>a, <1>b, <1>d, <2>1, <2>2
<1>1. ASSUME NEW p \in Processes, NEW selection \in Available(p), BeginStart(p, selection)
      PROVE  RecordsAccountedFor'
  <2>1. /\ cursor' = [cursor EXCEPT ![p] = saved]
        /\ UNCHANGED <<saved, batch>>
    BY <1>1 DEF BeginStart
  <2> QED
    BY <1>0, <1>b, <2>1 DEF TypeOK
<1>2. ASSUME NEW p \in Processes, StartCollectors(p) PROVE RecordsAccountedFor'
  <2>1. pc[p] = "begin" /\ UNCHANGED <<saved, batch>>
    BY <1>2 DEF StartCollectors, At
  <2>2. \/ UNCHANGED cursor
        \/ \E newest \in Int : /\ cursor' = [cursor EXCEPT ![p] = newest]
                               /\ skipped' = skipped \cup 1..newest
    <3>1. logged \in Int
      BY <1>0 DEF TypeOK
    <3> QED
      BY <1>2, <3>1 DEF StartCollectors, LatestRecord
  <2>3. CASE UNCHANGED cursor
    BY <1>0, <1>b, <2>1, <2>3
  <2>4. ASSUME NEW newest \in Int, cursor' = [cursor EXCEPT ![p] = newest],
               skipped' = skipped \cup 1..newest
        PROVE  RecordsAccountedFor'
    <3>1. 1..newest \subseteq Accounted'
      BY <2>4 DEF Accounted
    <3>2. cursor'[p] = newest /\ \A q \in Processes \ {p} : cursor'[q] = cursor[q]
      BY <1>0, <2>4 DEF TypeOK
    <3> QED
      BY <1>0, <1>b, <2>1, <3>1, <3>2
  <2> QED
    BY <2>2, <2>3, <2>4
<1>3. ASSUME NEW p \in Processes, Poll(p) PROVE RecordsAccountedFor'
  <2>1. pc[p] = "poll" /\ UNCHANGED saved
    BY <1>3 DEF Poll, At
  <2>2. 1..cursor[p] \subseteq Accounted
    BY <1>c, <2>1
  <2>3. CASE PollAuth(p)
    <3> DEFINE last == IF cursor[p] = NoCursor THEN 0 ELSE cursor[p]
    <3>1. /\ logged \in 0..MaxRecords /\ cursor[p] \in Cursors
          /\ last \in 0..MaxRecords /\ 1..last = 1..cursor[p]
      BY <1>0, CollectionAssumption DEF TypeOK, Cursors, NoCursor, Records
    <3>2. CASE batch' = [batch EXCEPT ![p] = NoEvents] /\ UNCHANGED cursor
      BY <1>0, <1>b, <2>1, <2>2, <3>2 DEF TypeOK
    <3>3. CASE /\ batch' = [batch EXCEPT ![p] =
                     [NoEvents EXCEPT !.records = Parsed((last + 1)..logged)]]
               /\ cursor' = [cursor EXCEPT ![p] = IF logged > last THEN logged ELSE last]
      <4>1. batch'[p].records = ((last + 1)..logged) \ Ignored
        BY <1>0, <3>3 DEF TypeOK, NoEvents, Parsed
      <4>2. 1..cursor'[p] \subseteq 1..last \cup ((last + 1)..logged)
        BY <1>0, <3>1, <3>3 DEF TypeOK
      <4>3. 1..cursor'[p] \subseteq Accounted \cup batch'[p].records
        BY <2>2, <3>1, <4>1, <4>2 DEF Accounted
      <4>4. \A q \in Processes \ {p} : cursor'[q] = cursor[q] /\ batch'[q] = batch[q]
        BY <1>0, <3>3 DEF TypeOK
      <4> QED
        BY <1>0, <1>b, <2>1, <4>3, <4>4
    <3>4. cursor = [cursor EXCEPT ![p] = cursor[p]]
      BY <1>0 DEF TypeOK
    <3> QED
      BY <2>3, <3>2, <3>3, <3>4 DEF PollAuth, AfterFailedRead
  <2>4. CASE UNCHANGED cursor /\ \E events : batch' = [batch EXCEPT ![p] = events]
    BY <1>0, <1>b, <2>1, <2>2, <2>4 DEF TypeOK
  <2> QED
    BY <1>3, <2>3, <2>4 DEF Poll, PollProcesses, PollConnections, SnapshotFails
<1>4. ASSUME NEW p \in Processes, Save(p) PROVE RecordsAccountedFor'
  <2>1. /\ pc[p] = "save"
        /\ storedBy' = [r \in Records |-> IF r \in New(p) THEN session[p] ELSE storedBy[r]]
        /\ quarantined' = quarantined \cup Rejected(p)
        /\ saved' = Upserted(turn[p], cursor[p])
        /\ batch' = [batch EXCEPT ![p] = NoEvents]
        /\ UNCHANGED cursor
    BY <1>4 DEF Save, At
  <2>2. batch[p].records \subseteq Accounted'
    <3>1. session[p] # 0 /\ batch[p].records \subseteq Records
      <4>1. Alive(p)
        BY <2>1 DEF Alive
      <4>2. session[p] \in Sessions
        BY <1>0, <4>1 DEF TypeOK
      <4>3. batch[p].records \subseteq Records
        BY <1>0 DEF TypeOK
      <4> QED
        BY <4>2, <4>3 DEF Sessions
    <3>2. ASSUME NEW r \in batch[p].records PROVE r \in Accounted'
      <4>1. CASE r \in rejected
        BY <2>1, <4>1 DEF Accounted, Rejected
      <4>2. CASE r \notin rejected
        BY <2>1, <3>1, <4>2 DEF Accounted, New
      <4> QED
        BY <4>1, <4>2
    <3> QED
      BY <3>2
  <2>3. 1..cursor[p] \subseteq Accounted'
    BY <1>0, <2>2
  <2> QED
    BY <1>0, <1>b, <2>1, <2>3 DEF TypeOK, Upserted
<1>5. ASSUME NEW p \in Processes, SaveFails(p) PROVE RecordsAccountedFor'
  <2>1. /\ dropped' = dropped \cup batch[p].records
        /\ batch' = [batch EXCEPT ![p] = NoEvents]
        /\ UNCHANGED <<saved, cursor>>
    BY <1>5 DEF SaveFails
  <2>2. batch[p].records \subseteq Accounted'
    BY <2>1 DEF Accounted
  <2>3. 1..cursor'[p] \subseteq Accounted'
    BY <1>0, <2>1, <2>2
  <2> QED
    BY <1>0, <1>b, <2>1, <2>3 DEF TypeOK
<1>6. ASSUME NEW p \in Processes, Recover(p) PROVE RecordsAccountedFor'
  <2>1. saved' \in {saved, NoCursor} /\ UNCHANGED <<cursor, batch>>
    BY <1>6 DEF Recover, Upserted
  <2> QED
    BY <1>0, <1>a, <1>b, <2>1
<1>7. ASSUME NEW p \in Processes, StopCollectors(p) PROVE RecordsAccountedFor'
  <2>1. pc[p] = "finally"
    BY <1>7 DEF StopCollectors, At
  <2>2. CASE saved' = (IF "auth" \in enabled[p] THEN cursor[p] ELSE saved)
             /\ UNCHANGED <<cursor, batch>>
    BY <1>0, <1>b, <1>c, <2>1, <2>2
  <2>3. CASE Gone(p) /\ UNCHANGED saved
    BY <1>d, <2>3
  <2> QED
    BY <1>7, <2>2, <2>3 DEF StopCollectors
<1>8. ASSUME NEW p \in Processes, AbortStart(p) \/ Die(p) \/ Finish(p)
      PROVE  RecordsAccountedFor'
  BY <1>d, <1>8 DEF AbortStart, Die, Finish
<1>9. CASE UNCHANGED <<saved, cursor, batch>>
  BY <1>0, <1>9 DEF RecordsAccountedFor
<1> QED
  BY <1>1, <1>2, <1>3, <1>4, <1>5, <1>6, <1>7, <1>8, <1>9
     DEF Next, Thread, vars, Log, Construct, Launch, Stop, Heartbeat, Settle

(***************************************************************************)
(* What a finished session counts.                                         *)
(***************************************************************************)
LEMMA EventsCounted ==
  ASSUME TypeOK, NEW n \in Sessions
  PROVE  EventsOf(n) \in Nat
<1>1. IsFiniteSet(Records)
  BY FS_Interval DEF Records
<1>2. IsFiniteSet({r \in Records : storedBy[r] = n})
  BY <1>1, FS_Subset
<1> QED
  BY <1>2, FS_CardinalityType DEF EventsOf

LEMMA CountingStep == TypeInv /\ TypeInv' /\ Counting /\ [Next]_vars => Counting'
<1> SUFFICES ASSUME TypeInv, TypeInv', Counting, [Next]_vars PROVE Counting'
  OBVIOUS
<1> USE DEF environment, database, manager, memory, history
<1>0. /\ TypeOK /\ TypeOK' /\ StoredUnderSessions /\ FinishedCountsItsEvents
      /\ \A q \in Processes : SessionOwned(q)
      /\ \A q \in Processes : Alive(q) => session[q] \in Sessions
  BY DEF TypeInv, Counting, SessionsOwned, TypeOK
\* No thread takes up another session, and no row a thread owns is finished.
<1>a. ASSUME \A q \in Processes : Alive(q)' =>
               Alive(q) /\ session'[q] = session[q] /\ counters'[q] = counters[q],
             UNCHANGED storedBy,
             \A q \in Processes : Alive(q)' =>
               rows'[session[q]].status \in {"running", "interrupted"},
             \A n \in Sessions :
               \/ rows'[n].counted = rows[n].counted
                  /\ (rows'[n].status = rows[n].status
                      \/ rows'[n].status \in {"running", "interrupted"})
               \/ rows'[n].status # "none" /\ rows'[n].counted = EventsOf(n)
      PROVE  Counting'
  <2>1. \A n \in Sessions : EventsOf(n)' = EventsOf(n) /\ EventsOf(n) \in Nat
    BY <1>0, <1>a, EventsCounted DEF EventsOf
  <2>2. SessionsOwned'
    BY <1>0, <1>a, <2>1 DEF SessionsOwned, SessionOwned
  <2>3. StoredUnderSessions'
    <3>1. ASSUME NEW r \in Records, storedBy[r] # 0
          PROVE  rows'[storedBy[r]].status # "none"
      <4>1. storedBy[r] \in Sessions /\ rows[storedBy[r]].status # "none"
        BY <1>0, <3>1 DEF StoredUnderSessions, TypeOK
      <4> QED
        BY <1>a, <4>1
    <3> QED
      BY <1>a, <3>1 DEF StoredUnderSessions
  <2>4. FinishedCountsItsEvents'
    <3>1. ASSUME NEW n \in Sessions
          PROVE  /\ rows'[n].counted <= EventsOf(n)
                 /\ rows'[n].status \in {"completed", "stopped", "error"} =>
                      rows'[n].counted = EventsOf(n)
      BY <1>0, <1>a, <2>1 DEF FinishedCountsItsEvents
    <3> QED
      BY <2>1, <3>1 DEF FinishedCountsItsEvents
  <2> QED
    BY <2>2, <2>3, <2>4 DEF Counting
<1>b. ASSUME UNCHANGED <<storedBy, rows>>,
             \A q \in Processes : Alive(q)' =>
               Alive(q) /\ session'[q] = session[q] /\ counters'[q] = counters[q]
      PROVE  Counting'
  <2>1. \A q \in Processes : Alive(q)' =>
          rows'[session[q]].status \in {"running", "interrupted"}
    BY <1>0, <1>b DEF SessionOwned
  <2> QED
    BY <1>a, <1>b, <2>1
<1>c. ASSUME NEW p \in Processes, Gone(p)
      PROVE  \A q \in Processes : Alive(q)' =>
               /\ q # p
               /\ Alive(q) /\ session'[q] = session[q] /\ counters'[q] = counters[q]
  BY <1>0, <1>c DEF TypeOK, Gone, Alive
<1>1. ASSUME NEW p \in Processes, Construct(p) PROVE Counting'
  <2>1. \A n \in Sessions : rows'[n] =
          IF rows[n].status = "running"
            THEN [rows[n] EXCEPT !.status = "interrupted"] ELSE rows[n]
    BY <1>1 DEF Construct, MarkStaleRunningSessions
  <2>2. \A n \in Sessions :
          /\ rows'[n].counted = rows[n].counted
          /\ \/ rows'[n].status = rows[n].status /\ rows[n].status # "running"
             \/ rows'[n].status = "interrupted" /\ rows[n].status = "running"
    BY <1>0, <2>1 DEF TypeOK
  <2>3. UNCHANGED <<storedBy, pc, session, counters>>
    BY <1>1 DEF Construct
  <2>4. \A q \in Processes : Alive(q)' =>
          rows'[session[q]].status \in {"running", "interrupted"}
    BY <1>0, <2>2, <2>3 DEF SessionOwned, Alive
  <2> QED
    BY <1>a, <2>2, <2>3, <2>4 DEF Alive
<1>2. ASSUME NEW p \in Processes, NEW selection \in Available(p), BeginStart(p, selection)
      PROVE  Counting'
  <2>1. /\ ~Alive(p) /\ counters' = [counters EXCEPT ![p] = 0]
        /\ UNCHANGED <<pc, session, storedBy, rows>>
    BY <1>2 DEF BeginStart, MayStart
  <2>2. \A q \in Processes : Alive(q)' =>
          Alive(q) /\ session'[q] = session[q] /\ counters'[q] = counters[q]
    BY <1>0, <2>1 DEF TypeOK, Alive
  <2> QED
    BY <1>b, <2>1, <2>2
<1>3. ASSUME NEW p \in Processes, Launch(p) PROVE Counting'
  <2>1. PICK n \in Sessions : InsertSession(n) /\ session' = [session EXCEPT ![p] = n]
    BY <1>3 DEF Launch
  <2>2. /\ pc' = [pc EXCEPT ![p] = "begin"]
        /\ UNCHANGED <<storedBy, counters>> /\ counters[p] = 0 /\ ~Alive(p)
    BY <1>3 DEF Launch, TypeInv, StartingApart
  <2>3. /\ rows[n].status = "none" /\ rows'[n].status = "running"
        /\ rows'[n].counted = rows[n].counted
        /\ \A m \in Sessions \ {n} : rows'[m] = rows[m]
    BY <1>0, <2>1 DEF TypeOK, InsertSession
  <2>4. EventsOf(n) = 0
    <3>1. {r \in Records : storedBy[r] = n} = {}
      BY <1>0, <2>1, <2>3 DEF StoredUnderSessions, Sessions
    <3> QED
      BY <3>1, FS_EmptySet DEF EventsOf
  <2>5. \A m \in Sessions : EventsOf(m)' = EventsOf(m)
    BY <2>2 DEF EventsOf
  <2>6. \A q \in Processes \ {p} : Alive(q)' =>
          Alive(q) /\ session'[q] = session[q] /\ session[q] # n
    <3>1. \A q \in Processes \ {p} : pc'[q] = pc[q] /\ session'[q] = session[q]
      BY <1>0, <2>1, <2>2 DEF TypeOK
    <3>2. \A q \in Processes : Alive(q) =>
            rows[session[q]].status \in {"running", "interrupted"}
      BY <1>0 DEF SessionOwned
    <3> QED
      BY <2>3, <3>1, <3>2 DEF Alive
  <2>7. session'[p] = n
    BY <1>0, <2>1 DEF TypeOK
  <2>8. SessionsOwned'
    <3>1. SessionOwned(p)'
      BY <2>1, <2>2, <2>3, <2>4, <2>5, <2>6, <2>7 DEF SessionOwned
    <3>2. ASSUME NEW q \in Processes \ {p} PROVE SessionOwned(q)'
      BY <1>0, <2>1, <2>2, <2>3, <2>5, <2>6, <2>7 DEF SessionOwned
    <3> QED
      BY <3>1, <3>2 DEF SessionsOwned
  <2>9. StoredUnderSessions'
    <3>1. ASSUME NEW r \in Records, storedBy[r] # 0
          PROVE  rows'[storedBy[r]].status # "none"
      <4>1. storedBy[r] \in Sessions /\ rows[storedBy[r]].status # "none"
        BY <1>0, <3>1 DEF StoredUnderSessions, TypeOK
      <4> QED
        BY <2>3, <4>1
    <3> QED
      BY <2>2, <3>1 DEF StoredUnderSessions
  <2>10. FinishedCountsItsEvents'
    <3>1. ASSUME NEW m \in Sessions
          PROVE  /\ rows'[m].counted <= EventsOf(m)
                 /\ rows'[m].status \in {"completed", "stopped", "error"} =>
                      rows'[m].counted = EventsOf(m)
      BY <1>0, <2>3 DEF FinishedCountsItsEvents
    <3> QED
      BY <2>5, <3>1 DEF FinishedCountsItsEvents
  <2> QED
    BY <2>8, <2>9, <2>10 DEF Counting
<1>4. ASSUME NEW p \in Processes, Save(p) PROVE Counting'
  <2>1. /\ Alive(p)
        /\ storedBy' = [r \in Records |-> IF r \in New(p) THEN session[p] ELSE storedBy[r]]
        /\ counters' = [counters EXCEPT ![p] = counters[p] + Inserted(p)]
        /\ UNCHANGED <<rows, session>>
    BY <1>4 DEF Save, At, Alive, Counted
  <2>2. \A q \in Processes : Alive(q)' => Alive(q)
    BY <1>0, <1>4, <2>1, NextCollectorTyped DEF TypeOK, Save, Observe, Goto, Alive
  <2>3. EventsOf(session[p])' = EventsOf(session[p]) + Inserted(p)
    <3> DEFINE old == {r \in Records : storedBy[r] = session[p]}
    <3>1. session[p] # 0 /\ IsFiniteSet(old) /\ IsFiniteSet(New(p))
      <4>1. session[p] # 0 /\ IsFiniteSet(New(p))
        BY <1>0, <2>1, NewRecords DEF Sessions
      <4>2. IsFiniteSet(Records)
        BY FS_Interval DEF Records
      <4> QED
        BY <4>1, <4>2, FS_Subset
    <3>2. {r \in Records : storedBy'[r] = session[p]} = old \cup New(p)
      BY <1>0, <2>1, NewRecords
    <3>3. old \cap New(p) = {}
      BY <1>0, <3>1, NewRecords
    <3>4. Cardinality(old) \in Nat /\ Cardinality(New(p)) \in Nat
      BY <3>1, FS_CardinalityType
    <3>5. Cardinality(old \cup New(p)) = Cardinality(old) + Cardinality(New(p))
      <4>1. Cardinality(old \cup New(p)) =
              Cardinality(old) + Cardinality(New(p)) - Cardinality(old \cap New(p))
        BY <3>1, FS_Union
      <4>2. Cardinality(old \cap New(p)) = 0
        BY <3>3, FS_EmptySet
      <4> HIDE DEF old
      <4> QED
        BY <3>4, <4>1, <4>2
    <3>6. EventsOf(session[p])' = Cardinality({r \in Records : storedBy'[r] = session[p]})
      BY <2>1 DEF EventsOf
    <3> QED
      BY <3>2, <3>5, <3>6 DEF EventsOf, Inserted
  <2>4. \A n \in Sessions \ {session[p]} : EventsOf(n)' = EventsOf(n)
    <3>1. ASSUME NEW n \in Sessions \ {session[p]} PROVE EventsOf(n)' = EventsOf(n)
      <4>1. {r \in Records : storedBy'[r] = n} = {r \in Records : storedBy[r] = n}
        BY <1>0, <2>1, <3>1, NewRecords DEF Sessions
      <4> QED
        BY <4>1 DEF EventsOf
    <3> QED
      BY <3>1
  <2>5. Inserted(p) \in Nat /\ \A n \in Sessions : EventsOf(n) \in Nat
    BY <1>0, NewRecords, EventsCounted
  <2>6. SessionsOwned'
    <3>1. SessionOwned(p)'
      BY <1>0, <2>1, <2>2, <2>3 DEF TypeOK, SessionOwned
    <3>2. ASSUME NEW q \in Processes \ {p} PROVE SessionOwned(q)'
      BY <1>0, <2>1, <2>2, <2>4, <3>2 DEF TypeOK, SessionOwned
    <3> QED
      BY <3>1, <3>2 DEF SessionsOwned
  <2>7. rows[session[p]].status \in {"running", "interrupted"}
    BY <1>0, <2>1 DEF SessionOwned
  <2>8. StoredUnderSessions'
    BY <1>0, <2>1, <2>7 DEF StoredUnderSessions
  <2>9. FinishedCountsItsEvents'
    <3>1. \A n \in Sessions : rows[n].counted \in Nat
      BY <1>0 DEF TypeOK
    <3>2. ASSUME NEW n \in Sessions
          PROVE  /\ rows[n].counted <= EventsOf(n)'
                 /\ rows[n].status \in {"completed", "stopped", "error"} =>
                      rows[n].counted = EventsOf(n)'
      <4>1. CASE n = session[p]
        <5>1. rows[n].counted <= EventsOf(n) /\ EventsOf(n) \in Nat /\ Inserted(p) \in Nat
          BY <1>0, <2>5 DEF FinishedCountsItsEvents
        <5>2. EventsOf(n)' = EventsOf(n) + Inserted(p)
          BY <2>1, <2>3, <4>1
        <5> QED
          BY <2>7, <3>1, <4>1, <5>1, <5>2
      <4>2. CASE n # session[p]
        BY <1>0, <2>4, <4>2 DEF FinishedCountsItsEvents
      <4> QED
        BY <4>1, <4>2
    <3> QED
      BY <2>1, <3>2 DEF FinishedCountsItsEvents
  <2> QED
    BY <2>6, <2>8, <2>9 DEF Counting
<1>5. ASSUME NEW p \in Processes, Heartbeat(p) PROVE Counting'
  <2>1. Alive(p) /\ UNCHANGED <<storedBy, session, counters>>
    BY <1>5 DEF Heartbeat, At, Alive
  <2>2. \A q \in Processes : Alive(q)' => Alive(q)
    BY <1>0, <1>5, <2>1 DEF TypeOK, Heartbeat, Loop, Break, Goto, Alive
  <2>3. \/ UNCHANGED rows
        \/ /\ rows[session[p]].status = "running"
           /\ rows' = [rows EXCEPT ![session[p]].counted = EventsOf(session[p])]
    BY <1>0, <1>5, <2>1 DEF Heartbeat, SessionOwned
  <2>4. CASE UNCHANGED rows
    BY <1>b, <2>1, <2>2, <2>4
  <2>5. CASE /\ rows[session[p]].status = "running"
             /\ rows' = [rows EXCEPT ![session[p]].counted = EventsOf(session[p])]
    <3>1. \A n \in Sessions :
            /\ rows'[n].status = rows[n].status
            /\ n # session[p] => rows'[n] = rows[n]
            /\ n = session[p] => rows'[n].counted = EventsOf(n)
      BY <1>0, <2>5 DEF TypeOK
    <3>2. \A q \in Processes : Alive(q)' =>
            rows'[session[q]].status \in {"running", "interrupted"}
      BY <1>0, <2>2, <3>1 DEF SessionOwned
    <3> QED
      BY <1>a, <2>1, <2>2, <2>5, <3>1, <3>2
  <2> QED
    BY <2>3, <2>4, <2>5
<1>6. ASSUME NEW p \in Processes, Finish(p) PROVE Counting'
  <2>1. Alive(p) /\ Gone(p) /\ UNCHANGED storedBy
    BY <1>6 DEF Finish, At, Alive
  <2>2. \/ UNCHANGED rows
        \/ \E status \in {"stopped", "completed", "error"} :
             rows' = [rows EXCEPT ![session[p]] =
                        [status |-> status, counted |-> EventsOf(session[p])]]
    <3>1. counters[p] = EventsOf(session[p]) /\ outcome[p] \in {"completed", "stopped", "error"}
      BY <1>0, <2>1 DEF TypeOK, SessionOwned
    <3> QED
      BY <1>6, <3>1 DEF Finish
  <2>3. CASE UNCHANGED rows
    BY <1>b, <1>c, <2>1, <2>3
  <2>4. ASSUME NEW status \in {"stopped", "completed", "error"},
               rows' = [rows EXCEPT ![session[p]] =
                          [status |-> status, counted |-> EventsOf(session[p])]]
        PROVE  Counting'
    <3>1. \A n \in Sessions :
            /\ n # session[p] => rows'[n] = rows[n]
            /\ n = session[p] => /\ rows'[n].counted = EventsOf(n)
                                 /\ rows'[n].status # "none"
      BY <1>0, <2>4 DEF TypeOK
    <3>2. \A q \in Processes : Alive(q)' =>
            rows'[session[q]].status \in {"running", "interrupted"}
      BY <1>0, <1>c, <2>1, <3>1 DEF SessionOwned
    <3> QED
      BY <1>a, <1>c, <2>1, <3>1, <3>2
  <2> QED
    BY <2>2, <2>3, <2>4
<1>7. ASSUME NEW p \in Processes, AbortStart(p) \/ Die(p) PROVE Counting'
  BY <1>b, <1>c, <1>7 DEF AbortStart, Die
<1>8. ASSUME NEW p \in Processes, StopCollectors(p) PROVE Counting'
  <2>1. Alive(p) /\ UNCHANGED <<storedBy, rows>>
    BY <1>8 DEF StopCollectors, At, Alive
  <2>2. CASE Goto(p, "settle") /\ UNCHANGED <<session, counters>>
    BY <1>0, <1>b, <2>1, <2>2 DEF TypeOK, Goto, Alive
  <2>3. CASE Gone(p)
    BY <1>b, <1>c, <2>1, <2>3
  <2> QED
    BY <1>8, <2>2, <2>3 DEF StopCollectors
<1>9. ASSUME NEW p \in Processes,
             StartCollectors(p) \/ Poll(p) \/ SaveFails(p) \/ Recover(p) \/ Settle(p)
      PROVE  Counting'
  <2>1. Alive(p) /\ UNCHANGED <<storedBy, rows, session, counters>>
    BY <1>9 DEF StartCollectors, Poll, SaveFails, Recover, Settle, At, Alive
  <2>2. \A q \in Processes \ {p} : pc'[q] = pc[q]
    BY <1>0, <1>9 DEF TypeOK, StartCollectors, Poll, SaveFails, Recover, Settle, Loop,
       Observe, NextCollector, Break, Goto
  <2>3. \A q \in Processes : Alive(q)' => Alive(q)
    BY <2>1, <2>2 DEF Alive
  <2> QED
    BY <1>b, <2>1, <2>3
<1>10. CASE UNCHANGED <<storedBy, rows, session, counters, pc>>
  BY <1>b, <1>10 DEF Alive
<1> QED
  BY <1>1, <1>2, <1>3, <1>4, <1>5, <1>6, <1>7, <1>8, <1>9, <1>10
     DEF Next, Thread, vars, Log, Stop

LEMMA IInvHolds == Spec => []IInv
<1>1. Init => IInv
  <2> SUFFICES ASSUME Init PROVE IInv
    OBVIOUS
  <2>1. RecordsAccountedFor
    BY DEF Init, RecordsAccountedFor, NoCursor
  <2>2. SessionsOwned /\ StoredUnderSessions
    BY DEF Init, SessionsOwned, SessionOwned, StoredUnderSessions, Alive
  <2>3. FinishedCountsItsEvents
    <3>1. ASSUME NEW n \in Sessions PROVE EventsOf(n) = 0
      <4>1. {r \in Records : storedBy[r] = n} = {}
        BY DEF Init, Sessions
      <4> QED
        BY <4>1, FS_EmptySet DEF EventsOf
    <3> QED
      BY <3>1 DEF Init, FinishedCountsItsEvents
  <2> QED
    BY InitTyped, <2>1, <2>2, <2>3 DEF IInv, Counting
<1>2. IInv /\ [Next]_vars => IInv'
  <2>1. TypeInv /\ [Next]_vars => TypeInv'
    BY StepTyped, StepFollows, ThreadsFollow
       DEF TypeInv, StartingApart, BatchesFollow, ChangesAccountedFor, ThreadFollows
  <2> QED
    BY <2>1, RecordsStep, CountingStep DEF IInv
<1> QED
  BY <1>1, <1>2, PTL DEF Spec

\* No event that validate_event accepts is lost between the machine and the
\* tables without a transaction having failed, however many processes collect
\* and whenever they die.
THEOREM NoEventLost == Spec => []NothingLost
<1>1. IInv => NothingLost
  BY DEF IInv, TypeInv, NothingLost
<1> QED
  BY <1>1, IInvHolds, PTL

\* The row of a finished session counts the events that are stored under it.
THEOREM SessionsCountTheirEvents == Spec => []FinishedCountsItsEvents
<1>1. IInv => FinishedCountsItsEvents
  BY DEF IInv, Counting
<1> QED
  BY <1>1, IInvHolds, PTL

(***************************************************************************)
(* A stop is never undone.                                                 *)
(***************************************************************************)
\* What StopIsObeyed says of a step and a process.
Obeys(p) == Alive(p) /\ StopInTime(p) =>
  \/ /\ StopInTime(p)'
     /\ ~(pc[p] \in {"begin", "heartbeat"} /\ pc'[p] = "poll")
  \/ /\ pc'[p] = "over"
     /\ rows' # rows => rows'[session[p]].status = "stopped"

LEMMA StepObeys ==
  ASSUME TypeInv, [Next]_vars, NEW p \in Processes
  PROVE  Obeys(p)
<1> SUFFICES ASSUME Alive(p), StopInTime(p) PROVE Obeys(p)
  BY DEF Obeys
<1> USE DEF environment, database, manager, memory, history
<1>0. TypeOK /\ ~starting[p] /\ stopEvent[p]
  BY DEF TypeInv, StartingApart, StopInTime
\* Only a start clears the event of a process without its thread being gone.
<1>1. ASSUME stopEvent'[p], pc'[p] = pc[p], outcome'[p] = outcome[p] PROVE Obeys(p)
  BY <1>1 DEF Obeys, StopInTime
<1>2. ASSUME stopEvent'[p], pc'[p] # "finish",
             pc[p] \notin {"begin", "heartbeat"} \/ pc'[p] # "poll"
      PROVE  Obeys(p)
  BY <1>2 DEF Obeys, StopInTime
<1>3. CASE UNCHANGED <<stopEvent, pc, outcome>>
  BY <1>0, <1>1, <1>3
<1>4. ASSUME NEW q \in Processes, NEW selection \in Available(q), BeginStart(q, selection)
      PROVE  Obeys(p)
  <2>1. q # p /\ UNCHANGED <<pc, outcome>> /\ stopEvent' = [stopEvent EXCEPT ![q] = FALSE]
    BY <1>4 DEF BeginStart, MayStart
  <2> QED
    BY <1>0, <1>1, <2>1 DEF TypeOK
<1>5. ASSUME NEW q \in Processes \ {p}, Gone(q) PROVE Obeys(p)
  BY <1>0, <1>1, <1>5 DEF TypeOK, Gone
<1>6. ASSUME Gone(p), UNCHANGED rows PROVE Obeys(p)
  BY <1>0, <1>6 DEF TypeOK, Gone, Obeys
<1>7. ASSUME NEW q \in Processes, AbortStart(q) PROVE Obeys(p)
  BY <1>0, <1>5, <1>7 DEF AbortStart
<1>8. ASSUME NEW q \in Processes, Launch(q) PROVE Obeys(p)
  <2>1. /\ q # p /\ UNCHANGED stopEvent /\ pc' = [pc EXCEPT ![q] = "begin"]
        /\ outcome' = [outcome EXCEPT ![q] = "completed"]
    BY <1>0, <1>8 DEF Launch
  <2> QED
    BY <1>0, <1>1, <2>1 DEF TypeOK
<1>9. ASSUME NEW q \in Processes, Stop(q) PROVE Obeys(p)
  BY <1>0, <1>1, <1>9 DEF TypeOK, Stop
<1>10. ASSUME NEW q \in Processes, Die(q) PROVE Obeys(p)
  BY <1>5, <1>6, <1>10 DEF Die
\* The thread before its last look: another's step leaves p's place alone, its
\* own ends a round, or goes on with one.
<1>11. ASSUME NEW q \in Processes, StartCollectors(q) \/ Heartbeat(q) PROVE Obeys(p)
  <2>1. /\ UNCHANGED stopEvent
        /\ \/ Loop(q) /\ UNCHANGED outcome
           \/ Break(q)
    BY <1>11 DEF StartCollectors, Heartbeat
  <2>2. CASE q = p
    BY <1>0, <1>2, <2>1, <2>2 DEF TypeOK, Loop, Break, Goto
  <2>3. CASE q # p
    BY <1>0, <1>1, <2>1, <2>3 DEF TypeOK, Loop, Break, Goto
  <2> QED
    BY <2>2, <2>3
<1>12. ASSUME NEW q \in Processes, Poll(q) \/ Save(q) \/ SaveFails(q) \/ Recover(q)
       PROVE  Obeys(p)
  <2>1. UNCHANGED stopEvent /\ pc[q] \in {"poll", "save", "recover"}
    BY <1>12 DEF Poll, Save, SaveFails, Recover, At
  <2>2. pc'[q] # "finish" /\ \A o \in Processes \ {q} : pc'[o] = pc[o]
    BY <1>0, <1>12 DEF TypeOK, Poll, Save, SaveFails, Recover, Observe, NextCollector,
       Break, Goto
  <2>3. \A o \in Processes \ {q} : outcome'[o] = outcome[o]
    BY <1>0, <1>12 DEF TypeOK, Poll, Save, SaveFails, Recover, Break
  <2> QED
    BY <1>0, <1>1, <1>2, <2>1, <2>2, <2>3
<1>13. ASSUME NEW q \in Processes, StopCollectors(q) PROVE Obeys(p)
  <2>1. /\ UNCHANGED rows
        /\ \/ Gone(q)
           \/ UNCHANGED <<stopEvent, outcome>> /\ Goto(q, "settle")
    BY <1>13 DEF StopCollectors
  <2>2. CASE UNCHANGED <<stopEvent, outcome>> /\ Goto(q, "settle")
    BY <1>0, <1>1, <1>2, <2>2 DEF TypeOK, Goto
  <2> QED
    BY <1>5, <1>6, <2>1, <2>2
<1>14. ASSUME NEW q \in Processes, Settle(q) PROVE Obeys(p)
  <2>1. /\ UNCHANGED stopEvent /\ pc[q] = "settle" /\ pc' = [pc EXCEPT ![q] = "finish"]
        /\ outcome' = [outcome EXCEPT ![q] =
                         IF stopEvent[q] THEN "stopped" ELSE outcome[q]]
    BY <1>14 DEF Settle, At, Goto
  <2>2. CASE q = p
    BY <1>0, <2>1, <2>2 DEF TypeOK, Obeys, StopInTime
  <2>3. CASE q # p
    BY <1>0, <1>1, <2>1, <2>3 DEF TypeOK
  <2> QED
    BY <2>2, <2>3
<1>15. ASSUME NEW q \in Processes, Finish(q) PROVE Obeys(p)
  <2>1. CASE q = p
    <3>1. Gone(p) /\ session[p] \in Sessions /\ outcome[p] = "stopped"
      BY <1>0, <1>15, <2>1 DEF TypeOK, Finish, At, StopInTime
    <3>2. \/ UNCHANGED rows
          \/ rows' = [rows EXCEPT ![session[p]] =
                        [status |-> "stopped", counted |-> counters[p]]]
      BY <1>15, <2>1, <3>1 DEF Finish
    <3>3. rows' # rows => rows'[session[p]].status = "stopped"
      BY <1>0, <3>1, <3>2 DEF TypeOK
    <3> QED
      BY <1>0, <3>1, <3>3 DEF TypeOK, Gone, Obeys
  <2>2. CASE q # p
    BY <1>5, <1>15, <2>2 DEF Finish
  <2> QED
    BY <2>1, <2>2
<1> QED
  BY <1>3, <1>4, <1>7, <1>8, <1>9, <1>10, <1>11, <1>12, <1>13, <1>14, <1>15
     DEF Next, Thread, vars, Log, Construct

\* No interleaving of start, stop, the thread and its death lets a thread that
\* was told to stop before its last look at the stop event begin another round,
\* or finish as anything but stopped.
THEOREM StopsAreObeyed == Spec => StopIsObeyed
<1>1. TypeInv /\ [Next]_vars => [\A p \in Processes : Obeys(p)]_vars
  BY StepObeys
<1>2. Spec => [][\A p \in Processes : Obeys(p)]_vars
  BY <1>1, TypeInvHolds, PTL DEF Spec
<1>3. (\A p \in Processes : Obeys(p)) <=>
        \A p \in Processes : Alive(p) /\ StopInTime(p) =>
          \/ /\ StopInTime(p)'
             /\ ~(pc[p] \in {"begin", "heartbeat"} /\ pc'[p] = "poll")
          \/ /\ pc'[p] = "over"
             /\ rows' # rows => rows'[session[p]].status = "stopped"
  BY DEF Obeys
<1> QED
  BY <1>2, <1>3, PTL DEF StopIsObeyed

(***************************************************************************)
(* The ledger of sessions.                                                 *)
(***************************************************************************)
\* What a step may do to the tables the ledger consists of.
LedgerStep == Ledger!Next \/ UNCHANGED Ledger!vars

\* A session without a row has counted nothing.
LEMMA InitLedger == Init => Ledger!Init
BY DEF Init, Ledger!Init

LEMMA StepsLedger == TypeInv /\ Counting /\ [Next]_vars => LedgerStep
<1> SUFFICES ASSUME TypeInv, Counting, [Next]_vars PROVE LedgerStep
  OBVIOUS
<1> USE DEF environment, database, manager, memory, history
<1>0. /\ TypeOK
      /\ \A q \in Processes : Alive(q) =>
           /\ session[q] \in Sessions
           /\ rows[session[q]].status \in {"running", "interrupted"}
           /\ counters[q] = EventsOf(session[q])
  BY DEF TypeInv, Counting, SessionsOwned, SessionOwned, TypeOK
<1>a. ASSUME UNCHANGED <<rows, storedBy>> PROVE LedgerStep
  BY <1>a DEF LedgerStep, Ledger!vars
<1>b. \A n \in Sessions : Ledger!EventsOf(n) = EventsOf(n)
  BY Zenon DEF Ledger!EventsOf, EventsOf, Ledger!Cardinality, Cardinality
<1>1. ASSUME NEW p \in Processes, Construct(p) PROVE LedgerStep
  <2>1. /\ UNCHANGED storedBy
        /\ \A n \in Sessions :
             /\ rows'[n].counted = rows[n].counted
             /\ rows'[n].status =
                  IF rows[n].status = "running" THEN "interrupted" ELSE rows[n].status
    BY <1>0, <1>1 DEF Construct, MarkStaleRunningSessions, TypeOK
  <2>2. Ledger!Interrupt
    BY <2>1 DEF Ledger!Interrupt
  <2> QED
    BY <2>2 DEF LedgerStep, Ledger!Next
<1>2. ASSUME NEW p \in Processes, Launch(p) PROVE LedgerStep
  <2>1. PICK n \in Sessions : InsertSession(n)
    BY <1>2 DEF Launch
  <2>2. /\ UNCHANGED storedBy
        /\ rows'[n].status = "running" /\ rows'[n].counted = rows[n].counted
        /\ \A m \in Sessions \ {n} : rows'[m] = rows[m]
    BY <1>0, <1>2, <2>1 DEF Launch, InsertSession, TypeOK
  <2>3. rows[n].status = "none"
    BY <2>1 DEF InsertSession
  <2>4. Ledger!Begin(n)
    BY <2>1, <2>2, <2>3 DEF Ledger!Begin
  <2> QED
    BY <2>1, <2>4 DEF LedgerStep, Ledger!Next
<1>3. ASSUME NEW p \in Processes, Save(p) PROVE LedgerStep
  <2>1. /\ Alive(p) /\ UNCHANGED rows
        /\ storedBy' = [r \in Records |-> IF r \in New(p) THEN session[p] ELSE storedBy[r]]
    BY <1>3 DEF Save, At, Alive
  <2>2. New(p) \in SUBSET Records /\ \A r \in New(p) : storedBy[r] = 0
    BY <1>0 DEF New, TypeOK
  <2>3. Ledger!Store(session[p], New(p))
    BY <1>0, <2>1, <2>2 DEF Ledger!Store, Ledger!Open
  <2> QED
    BY <1>0, <2>1, <2>2, <2>3 DEF LedgerStep, Ledger!Next
<1>4. ASSUME NEW p \in Processes, Heartbeat(p) PROVE LedgerStep
  <2>1. /\ Alive(p) /\ UNCHANGED storedBy
        /\ \/ UNCHANGED rows
           \/ /\ rows[session[p]].status = "running"
              /\ rows' = [rows EXCEPT ![session[p]].counted = counters[p]]
    BY <1>4 DEF Heartbeat, At, Alive
  <2>2. CASE UNCHANGED rows
    BY <1>a, <2>1, <2>2
  <2>3. CASE /\ rows[session[p]].status = "running"
             /\ rows' = [rows EXCEPT ![session[p]].counted = counters[p]]
    <3>1. PICK n \in Sessions : n = session[p]
      BY <1>0, <2>1
    <3>2. /\ \A m \in Sessions : rows'[m].status = rows[m].status
          /\ \A m \in Sessions \ {n} : rows'[m].counted = rows[m].counted
          /\ rows'[n].counted = Ledger!EventsOf(n)
      BY <1>0, <1>b, <2>1, <2>3, <3>1 DEF TypeOK
    <3>3. Ledger!Report(n)
      BY <2>1, <2>3, <3>1, <3>2 DEF Ledger!Report
    <3> QED
      BY <3>3, Zenon DEF LedgerStep, Ledger!Next
  <2> QED
    BY <2>1, <2>2, <2>3
<1>5. ASSUME NEW p \in Processes, Finish(p) PROVE LedgerStep
  <2>1. /\ Alive(p) /\ UNCHANGED storedBy
        /\ \/ UNCHANGED rows
           \/ \E s \in {"stopped", "completed", "error"} :
                rows' = [rows EXCEPT ![session[p]] = [status |-> s, counted |-> counters[p]]]
    BY <1>0, <1>5 DEF Finish, At, Alive, TypeOK
  <2>2. CASE UNCHANGED rows
    BY <1>a, <2>1, <2>2
  <2>3. ASSUME NEW s \in {"stopped", "completed", "error"},
               rows' = [rows EXCEPT ![session[p]] = [status |-> s, counted |-> counters[p]]]
        PROVE  LedgerStep
    <3>1. PICK n \in Sessions : n = session[p]
      BY <1>0, <2>1
    <3>2. /\ \A m \in Sessions \ {n} : rows'[m] = rows[m]
          /\ rows'[n].status = s /\ rows'[n].counted = Ledger!EventsOf(n)
      BY <1>0, <1>b, <2>1, <2>3, <3>1 DEF TypeOK
    <3>3. [m \in Sessions |-> rows'[m].status] =
            [[m \in Sessions |-> rows[m].status] EXCEPT ![n] = s]
      BY <3>2
    <3>4. [m \in Sessions |-> rows'[m].counted] =
            [[m \in Sessions |-> rows[m].counted] EXCEPT ![n] = Ledger!EventsOf(n)]
      BY <3>2
    <3>5. rows[n].status \in Ledger!Open /\ s \in Ledger!Ends
      BY <1>0, <2>1, <3>1 DEF Ledger!Open, Ledger!Ends
    <3>6. Ledger!End(n, s)
      BY <2>1, <3>3, <3>4, <3>5 DEF Ledger!End
    <3> QED
      BY <3>5, <3>6, Zenon DEF LedgerStep, Ledger!Next
  <2> QED
    BY <2>1, <2>2, <2>3
<1>6. ASSUME NEW p \in Processes,
             \/ AbortStart(p) \/ Stop(p) \/ Die(p) \/ StartCollectors(p) \/ Poll(p)
             \/ SaveFails(p) \/ Recover(p) \/ StopCollectors(p) \/ Settle(p)
             \/ \E selection \in Available(p) : BeginStart(p, selection)
      PROVE  UNCHANGED <<rows, storedBy>>
  BY <1>6 DEF AbortStart, Stop, Die, StartCollectors, Poll, SaveFails, Recover,
     StopCollectors, Settle, BeginStart
<1>7. CASE Log \/ UNCHANGED vars
  BY <1>a, <1>7 DEF Log, vars
<1> QED
  BY <1>a, <1>1, <1>2, <1>3, <1>4, <1>5, <1>6, <1>7 DEF Next, Thread

\* Sessions and events are a ledger to whoever reads them: no process, by
\* declaring a live session interrupted, by storing what another has read too,
\* or by dying, makes a session end twice or an event join one that is over.
THEOREM ImplementsSessionLedger == Spec => SessionLedgerSpec
<1>1. IInv /\ [Next]_vars => [Ledger!Next]_(Ledger!vars)
  BY StepsLedger DEF IInv, LedgerStep
<1> QED
  BY InitLedger, <1>1, IInvHolds, PTL DEF Spec, SessionLedgerSpec, Ledger!Spec

=============================================================================
