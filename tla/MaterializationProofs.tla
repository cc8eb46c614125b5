------------------------- MODULE MaterializationProofs -------------------------
(***************************************************************************)
(* Proofs about Materialization.                                           *)
(***************************************************************************)
EXTENDS Materialization, TLAPS

\* Whether a pass has read its new events.
HasRead(p) == pass[p].pc \in {"record", "readBaseline", "replace", "deleteAll",
                              "stateOnly"}

\* What is stored has been stamped.
StampInv == \A e \in stored : stamp[e] # 0

\* What a pass holds has been stored.
PassOK(p) ==
  /\ pass[p].new \cup pass[p].read \cup pass[p].base \subseteq stored
  /\ pass[p].todo \subseteq pass[p].new
  /\ pass[p].prev.last \in stored \cup {0}
  /\ pass[p].rebuild => pass[p].full
  /\ pass[p].full => /\ pass[p].base = {}
                     /\ pass[p].pc \notin {"readNew", "record", "readBaseline"}
  /\ ~pass[p].full => pass[p].pc \notin {"readAll", "deleteAll"}
  /\ pass[p].full /\ ~pass[p].rebuild => pass[p].prev = NoState

\* A pass has read every new event that is not overtaken, and no other: what
\* it has not read is beyond all it has.
NewOK(p) == HasRead(p) =>
  /\ pass[p].full => \/ /\ pass[p].pc = "replace" /\ pass[p].new # {}
                        /\ pass[p].read = pass[p].new
                     \/ /\ pass[p].pc # "replace"
                        /\ pass[p].new = {} /\ pass[p].prev.last = 0
  /\ ~pass[p].full => /\ pass[p].new # {}
                      /\ \A e \in pass[p].new : Beyond(e, pass[p].prev.last)
  /\ p \notin stale =>
       \A e \in stored \ pass[p].new :
         pass[p].full \/ Beyond(e, pass[p].prev.last) =>
           /\ late[e] = "none"
           /\ e \notin overtaken => \A f \in pass[p].new : Beyond(e, f)

\* An incremental pass has recorded what is outside the policy, and has read
\* the rest.
RangeOK(p) == HasRead(p) /\ ~pass[p].full =>
  /\ \A e \in pass[p].new :
       Outside(e, pass[p].prev.time) => e \in pass[p].todo \/ late[e] # "none"
  /\ pass[p].pc # "record" => pass[p].todo = {}
  /\ pass[p].pc = "stateOnly" => InPolicy(p) = {}
  /\ pass[p].pc \in {"readBaseline", "replace"} =>
       /\ InPolicy(p) # {}
       /\ InPolicy(p) \subseteq pass[p].read
       /\ \A e \in pass[p].read : Affected(p, at[e])

\* The reads of a range that no other pass has written under hold every event
\* that the windows hold, or that the watermark has passed.
ReadOK(p) == p \notin stale /\ ~pass[p].full =>
  /\ pass[p].pc \in {"readBaseline", "replace"} =>
       \A e \in stored \ overtaken :
         ~Beyond(e, pass[p].prev.last) /\ Affected(p, at[e])
           => e \in pass[p].read
  /\ HasRead(p) =>
       \A w \in Windows : \A e \in rows[w] :
         Beyond(e, pass[p].prev.last) => e \in pass[p].new
  /\ pass[p].pc = "replace" =>
       /\ \A e \in pass[p].base : \A f \in InPolicy(p) : at[e] < Align(at[f])
       /\ \A w \in Windows : \A e \in rows[w] :
            (\A f \in InPolicy(p) : at[e] < Align(at[f])) => e \in pass[p].base

PassInv == \A p \in Processes : PassOK(p)
NewInv == \A p \in Processes : NewOK(p)
RangeInv == \A p \in Processes : RangeOK(p)
ReadInv == \A p \in Processes : ReadOK(p)

\* A pass that no other has written under still sees the state it read.
StaleInv ==
  /\ \A p \in stale : pass[p].pc # "idle"
  /\ ~raced => stale = {}
  /\ \A p \in Processes \ stale : pass[p].pc # "idle" => pass[p].prev = state

\* A state that is not there is empty.
StateInv == ~state.exists => state = NoState

\* What is recorded as late is stored, and within the policy of the state if
\* it is new to it.
LateInv ==
  /\ \A e \in Events : late[e] # "none" => e \in stored
  /\ ~raced => \A e \in stored :
       Beyond(e, state.last) /\ late[e] = "within" => ~Outside(e, state.time)

\* The events of a window lie before its end, and one lies in it.
RowsInv ==
  /\ \A w \in Windows : \A e \in rows[w] : e \in stored /\ Align(at[e]) <= w
  /\ \A w \in Windows : rows[w] # {} => \E f \in rows[w] : Align(at[f]) = w
  /\ ~raced /\ ~state.exists => \A w \in Windows : rows[w] = {}

\* The event watermark is not before an event the ingestion watermark has
\* passed.
TimeInv ==
  ~raced => \A e \in stored \ overtaken :
              Beyond(e, state.last) \/ at[e] <= state.time

\* The windows are closed: one that has an event of its own that a pass has
\* read as new, or has yet to, has every earlier event that is in its window.
ClosedInv ==
  ~raced =>
    \A w \in Windows : \A f \in rows[w] :
      Align(at[f]) = w /\ (f \notin overtaken \/ Beyond(f, state.last)) =>
        \A e \in stored :
          e \in rows[Align(at[e])] /\ Align(at[e]) <= w => e \in rows[w]

IInv == /\ TypeOK /\ StampInv /\ PassInv /\ StaleInv /\ StateInv /\ NewInv /\ RangeInv
        /\ LateInv /\ ReadInv /\ RowsInv /\ TimeInv /\ ClosedInv
        /\ WatermarkCovers

-----------------------------------------------------------------------------
\* Multiples of the window size lie a window apart.
LEMMA MultipleLemma ==
  \A i, j \in Nat : i < j => WindowSize * i + WindowSize <= WindowSize * j
<1>. TAKE i, j \in Nat
<1>. HAVE i < j
<1>. PICK d \in Nat : j = i + 1 + d
  <2>. j - i - 1 \in Nat /\ j = i + 1 + (j - i - 1)  OBVIOUS
  <2>. QED  OBVIOUS
<1>. WindowSize \in Nat  BY MaterializationAssumption
<1>1. WindowSize * j = WindowSize * i + WindowSize + WindowSize * d  OBVIOUS
<1>2. WindowSize * d \in Nat /\ WindowSize * i \in Nat  OBVIOUS
<1>. QED  BY <1>1, <1>2

\* A window starts at a multiple of the window size, at most a window before.
LEMMA StartLemma ==
  \A t \in Nat : \E q \in Nat :
    /\ Align(t) = WindowSize * q /\ Align(t) \in Nat
    /\ Align(t) <= t /\ t < Align(t) + WindowSize
<1>. TAKE t \in Nat
<1>1. t % WindowSize \in Nat /\ t % WindowSize < WindowSize
  BY MaterializationAssumption
<1>2. t = WindowSize * (t \div WindowSize) + (t % WindowSize)
  BY MaterializationAssumption
<1>3. t \div WindowSize \in Nat  BY MaterializationAssumption
<1>4. WindowSize * (t \div WindowSize) \in Nat
  BY MaterializationAssumption, <1>3
<1>5. Align(t) = WindowSize * (t \div WindowSize)  BY <1>1, <1>2, <1>4 DEF Align
<1>6. Align(t) \in Nat /\ Align(t) <= t /\ t < Align(t) + WindowSize
  BY <1>1, <1>2, <1>4, <1>5, MaterializationAssumption
<1>. QED  BY <1>3, <1>5, <1>6

\* align_window_start: windows follow one another without a gap, and a time is
\* before the start or the end of a window as soon as its own start is.
LEMMA AlignFacts ==
  \A t, u \in Nat :
    /\ Align(t) \in Nat /\ Align(t) <= t /\ t < Align(t) + WindowSize
    /\ t <= u => Align(t) <= Align(u)
    /\ Align(t) < Align(u) => t < Align(u)
    /\ Align(t) < Align(u) + WindowSize => t < Align(u) + WindowSize
<1>. TAKE t, u \in Nat
<1>1. PICK q \in Nat : /\ Align(t) = WindowSize * q /\ Align(t) \in Nat
                       /\ Align(t) <= t /\ t < Align(t) + WindowSize
  BY StartLemma
<1>2. PICK r \in Nat : /\ Align(u) = WindowSize * r /\ Align(u) \in Nat
                       /\ Align(u) <= u /\ u < Align(u) + WindowSize
  BY StartLemma
<1>3. CASE q = r  BY <1>1, <1>2, <1>3
<1>4. CASE q < r
  <2>1. Align(t) + WindowSize <= Align(u)  BY <1>1, <1>2, <1>4, MultipleLemma
  <2>. QED  BY <2>1, <1>1, <1>2, MaterializationAssumption
<1>5. CASE r < q
  <2>1. Align(u) + WindowSize <= Align(t)  BY <1>1, <1>2, <1>5, MultipleLemma
  <2>. QED  BY <2>1, <1>1, <1>2, MaterializationAssumption
<1>. QED  BY <1>3, <1>4, <1>5

\* The times and windows of the events.
LEMMA TimeFacts ==
  ASSUME TypeOK, NEW e \in Events
  PROVE  at[e] \in Times /\ at[e] \in Nat /\ Align(at[e]) \in Windows
<1>1. at[e] \in Times  BY DEF TypeOK, Times
<1>2. at[e] \in Nat  BY MaterializationAssumption DEF TypeOK
<1>. QED  BY <1>1, <1>2 DEF Windows

\* (ingested_at, event_id) is a strict order of the events.
LEMMA OrderFacts ==
  ASSUME TypeOK, NEW e \in Events, NEW f \in Events, NEW m \in Events \cup {0}
  PROVE  /\ ~Beyond(e, e)
         /\ Beyond(e, f) => ~Beyond(f, e)
         /\ e = f \/ Beyond(e, f) \/ Beyond(f, e)
         /\ Beyond(e, f) /\ Beyond(f, m) => Beyond(e, m)
         /\ Beyond(e, m) /\ ~Beyond(f, m) => Beyond(e, f)
<1>1. e \in Nat \ {0} /\ f \in Nat \ {0} /\ m \in Nat
  BY MaterializationAssumption
<1>2. stamp[e] \in Nat /\ stamp[f] \in Nat /\ (m # 0 => stamp[m] \in Nat)
  BY DEF TypeOK
<1>. QED  BY <1>1, <1>2 DEF Beyond

\* What the steps of a pass do to the passes: they touch no other.
Updates(p) == /\ DOMAIN pass' = Processes
              /\ \A q \in Processes \ {p} : pass'[q] = pass[q]

-----------------------------------------------------------------------------
\* Built takes its windows from the events.
LEMMA BuiltFacts ==
  ASSUME TypeOK, NEW es, es \subseteq Events
  PROVE  /\ Built(es) \in [Windows -> SUBSET Events]
         /\ \A w \in Windows, e \in Events :
              e \in Built(es)[w] <=> /\ e \in es /\ Align(at[e]) <= w
                                     /\ \E f \in es : Align(at[f]) = w
  BY DEF Built

\* The type of the state a pass writes.
LEMMA NextStateFacts ==
  ASSUME TypeOK, PassInv, NEW p \in Processes, NEW s \in NextStates(p)
  PROVE  /\ s \in States /\ s.exists /\ s.last \in stored \cup {0}
         /\ pass[p].prev.time <= s.time
         /\ \A e \in pass[p].new :
              /\ at[e] <= s.time /\ s.last \in pass[p].new
              /\ e = s.last \/ Beyond(s.last, e)
         /\ pass[p].new = {} => s.last = pass[p].prev.last /\ s.time = pass[p].prev.time
  BY DEF NextStates, PassInv, PassOK

LEMMA InitIInv == Init => IInv
<1>. SUFFICES ASSUME Init  PROVE IInv  OBVIOUS
<1>1. \A p \in Processes : pass[p] = Idle /\ Idle \in Passes
  BY DEF Init, Idle, Passes, PCs, NoState, States
<1>2. TypeOK
  <2>1. Built({}) \in [Windows -> SUBSET Events]  BY DEF Built
  <2>. QED  BY <1>1, <2>1, MaterializationAssumption
    DEF Init, TypeOK, NoState, States
<1>3. \A w \in Windows : rows[w] = {}  BY DEF Init, Built
<1>4. StampInv /\ PassInv /\ StaleInv /\ StateInv
  BY <1>1 DEF Init, StampInv, PassInv, PassOK, StaleInv, StateInv, Idle, NoState
<1>5. NewInv /\ RangeInv /\ LateInv /\ ReadInv
  BY <1>1, <1>3 DEF Init, NewInv, NewOK, RangeInv, RangeOK, LateInv, ReadInv, ReadOK, HasRead, Idle
<1>6. RowsInv /\ TimeInv /\ ClosedInv /\ WatermarkCovers
  BY <1>3 DEF Init, RowsInv, TimeInv, ClosedInv, WatermarkCovers
<1>. QED  BY <1>2, <1>4, <1>5, <1>6 DEF IInv

-----------------------------------------------------------------------------
\* An event that is stamped, or whose transaction rolls back, is not stored:
\* the order of those that are does not change.
LEMMA StampStep ==
  ASSUME IInv, NEW x \in Events, Stamp(x) \/ RollBack(x)
  PROVE  IInv'
<1>1. TypeOK /\ StampInv /\ PassInv  BY DEF IInv
<1>2. x \notin stored  BY <1>1 DEF Stamp, RollBack, StampInv
<1>3. UNCHANGED <<at, stored, rows, state, late, pass, stale, overtaken, raced>>
  BY DEF Stamp, RollBack
<1>4. TypeOK'
  <2>1. CASE Stamp(x)
    BY <1>1, <2>1, MaterializationAssumption DEF Stamp, TypeOK
  <2>2. CASE RollBack(x)  BY <1>1, <2>2 DEF RollBack, TypeOK
  <2>. QED  BY <2>1, <2>2
<1>5. StampInv'
  <2>1. \A e \in Events \ {x} : stamp'[e] = stamp[e]
    BY <1>1 DEF Stamp, RollBack, TypeOK
  <2>. QED  BY <1>1, <1>2, <1>3, <2>1 DEF StampInv, TypeOK
<1>6. ASSUME NEW e \in stored, NEW m \in stored \cup {0}
      PROVE  Beyond(e, m)' <=> Beyond(e, m)
  <2>1. \A f \in Events \ {x} : stamp'[f] = stamp[f]
    BY <1>1 DEF Stamp, RollBack, TypeOK
  <2>2. e \in Events \ {x} /\ (m = 0 \/ m \in Events \ {x})
    BY <1>1, <1>2 DEF TypeOK
  <2>. QED  BY <2>1, <2>2 DEF Beyond
<1>7. /\ \A p \in Processes : /\ pass[p].new \subseteq stored
                              /\ pass[p].prev.last \in stored \cup {0}
      /\ \A w \in Windows : rows[w] \subseteq stored
      /\ state.last \in stored \cup {0}
  BY DEF IInv, TypeOK, PassInv, PassOK, RowsInv
<1>8. PassInv' /\ StaleInv' /\ StateInv'
  BY <1>3 DEF IInv, PassInv, PassOK, StaleInv, StateInv
<1>9. NewInv'
  BY <1>3, <1>6, <1>7 DEF IInv, NewInv, NewOK, HasRead
<1>10. RangeInv' /\ RowsInv'
  BY <1>3 DEF IInv, RangeInv, RangeOK, RowsInv, HasRead, InPolicy, Outside, Affected
<1>11. ReadInv'
  BY <1>3, <1>6, <1>7 DEF IInv, ReadInv, ReadOK, HasRead, InPolicy, Outside, Affected
<1>12. LateInv' /\ TimeInv' /\ WatermarkCovers'
  BY <1>3, <1>6, <1>7 DEF IInv, LateInv, TimeInv, WatermarkCovers, Outside
<1>13. ClosedInv'
  BY <1>3, <1>6, <1>7 DEF IInv, ClosedInv
<1>. QED  BY <1>4, <1>5, <1>8, <1>9, <1>10, <1>11, <1>12, <1>13 DEF IInv

\* An event that is stored is beyond all that is stored, or overtaken.
LEMMA StoreStep ==
  ASSUME IInv, NEW x \in Events, Store(x)
  PROVE  IInv'
<1>1. TypeOK  BY DEF IInv
<1>2. /\ x \notin stored /\ stamp[x] # 0 /\ stored' = stored \cup {x}
      /\ overtaken \subseteq overtaken' /\ overtaken' \subseteq overtaken \cup {x}
      /\ x \notin overtaken' => \A f \in stored : Beyond(x, f)
      /\ UNCHANGED <<at, stamp, clock, rows, state, late, pass, stale, raced>>
  BY DEF Store
<1>3. TypeOK'  BY <1>1, <1>2 DEF TypeOK
<1>4. \A e, m : Beyond(e, m)' <=> Beyond(e, m)  BY <1>2 DEF Beyond
<1>5. /\ \A p \in Processes : /\ pass[p].new \subseteq stored
                              /\ pass[p].prev.last \in stored \cup {0}
      /\ \A w \in Windows : rows[w] \subseteq stored
      /\ state.last \in stored \cup {0}
  BY DEF IInv, TypeOK, PassInv, PassOK, RowsInv
<1>6. x \notin overtaken' => \A m \in stored \cup {0} : Beyond(x, m)
  BY <1>2 DEF Beyond
<1>7. late[x] = "none"  BY <1>1, <1>2 DEF IInv, LateInv
<1>8. StampInv' /\ PassInv' /\ StaleInv' /\ StateInv'
  BY <1>2 DEF IInv, StampInv, PassInv, PassOK, StaleInv, StateInv
<1>9. NewInv'
  BY <1>2, <1>4, <1>5, <1>6, <1>7 DEF IInv, NewInv, NewOK, HasRead
<1>10. RangeInv' /\ RowsInv'
  BY <1>2 DEF IInv, RangeInv, RangeOK, RowsInv, HasRead, InPolicy, Outside, Affected
<1>11. ReadInv'
  BY <1>2, <1>4, <1>5, <1>6
     DEF IInv, ReadInv, ReadOK, HasRead, InPolicy, Outside, Affected
<1>12. LateInv' /\ TimeInv' /\ WatermarkCovers'
  BY <1>2, <1>4, <1>5, <1>6, <1>7
     DEF IInv, LateInv, TimeInv, WatermarkCovers, Outside
<1>13. ClosedInv'
  <2>1. \A w \in Windows : x \notin rows[w]  BY <1>2, <1>5
  <2>2. Align(at[x]) \in Windows  BY <1>1, TimeFacts
  <2>. QED  BY <1>2, <1>4, <1>5, <2>1, <2>2 DEF IInv, ClosedInv
<1>. QED  BY <1>3, <1>8, <1>9, <1>10, <1>11, <1>12, <1>13 DEF IInv

-----------------------------------------------------------------------------
\* A step by which a pass only reads leaves everything but that pass alone.
LEMMA ReadFrame ==
  ASSUME IInv, NEW p \in Processes, Updates(p), TypeOK',
         UNCHANGED <<telemetry, rows, state, late, overtaken, raced>>,
         \/ stale' = stale /\ pass'[p].pc # "idle"
         \/ stale' = stale \ {p} /\ pass'[p].pc = "idle",
         p \notin stale /\ pass'[p].pc # "idle" => pass'[p].prev = state,
         PassOK(p)', NewOK(p)', RangeOK(p)', ReadOK(p)'
  PROVE  IInv'
<1>1. UNCHANGED <<at, stamp, stored, clock, rows, state, late, overtaken, raced>>
  BY DEF telemetry
<1>2. \A e, m : Beyond(e, m)' <=> Beyond(e, m)  BY <1>1 DEF Beyond
<1>3. ASSUME NEW q \in Processes \ {p}
      PROVE  /\ pass'[q] = pass[q] /\ (q \in stale' <=> q \in stale)
             /\ PassOK(q) /\ NewOK(q) /\ RangeOK(q) /\ ReadOK(q)
  BY DEF IInv, Updates, PassInv, NewInv, RangeInv, ReadInv
<1>4. ASSUME NEW q \in Processes \ {p}
      PROVE  PassOK(q)' /\ NewOK(q)' /\ RangeOK(q)' /\ ReadOK(q)'
  <2>1. PassOK(q)'  BY <1>1, <1>3 DEF PassOK
  <2>2. NewOK(q)'  BY <1>1, <1>2, <1>3 DEF NewOK, HasRead
  <2>3. RangeOK(q)'
    BY <1>1, <1>3 DEF RangeOK, HasRead, Outside, InPolicy, Affected
  <2>4. ReadOK(q)'
    BY <1>1, <1>2, <1>3 DEF ReadOK, HasRead, Outside, InPolicy, Affected
  <2>. QED  BY <2>1, <2>2, <2>3, <2>4
<1>5. PassInv' /\ NewInv' /\ RangeInv' /\ ReadInv'
  BY <1>4 DEF PassInv, NewInv, RangeInv, ReadInv
<1>6. StaleInv'
  <2>1. stale \subseteq Processes /\ StaleInv  BY DEF IInv, TypeOK
  <2>2. \A q \in stale' : pass'[q].pc # "idle"  BY <1>3, <2>1 DEF StaleInv
  <2>3. \A q \in Processes \ stale' : pass'[q].pc # "idle" => pass'[q].prev = state'
    <3>1. pass'[p].pc # "idle" /\ p \notin stale' => p \notin stale
      BY <2>1 DEF StaleInv
    <3>. QED  BY <1>1, <1>3, <2>1, <3>1 DEF StaleInv
  <2>. QED  BY <1>1, <2>1, <2>2, <2>3 DEF StaleInv
<1>7. StampInv' /\ StateInv' /\ RowsInv'
  BY <1>1 DEF IInv, StampInv, StateInv, RowsInv
<1>8. LateInv' /\ TimeInv' /\ WatermarkCovers'
  BY <1>1, <1>2 DEF IInv, LateInv, TimeInv, WatermarkCovers, Outside
<1>9. ClosedInv'
  BY <1>1, <1>2 DEF IInv, ClosedInv
<1>. QED  BY <1>5, <1>6, <1>7, <1>8, <1>9 DEF IInv

\* An idle pass holds nothing.
LEMMA IdleOK ==
  ASSUME NEW p \in Processes, pass'[p] = Idle
  PROVE  PassOK(p)' /\ NewOK(p)' /\ RangeOK(p)' /\ ReadOK(p)'
  BY DEF PassOK, NewOK, RangeOK, ReadOK, HasRead, Idle, NoState

LEMMA IdleType == Idle \in Passes
  BY DEF Idle, Passes, PCs, States, NoState

\* The steps that end a pass without a write.
LEMMA DieStep ==
  ASSUME IInv, NEW p \in Processes, Die(p)
  PROVE  IInv'
<1>1. pass' = [pass EXCEPT ![p] = Idle] /\ stale' = stale \ {p}
  BY DEF Die, Return
<1>2. TypeOK  BY DEF IInv
<1>3. pass'[p] = Idle /\ Updates(p)  BY <1>1, <1>2 DEF TypeOK, Updates
<1>4. UNCHANGED <<telemetry, rows, state, late, overtaken, raced>>  BY DEF Die
<1>5. TypeOK'
  BY <1>1, <1>2, <1>4, IdleType DEF TypeOK, telemetry
<1>6. pass'[p].pc = "idle"  BY <1>3 DEF Idle
<1>. QED  BY <1>1, <1>3, <1>4, <1>5, <1>6, IdleOK, ReadFrame

LEMMA BeginStep ==
  ASSUME IInv, NEW p \in Processes, Begin(p)
  PROVE  IInv'
<1>1. TypeOK  BY DEF IInv
<1>2. PICK rebuild \in BOOLEAN, full \in BOOLEAN :
        /\ full = (rebuild \/ ~state.exists)
        /\ pass' = [pass EXCEPT ![p] =
                      [Idle EXCEPT !.pc = IF full THEN "readAll" ELSE "readNew",
                                   !.rebuild = rebuild, !.full = full,
                                   !.prev = state]]
  BY <1>1 DEF Begin, TypeOK, States
<1>3. UNCHANGED <<telemetry, rows, state, late, stale, overtaken, raced>>
  BY DEF Begin
<1>4. /\ pass'[p].pc = (IF full THEN "readAll" ELSE "readNew")
      /\ pass'[p].rebuild = rebuild /\ pass'[p].full = full
      /\ pass'[p].prev = state /\ pass'[p].new = {} /\ pass'[p].todo = {}
      /\ pass'[p].read = {} /\ pass'[p].base = {} /\ pass'[p] \in Passes
  BY <1>1, <1>2 DEF TypeOK, Idle, Passes, PCs
<1>5. Updates(p)  BY <1>1, <1>2 DEF TypeOK, Updates
<1>6. TypeOK'
  BY <1>1, <1>2, <1>3, <1>4 DEF TypeOK, telemetry
<1>7. PassOK(p)'
  BY <1>1, <1>2, <1>3, <1>4 DEF PassOK, TypeOK, telemetry, IInv, StateInv
<1>8. NewOK(p)' /\ RangeOK(p)' /\ ReadOK(p)'
  BY <1>4 DEF NewOK, RangeOK, ReadOK, HasRead
<1>9. pass'[p].pc # "idle"  BY <1>4
<1>. QED  BY <1>3, <1>4, <1>5, <1>6, <1>7, <1>8, <1>9, ReadFrame

\* An incremental pass finds every stored event beyond its watermark.
LEMMA ReadNewStep ==
  ASSUME IInv, NEW p \in Processes, ReadNew(p)
  PROVE  IInv'
<1>1. TypeOK /\ PassOK(p)  BY DEF IInv, PassInv
<1>. DEFINE new == {e \in stored : Beyond(e, pass[p].prev.last)}
<1>2. pass[p].pc = "readNew" /\ ~pass[p].full
  BY <1>1 DEF ReadNew, PassOK
<1>3. UNCHANGED <<telemetry, rows, state, late, overtaken, raced>>
  BY DEF ReadNew
<1>4. CASE new = {}
  <2>1. pass' = [pass EXCEPT ![p] = Idle] /\ stale' = stale \ {p}
    BY <1>4 DEF ReadNew, Return
  <2>2. pass'[p] = Idle /\ Updates(p)  BY <1>1, <2>1 DEF TypeOK, Updates
  <2>3. TypeOK'  BY <1>1, <1>3, <2>1, IdleType DEF TypeOK, telemetry
  <2>4. pass'[p].pc = "idle"  BY <2>2 DEF Idle
  <2>. QED  BY <1>3, <2>1, <2>2, <2>3, <2>4, IdleOK, ReadFrame
<1>5. CASE new # {}
  <2>. DEFINE todo == {e \in new : at[e] < pass[p].prev.time}
  <2>1. /\ pass' = [pass EXCEPT ![p].pc = "record", ![p].new = new,
                               ![p].todo = todo]
        /\ stale' = stale
    BY <1>5 DEF ReadNew
  <2>2. new \in SUBSET Events /\ todo \in SUBSET Events  BY <1>1 DEF TypeOK
  <2>3. pass[p] \in Passes  BY <1>1 DEF TypeOK
  <2>. HIDE DEF new, todo
  <2>4. /\ pass'[p].pc = "record" /\ pass'[p].new = new /\ pass'[p].todo = todo
        /\ pass'[p].rebuild = pass[p].rebuild /\ pass'[p].full = pass[p].full
        /\ pass'[p].prev = pass[p].prev /\ pass'[p].read = pass[p].read
        /\ pass'[p].base = pass[p].base /\ pass'[p] \in Passes /\ Updates(p)
    BY <1>1, <2>1, <2>2, <2>3 DEF TypeOK, Passes, PCs, Updates
  <2>5. TypeOK'
    BY <1>1, <1>3, <2>1, <2>4 DEF TypeOK, telemetry
  <2>6. UNCHANGED <<at, stamp, stored, clock, rows, late, overtaken>>
    BY <1>3 DEF telemetry
  <2>7. \A e, m : Beyond(e, m)' <=> Beyond(e, m)  BY <2>6 DEF Beyond
  <2>8. PassOK(p)'
    BY <1>1, <1>2, <2>4, <2>6 DEF PassOK, new, todo
  <2>9. NewOK(p)'
    BY <1>2, <1>5, <2>4, <2>6, <2>7 DEF NewOK, HasRead, new
  <2>10. RangeOK(p)'
    <3>1. ASSUME NEW e \in new, Outside(e, pass[p].prev.time)  PROVE e \in todo
      <4>1. at[e] \in Nat /\ pass[p].prev.time \in Nat
        BY <1>1, <2>2, <2>3, TimeFacts, MaterializationAssumption
           DEF Passes, States, Times
      <4>. QED  BY <3>1, <4>1, MaterializationAssumption DEF todo, Outside
    <3>. QED  BY <1>2, <2>4, <2>6, <3>1 DEF RangeOK, HasRead, Outside
  <2>11. ReadOK(p)'
    <3>1. \A w \in Windows : rows[w] \subseteq stored  BY DEF IInv, RowsInv
    <3>. QED  BY <2>4, <2>6, <2>7, <3>1 DEF ReadOK, HasRead, new
  <2>12. p \notin stale => pass'[p].prev = state
    BY <1>2, <2>4 DEF IInv, StaleInv
  <2>13. pass'[p].pc # "idle"  BY <2>4
  <2>. QED  BY <1>3, <2>1, <2>4, <2>5, <2>8, <2>9, <2>10, <2>11, <2>12, <2>13,
               ReadFrame
<1>. QED  BY <1>4, <1>5

\* The range holds every event of the pass within the policy; it is read when
\* all that is late has been recorded.
LEMMA ReadRangeStep ==
  ASSUME IInv, NEW p \in Processes, ReadRange(p)
  PROVE  IInv'
<1>1. /\ TypeOK /\ PassOK(p) /\ NewOK(p) /\ RangeOK(p) /\ ReadOK(p)
      /\ pass[p] \in Passes
  BY DEF IInv, PassInv, NewInv, RangeInv, ReadInv, TypeOK
<1>2. /\ pass[p].pc = "record" /\ ~pass[p].full /\ HasRead(p)
      /\ pass[p].todo = {}
  BY <1>1 DEF ReadRange, PassOK, HasRead
<1>3. UNCHANGED <<telemetry, rows, state, late, stale, overtaken, raced>>
  BY DEF ReadRange
<1>4. UNCHANGED <<at, stamp, stored, clock, rows, late, stale, overtaken>>
  BY <1>3 DEF telemetry
<1>5. \A e, m : Beyond(e, m)' <=> Beyond(e, m)  BY <1>4 DEF Beyond
<1>. DEFINE read == {e \in stored : Affected(p, at[e])}
<1>6. /\ Updates(p) /\ pass'[p] \in Passes
      /\ pass'[p].rebuild = pass[p].rebuild /\ pass'[p].full = pass[p].full
      /\ pass'[p].prev = pass[p].prev /\ pass'[p].new = pass[p].new
      /\ pass'[p].todo = {} /\ pass'[p].base = pass[p].base
      /\ \/ /\ InPolicy(p) = {} /\ pass'[p].pc = "stateOnly"
            /\ pass'[p].read = pass[p].read
         \/ /\ InPolicy(p) # {} /\ pass'[p].pc = "readBaseline"
            /\ pass'[p].read = read
  <2>1. read \in SUBSET Events  BY <1>1 DEF TypeOK
  <2>2. \/ /\ InPolicy(p) = {}
           /\ pass' = [pass EXCEPT ![p].pc = "stateOnly"]
        \/ /\ InPolicy(p) # {}
           /\ pass' = [pass EXCEPT ![p].pc = "readBaseline", ![p].read = read]
    BY DEF ReadRange
  <2>. HIDE DEF read
  <2>3. pass \in [Processes -> Passes]  BY <1>1 DEF TypeOK
  <2>4. CASE /\ InPolicy(p) = {}
             /\ pass' = [pass EXCEPT ![p].pc = "stateOnly"]
    <3>1. pass'[p] = [pass[p] EXCEPT !.pc = "stateOnly"]  BY <2>3, <2>4
    <3>. QED  BY <1>1, <1>2, <2>3, <2>4, <3>1 DEF Passes, PCs, Updates
  <2>5. CASE /\ InPolicy(p) # {}
             /\ pass' = [pass EXCEPT ![p].pc = "readBaseline", ![p].read = read]
    <3>1. pass'[p] = [pass[p] EXCEPT !.pc = "readBaseline", !.read = read]
      BY <2>3, <2>5
    <3>. QED  BY <1>1, <1>2, <2>1, <2>3, <2>5, <3>1 DEF Passes, PCs, Updates
  <2>. QED  BY <2>2, <2>4, <2>5
<1>7. TypeOK'
  <2>1. pass' \in [Processes -> Passes]
    BY <1>1, <1>6 DEF ReadRange, TypeOK
  <2>. QED  BY <1>1, <1>3, <2>1 DEF TypeOK, telemetry
<1>8. InPolicy(p)' = InPolicy(p) /\ \A t : Affected(p, t)' <=> Affected(p, t)
  BY <1>4, <1>6 DEF InPolicy, Affected, Outside
<1>9. PassOK(p)'  BY <1>1, <1>2, <1>4, <1>6 DEF PassOK
<1>10. NewOK(p)'
  BY <1>1, <1>2, <1>4, <1>5, <1>6 DEF NewOK, HasRead
<1>11. RangeOK(p)'
  <2>1. ASSUME NEW e \in InPolicy(p)  PROVE e \in read
    <3>1. e \in stored /\ e \in Events  BY <1>1 DEF InPolicy, PassOK, TypeOK
    <3>2. Align(at[e]) <= at[e] /\ at[e] < Align(at[e]) + WindowSize
      BY <1>1, <3>1, TimeFacts, AlignFacts
    <3>. QED  BY <2>1, <3>1, <3>2 DEF Affected
  <2>2. \A e \in pass[p].new :
          Outside(e, pass[p].prev.time) => late[e] # "none"
    BY <1>1, <1>2 DEF RangeOK
  <2>. QED  BY <1>4, <1>6, <1>8, <2>1, <2>2 DEF RangeOK, HasRead, Outside
<1>12. ReadOK(p)'
  BY <1>1, <1>2, <1>4, <1>5, <1>6, <1>8 DEF ReadOK, HasRead
<1>13. p \notin stale => pass'[p].prev = state
  BY <1>2, <1>6 DEF IInv, StaleInv
<1>14. pass'[p].pc # "idle"  BY <1>6
<1>. QED  BY <1>3, <1>6, <1>7, <1>9, <1>10, <1>11, <1>12, <1>13, <1>14, ReadFrame

\* The baseline holds every event of the windows before the range.
LEMMA ReadBaselineStep ==
  ASSUME IInv, NEW p \in Processes, ReadBaseline(p)
  PROVE  IInv'
<1>1. /\ TypeOK /\ PassOK(p) /\ NewOK(p) /\ RangeOK(p) /\ ReadOK(p)
      /\ pass[p] \in Passes
  BY DEF IInv, PassInv, NewInv, RangeInv, ReadInv, TypeOK
<1>2. pass[p].pc = "readBaseline" /\ ~pass[p].full /\ HasRead(p)
  BY <1>1 DEF ReadBaseline, PassOK, HasRead
<1>3. UNCHANGED <<telemetry, rows, state, late, stale, overtaken, raced>>
  BY DEF ReadBaseline
<1>4. UNCHANGED <<at, stamp, stored, clock, rows, late, stale, overtaken>>
  BY <1>3 DEF telemetry
<1>5. \A e, m : Beyond(e, m)' <=> Beyond(e, m)  BY <1>4 DEF Beyond
<1>. DEFINE base == {e \in stored : \A f \in InPolicy(p) : at[e] < Align(at[f])}
<1>6. /\ Updates(p) /\ pass' \in [Processes -> Passes]
      /\ pass'[p].rebuild = pass[p].rebuild /\ pass'[p].full = pass[p].full
      /\ pass'[p].prev = pass[p].prev /\ pass'[p].new = pass[p].new
      /\ pass'[p].todo = pass[p].todo /\ pass'[p].read = pass[p].read
      /\ pass'[p].pc = "replace" /\ pass'[p].base = base
  <2>1. base \in SUBSET Events  BY <1>1 DEF TypeOK
  <2>2. pass' = [pass EXCEPT ![p].pc = "replace", ![p].base = base]
    BY DEF ReadBaseline
  <2>. HIDE DEF base
  <2>3. pass'[p] \in Passes  BY <1>1, <2>1, <2>2 DEF TypeOK, Passes, PCs
  <2>. QED  BY <1>1, <1>2, <2>1, <2>2, <2>3 DEF TypeOK, Passes, Updates
<1>7. TypeOK'
  BY <1>1, <1>3, <1>6 DEF TypeOK, telemetry
<1>8. InPolicy(p)' = InPolicy(p) /\ \A t : Affected(p, t)' <=> Affected(p, t)
  BY <1>4, <1>6 DEF InPolicy, Affected, Outside
<1>9. PassOK(p)'  BY <1>1, <1>2, <1>4, <1>6 DEF PassOK
<1>10. NewOK(p)'
  BY <1>1, <1>2, <1>4, <1>5, <1>6 DEF NewOK, HasRead
<1>11. RangeOK(p)'
  BY <1>1, <1>2, <1>4, <1>6, <1>8 DEF RangeOK, HasRead, Outside
<1>12. ReadOK(p)'
  <2>1. \A w \in Windows : rows[w] \subseteq stored  BY DEF IInv, RowsInv
  <2>. QED  BY <1>1, <1>2, <1>4, <1>5, <1>6, <1>8, <2>1 DEF ReadOK, HasRead
<1>13. p \notin stale => pass'[p].prev = state
  BY <1>2, <1>6 DEF IInv, StaleInv
<1>14. pass'[p].pc # "idle"  BY <1>6
<1>. QED  BY <1>3, <1>6, <1>7, <1>9, <1>10, <1>11, <1>12, <1>13, <1>14, ReadFrame

\* A rebuild, or a first pass, reads everything.
LEMMA ReadAllStep ==
  ASSUME IInv, NEW p \in Processes, ReadAll(p)
  PROVE  IInv'
<1>1. /\ TypeOK /\ PassOK(p) /\ pass[p] \in Passes
      /\ pass[p].pc = "readAll" /\ pass[p].full
  BY DEF IInv, PassInv, TypeOK, ReadAll, PassOK
<1>2. UNCHANGED <<telemetry, rows, state, late, stale, overtaken, raced>>
  BY DEF ReadAll
<1>3. UNCHANGED <<at, stamp, stored, clock, rows, late, stale, overtaken>>
  BY <1>2 DEF telemetry
<1>4. PICK l \in {"replace", "deleteAll", "stateOnly"} :
        /\ pass' = [pass EXCEPT ![p].read = stored, ![p].new = stored, ![p].pc = l]
        /\ l = "replace" <=> stored # {}
  BY DEF ReadAll
<1>5. stored \in SUBSET Events  BY <1>1 DEF TypeOK
<1>6. /\ Updates(p) /\ pass' \in [Processes -> Passes]
      /\ pass'[p].rebuild = pass[p].rebuild /\ pass'[p].full = pass[p].full
      /\ pass'[p].prev = pass[p].prev /\ pass'[p].new = stored
      /\ pass'[p].todo = pass[p].todo /\ pass'[p].read = stored
      /\ pass'[p].pc = l /\ pass'[p].base = pass[p].base
  <2>1. pass'[p] \in Passes  BY <1>1, <1>4, <1>5 DEF TypeOK, Passes, PCs
  <2>. QED  BY <1>1, <1>4, <1>5, <2>1 DEF TypeOK, Passes, Updates
<1>7. TypeOK'
  BY <1>1, <1>2, <1>6 DEF TypeOK, telemetry
<1>8. PassOK(p)'  BY <1>1, <1>3, <1>4, <1>6 DEF PassOK
<1>9. NewOK(p)'
  BY <1>1, <1>3, <1>4, <1>6 DEF NewOK, HasRead, PassOK
<1>10. RangeOK(p)' /\ ReadOK(p)'
  BY <1>1, <1>6 DEF RangeOK, ReadOK
<1>11. p \notin stale => pass'[p].prev = state
  BY <1>1, <1>6 DEF IInv, StaleInv
<1>12. pass'[p].pc # "idle"  BY <1>6
<1>. QED  BY <1>2, <1>6, <1>7, <1>8, <1>9, <1>10, <1>11, <1>12, ReadFrame

-----------------------------------------------------------------------------
\* A write makes stale the passes in progress, and leaves them what they hold.
LEMMA WriteFrame ==
  ASSUME IInv, NEW p \in Processes, Updates(p), UNCHANGED telemetry,
         stale \cup Others(p) \subseteq stale' \cup {p},
         \A e \in Events : late[e] # "none" => late'[e] # "none",
         NEW q \in Processes \ {p}
  PROVE  PassOK(q)' /\ NewOK(q)' /\ RangeOK(q)' /\ ReadOK(q)'
<1>1. UNCHANGED <<at, stamp, stored>> /\ pass'[q] = pass[q]
  BY DEF telemetry, Updates
<1>2. \A e, m : Beyond(e, m)' <=> Beyond(e, m)  BY <1>1 DEF Beyond
<1>3. /\ PassOK(q) /\ NewOK(q) /\ RangeOK(q)
      /\ pass[q].new \subseteq Events
  BY DEF IInv, PassInv, NewInv, RangeInv, PassOK, TypeOK
<1>4. pass[q].pc = "idle" \/ q \in stale'  BY DEF Others
<1>5. PassOK(q)'  BY <1>1, <1>3 DEF PassOK
<1>6. NewOK(q)'  BY <1>1, <1>2, <1>3, <1>4 DEF NewOK, HasRead
<1>7. RangeOK(q)'
  BY <1>1, <1>3 DEF RangeOK, HasRead, Outside, InPolicy, Affected
<1>8. ReadOK(q)'  BY <1>1, <1>4 DEF ReadOK, HasRead
<1>. QED  BY <1>5, <1>6, <1>7, <1>8

\* While nothing is raced a pass that writes is the only one in progress, and
\* sees the state it read.
LEMMA StaleFrame ==
  ASSUME IInv, NEW p \in Processes, pass[p].pc # "idle", Updates(p),
         \/ /\ pass'[p].pc = "idle"
            /\ stale' = (stale \cup Others(p)) \ {p}
         \/ /\ pass'[p].pc # "idle" /\ pass'[p].prev = pass[p].prev
            /\ stale' = stale \cup Others(p) /\ state' = state,
         ~raced' => Others(p) = {} /\ (~raced \/ p \notin stale)
  PROVE  /\ StaleInv'
         /\ ~raced' => p \notin stale /\ pass[p].prev = state
<1>1. stale \subseteq Processes /\ StaleInv  BY DEF IInv, TypeOK
<1>2. \A q \in Processes \ {p} : pass'[q] = pass[q]  BY DEF Updates
<1>3. \A q \in stale' : pass'[q].pc # "idle"
  BY <1>1, <1>2 DEF StaleInv, Others
<1>4. ~raced' => stale \subseteq {p}  BY <1>1 DEF StaleInv, Others
<1>5. ~raced' => p \notin stale  BY <1>1 DEF StaleInv
<1>6. ~raced' => stale' = {}  BY <1>4, <1>5
<1>7. \A q \in Processes \ stale' : pass'[q].pc # "idle" => pass'[q].prev = state'
  <2>1. \A q \in Processes \ {p} : q \notin stale' => pass'[q].pc = "idle"
    BY <1>2 DEF Others
  <2>2. pass'[p].pc # "idle" /\ p \notin stale' => pass'[p].prev = state'
    BY <1>1 DEF StaleInv
  <2>. QED  BY <2>1, <2>2
<1>8. ~raced' => pass[p].prev = state  BY <1>1, <1>5 DEF StaleInv
<1>. QED  BY <1>3, <1>5, <1>6, <1>7, <1>8 DEF StaleInv

\* A late record belongs to an event the pass holds, and tells where the event
\* lies from the watermark the pass has read.
LEMMA RecordLateStep ==
  ASSUME IInv, NEW p \in Processes, RecordLate(p)
  PROVE  IInv'
<1>1. /\ TypeOK /\ PassOK(p) /\ NewOK(p) /\ RangeOK(p) /\ ReadOK(p)
      /\ pass[p] \in Passes
  BY DEF IInv, PassInv, NewInv, RangeInv, ReadInv, TypeOK
<1>2. pass[p].pc = "record" /\ ~pass[p].full /\ HasRead(p)
  BY <1>1 DEF RecordLate, PassOK, HasRead
<1>3. PICK x \in pass[p].todo :
        /\ late' = [late EXCEPT ![x] = IF @ # "none" THEN @
                      ELSE IF Outside(x, pass[p].prev.time) THEN "outside"
                      ELSE "within"]
        /\ pass' = [pass EXCEPT ![p].todo = pass[p].todo \ {x}]
  BY DEF RecordLate
<1>4. x \in pass[p].new /\ x \in stored /\ x \in Events
  BY <1>1, <1>3 DEF PassOK, TypeOK
<1>5. /\ UNCHANGED <<at, stamp, stored, clock, rows, state, overtaken>>
      /\ UNCHANGED telemetry
      /\ stale' = stale \cup Others(p) /\ raced' = (raced \/ Others(p) # {})
  BY DEF RecordLate, telemetry
<1>6. \A e, m : Beyond(e, m)' <=> Beyond(e, m)  BY <1>5 DEF Beyond
<1>7. /\ Updates(p) /\ pass' \in [Processes -> Passes]
      /\ pass'[p].rebuild = pass[p].rebuild /\ pass'[p].full = pass[p].full
      /\ pass'[p].prev = pass[p].prev /\ pass'[p].new = pass[p].new
      /\ pass'[p].todo = pass[p].todo \ {x} /\ pass'[p].read = pass[p].read
      /\ pass'[p].pc = pass[p].pc /\ pass'[p].base = pass[p].base
  <2>1. pass'[p] = [pass[p] EXCEPT !.todo = pass[p].todo \ {x}]
    BY <1>1, <1>3 DEF TypeOK
  <2>2. pass'[p] \in Passes  BY <1>1, <2>1 DEF Passes
  <2>. QED  BY <1>1, <1>3, <2>1, <2>2 DEF TypeOK, Passes, Updates
<1>8. /\ late' \in [Events -> {"none", "within", "outside"}]
      /\ \A e \in Events \ {x} : late'[e] = late[e]
      /\ late[x] # "none" => late'[x] = late[x]
      /\ late'[x] # "none"
      /\ late[x] = "none" /\ late'[x] = "within" => ~Outside(x, pass[p].prev.time)
  BY <1>1, <1>3, <1>4 DEF TypeOK
<1>9. TypeOK'
  BY <1>1, <1>5, <1>7, <1>8 DEF TypeOK, Others
<1>10. /\ StaleInv'
       /\ ~raced' => p \notin stale /\ pass[p].prev = state
  BY <1>2, <1>5, <1>7, StaleFrame
<1>11. PassOK(p)'  BY <1>1, <1>2, <1>5, <1>7 DEF PassOK
<1>12. NewOK(p)'
  BY <1>1, <1>2, <1>4, <1>5, <1>6, <1>7, <1>8 DEF NewOK, HasRead, TypeOK
<1>13. RangeOK(p)'
  <2>1. pass[p].new \subseteq Events  BY <1>1 DEF Passes
  <2>. QED  BY <1>1, <1>2, <1>5, <1>7, <1>8, <2>1 DEF RangeOK, HasRead, Outside
<1>14. ReadOK(p)'
  BY <1>1, <1>2, <1>5, <1>6, <1>7 DEF ReadOK, HasRead
<1>15. PassInv' /\ NewInv' /\ RangeInv' /\ ReadInv'
  <2>1. \A e \in Events : late[e] # "none" => late'[e] # "none"  BY <1>8
  <2>2. stale \cup Others(p) \subseteq stale' \cup {p}  BY <1>5
  <2>3. \A q \in Processes \ {p} :
          PassOK(q)' /\ NewOK(q)' /\ RangeOK(q)' /\ ReadOK(q)'
    BY <1>5, <1>7, <2>1, <2>2, WriteFrame
  <2>. QED  BY <1>11, <1>12, <1>13, <1>14, <2>3
       DEF PassInv, NewInv, RangeInv, ReadInv
<1>16. LateInv'
  <2>1. LateInv  BY DEF IInv
  <2>2. \A e \in Events : late'[e] # "none" => e \in stored'
    BY <1>4, <1>5, <1>8, <2>1 DEF LateInv
  <2>3. ASSUME ~raced', NEW e \in stored, Beyond(e, state.last), late'[e] = "within"
        PROVE  ~Outside(e, state.time)
    BY <1>1, <1>5, <1>8, <1>10, <2>1, <2>3 DEF LateInv, TypeOK
  <2>. QED  BY <1>5, <1>6, <2>2, <2>3 DEF LateInv, Outside
<1>17. WatermarkCovers'
  BY <1>1, <1>5, <1>6, <1>8 DEF IInv, WatermarkCovers, TypeOK
<1>18. StampInv' /\ StateInv' /\ RowsInv' /\ TimeInv'
  BY <1>5, <1>6 DEF IInv, StampInv, StateInv, RowsInv, TimeInv
<1>19. ClosedInv'  BY <1>5, <1>6 DEF IInv, ClosedInv
<1>. QED  BY <1>9, <1>10, <1>15, <1>16, <1>17, <1>18, <1>19 DEF IInv

\* A rebuild that has read nothing began before the first event, and has no
\* watermark.
LEMMA DeleteAllStep ==
  ASSUME IInv, NEW p \in Processes, DeleteAll(p)
  PROVE  IInv'
<1>1. /\ TypeOK /\ PassOK(p) /\ NewOK(p) /\ pass[p] \in Passes
  BY DEF IInv, PassInv, NewInv, TypeOK
<1>2. pass[p].pc = "deleteAll" /\ pass[p].full /\ HasRead(p)
  BY <1>1 DEF DeleteAll, PassOK, HasRead
<1>3. pass[p].new = {} /\ pass[p].prev.last = 0  BY <1>1, <1>2 DEF NewOK
<1>4. /\ UNCHANGED <<at, stamp, stored, clock, state, late, overtaken>>
      /\ UNCHANGED telemetry /\ rows' = Built({})
      /\ stale' = stale \cup Others(p) /\ raced' = (raced \/ Others(p) # {})
      /\ pass' = [pass EXCEPT ![p].pc = "stateOnly"]
  BY DEF DeleteAll, telemetry, Goto
<1>5. \A e, m : Beyond(e, m)' <=> Beyond(e, m)  BY <1>4 DEF Beyond
<1>6. /\ Updates(p) /\ pass' \in [Processes -> Passes]
      /\ pass'[p] = [pass[p] EXCEPT !.pc = "stateOnly"]
  <2>1. pass'[p] = [pass[p] EXCEPT !.pc = "stateOnly"]  BY <1>1, <1>4 DEF TypeOK
  <2>2. pass'[p] \in Passes  BY <1>1, <2>1 DEF Passes, PCs
  <2>. QED  BY <1>1, <1>4, <2>1, <2>2 DEF TypeOK, Updates
<1>7. \A w \in Windows : rows'[w] = {}  BY <1>4 DEF Built
<1>8. TypeOK'
  <2>1. Built({}) \in [Windows -> SUBSET Events]  BY <1>1, BuiltFacts
  <2>. QED  BY <1>1, <1>4, <1>6, <2>1 DEF TypeOK, Others
<1>9. /\ pass'[p].rebuild = pass[p].rebuild /\ pass'[p].full = pass[p].full
      /\ pass'[p].prev = pass[p].prev /\ pass'[p].new = pass[p].new
      /\ pass'[p].todo = pass[p].todo /\ pass'[p].read = pass[p].read
      /\ pass'[p].pc = "stateOnly" /\ pass'[p].base = pass[p].base
  BY <1>1, <1>6 DEF Passes
<1>10. /\ StaleInv'
       /\ ~raced' => p \notin stale /\ pass[p].prev = state
  BY <1>2, <1>4, <1>6, <1>9, StaleFrame
<1>11. PassInv' /\ NewInv' /\ RangeInv' /\ ReadInv'
  <2>1. stale \cup Others(p) \subseteq stale' \cup {p}  BY <1>4
  <2>2. \A q \in Processes \ {p} :
          PassOK(q)' /\ NewOK(q)' /\ RangeOK(q)' /\ ReadOK(q)'
    BY <1>4, <1>6, <2>1, WriteFrame
  <2>3. PassOK(p)'  BY <1>1, <1>2, <1>4, <1>9 DEF PassOK
  <2>4. NewOK(p)'
    BY <1>1, <1>2, <1>3, <1>4, <1>5, <1>9 DEF NewOK, HasRead
  <2>5. RangeOK(p)' /\ ReadOK(p)'  BY <1>2, <1>9 DEF RangeOK, ReadOK
  <2>. QED  BY <2>2, <2>3, <2>4, <2>5 DEF PassInv, NewInv, RangeInv, ReadInv
<1>12. LateInv' /\ StampInv' /\ StateInv' /\ TimeInv'
  BY <1>4, <1>5 DEF IInv, LateInv, StampInv, StateInv, TimeInv, Outside
<1>13. RowsInv' /\ ClosedInv'
  BY <1>4, <1>7 DEF RowsInv, ClosedInv
<1>14. WatermarkCovers'
  BY <1>3, <1>4, <1>10 DEF WatermarkCovers, Beyond
<1>. QED  BY <1>8, <1>10, <1>11, <1>12, <1>13, <1>14 DEF IInv

\* What holds of a pass that is about to write the state s.
Writes(p, s) ==
  /\ pass[p].pc \in {"replace", "stateOnly"}
  /\ UNCHANGED telemetry /\ late' = late
  /\ s \in NextStates(p) /\ state' = s
  /\ overtaken' = overtaken \ pass[p].new
  /\ stale' = (stale \cup Others(p)) \ {p}
  /\ pass' = [pass EXCEPT ![p] = Idle]
  /\ raced' = (raced \/ Others(p) # {})
       \/ /\ pass[p].pc = "replace"
          /\ raced' = (\/ Others(p) # {}
                       \/ raced /\ ~(pass[p].rebuild /\ p \notin stale))

\* A write of the state that is not raced passes by no event but those it has
\* read or that are overtaken.
LEMMA WriteStep ==
  ASSUME IInv, NEW p \in Processes, NEW s, Writes(p, s)
  PROVE  /\ \A e, m : Beyond(e, m)' <=> Beyond(e, m)
         /\ pass' \in [Processes -> Passes] /\ raced' \in BOOLEAN
         /\ StaleInv' /\ PassInv' /\ NewInv' /\ RangeInv' /\ ReadInv'
         /\ ~raced' => /\ p \notin stale /\ pass[p].prev = state
                       /\ raced => pass[p].rebuild /\ pass[p].pc = "replace"
         /\ pass[p].new = {} => s.last = 0 /\ pass[p].full
         /\ ~raced' =>
              \A e \in stored \ pass[p].new :
                /\ e \notin overtaken /\ ~Beyond(e, s.last)
                     => ~pass[p].full /\ ~Beyond(e, state.last)
                /\ Beyond(e, s.last) /\ s.last # 0
                     => late[e] = "none" /\ (~pass[p].full => Beyond(e, state.last))
         /\ StampInv' /\ StateInv' /\ LateInv' /\ TimeInv'
<1>1. /\ TypeOK /\ PassOK(p) /\ NewOK(p) /\ RangeOK(p) /\ pass[p] \in Passes
      /\ HasRead(p) /\ pass[p].pc # "idle"
  BY DEF IInv, PassInv, NewInv, RangeInv, TypeOK, Writes, HasRead
<1>2. /\ UNCHANGED <<at, stamp, stored, clock, late>> /\ UNCHANGED telemetry
      /\ overtaken' = overtaken \ pass[p].new /\ state' = s
  BY DEF Writes, telemetry
<1>3. \A e, m : Beyond(e, m)' <=> Beyond(e, m)  BY <1>2 DEF Beyond
<1>4. /\ pass' \in [Processes -> Passes] /\ Updates(p) /\ pass'[p] = Idle
      /\ pass'[p].pc = "idle" /\ raced' \in BOOLEAN
  <2>1. pass' = [pass EXCEPT ![p] = Idle] /\ pass \in [Processes -> Passes]
    BY <1>1 DEF Writes, TypeOK
  <2>2. Idle \in Passes /\ Idle.pc = "idle"  BY IdleType DEF Idle
  <2>3. raced' \in BOOLEAN
    <3>1. CASE raced' = (raced \/ Others(p) # {})  BY <1>1, <3>1 DEF TypeOK
    <3>2. CASE raced' # (raced \/ Others(p) # {})  BY <3>2 DEF Writes
    <3>. QED  BY <3>1, <3>2
  <2>. QED  BY <2>1, <2>2, <2>3 DEF Updates
<1>5. ~raced' => /\ Others(p) = {} /\ (~raced \/ p \notin stale)
                 /\ raced => pass[p].rebuild /\ pass[p].pc = "replace"
  <2>1. raced \in BOOLEAN  BY <1>1 DEF TypeOK
  <2>2. CASE raced' = (raced \/ Others(p) # {})  BY <2>1, <2>2
  <2>3. CASE /\ pass[p].pc = "replace"
             /\ raced' = (\/ Others(p) # {}
                          \/ raced /\ ~(pass[p].rebuild /\ p \notin stale))
    BY <2>1, <2>3
  <2>. QED  BY <2>2, <2>3 DEF Writes
<1>6. stale' = (stale \cup Others(p)) \ {p}  BY DEF Writes
<1>7. StaleInv' /\ (~raced' => p \notin stale /\ pass[p].prev = state)
  BY <1>1, <1>4, <1>5, <1>6, StaleFrame
<1>8. PassInv' /\ NewInv' /\ RangeInv' /\ ReadInv'
  <2>1. \A q \in Processes \ {p} :
          PassOK(q)' /\ NewOK(q)' /\ RangeOK(q)' /\ ReadOK(q)'
    BY <1>2, <1>4, <1>6, WriteFrame
  <2>2. PassOK(p)' /\ NewOK(p)' /\ RangeOK(p)' /\ ReadOK(p)'
    BY <1>4, IdleOK
  <2>. QED  BY <2>1, <2>2 DEF PassInv, NewInv, RangeInv, ReadInv
<1>9. /\ s \in States /\ s.exists /\ s.last \in stored \cup {0}
      /\ pass[p].prev.time <= s.time
      /\ \A e \in pass[p].new :
           /\ at[e] <= s.time /\ s.last \in pass[p].new
           /\ e = s.last \/ Beyond(s.last, e)
      /\ pass[p].new = {} => s.last = pass[p].prev.last /\ s.time = pass[p].prev.time
  BY <1>1, NextStateFacts DEF Writes, IInv
<1>10. pass[p].new = {} => /\ pass[p].full /\ pass[p].pc # "replace"
                           /\ s.last = 0 /\ pass[p].prev.last = 0
  BY <1>1, <1>9 DEF NewOK
<1>11. pass[p].new # {} => s.last \in pass[p].new /\ s.last \in Events /\ s.last # 0
  BY <1>1, <1>9, MaterializationAssumption DEF PassOK, TypeOK
<1>12. ASSUME ~raced', NEW e \in stored \ pass[p].new
       PROVE  /\ e \notin overtaken /\ ~Beyond(e, s.last)
                   => ~pass[p].full /\ ~Beyond(e, state.last)
              /\ Beyond(e, s.last) /\ s.last # 0
                   => late[e] = "none" /\ (~pass[p].full => Beyond(e, state.last))
  <2>1. p \notin stale /\ pass[p].prev = state  BY <1>7, <1>12
  <2>2. e \in Events /\ state.last \in Events \cup {0}  BY <1>1 DEF TypeOK
  <2>3. pass[p].full \/ Beyond(e, state.last) =>
          /\ late[e] = "none"
          /\ e \notin overtaken => \A f \in pass[p].new : Beyond(e, f)
    BY <1>1, <2>1 DEF NewOK
  <2>4. ASSUME e \notin overtaken, ~Beyond(e, s.last)
        PROVE  ~pass[p].full /\ ~Beyond(e, state.last)
    BY <1>10, <1>11, <2>3, <2>4 DEF Beyond
  <2>5. ASSUME Beyond(e, s.last), s.last # 0, ~pass[p].full
        PROVE  Beyond(e, state.last)
    <3>1. s.last \in pass[p].new /\ s.last \in Events  BY <1>10, <1>11, <2>5
    <3>2. Beyond(s.last, state.last)  BY <1>1, <2>1, <2>5, <3>1 DEF NewOK
    <3>. QED  BY <1>1, <2>2, <2>5, <3>1, <3>2, OrderFacts
  <2>. QED  BY <2>3, <2>4, <2>5
<1>13. StampInv' /\ StateInv'
  BY <1>2, <1>9 DEF IInv, StampInv, StateInv
<1>14. LateInv'
  <2>1. LateInv  BY DEF IInv
  <2>2. ASSUME ~raced', NEW e \in stored, Beyond(e, s.last), late[e] = "within"
        PROVE  ~Outside(e, s.time)
    <3>1. CASE pass[p].new = {}
      <4>1. ~raced  BY <1>5, <1>10, <2>2, <3>1
      <4>2. pass[p].prev = state  BY <1>7, <2>2
      <4>3. state.last = 0 /\ s.time = state.time  BY <1>9, <1>10, <3>1, <4>2
      <4>. QED  BY <2>1, <2>2, <4>1, <4>3 DEF LateInv, Beyond
    <3>2. CASE pass[p].new # {}
      <4>1. e \in pass[p].new  BY <1>11, <1>12, <2>2, <3>2
      <4>2. e \in Events  BY <1>1 DEF TypeOK
      <4>. QED  BY <1>1, <1>9, <1>11, <2>2, <3>2, <4>1, <4>2, OrderFacts
    <3>. QED  BY <3>1, <3>2
  <2>. QED  BY <1>2, <1>3, <2>1, <2>2 DEF LateInv, Outside
<1>15. TimeInv'
  <2>1. ASSUME ~raced', NEW e \in stored, e \notin overtaken',
               ~Beyond(e, s.last)
        PROVE  at[e] <= s.time
    <3>1. CASE e \in pass[p].new  BY <1>9, <3>1
    <3>2. CASE e \notin pass[p].new
      <4>1. e \notin overtaken  BY <1>2, <2>1, <3>2
      <4>2. ~pass[p].full /\ ~Beyond(e, state.last)  BY <1>12, <2>1, <3>2, <4>1
      <4>3. ~raced /\ pass[p].prev = state
        BY <1>1, <1>5, <1>7, <2>1, <4>2 DEF PassOK
      <4>4. at[e] <= state.time
        BY <2>1, <4>1, <4>2, <4>3 DEF IInv, TimeInv
      <4>5. at[e] \in Nat  BY <1>1, TimeFacts DEF TypeOK
      <4>6. \A t \in Times : t \in Nat  BY MaterializationAssumption DEF Times
      <4>7. state \in States /\ s \in States  BY <1>1, <1>9 DEF TypeOK
      <4>8. /\ state.time = 0 \/ state.time \in Times
            /\ s.time = 0 \/ s.time \in Times
        BY <4>7 DEF States
      <4>9. state.time \in Nat /\ s.time \in Nat  BY <4>6, <4>8
      <4>. QED  BY <1>9, <4>3, <4>4, <4>5, <4>9
    <3>. QED  BY <3>1, <3>2
  <2>. QED  BY <1>2, <1>3, <2>1 DEF TimeInv
<1>. QED  BY <1>3, <1>4, <1>5, <1>7, <1>8, <1>10, <1>12, <1>13, <1>14, <1>15

\* A pass that affects no window has recorded every event it has read as
\* outside the policy, or has read none.
LEMMA UpdateStateStep ==
  ASSUME IInv, NEW p \in Processes, UpdateState(p)
  PROVE  IInv'
<1>1. PICK s : s \in NextStates(p) /\ state' = s  BY DEF UpdateState
<1>2. /\ UNCHANGED <<at, stamp, stored, clock, rows, late>>
      /\ pass[p].pc = "stateOnly"
      /\ overtaken' = overtaken \ pass[p].new
  BY DEF UpdateState, telemetry
<1>3. Writes(p, s)  BY <1>1 DEF UpdateState, Writes, Return
<1>4. /\ TypeOK /\ PassOK(p) /\ NewOK(p) /\ RangeOK(p) /\ HasRead(p)
      /\ pass[p] \in Passes
  BY <1>2 DEF IInv, PassInv, NewInv, RangeInv, TypeOK, HasRead
<1>5. /\ \A e, m : Beyond(e, m)' <=> Beyond(e, m)
      /\ pass' \in [Processes -> Passes] /\ raced' \in BOOLEAN
      /\ StaleInv' /\ PassInv' /\ NewInv' /\ RangeInv' /\ ReadInv'
      /\ ~raced' => p \notin stale /\ pass[p].prev = state /\ ~raced
      /\ pass[p].new = {} => s.last = 0 /\ pass[p].full
      /\ StampInv' /\ StateInv' /\ LateInv' /\ TimeInv'
  BY <1>2, <1>3, WriteStep DEF IInv
<1>6. ASSUME ~raced', NEW e \in stored \ pass[p].new
      PROVE  /\ e \notin overtaken /\ ~Beyond(e, s.last)
                  => ~pass[p].full /\ ~Beyond(e, state.last)
             /\ Beyond(e, s.last) /\ s.last # 0
                  => late[e] = "none" /\ (~pass[p].full => Beyond(e, state.last))
  BY <1>3, <1>6, WriteStep
<1>7. s \in States /\ s.exists /\ s.last \in stored \cup {0}
  BY <1>1, <1>4, NextStateFacts DEF IInv
<1>8. TypeOK'
  <2>1. stale' \subseteq Processes  BY <1>4 DEF UpdateState, Others, TypeOK
  <2>2. overtaken' \subseteq Events  BY <1>2, <1>4 DEF TypeOK
  <2>. QED  BY <1>1, <1>2, <1>4, <1>5, <1>7, <2>1, <2>2 DEF TypeOK
<1>9. pass[p].full => pass[p].new = {} /\ s.last = 0
  BY <1>2, <1>4, <1>5 DEF NewOK
<1>10. ASSUME ~raced', NEW f \in pass[p].new
       PROVE  Outside(f, state.time) /\ Beyond(f, state.last)
  <2>1. ~pass[p].full /\ pass[p].prev = state  BY <1>5, <1>9, <1>10
  <2>2. Outside(f, state.time)
    BY <1>2, <1>4, <1>10, <2>1 DEF RangeOK, InPolicy
  <2>3. Beyond(f, state.last)  BY <1>4, <1>10, <2>1 DEF NewOK
  <2>. QED  BY <2>2, <2>3
<1>11. ASSUME ~raced', NEW f \in pass[p].new  PROVE late[f] = "outside"
  <2>1. late[f] # "none"
    BY <1>2, <1>4, <1>5, <1>9, <1>10, <1>11 DEF RangeOK
  <2>2. f \in stored /\ f \in Events  BY <1>4, <1>11 DEF PassOK, TypeOK
  <2>3. late[f] # "within"
    BY <1>5, <1>10, <1>11, <2>2 DEF IInv, LateInv
  <2>. QED  BY <1>4, <2>1, <2>2, <2>3 DEF TypeOK
<1>12. RowsInv'
  BY <1>1, <1>2, <1>5, <1>7 DEF IInv, RowsInv
<1>13. WatermarkCovers'
  <2>1. ASSUME ~raced', NEW e \in stored, e \notin overtaken',
               ~Beyond(e, s.last)
        PROVE  e \in rows[Align(at[e])] \/ late[e] = "outside"
    <3>1. CASE e \in pass[p].new  BY <1>11, <2>1, <3>1
    <3>2. CASE e \notin pass[p].new
      <4>1. e \notin overtaken  BY <1>2, <2>1, <3>2
      <4>2. ~Beyond(e, state.last)  BY <1>6, <2>1, <3>2, <4>1
      <4>. QED  BY <1>5, <2>1, <4>1, <4>2 DEF IInv, WatermarkCovers
    <3>. QED  BY <3>1, <3>2
  <2>. QED  BY <1>1, <1>2, <1>5, <2>1 DEF WatermarkCovers
<1>14. ClosedInv'
  <2>1. ASSUME ~raced', NEW w \in Windows, NEW f \in rows[w],
               Align(at[f]) = w, f \notin overtaken' \/ Beyond(f, s.last),
               NEW e \in stored, e \in rows[Align(at[e])], Align(at[e]) <= w
        PROVE  e \in rows[w]
    <3>1. f \in stored  BY DEF IInv, RowsInv
    <3>2. f \notin overtaken \/ Beyond(f, state.last)
      <4>1. CASE f \in pass[p].new  BY <1>10, <2>1, <4>1
      <4>2. CASE f \notin pass[p].new /\ f \notin overtaken'
        BY <1>2, <4>2
      <4>3. CASE f \notin pass[p].new /\ Beyond(f, s.last)
        <5>1. CASE s.last = 0
          <6>1. pass[p].prev.last = 0 /\ pass[p].prev = state
            BY <1>1, <1>4, <1>5, <2>1, <5>1, NextStateFacts, MaterializationAssumption
               DEF IInv, PassOK, TypeOK
          <6>. QED  BY <6>1 DEF Beyond
        <5>2. CASE s.last # 0
          BY <1>6, <1>9, <2>1, <3>1, <4>3, <5>2
        <5>. QED  BY <5>1, <5>2
      <4>. QED  BY <2>1, <4>1, <4>2, <4>3
    <3>. QED  BY <1>5, <2>1, <3>2 DEF IInv, ClosedInv
  <2>. QED  BY <1>1, <1>2, <1>5, <2>1 DEF ClosedInv
<1>. QED  BY <1>5, <1>8, <1>12, <1>13, <1>14 DEF IInv

\* Whether a window is in the range of a pass, its start and its events tell
\* alike; one that is not, though a later one is, starts before the range.
LEMMA AffectedFacts ==
  ASSUME TypeOK, NEW p \in Processes, pass[p].new \subseteq Events,
         NEW e \in Events
  PROVE  /\ Affected(p, Align(at[e])) => Affected(p, at[e])
         /\ e \in InPolicy(p) => Affected(p, Align(at[e]))
         /\ \A f \in Events :
              /\ Affected(p, Align(at[f])) /\ Align(at[e]) <= Align(at[f])
              /\ ~Affected(p, Align(at[e]))
              => \A g \in InPolicy(p) : at[e] < Align(at[g])
<1>1. \A g \in Events : at[g] \in Nat /\ Align(at[g]) \in Nat
  BY TimeFacts, AlignFacts
<1>2. InPolicy(p) \subseteq Events  BY DEF InPolicy
<1>3. WindowSize \in Nat \ {0}  BY MaterializationAssumption
<1>4. Affected(p, Align(at[e])) => Affected(p, at[e])
  <2>1. \A g \in InPolicy(p) :
          /\ Align(at[g]) <= Align(at[e]) => Align(at[g]) <= at[e]
          /\ Align(at[e]) < Align(at[g]) + WindowSize
               => at[e] < Align(at[g]) + WindowSize
    BY <1>1, <1>2, <1>3, AlignFacts
  <2>. QED  BY <2>1 DEF Affected
<1>5. e \in InPolicy(p) => Affected(p, Align(at[e]))
  BY <1>1, <1>3 DEF Affected
<1>6. ASSUME NEW f \in Events, Affected(p, Align(at[f])),
             Align(at[e]) <= Align(at[f]), ~Affected(p, Align(at[e])),
             NEW g \in InPolicy(p)
      PROVE  at[e] < Align(at[g])
  <2>1. ASSUME Align(at[g]) <= Align(at[e])  PROVE FALSE
    <3>1. \A h \in InPolicy(p) : Align(at[f]) < Align(at[h]) + WindowSize
                              => Align(at[e]) < Align(at[h]) + WindowSize
      BY <1>1, <1>2, <1>3, <1>6
    <3>. QED  BY <1>6, <2>1, <3>1 DEF Affected
  <2>2. Align(at[e]) < Align(at[g])  BY <1>1, <1>2, <2>1
  <2>. QED  BY <1>1, <1>2, <2>2, AlignFacts
<1>. QED  BY <1>4, <1>5, <1>6

\* The windows that a pass writes.
LEMMA ReplaceStep ==
  ASSUME IInv, NEW p \in Processes, Replace(p)
  PROVE  IInv'
<1>1. PICK s : s \in NextStates(p) /\ state' = s  BY DEF Replace
<1>2. /\ UNCHANGED <<at, stamp, stored, clock, late>>
      /\ pass[p].pc = "replace"
      /\ overtaken' = overtaken \ pass[p].new
      /\ raced' = (Others(p) # {} \/ (raced /\ ~(pass[p].rebuild /\ p \notin stale)))
  BY DEF Replace, telemetry
<1>3. Writes(p, s)
  <2>1. raced' = (\/ Others(p) # {}
                  \/ raced /\ ~(pass[p].rebuild /\ p \notin stale))
    BY <1>2
  <2>. QED  BY <1>1, <2>1 DEF Replace, Writes, Return
<1>4. /\ TypeOK /\ PassOK(p) /\ NewOK(p) /\ RangeOK(p) /\ ReadOK(p) /\ HasRead(p)
      /\ pass[p] \in Passes
  BY <1>2 DEF IInv, PassInv, NewInv, RangeInv, ReadInv, TypeOK, HasRead
<1>5. /\ \A e, m : Beyond(e, m)' <=> Beyond(e, m)
      /\ pass' \in [Processes -> Passes] /\ raced' \in BOOLEAN
      /\ StaleInv' /\ PassInv' /\ NewInv' /\ RangeInv' /\ ReadInv'
      /\ ~raced' => /\ p \notin stale /\ pass[p].prev = state
                    /\ raced => pass[p].rebuild
      /\ StampInv' /\ StateInv' /\ LateInv' /\ TimeInv'
  BY <1>3, WriteStep
<1>6. ASSUME ~raced', NEW e \in stored \ pass[p].new
      PROVE  /\ e \notin overtaken /\ ~Beyond(e, s.last)
                  => ~pass[p].full /\ ~Beyond(e, state.last)
             /\ Beyond(e, s.last) /\ s.last # 0
                  => late[e] = "none" /\ (~pass[p].full => Beyond(e, state.last))
  BY <1>3, <1>6, WriteStep
<1>7. s \in States /\ s.exists /\ s.last \in stored \cup {0} /\ s.last # 0
  <2>1. pass[p].new # {}  BY <1>2, <1>4 DEF NewOK
  <2>. QED  BY <1>1, <1>4, <2>1, NextStateFacts, MaterializationAssumption
       DEF IInv, PassOK, TypeOK
<1>8. /\ stored \subseteq Events
      /\ pass[p].new \subseteq stored /\ pass[p].read \cup pass[p].base \subseteq stored
  BY <1>4 DEF PassOK, TypeOK
<1>9. PICK es \in SUBSET Events :
        /\ es = pass[p].read \cup pass[p].base
        /\ rows' = [w \in Windows |-> IF Replaced(p, w) THEN Built(es)[w] ELSE rows[w]]
  BY <1>8 DEF Replace
<1>10. \A w \in Windows :
         /\ Replaced(p, w) => \A e \in Events :
              e \in rows'[w] <=> /\ e \in es /\ Align(at[e]) <= w
                                 /\ \E f \in es : Align(at[f]) = w
         /\ ~Replaced(p, w) => rows'[w] = rows[w]
  BY <1>4, <1>9, BuiltFacts
<1>11. rows' \in [Windows -> SUBSET Events]
  BY <1>4, <1>9, BuiltFacts DEF TypeOK
<1>12. TypeOK'
  <2>1. stale' \subseteq Processes  BY <1>4 DEF Replace, Others, TypeOK
  <2>2. overtaken' \subseteq Events  BY <1>2, <1>4 DEF TypeOK
  <2>. QED  BY <1>1, <1>2, <1>4, <1>5, <1>7, <1>11, <2>1, <2>2 DEF TypeOK
<1>13. \A e \in Events : /\ at[e] \in Nat /\ Align(at[e]) \in Nat
                         /\ Align(at[e]) \in Windows /\ Align(at[e]) <= at[e]
  BY <1>4, TimeFacts, AlignFacts
<1>14. RowsInv'
  <2>1. ASSUME NEW w \in Windows, NEW e \in rows'[w]
        PROVE  /\ e \in stored /\ Align(at[e]) <= w
               /\ \E f \in rows'[w] : Align(at[f]) = w
    <3>1. CASE Replaced(p, w)
      <4>1. PICK f \in es : Align(at[f]) = w  BY <1>10, <1>11, <2>1, <3>1
      <4>2. f \in rows'[w]  BY <1>10, <1>13, <3>1, <4>1
      <4>. QED  BY <1>8, <1>9, <1>10, <1>11, <2>1, <3>1, <4>1, <4>2
    <3>2. CASE ~Replaced(p, w)
      BY <1>10, <2>1, <3>2 DEF IInv, RowsInv
    <3>. QED  BY <3>1, <3>2
  <2>. QED  BY <1>1, <1>2, <1>7, <2>1 DEF RowsInv
<1>15. ~pass[p].full => /\ ~pass[p].rebuild
                        /\ \A w : Replaced(p, w) <=> Affected(p, w)
  BY <1>4 DEF PassOK, Replaced
<1>16. ~raced' /\ ~pass[p].full => ~raced  BY <1>5, <1>15
<1>17. WatermarkCovers'
  <2>1. ASSUME ~raced', NEW e \in stored, e \notin overtaken',
               ~Beyond(e, s.last)
        PROVE  e \in rows'[Align(at[e])] \/ late[e] = "outside"
    <3>1. e \in Events  BY <1>8
    <3>2. Replaced(p, Align(at[e])) /\ e \in es => e \in rows'[Align(at[e])]
      BY <1>10, <1>13, <3>1
    <3>3. CASE e \in pass[p].new /\ pass[p].full
      <4>1. e \in pass[p].read  BY <1>2, <1>4, <3>3 DEF NewOK
      <4>2. Replaced(p, Align(at[e]))  BY <1>13, <3>1, <3>3, <4>1 DEF Replaced
      <4>. QED  BY <1>9, <3>2, <4>1, <4>2
    <3>4. CASE e \in pass[p].new /\ ~pass[p].full /\ Outside(e, pass[p].prev.time)
      <4>1. late[e] # "none"  BY <1>2, <1>4, <3>4 DEF RangeOK
      <4>2. Beyond(e, state.last) /\ Outside(e, state.time)
        BY <1>4, <1>5, <2>1, <3>4 DEF NewOK
      <4>3. late[e] # "within"
        BY <1>16, <2>1, <3>4, <4>2 DEF IInv, LateInv
      <4>. QED  BY <1>4, <3>1, <4>1, <4>3 DEF TypeOK
    <3>5. CASE e \in pass[p].new /\ ~pass[p].full /\ ~Outside(e, pass[p].prev.time)
      <4>1. e \in InPolicy(p)  BY <3>5 DEF InPolicy
      <4>2. e \in es  BY <1>2, <1>4, <1>9, <3>5, <4>1 DEF RangeOK
      <4>3. Affected(p, Align(at[e]))  BY <1>4, <1>8, <3>1, <4>1, AffectedFacts
      <4>. QED  BY <1>15, <3>2, <3>5, <4>2, <4>3
    <3>6. CASE e \notin pass[p].new
      <4>1. e \notin overtaken  BY <1>2, <2>1, <3>6
      <4>2. ~pass[p].full /\ ~Beyond(e, state.last)  BY <1>6, <2>1, <3>6, <4>1
      <4>3. e \in rows[Align(at[e])] \/ late[e] = "outside"
        BY <1>16, <2>1, <4>1, <4>2 DEF IInv, WatermarkCovers
      <4>4. ASSUME Affected(p, Align(at[e]))  PROVE e \in pass[p].read
        <5>1. Affected(p, at[e])  BY <1>4, <1>8, <3>1, <4>4, AffectedFacts
        <5>. QED  BY <1>2, <1>4, <1>5, <2>1, <4>1, <4>2, <5>1 DEF ReadOK
      <4>5. CASE Affected(p, Align(at[e]))
        BY <1>9, <1>15, <3>2, <4>2, <4>4, <4>5
      <4>6. CASE ~Affected(p, Align(at[e]))
        BY <1>10, <1>13, <1>15, <3>1, <4>2, <4>3, <4>6
      <4>. QED  BY <4>5, <4>6
    <3>. QED  BY <3>3, <3>4, <3>5, <3>6
  <2>. QED  BY <1>1, <1>2, <1>5, <2>1 DEF WatermarkCovers
<1>18. ClosedInv'
  <2>1. ASSUME ~raced', NEW w \in Windows, NEW f \in rows'[w],
               Align(at[f]) = w, f \notin overtaken' \/ Beyond(f, s.last),
               NEW e \in stored, e \in rows'[Align(at[e])], Align(at[e]) <= w
        PROVE  e \in rows'[w]
    <3>1. e \in Events /\ f \in Events /\ f \in stored
      BY <1>2, <1>8, <1>14, <2>1 DEF RowsInv
    <3>2. CASE pass[p].full
      <4>1. \A v \in Windows, g \in Events :
              g \in rows'[v] => Replaced(p, v) /\ g \in es
        <5>1. CASE pass[p].rebuild  BY <1>10, <5>1 DEF Replaced
        <5>2. CASE ~pass[p].rebuild
          <6>1. ~raced /\ ~state.exists
            BY <1>4, <1>5, <2>1, <3>2, <5>2 DEF PassOK, NoState
          <6>2. \A v \in Windows : rows[v] = {}  BY <6>1 DEF IInv, RowsInv
          <6>. QED  BY <1>10, <6>2
        <5>. QED  BY <5>1, <5>2
      <4>2. Replaced(p, w) /\ f \in es /\ e \in es
        BY <1>13, <2>1, <3>1, <4>1
      <4>. QED  BY <1>10, <2>1, <3>1, <4>2
    <3>3. CASE ~pass[p].full /\ Affected(p, w)
      <4>1. Replaced(p, w) /\ f \in es  BY <1>10, <1>15, <2>1, <3>1, <3>3
      <4>2. CASE Affected(p, Align(at[e]))
        <5>1. e \in es  BY <1>10, <1>13, <1>15, <2>1, <3>1, <3>3, <4>2
        <5>. QED  BY <1>10, <2>1, <3>1, <4>1, <5>1
      <4>3. CASE ~Affected(p, Align(at[e]))
        <5>1. e \in rows[Align(at[e])]
          BY <1>10, <1>13, <1>15, <2>1, <3>1, <3>3, <4>3
        <5>2. \A g \in InPolicy(p) : at[e] < Align(at[g])
          BY <1>4, <1>8, <2>1, <3>1, <3>3, <4>3, AffectedFacts
        <5>3. e \in pass[p].base
          BY <1>2, <1>4, <1>5, <1>13, <2>1, <3>1, <3>3, <5>1, <5>2 DEF ReadOK
        <5>. QED  BY <1>9, <1>10, <2>1, <3>1, <4>1, <5>3
      <4>. QED  BY <4>2, <4>3
    <3>4. CASE ~pass[p].full /\ ~Affected(p, w)
      <4>1. rows'[w] = rows[w] /\ f \in rows[w]  BY <1>10, <1>15, <2>1, <3>4
      <4>2. pass[p].prev = state /\ p \notin stale /\ ~raced
        BY <1>5, <1>16, <2>1, <3>4
      <4>3. /\ f \in pass[p].new \/ f \notin overtaken \/ Beyond(f, state.last)
            /\ f \notin pass[p].new => ~Beyond(f, state.last) /\ f \notin overtaken
        <5>1. Beyond(f, state.last) => f \in pass[p].new
          BY <1>4, <2>1, <3>4, <4>1, <4>2 DEF ReadOK
        <5>. QED  BY <1>2, <1>6, <1>7, <2>1, <3>1, <3>4, <5>1
      <4>4. CASE \A g \in InPolicy(p) : ~(Align(at[g]) <= w)
        <5>1. ~Affected(p, Align(at[e]))
          <6>1. ASSUME NEW g \in InPolicy(p), Align(at[g]) <= Align(at[e])
                PROVE  FALSE
            <7>1. g \in Events  BY <1>8 DEF InPolicy
            <7>. QED  BY <1>13, <2>1, <3>1, <4>4, <6>1, <7>1
          <6>. QED  BY <6>1 DEF Affected
        <5>2. e \in rows[Align(at[e])]
          BY <1>10, <1>13, <1>15, <2>1, <3>1, <3>4, <5>1
        <5>3. f \notin overtaken \/ Beyond(f, state.last)
          BY <1>4, <3>4, <4>2, <4>3 DEF NewOK
        <5>. QED  BY <2>1, <4>1, <4>2, <5>2, <5>3 DEF IInv, ClosedInv
      <4>5. CASE \E g \in InPolicy(p) : Align(at[g]) <= w
        <5>1. PICK g \in InPolicy(p) : Align(at[g]) <= w  BY <4>5
        <5>2. /\ ~(at[g] < pass[p].prev.time)
              /\ ~(w < Align(at[g]) + WindowSize)
          BY <3>4, <5>1 DEF Affected
        <5>3. g \in Events  BY <1>8, <5>1 DEF InPolicy
        <5>4. ~(at[f] <= at[g])
          <6>1. at[f] <= at[g] => Align(at[f]) <= Align(at[g])
            BY <1>13, <3>1, <5>3, AlignFacts
          <6>2. Align(at[f]) \in Nat /\ Align(at[g]) \in Nat  BY <1>13, <3>1, <5>3
          <6>3. ~(Align(at[f]) < Align(at[g]) + WindowSize)  BY <2>1, <5>2
          <6>. QED  BY <6>1, <6>2, <6>3, MaterializationAssumption
        <5>5. f \notin InPolicy(p)
          <6>1. f \in InPolicy(p) => Affected(p, w)
            BY <1>4, <1>8, <2>1, <3>1, AffectedFacts
          <6>. QED  BY <3>4, <6>1
        <5>6. pass[p].prev.time \in Nat
          <6>1. \A t \in Times : t \in Nat  BY MaterializationAssumption DEF Times
          <6>2. pass[p].prev \in States  BY <1>4 DEF Passes
          <6>3. pass[p].prev.time = 0 \/ pass[p].prev.time \in Times
            BY <6>2 DEF States
          <6>. QED  BY <6>1, <6>3
        <5>7. f \notin pass[p].new
          <6>1. f \in pass[p].new => Outside(f, pass[p].prev.time)
            BY <5>5 DEF InPolicy
          <6>. QED  BY <1>13, <3>1, <5>2, <5>3, <5>4, <5>6, <6>1,
                       MaterializationAssumption DEF Outside
        <5>8. at[f] <= pass[p].prev.time
          BY <3>1, <4>2, <4>3, <5>7 DEF IInv, TimeInv
        <5>. QED  BY <1>13, <3>1, <5>2, <5>3, <5>4, <5>6, <5>8
      <4>. QED  BY <4>4, <4>5
    <3>. QED  BY <3>2, <3>3, <3>4
  <2>. QED  BY <1>1, <1>2, <1>5, <2>1 DEF ClosedInv
<1>. QED  BY <1>5, <1>12, <1>14, <1>17, <1>18 DEF IInv

-----------------------------------------------------------------------------
\* The windows a rebuild would write: when they are closed, hold all events
\* and no other, and each has an event of its own.
LEMMA ClosedMatches ==
  ASSUME IInv
  PROVE  RowsMatchRebuild
<1>. SUFFICES ASSUME ~raced, overtaken = {}, \A e \in stored : e \in rows[Align(at[e])]
              PROVE  rows = Built(stored)
  BY DEF RowsMatchRebuild
<1>1. /\ TypeOK /\ stored \subseteq Events
      /\ rows \in [Windows -> SUBSET Events]
      /\ Built(stored) \in [Windows -> SUBSET Events]
  BY BuiltFacts DEF IInv, TypeOK
<1>2. ASSUME NEW w \in Windows, NEW e \in Events
      PROVE  e \in rows[w] <=> e \in Built(stored)[w]
  <2>1. ASSUME e \in rows[w]  PROVE e \in Built(stored)[w]
    BY <1>1, <2>1, BuiltFacts DEF IInv, RowsInv
  <2>2. ASSUME e \in Built(stored)[w]  PROVE e \in rows[w]
    <3>1. e \in stored /\ Align(at[e]) <= w  BY <1>1, <2>2, BuiltFacts
    <3>2. PICK f \in stored : Align(at[f]) = w  BY <1>1, <2>2, BuiltFacts
    <3>. QED  BY <3>1, <3>2 DEF IInv, ClosedInv
  <2>. QED  BY <2>1, <2>2
<1>3. \A w \in Windows : rows[w] = Built(stored)[w]
  BY <1>1, <1>2
<1>. QED  BY <1>1, <1>3

LEMMA StepIInv == IInv /\ [Next]_vars => IInv'
<1>. SUFFICES ASSUME IInv, [Next]_vars  PROVE IInv'  OBVIOUS
<1>1. CASE UNCHANGED vars
  BY <1>1 DEF vars, telemetry, IInv, TypeOK, StampInv, PassInv, PassOK, StaleInv,
     StateInv, NewInv, NewOK, RangeInv, RangeOK, LateInv, ReadInv, ReadOK,
     RowsInv, TimeInv, ClosedInv, WatermarkCovers, HasRead, InPolicy, Affected,
     Outside, Beyond
<1>2. ASSUME NEW e \in Events, Stamp(e) \/ RollBack(e)  PROVE IInv'
  BY <1>2, StampStep
<1>3. ASSUME NEW e \in Events, Store(e)  PROVE IInv'  BY <1>3, StoreStep
<1>4. ASSUME NEW p \in Processes, Begin(p)  PROVE IInv'  BY <1>4, BeginStep
<1>5. ASSUME NEW p \in Processes, ReadNew(p)  PROVE IInv'  BY <1>5, ReadNewStep
<1>6. ASSUME NEW p \in Processes, RecordLate(p)  PROVE IInv'
  BY <1>6, RecordLateStep
<1>7. ASSUME NEW p \in Processes, ReadRange(p)  PROVE IInv'
  BY <1>7, ReadRangeStep
<1>8. ASSUME NEW p \in Processes, ReadBaseline(p)  PROVE IInv'
  BY <1>8, ReadBaselineStep
<1>9. ASSUME NEW p \in Processes, ReadAll(p)  PROVE IInv'  BY <1>9, ReadAllStep
<1>10. ASSUME NEW p \in Processes, Replace(p)  PROVE IInv'
  BY <1>10, ReplaceStep
<1>11. ASSUME NEW p \in Processes, DeleteAll(p)  PROVE IInv'
  BY <1>11, DeleteAllStep
<1>12. ASSUME NEW p \in Processes, UpdateState(p)  PROVE IInv'
  BY <1>12, UpdateStateStep
<1>13. ASSUME NEW p \in Processes, Die(p)  PROVE IInv'  BY <1>13, DieStep
<1>. QED  BY <1>1, <1>2, <1>3, <1>4, <1>5, <1>6, <1>7, <1>8, <1>9, <1>10, <1>11,
             <1>12, <1>13 DEF Next, Ingest, Materialize

LEMMA Invariance == Spec => []IInv
  BY InitIInv, StepIInv, PTL DEF Spec

-----------------------------------------------------------------------------
\* The types of the tables and of the passes in progress; the watermark is
\* always the place of a stored event.
THEOREM TypeCorrect == Spec => []TypeOK
<1>1. IInv => TypeOK  BY DEF IInv
<1>. QED  BY <1>1, Invariance, PTL

\* The ingestion watermark passes no event by, for every number of events and
\* processes, every order of ingestion and every death of a pass: unless passes
\* crossed or the event was stored behind a later stamp, it is beyond the
\* watermark, in its window, or recorded as outside the policy.
THEOREM NoEventPassedBy == Spec => []WatermarkCovers
<1>1. IInv => WatermarkCovers  BY DEF IInv
<1>. QED  BY <1>1, Invariance, PTL

\* Incremental passes and a rebuild agree on the windows, whatever the order in
\* which events arrived and passes were made.
THEOREM IncrementalMatchesRebuild == Spec => []RowsMatchRebuild
<1>1. IInv => RowsMatchRebuild  BY ClosedMatches
<1>. QED  BY <1>1, Invariance, PTL
=============================================================================
