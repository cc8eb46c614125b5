----------------------------- MODULE SessionLedger -----------------------------
(***************************************************************************)
(* What collection sessions promise to whoever reads collection_sessions   *)
(* and the events: a session begins once and ends at most once; an event   *)
(* belongs to one session for good, and that session had begun and not     *)
(* ended when it was stored; a count is only ever that of the events       *)
(* stored so far.  An interrupted session is not over: its thread may be   *)
(* alive in another process.  It may also never end (its process died).    *)
(* CollectionSession implements this module.                               *)
(***************************************************************************)
EXTENDS Naturals, FiniteSets

CONSTANTS
  Sessions,  \* ids of sessions, of which 0 is none
  Records    \* what becomes an event at most once

VARIABLES
  status,   \* of every session
  counted,  \* the events its row counts
  storedBy  \* the session an event was stored under, or 0

vars == <<status, counted, storedBy>>

Open == {"running", "interrupted"}
Ends == {"completed", "stopped", "error"}

EventsOf(n) == Cardinality({r \in Records : storedBy[r] = n})

Init ==
  /\ status = [n \in Sessions |-> "none"]
  /\ counted = [n \in Sessions |-> 0]
  /\ storedBy = [r \in Records |-> 0]

Begin(n) ==
  /\ status[n] = "none"
  /\ status' = [status EXCEPT ![n] = "running"]
  /\ UNCHANGED <<counted, storedBy>>

\* Of all that run, whoever runs them; none that has ended.
Interrupt ==
  /\ status' = [n \in Sessions |->
                  IF status[n] = "running" THEN "interrupted" ELSE status[n]]
  /\ UNCHANGED <<counted, storedBy>>

Store(n, new) ==
  /\ status[n] \in Open
  /\ \A r \in new : storedBy[r] = 0
  /\ storedBy' = [r \in Records |-> IF r \in new THEN n ELSE storedBy[r]]
  /\ UNCHANGED <<status, counted>>

Report(n) ==
  /\ status[n] = "running"
  /\ counted' = [counted EXCEPT ![n] = EventsOf(n)]
  /\ UNCHANGED <<status, storedBy>>

End(n, s) ==
  /\ status[n] \in Open
  /\ status' = [status EXCEPT ![n] = s]
  /\ counted' = [counted EXCEPT ![n] = EventsOf(n)]
  /\ UNCHANGED storedBy

Next ==
  \/ Interrupt
  \/ \E n \in Sessions :
       \/ Begin(n) \/ Report(n)
       \/ \E new \in SUBSET Records : Store(n, new)
       \/ \E s \in Ends : End(n, s)

Spec == Init /\ [][Next]_vars
=============================================================================
