------------------------- MODULE WorkerLeaseProofs -------------------------
(***************************************************************************)
(* Proofs about WorkerLease, for every set of workers and of stop calls.   *)
(***************************************************************************)
EXTENDS WorkerLease, TLAPS

USE WorkersAssumption

\* Every reachable state is well typed; a row without an owner was never
\* acquired, so that a takeover always forfeits a real worker.
TypeInv ==
  /\ TypeOK
  /\ lease.owner = NoWorker => lease.status = "none"

LEMMA TypeInvHolds == Spec => []TypeInv
<1> USE DEF TypeInv, TypeOK, Lease, Calls, PCs, HBs, Statuses, Terminal
<1>1. Init => TypeInv
  BY DEF Init, IdleCall
<1>2. TypeInv /\ [Next]_vars => TypeInv'
  <2> SUFFICES ASSUME TypeInv, [Next]_vars PROVE TypeInv'
    OBVIOUS
  <2> USE DEF Goto, Beat, ReleaseRow, MarkStopping, workerVars, history,
              Unreleased, Live, IdleCall
  <2>1. ASSUME NEW w \in Workers, Acquire(w) PROVE TypeInv'
    BY <2>1 DEF Acquire
  <2>2. ASSUME NEW w \in Workers, Register(w) PROVE TypeInv'
    <3>1. CASE handle # NoWorker /\ Alive(handle)
      <4>1. /\ ReleaseRow(w, "stopped")
            /\ released' = released \cup {w}
            /\ pc' = [pc EXCEPT ![w] = "refused"]
            /\ UNCHANGED <<hb, handle, lost, stopEvent, call, forfeited>>
        BY <2>2, <3>1, Zenon DEF Register, Goto
      <4> QED
        BY <4>1
    <3>2. CASE ~(handle # NoWorker /\ Alive(handle))
      BY <2>2, <3>2 DEF Register
    <3> QED
      BY <3>1, <3>2
  <2>3. ASSUME NEW w \in Workers, RunOnce(w) PROVE TypeInv'
    BY <2>3 DEF RunOnce
  <2>4. ASSUME NEW w \in Workers, IdleBeat(w) PROVE TypeInv'
    BY <2>4 DEF IdleBeat
  <2>5. ASSUME NEW w \in Workers, CheckLost(w) PROVE TypeInv'
    BY <2>5 DEF CheckLost
  <2>6. ASSUME NEW w \in Workers, CheckStop(w) PROVE TypeInv'
    BY <2>6 DEF CheckStop, StopSeen
  <2>7. ASSUME NEW w \in Workers, Wait(w) PROVE TypeInv'
    BY <2>7 DEF Wait
  <2>8. ASSUME NEW w \in Workers, StopHeartbeat(w) PROVE TypeInv'
    BY <2>8 DEF StopHeartbeat
  <2>9. ASSUME NEW w \in Workers, JoinHeartbeat(w) PROVE TypeInv'
    BY <2>9 DEF JoinHeartbeat
  <2>10. ASSUME NEW w \in Workers, Release(w) PROVE TypeInv'
    <3>1. PICK status \in {"stopped", "failed"} : ReleaseRow(w, status)
      BY <2>10 DEF Release
    <3>2. lease' \in Lease
      BY <3>1
    <3>3. AfterRelease(w) \in {"leaving", "exited"}
      BY DEF AfterRelease
    <3> QED
      BY <2>10, <3>2, <3>3 DEF Release
  <2>11. ASSUME NEW w \in Workers, Leave(w) PROVE TypeInv'
    BY <2>11 DEF Leave
  <2>12. ASSUME NEW w \in Workers, HeartbeatWake(w) PROVE TypeInv'
    BY <2>12 DEF HeartbeatWake, HeartbeatStopped
  <2>13. ASSUME NEW w \in Workers, HeartbeatWrite(w) PROVE TypeInv'
    BY <2>13 DEF HeartbeatWrite
  <2>14. ASSUME NEW w \in Workers, StoreRaises(w) PROVE TypeInv'
    BY <2>14 DEF StoreRaises
  <2>15. ASSUME NEW w \in Workers, Interrupt(w) PROVE TypeInv'
    BY <2>15 DEF Interrupt
  <2>16. ASSUME NEW w \in Workers, ReleaseRaises(w) PROVE TypeInv'
    BY <2>16 DEF ReleaseRaises, AfterRelease
  <2>17. ASSUME NEW w \in Workers, HeartbeatDies(w) PROVE TypeInv'
    BY <2>17 DEF HeartbeatDies
  <2>18. ASSUME NEW w \in Workers, Crash(w) PROVE TypeInv'
    BY <2>18 DEF Crash, Kill, Started
  <2>19. ASSUME NEW s \in Stoppers, Snapshot(s) PROVE TypeInv'
    BY <2>19 DEF Snapshot
  <2>20. ASSUME NEW s \in Stoppers, CallRequest(s) PROVE TypeInv'
    <3> DEFINE c == IF call[s].mode = "stop" /\ call[s].seen # NoWorker
                      THEN [call[s] EXCEPT !.pc = "signal"] ELSE IdleCall
    <3>1. c \in Calls
      OBVIOUS
    <3>2. call' = [call EXCEPT ![s] = c]
      BY <2>20 DEF CallRequest
    <3>3. call' \in [Stoppers -> Calls]
      BY <3>1, <3>2
    <3> QED
      BY <2>20, <3>3 DEF CallRequest
  <2>21. ASSUME NEW s \in Stoppers, CallSignal(s) PROVE TypeInv'
    <3>1. [call[s] EXCEPT !.pc = "join"] \in Calls
      OBVIOUS
    <3>2. call' \in [Stoppers -> Calls]
      BY <2>21, <3>1 DEF CallSignal
    <3> QED
      BY <2>21, <3>2 DEF CallSignal
  <2>22. ASSUME NEW s \in Stoppers, CallJoin(s) PROVE TypeInv'
    BY <2>22 DEF CallJoin
  <2>23. ASSUME NEW s \in Stoppers, CallPop(s) PROVE TypeInv'
    BY <2>23 DEF CallPop
  <2>24. CASE RequestStop
    BY <2>24 DEF RequestStop
  <2>25. CASE Expire
    BY <2>25 DEF Expire
  <2>26. CASE HostCrash
    BY <2>26 DEF HostCrash, Kill, Started
  <2>27. CASE UNCHANGED vars
    BY <2>27 DEF vars, workerVars, history
  <2> QED
    BY <2>1, <2>2, <2>3, <2>4, <2>5, <2>6, <2>7, <2>8, <2>9, <2>10, <2>11,
       <2>12, <2>13, <2>14, <2>15, <2>16, <2>17, <2>18, <2>19, <2>20,
       <2>21, <2>22, <2>23, <2>24, <2>25, <2>26, <2>27 DEF Next,
       WorkerStep, HeartbeatStep, CallStep
<1>3. QED
  BY <1>1, <1>2, PTL DEF Spec

(***************************************************************************)
(* The inductive invariant.  A worker that nobody displaced still names    *)
(* the unreleased row; a worker that has not started names nothing; a      *)
(* release is the last thing a thread does to the row.                     *)
(***************************************************************************)
HolderOwnsRow ==
  \A w \in Workers \ forfeited : Holding(w) => lease.owner = w /\ Unreleased

NewNamesNothing ==
  \A w \in Workers : pc[w] = "new" => lease.owner # w

ReleasedHasLeft ==
  \A w \in released : pc[w] \in Terminal \cup {"leaving"}

IInv == HolderOwnsRow /\ NewNamesNothing /\ ReleasedHasLeft /\
        ReleaseIsFinal /\ StopRequestHasHolder

LEMMA IInvHolds == Spec => []IInv
<1> USE DEF IInv, HolderOwnsRow, NewNamesNothing, ReleasedHasLeft,
            ReleaseIsFinal, StopRequestHasHolder, Holding, Terminal
<1>1. Init => IInv
  BY DEF Init, Unreleased, Live
<1>2. TypeInv /\ IInv /\ [Next]_vars => IInv'
  <2> SUFFICES ASSUME TypeInv, IInv, [Next]_vars PROVE IInv'
    OBVIOUS
  <2> USE DEF TypeInv, TypeOK, Lease, Goto, Beat, ReleaseRow, MarkStopping,
              workerVars, history, Unreleased, Live
  <2>1. ASSUME NEW w \in Workers, Acquire(w) PROVE IInv'
    BY <2>1 DEF Acquire
  <2>2. ASSUME NEW w \in Workers, Register(w) PROVE IInv'
    <3>1. CASE handle # NoWorker /\ Alive(handle)
      <4>1. /\ ReleaseRow(w, "stopped")
            /\ released' = released \cup {w}
            /\ pc' = [pc EXCEPT ![w] = "refused"]
            /\ UNCHANGED <<hb, handle, lost, stopEvent, call, forfeited>>
        BY <2>2, <3>1, Zenon DEF Register, Goto
      <4> QED
        BY <4>1
    <3>2. CASE ~(handle # NoWorker /\ Alive(handle))
      BY <2>2, <3>2 DEF Register
    <3> QED
      BY <3>1, <3>2
  <2>3. ASSUME NEW w \in Workers, RunOnce(w) PROVE IInv'
    BY <2>3 DEF RunOnce
  <2>4. ASSUME NEW w \in Workers, IdleBeat(w) PROVE IInv'
    BY <2>4 DEF IdleBeat
  <2>5. ASSUME NEW w \in Workers, CheckLost(w) PROVE IInv'
    BY <2>5 DEF CheckLost
  <2>6. ASSUME NEW w \in Workers, CheckStop(w) PROVE IInv'
    BY <2>6 DEF CheckStop, StopSeen
  <2>7. ASSUME NEW w \in Workers, Wait(w) PROVE IInv'
    BY <2>7 DEF Wait
  <2>8. ASSUME NEW w \in Workers, StopHeartbeat(w) PROVE IInv'
    BY <2>8 DEF StopHeartbeat
  <2>9. ASSUME NEW w \in Workers, JoinHeartbeat(w) PROVE IInv'
    BY <2>9 DEF JoinHeartbeat
  <2>10. ASSUME NEW w \in Workers, Release(w) PROVE IInv'
    BY <2>10 DEF Release, AfterRelease
  <2>11. ASSUME NEW w \in Workers, Leave(w) PROVE IInv'
    BY <2>11 DEF Leave
  <2>12. ASSUME NEW w \in Workers, HeartbeatWake(w) PROVE IInv'
    BY <2>12 DEF HeartbeatWake, HeartbeatStopped
  <2>13. ASSUME NEW w \in Workers, HeartbeatWrite(w) PROVE IInv'
    BY <2>13 DEF HeartbeatWrite
  <2>14. ASSUME NEW w \in Workers, StoreRaises(w) PROVE IInv'
    BY <2>14 DEF StoreRaises
  <2>15. ASSUME NEW w \in Workers, Interrupt(w) PROVE IInv'
    BY <2>15 DEF Interrupt
  <2>16. ASSUME NEW w \in Workers, ReleaseRaises(w) PROVE IInv'
    BY <2>16 DEF ReleaseRaises, AfterRelease
  <2>17. ASSUME NEW w \in Workers, HeartbeatDies(w) PROVE IInv'
    BY <2>17 DEF HeartbeatDies
  <2>18. ASSUME NEW w \in Workers, Crash(w) PROVE IInv'
    BY <2>18 DEF Crash, Kill, Started
  <2>19. ASSUME NEW s \in Stoppers, Snapshot(s) PROVE IInv'
    BY <2>19 DEF Snapshot
  <2>20. ASSUME NEW s \in Stoppers, CallRequest(s) PROVE IInv'
    BY <2>20 DEF CallRequest
  <2>21. ASSUME NEW s \in Stoppers, CallSignal(s) PROVE IInv'
    BY <2>21 DEF CallSignal
  <2>22. ASSUME NEW s \in Stoppers, CallJoin(s) PROVE IInv'
    BY <2>22 DEF CallJoin
  <2>23. ASSUME NEW s \in Stoppers, CallPop(s) PROVE IInv'
    BY <2>23 DEF CallPop
  <2>24. CASE RequestStop
    BY <2>24 DEF RequestStop
  <2>25. CASE Expire
    BY <2>25 DEF Expire
  <2>26. CASE HostCrash
    BY <2>26 DEF HostCrash, Kill, Started
  <2>27. CASE UNCHANGED vars
    BY <2>27 DEF vars, workerVars, history
  <2> QED
    BY <2>1, <2>2, <2>3, <2>4, <2>5, <2>6, <2>7, <2>8, <2>9, <2>10, <2>11,
       <2>12, <2>13, <2>14, <2>15, <2>16, <2>17, <2>18, <2>19, <2>20,
       <2>21, <2>22, <2>23, <2>24, <2>25, <2>26, <2>27 DEF Next,
       WorkerStep, HeartbeatStep, CallStep
<1>3. QED
  BY <1>1, <1>2, TypeInvHolds, PTL DEF Spec

-----------------------------------------------------------------------------
\* Every variable keeps its type in every run of lease, workers and manager.
THEOREM TypeCorrect == Spec => []TypeOK
BY TypeInvHolds, PTL DEF TypeInv

\* Workers share a key only after an expiry or a stop request
\* (_acquire_worker_lease, _worker_heartbeat, _release_worker_lease).
THEOREM LeaseExclusion == Spec => []OneUnforfeitedHolder
<1>1. IInv => OneUnforfeitedHolder
  BY DEF IInv, HolderOwnsRow, OneUnforfeitedHolder
<1>2. QED
  BY <1>1, IInvHolds, PTL

\* A released lease blocks nobody, except through a heartbeat thread that
\* outlives the join in the finally block of worker_run_foreground.
THEOREM ReleasedLeaseIsFree == Spec => []ReleaseIsFinal
<1>1. IInv => ReleaseIsFinal
  BY DEF IInv
<1>2. QED
  BY <1>1, IInvHolds, PTL

\* Stop requests sit on rows somebody still holds.
THEOREM StopRequestOnHeldRow == Spec => []StopRequestHasHolder
<1>1. IInv => StopRequestHasHolder
  BY DEF IInv
<1>2. QED
  BY <1>1, IInvHolds, PTL

\* Superseded threads never write the row (the owner_id guards of
\* _worker_heartbeat and _release_worker_lease).
THEOREM SupersededThreadsAreSilent == Spec => OwnerScopedWrites
<1> DEFINE Silent ==
      \A w \in Workers :
        /\ pc[w] # "new"
        /\ lease.owner # w
        /\ pc'[w] # pc[w] \/ hb'[w] # hb[w]
        => lease' = lease
<1>1. TypeInv /\ [Next]_vars => [Silent]_vars
  <2> SUFFICES ASSUME TypeInv, [Next]_vars, NEW x \in Workers,
                      pc[x] # "new", lease.owner # x,
                      pc'[x] # pc[x] \/ hb'[x] # hb[x]
               PROVE  lease' = lease
    OBVIOUS
  <2> USE DEF TypeInv, TypeOK, Goto, Beat, ReleaseRow, MarkStopping,
              workerVars, history
  <2>1. ASSUME NEW w \in Workers, Acquire(w) PROVE lease' = lease
    BY <2>1 DEF Acquire
  <2>2. ASSUME NEW w \in Workers, Register(w) PROVE lease' = lease
    BY <2>2 DEF Register
  <2>3. ASSUME NEW w \in Workers, RunOnce(w) PROVE lease' = lease
    BY <2>3 DEF RunOnce
  <2>4. ASSUME NEW w \in Workers, IdleBeat(w) PROVE lease' = lease
    BY <2>4 DEF IdleBeat
  <2>5. ASSUME NEW w \in Workers, CheckLost(w) PROVE lease' = lease
    BY <2>5 DEF CheckLost
  <2>6. ASSUME NEW w \in Workers, CheckStop(w) PROVE lease' = lease
    BY <2>6 DEF CheckStop, StopSeen
  <2>7. ASSUME NEW w \in Workers, Wait(w) PROVE lease' = lease
    BY <2>7 DEF Wait
  <2>8. ASSUME NEW w \in Workers, StopHeartbeat(w) PROVE lease' = lease
    BY <2>8 DEF StopHeartbeat
  <2>9. ASSUME NEW w \in Workers, JoinHeartbeat(w) PROVE lease' = lease
    BY <2>9 DEF JoinHeartbeat
  <2>10. ASSUME NEW w \in Workers, Release(w) PROVE lease' = lease
    BY <2>10 DEF Release, AfterRelease
  <2>11. ASSUME NEW w \in Workers, Leave(w) PROVE lease' = lease
    BY <2>11 DEF Leave
  <2>12. ASSUME NEW w \in Workers, HeartbeatWake(w) PROVE lease' = lease
    BY <2>12 DEF HeartbeatWake, HeartbeatStopped
  <2>13. ASSUME NEW w \in Workers, HeartbeatWrite(w) PROVE lease' = lease
    BY <2>13 DEF HeartbeatWrite
  <2>14. ASSUME NEW w \in Workers, StoreRaises(w) PROVE lease' = lease
    BY <2>14 DEF StoreRaises
  <2>15. ASSUME NEW w \in Workers, Interrupt(w) PROVE lease' = lease
    BY <2>15 DEF Interrupt
  <2>16. ASSUME NEW w \in Workers, ReleaseRaises(w) PROVE lease' = lease
    BY <2>16 DEF ReleaseRaises, AfterRelease
  <2>17. ASSUME NEW w \in Workers, HeartbeatDies(w) PROVE lease' = lease
    BY <2>17 DEF HeartbeatDies
  <2>18. ASSUME NEW w \in Workers, Crash(w) PROVE lease' = lease
    BY <2>18 DEF Crash, Kill, Started
  <2>19. ASSUME NEW s \in Stoppers, Snapshot(s) PROVE lease' = lease
    BY <2>19 DEF Snapshot
  <2>20. ASSUME NEW s \in Stoppers, CallRequest(s) PROVE lease' = lease
    BY <2>20 DEF CallRequest
  <2>21. ASSUME NEW s \in Stoppers, CallSignal(s) PROVE lease' = lease
    BY <2>21 DEF CallSignal
  <2>22. ASSUME NEW s \in Stoppers, CallJoin(s) PROVE lease' = lease
    BY <2>22 DEF CallJoin
  <2>23. ASSUME NEW s \in Stoppers, CallPop(s) PROVE lease' = lease
    BY <2>23 DEF CallPop
  <2>24. CASE RequestStop
    BY <2>24 DEF RequestStop
  <2>25. CASE Expire
    BY <2>25 DEF Expire
  <2>26. CASE HostCrash
    BY <2>26 DEF HostCrash, Kill, Started
  <2>27. CASE UNCHANGED vars
    BY <2>27 DEF vars, workerVars, history
  <2> QED
    BY <2>1, <2>2, <2>3, <2>4, <2>5, <2>6, <2>7, <2>8, <2>9, <2>10, <2>11,
       <2>12, <2>13, <2>14, <2>15, <2>16, <2>17, <2>18, <2>19, <2>20,
       <2>21, <2>22, <2>23, <2>24, <2>25, <2>26, <2>27 DEF Next,
       WorkerStep, HeartbeatStep, CallStep
<1>2. QED
  BY <1>1, TypeInvHolds, PTL DEF Spec, OwnerScopedWrites

\* No heartbeat withdraws a stop request.
THEOREM StopRequestsStick == Spec => StopRequestSticks
<1> DEFINE Sticks ==
      lease.stop /\ ~lease'.stop => \/ lease'.owner # lease.owner
                                   \/ lease.owner \in released'
<1>1. TypeInv /\ IInv /\ [Next]_vars => [Sticks]_vars
  <2> SUFFICES ASSUME TypeInv, IInv, [Next]_vars,
                      lease.stop, ~lease'.stop, lease'.owner = lease.owner
               PROVE  lease.owner \in released'
    OBVIOUS
  <2> USE DEF TypeInv, TypeOK, IInv, NewNamesNothing, Lease, Goto, Beat,
              ReleaseRow, MarkStopping, workerVars, history
  <2>1. ASSUME NEW w \in Workers, Acquire(w) PROVE lease.owner \in released'
    BY <2>1 DEF Acquire
  <2>2. ASSUME NEW w \in Workers, Register(w) PROVE lease.owner \in released'
    BY <2>2 DEF Register
  <2>3. ASSUME NEW w \in Workers, RunOnce(w) PROVE lease.owner \in released'
    BY <2>3 DEF RunOnce
  <2>4. ASSUME NEW w \in Workers, IdleBeat(w) PROVE lease.owner \in released'
    BY <2>4 DEF IdleBeat
  <2>5. ASSUME NEW w \in Workers, CheckLost(w) PROVE lease.owner \in released'
    BY <2>5 DEF CheckLost
  <2>6. ASSUME NEW w \in Workers, CheckStop(w) PROVE lease.owner \in released'
    BY <2>6 DEF CheckStop, StopSeen
  <2>7. ASSUME NEW w \in Workers, Wait(w) PROVE lease.owner \in released'
    BY <2>7 DEF Wait
  <2>8. ASSUME NEW w \in Workers, StopHeartbeat(w) PROVE lease.owner \in released'
    BY <2>8 DEF StopHeartbeat
  <2>9. ASSUME NEW w \in Workers, JoinHeartbeat(w) PROVE lease.owner \in released'
    BY <2>9 DEF JoinHeartbeat
  <2>10. ASSUME NEW w \in Workers, Release(w) PROVE lease.owner \in released'
    BY <2>10 DEF Release, AfterRelease
  <2>11. ASSUME NEW w \in Workers, Leave(w) PROVE lease.owner \in released'
    BY <2>11 DEF Leave
  <2>12. ASSUME NEW w \in Workers, HeartbeatWake(w) PROVE lease.owner \in released'
    BY <2>12 DEF HeartbeatWake, HeartbeatStopped
  <2>13. ASSUME NEW w \in Workers, HeartbeatWrite(w) PROVE lease.owner \in released'
    BY <2>13 DEF HeartbeatWrite
  <2>14. ASSUME NEW w \in Workers, StoreRaises(w) PROVE lease.owner \in released'
    BY <2>14 DEF StoreRaises
  <2>15. ASSUME NEW w \in Workers, Interrupt(w) PROVE lease.owner \in released'
    BY <2>15 DEF Interrupt
  <2>16. ASSUME NEW w \in Workers, ReleaseRaises(w) PROVE lease.owner \in released'
    BY <2>16 DEF ReleaseRaises, AfterRelease
  <2>17. ASSUME NEW w \in Workers, HeartbeatDies(w) PROVE lease.owner \in released'
    BY <2>17 DEF HeartbeatDies
  <2>18. ASSUME NEW w \in Workers, Crash(w) PROVE lease.owner \in released'
    BY <2>18 DEF Crash, Kill, Started
  <2>19. ASSUME NEW s \in Stoppers, Snapshot(s) PROVE lease.owner \in released'
    BY <2>19 DEF Snapshot
  <2>20. ASSUME NEW s \in Stoppers, CallRequest(s) PROVE lease.owner \in released'
    BY <2>20 DEF CallRequest
  <2>21. ASSUME NEW s \in Stoppers, CallSignal(s) PROVE lease.owner \in released'
    BY <2>21 DEF CallSignal
  <2>22. ASSUME NEW s \in Stoppers, CallJoin(s) PROVE lease.owner \in released'
    BY <2>22 DEF CallJoin
  <2>23. ASSUME NEW s \in Stoppers, CallPop(s) PROVE lease.owner \in released'
    BY <2>23 DEF CallPop
  <2>24. CASE RequestStop
    BY <2>24 DEF RequestStop
  <2>25. CASE Expire
    BY <2>25 DEF Expire
  <2>26. CASE HostCrash
    BY <2>26 DEF HostCrash, Kill, Started
  <2>27. CASE UNCHANGED vars
    BY <2>27 DEF vars, workerVars, history
  <2> QED
    BY <2>1, <2>2, <2>3, <2>4, <2>5, <2>6, <2>7, <2>8, <2>9, <2>10, <2>11,
       <2>12, <2>13, <2>14, <2>15, <2>16, <2>17, <2>18, <2>19, <2>20,
       <2>21, <2>22, <2>23, <2>24, <2>25, <2>26, <2>27 DEF Next,
       WorkerStep, HeartbeatStep, CallStep
<1>2. QED
  BY <1>1, TypeInvHolds, IInvHolds, PTL DEF Spec, StopRequestSticks

=============================================================================
