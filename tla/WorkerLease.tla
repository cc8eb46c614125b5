---------------------------- MODULE WorkerLease ----------------------------
(***************************************************************************)
(* The lease of the continuous detection worker for ONE worker key, and    *)
(* everybody who reads or writes its row of detection_worker_leases:       *)
(*                                                                         *)
(*   - worker threads (DetectionService.worker_run_foreground) with their  *)
(*     heartbeat thread (_worker_heartbeat_loop);                          *)
(*   - the process-level DetectionWorkerManager of the API host, which     *)
(*     starts workers, registers one handle per key, and stops them;       *)
(*   - operators that call worker_stop from another process.               *)
(*                                                                         *)
(* A worker of the model is one incarnation: one owner_id, one acquisition *)
(* of the lease, one thread.  worker_id is not a variable: the upsert      *)
(* keeps the row's worker_id, so all owners of a key share it.             *)
(* Every UPDATE or BEGIN IMMEDIATE block of the code is one step; what the *)
(* code does between two of them is a step of its own.                     *)
(***************************************************************************)
EXTENDS Naturals, FiniteSets

CONSTANTS
  Workers,          \* incarnations (owner ids)
  Managed,          \* those started through DetectionWorkerManager.start
  Stoppers,         \* concurrent calls of DetectionWorkerManager.stop
  NoWorker,         \* no owner, no handle
  HeartbeatMayDie   \* can a heartbeat's UPDATE raise (database is locked)?

ASSUME WorkersAssumption ==
  /\ Managed \subseteq Workers
  /\ NoWorker \notin Workers
  /\ HeartbeatMayDie \in BOOLEAN

VARIABLES
  lease,      \* the row: owner_id, status, stop_requested, expires_at <= now
  pc,         \* where each worker's thread is
  hb,         \* where its heartbeat thread is
  lost,       \* its ownership_lost event
  stopEvent,  \* its stop_event (set by the manager only)
  handle,     \* the manager's handle for the key
  call,       \* the manager's stop and shutdown calls in progress
  forfeited,  \* history: workers whose expired or stopping row was taken over
  released    \* history: workers whose _release_worker_lease committed

workerVars == <<pc, hb, lost, stopEvent>>
history    == <<forfeited, released>>
vars == <<lease, workerVars, handle, call, history>>

Terminal == {"exited", "refused", "crashed"}
PCs == Terminal \cup
  {"new", "acquired", "running", "beat", "checkLost", "checkStop",
   "waiting", "releasing", "joining", "release", "leaving"}
HBs == {"off", "waiting", "writing", "dead", "overran"}
Statuses == {"none", "running", "idle", "stopping", "stopped", "failed"}

Lease == [owner : Workers \cup {NoWorker}, status : Statuses,
          stop : BOOLEAN, expired : BOOLEAN]
Calls == [pc : {"idle", "request", "signal", "join", "pop"},
          mode : {"stop", "shutdown"}, seen : Workers \cup {NoWorker}]
IdleCall == [pc |-> "idle", mode |-> "stop", seen |-> NoWorker]

Init ==
  /\ lease = [owner |-> NoWorker, status |-> "none",
              stop |-> FALSE, expired |-> TRUE]
  /\ pc = [w \in Workers |-> "new"]
  /\ hb = [w \in Workers |-> "off"]
  /\ lost = [w \in Workers |-> FALSE]
  /\ stopEvent = [w \in Workers |-> FALSE]
  /\ handle = NoWorker
  /\ call = [s \in Stoppers |-> IdleCall]
  /\ forfeited = {}
  /\ released = {}

(***************************************************************************)
(* State predicates.                                                       *)
(***************************************************************************)
\* Variant: the acquisition takes an idle row for a free one.
LiveIfRunning == lease.status = "running" /\ ~lease.stop /\ ~lease.expired

\* The row refuses a new owner (_acquire_worker_lease).
Live == /\ lease.status \in {"running", "idle"}
        /\ ~lease.stop
        /\ ~lease.expired

\* The row was neither released nor never taken.
Unreleased == lease.status \in {"running", "idle", "stopping"}

\* w acquired the lease and has not yet reached its own release.
Holding(w) == pc[w] \notin Terminal \cup {"new", "leaving"}

\* w's Python thread is alive (Thread.is_alive()).
Alive(w) == pc[w] \notin Terminal \cup {"new", "acquired"}

Goto(w, l) == pc' = [pc EXCEPT ![w] = l]

\* Variant: the request writes a status of its own.
MarkStopRequested ==
  lease' = IF lease.status \in {"running", "idle"}
             THEN [lease EXCEPT !.status = "stop_requested", !.stop = TRUE]
             ELSE lease

\* worker_stop's UPDATE: only a running or idle row is marked.
MarkStopping ==
  lease' = IF lease.status \in {"running", "idle"}
             THEN [lease EXCEPT !.status = "stopping", !.stop = TRUE]
             ELSE lease

\* Variants: a heartbeat without the owner guard, and one that resets the stop
\* request with the rest of the row.
BeatUnguarded(w, status) ==
  lease' = [lease EXCEPT !.status = status, !.expired = FALSE]

BeatResets(w, status) ==
  lease' = IF lease.owner = w
             THEN [lease EXCEPT !.status = status, !.expired = FALSE,
                                !.stop = FALSE]
             ELSE lease

\* _worker_heartbeat's UPDATE, guarded by owner_id; stop_requested is kept.
Beat(w, status) ==
  lease' = IF lease.owner = w
             THEN [lease EXCEPT !.status = status, !.expired = FALSE]
             ELSE lease

\* Variants: a release that keeps the stop request, and one that only clears it.
ReleaseRowKeepsStop(w, status) ==
  lease' = IF lease.owner = w
             THEN [lease EXCEPT !.status = status, !.expired = TRUE]
             ELSE lease

ReleaseRowStaysLive(w, status) ==
  lease' = IF lease.owner = w THEN [lease EXCEPT !.stop = FALSE] ELSE lease

\* _release_worker_lease's UPDATE, guarded by owner_id.
ReleaseRow(w, status) ==
  lease' = IF lease.owner = w
             THEN [lease EXCEPT !.status = status, !.stop = FALSE,
                                !.expired = TRUE]
             ELSE lease

-----------------------------------------------------------------------------
(***************************************************************************)
(* Acquiring: one BEGIN IMMEDIATE transaction.  A refused call raises and  *)
(* changes nothing, so it is no step.                                      *)
(***************************************************************************)
Acquire(w) ==
  /\ pc[w] = "new"
  /\ ~Live
  /\ lease' = [owner |-> w, status |-> "running",
               stop |-> FALSE, expired |-> FALSE]
  /\ forfeited' = IF Unreleased /\ (lease.expired \/ lease.stop)
                     THEN forfeited \cup {lease.owner} ELSE forfeited
  /\ IF w \in Managed
       THEN Goto(w, "acquired") /\ UNCHANGED hb
       ELSE Goto(w, "waiting") /\ hb' = [hb EXCEPT ![w] = "waiting"]
  /\ UNCHANGED <<lost, stopEvent, handle, call, released>>

\* DetectionWorkerManager.start, under the manager's lock, after Acquire:
\* a living registered thread makes it give its new lease back and raise.
Register(w) ==
  /\ pc[w] = "acquired"
  /\ IF handle # NoWorker /\ Alive(handle)
       THEN /\ ReleaseRow(w, "stopped")
            /\ released' = released \cup {w}
            /\ Goto(w, "refused")
            /\ UNCHANGED <<hb, handle>>
       ELSE /\ handle' = w
            /\ Goto(w, "waiting")
            /\ hb' = [hb EXCEPT ![w] = "waiting"]
            /\ UNCHANGED <<lease, released>>
  /\ UNCHANGED <<lost, stopEvent, call, forfeited>>

-----------------------------------------------------------------------------
(***************************************************************************)
(* worker_run_foreground.                                                  *)
(***************************************************************************)
\* run_once returns, or raises and leaves a safe_error for the release.
RunOnce(w) ==
  /\ pc[w] = "running"
  /\ Goto(w, "beat")
  /\ UNCHANGED <<lease, hb, lost, stopEvent, handle, call, history>>

\* The main thread's own heartbeat; its result is ignored.
IdleBeat(w) ==
  /\ pc[w] = "beat"
  /\ Beat(w, "idle")
  /\ Goto(w, "checkLost")
  /\ UNCHANGED <<hb, lost, stopEvent, handle, call, history>>

\* Variant: the loop does not look at ownership_lost.
CheckLostIgnored(w) ==
  /\ pc[w] = "checkLost"
  /\ Goto(w, "checkStop")
  /\ UNCHANGED <<lease, hb, lost, stopEvent, handle, call, history>>

CheckLost(w) ==
  /\ pc[w] = "checkLost"
  /\ Goto(w, IF lost[w] THEN "releasing" ELSE "checkStop")
  /\ UNCHANGED <<lease, hb, lost, stopEvent, handle, call,
                 history>>

\* Variant: the status is tested, which the worker's own heartbeat overwrites.
StopSeenByStatus(w) == lease.owner = w /\ lease.status = "stopping"

\* _worker_stop_requested sees only a row this owner still has.
StopSeen(w) == lease.owner = w /\ lease.stop

\* A foreground worker may have been started with single_cycle=True.
CheckStop(w) ==
  /\ pc[w] = "checkStop"
  /\ \/ StopSeen(w) /\ Goto(w, "releasing")
     \/ ~StopSeen(w) /\ Goto(w, "waiting")
     \/ w \notin Managed /\ Goto(w, "releasing")
  /\ UNCHANGED <<lease, hb, lost, stopEvent, handle, call,
                 history>>

\* The stop event is tested on entry (while not stop_event.is_set()) and after
\* every cycle (stop_event.wait): it is set, or the interval is over.
Wait(w) ==
  /\ pc[w] = "waiting"
  /\ Goto(w, IF stopEvent[w] THEN "releasing" ELSE "running")
  /\ UNCHANGED <<lease, hb, lost, stopEvent, handle, call,
                 history>>

\* A database error in the heartbeat or in the stop check leaves the loop
\* through the finally block.
StoreRaises(w) ==
  /\ pc[w] \in {"beat", "checkStop"}
  /\ Goto(w, "releasing")
  /\ UNCHANGED <<lease, hb, lost, stopEvent, handle, call,
                 history>>

\* Ctrl+C in a foreground process is no Exception: only finally sees it.
Interrupt(w) ==
  /\ w \notin Managed
  /\ pc[w] \in {"running", "beat", "checkLost", "checkStop", "waiting"}
  /\ Goto(w, "releasing")
  /\ UNCHANGED <<lease, hb, lost, stopEvent, handle, call,
                 history>>

\* finally: heartbeat_stop.set()
StopHeartbeat(w) ==
  /\ pc[w] = "releasing"
  /\ Goto(w, "joining")
  /\ UNCHANGED <<lease, hb, lost, stopEvent, handle, call, history>>

\* The heartbeat_stop event is set from there on.
HeartbeatStopped(w) == pc[w] \in {"joining", "release", "leaving", "exited"}

\* heartbeat.join(timeout): the thread ended, or is stuck in its UPDATE.
JoinHeartbeat(w) ==
  /\ pc[w] = "joining"
  /\ hb[w] \in {"dead", "writing"}
  /\ Goto(w, "release")
  /\ UNCHANGED <<lease, hb, lost, stopEvent, handle, call,
                 history>>

AfterRelease(w) == IF w \in Managed THEN "leaving" ELSE "exited"

Release(w) ==
  /\ pc[w] = "release"
  /\ \E status \in {"stopped", "failed"} : ReleaseRow(w, status)
  /\ released' = released \cup {w}
  /\ Goto(w, AfterRelease(w))
  /\ UNCHANGED <<hb, lost, stopEvent, handle, call,
                 forfeited>>

\* The release's own UPDATE raises: the row stays until it expires.
ReleaseRaises(w) ==
  /\ pc[w] = "release"
  /\ Goto(w, AfterRelease(w))
  /\ UNCHANGED <<lease, hb, lost, stopEvent, handle, call,
                 history>>

\* The finally block of the manager's run(): it pops its own handle only.
Leave(w) ==
  /\ pc[w] = "leaving"
  /\ handle' = IF handle = w THEN NoWorker ELSE handle
  /\ Goto(w, "exited")
  /\ UNCHANGED <<lease, hb, lost, stopEvent, call, history>>

-----------------------------------------------------------------------------
(***************************************************************************)
(* _worker_heartbeat_loop.                                                 *)
(***************************************************************************)
HeartbeatWake(w) ==
  /\ hb[w] = "waiting"
  /\ hb' = [hb EXCEPT ![w] = IF HeartbeatStopped(w) THEN "dead" ELSE "writing"]
  /\ UNCHANGED <<lease, pc, lost, stopEvent, handle, call,
                 history>>

\* One UPDATE.  No row matched: the lease is lost and the thread returns.
\* "overran" is "dead" with a memory: the write came after the release.
HeartbeatWrite(w) ==
  /\ hb[w] = "writing"
  /\ Beat(w, "running")
  /\ IF lease.owner = w
       THEN /\ hb' = [hb EXCEPT ![w] = IF w \in released THEN "overran"
                                                         ELSE "waiting"]
            /\ UNCHANGED lost
       ELSE /\ hb' = [hb EXCEPT ![w] = "dead"]
            /\ lost' = [lost EXCEPT ![w] = TRUE]
  /\ UNCHANGED <<pc, stopEvent, handle, call, history>>

\* The UPDATE raises: nothing catches it, the thread ends in silence.
HeartbeatDies(w) ==
  /\ HeartbeatMayDie
  /\ hb[w] = "writing"
  /\ hb' = [hb EXCEPT ![w] = "dead"]
  /\ UNCHANGED <<lease, pc, lost, stopEvent, handle, call,
                 history>>

-----------------------------------------------------------------------------
(***************************************************************************)
(* Stopping.                                                               *)
(***************************************************************************)
\* worker_stop called from another process (CLI).
RequestStop ==
  /\ MarkStopping
  /\ UNCHANGED <<workerVars, handle, call, history>>

\* DetectionWorkerManager.stop and shutdown_process: the handles are copied
\* under the lock.  shutdown_process has nothing to do without a handle.
Snapshot(s) ==
  /\ call[s].pc = "idle"
  /\ \/ call' = [call EXCEPT ![s] =
                   [pc |-> "request", mode |-> "stop", seen |-> handle]]
     \/ /\ handle # NoWorker
        /\ call' = [call EXCEPT ![s] =
                      [pc |-> "signal", mode |-> "shutdown", seen |-> handle]]
  /\ UNCHANGED <<lease, workerVars, handle, history>>

\* worker_stop: first for stop, last for shutdown_process.
CallRequest(s) ==
  /\ call[s].pc = "request"
  /\ MarkStopping
  /\ call' = [call EXCEPT ![s] =
       IF @.mode = "stop" /\ @.seen # NoWorker THEN [@ EXCEPT !.pc = "signal"]
                                               ELSE IdleCall]
  /\ UNCHANGED <<workerVars, handle, history>>

CallSignal(s) ==
  /\ call[s].pc = "signal"
  /\ stopEvent' = [stopEvent EXCEPT ![call[s].seen] = TRUE]
  /\ call' = [call EXCEPT ![s].pc = "join"]
  /\ UNCHANGED <<lease, pc, hb, lost, handle, history>>

\* thread.join: stop raises TimeoutError when the thread is still alive,
\* shutdown_process carries on.
CallJoin(s) ==
  /\ call[s].pc = "join"
  /\ call' = [call EXCEPT ![s] =
       IF @.mode = "shutdown" THEN [@ EXCEPT !.pc = "request"]
       ELSE IF Alive(@.seen) THEN IdleCall
       ELSE [@ EXCEPT !.pc = "pop"]]
  /\ UNCHANGED <<lease, workerVars, handle, history>>

\* self._handles.pop(key, None), whatever handle is there now.
CallPop(s) ==
  /\ call[s].pc = "pop"
  /\ handle' = NoWorker
  /\ call' = [call EXCEPT ![s] = IdleCall]
  /\ UNCHANGED <<lease, workerVars, history>>

-----------------------------------------------------------------------------
(***************************************************************************)
(* Time and crashes.                                                       *)
(***************************************************************************)
\* The clock passes expires_at.
Expire ==
  /\ lease.owner # NoWorker
  /\ ~lease.expired
  /\ lease' = [lease EXCEPT !.expired = TRUE]
  /\ UNCHANGED <<workerVars, handle, call, history>>

Started(w) == pc[w] \notin Terminal \cup {"new"}

Kill(W) ==
  /\ pc' = [w \in Workers |-> IF w \in W /\ Started(w) THEN "crashed" ELSE pc[w]]
  /\ hb' = [w \in Workers |-> IF w \in W /\ hb[w] # "off" /\ hb[w] # "overran"
                                THEN "dead" ELSE hb[w]]
  /\ lost' = [w \in Workers |-> lost[w] /\ w \notin W]
  /\ stopEvent' = [w \in Workers |-> stopEvent[w] /\ w \notin W]
  /\ UNCHANGED <<lease, history>>

\* A foreground worker's process dies.
Crash(w) ==
  /\ w \notin Managed
  /\ Started(w)
  /\ Kill({w})
  /\ UNCHANGED <<handle, call>>

\* The API host dies, with every managed worker and call in progress; the
\* handles live in memory.
HostCrash ==
  /\ \E w \in Managed : Started(w)
  /\ Kill(Managed)
  /\ handle' = NoWorker
  /\ call' = [s \in Stoppers |-> IdleCall]

-----------------------------------------------------------------------------
WorkerStep(w) ==
  \/ Register(w) \/ RunOnce(w) \/ IdleBeat(w) \/ CheckLost(w)
  \/ CheckStop(w) \/ Wait(w) \/ StopHeartbeat(w) \/ JoinHeartbeat(w)
  \/ Release(w) \/ Leave(w)

HeartbeatStep(w) == HeartbeatWake(w) \/ HeartbeatWrite(w)

CallStep(s) == CallRequest(s) \/ CallSignal(s) \/ CallJoin(s) \/ CallPop(s)

Next ==
  \/ \E w \in Workers :
       \/ Acquire(w) \/ WorkerStep(w) \/ HeartbeatStep(w)
       \/ StoreRaises(w) \/ Interrupt(w) \/ ReleaseRaises(w)
       \/ HeartbeatDies(w) \/ Crash(w)
  \/ \E s \in Stoppers : Snapshot(s) \/ CallStep(s)
  \/ RequestStop \/ Expire \/ HostCrash

Spec == Init /\ [][Next]_vars

\* Threads are scheduled and calls return; nothing makes an operator call
\* stop, start a worker, or makes a machine crash or a lease expire.
Fairness == \A w \in Workers : WF_vars(WorkerStep(w)) /\ WF_vars(HeartbeatStep(w))
FairSpec == Spec /\ Fairness

-----------------------------------------------------------------------------
(***************************************************************************)
(* Properties.                                                             *)
(***************************************************************************)
\* Every variable has its type.
TypeOK ==
  /\ lease \in Lease
  /\ pc \in [Workers -> PCs]
  /\ hb \in [Workers -> HBs]
  /\ lost \in [Workers -> BOOLEAN]
  /\ stopEvent \in [Workers -> BOOLEAN]
  /\ handle \in Workers \cup {NoWorker}
  /\ call \in [Stoppers -> Calls]
  /\ forfeited \subseteq Workers
  /\ released \subseteq Workers

\* Two workers run detection cycles for one key together only when one of
\* them had let its lease expire or had been asked to stop: whatever the
\* order of heartbeats, stops, releases and crashes, a lease that is renewed
\* and not being stopped is never shared.
OneUnforfeitedHolder ==
  \A v, w \in Workers \ forfeited : Holding(v) /\ Holding(w) => v = w

\* A worker that released its lease does not hold the key against others: the
\* row is live in its name only if its heartbeat thread was stuck in an UPDATE
\* when the join of the finally block gave up.
ReleaseIsFinal ==
  \A w \in released : Live /\ lease.owner = w => hb[w] = "overran"

\* A row is marked for stopping exactly by stop_requested: a heartbeat may
\* hide the status "stopping" behind "running" or "idle", but no released row
\* carries a stop request that would reach nobody.
StopRequestHasHolder ==
  /\ lease.stop => lease.status \in {"running", "idle", "stopping"}
  /\ lease.status = "stopping" => lease.stop

\* A thread whose row belongs to somebody else leaves the row alone: late
\* heartbeats and releases of a superseded worker change nothing.
OwnerScopedWrites ==
  [][\A w \in Workers :
       /\ pc[w] # "new"
       /\ lease.owner # w
       /\ pc'[w] # pc[w] \/ hb'[w] # hb[w]
       => lease' = lease]_vars

\* A stop request is withdrawn only by the release of the worker it was made
\* to, or by a new owner's acquisition; no heartbeat withdraws it.
StopRequestSticks ==
  [][lease.stop /\ ~lease'.stop
       => \/ lease'.owner # lease.owner
          \/ lease.owner \in released']_vars

\* As long as heartbeats do not raise, a worker whose row went to another owner
\* ends: two cycles may overlap, but not for ever.
SupersededWorkerEnds ==
  \A w \in Workers : Holding(w) /\ lease.owner # w ~> ~Holding(w)

\* "run-foreground runs until Ctrl+C or stop request": a worker whose lease was
\* marked for stopping ends, even if another start clears the mark first.
StopRequestIsObeyed ==
  \A w \in Workers : Holding(w) /\ lease.owner = w /\ lease.stop ~> ~Holding(w)

=============================================================================
