-------------------------- MODULE HostInstanceProofs --------------------------
(***************************************************************************)
(* Proofs about HostInstance, for every set of hosts: that the variables   *)
(* have their types, that one host at a time is inside the lock (always    *)
(* under the named mutex, else until a host crashed or ended while another *)
(* was looking at it), and that a status naming a dead process is what a   *)
(* crash left behind.                                                      *)
(***************************************************************************)
EXTENDS HostInstance, TLAPS

\* The states of a host whose status may be in status.json.
MayBeNamed == {"truncate", "write", "preparing", "serving", "stopping",
               "unlocking", "cleanToken", "cleanStatus", "crashed"}

\* A host's own status is in the file only while the host is still to remove
\* it, or was kept from doing so by a crash.
FilesInv ==
  /\ status # Unreadable =>
       /\ status.pid \in Hosts
       /\ pc[status.pid] \in MayBeNamed
       /\ pc[status.pid] = "crashed" \/ ownsFiles[status.pid]
  /\ \A h \in Hosts :
       pc[h] \in {"truncate", "write", "preparing", "serving", "stopping",
                  "cleanToken", "cleanStatus"} => ownsFiles[h]

\* A host that goes to probe a process read its name while it was alive, or
\* after it had crashed.
LookInv ==
  /\ \A h \in Hosts : pc[h] \in {"new", "exists"} => ~sawAlive[h]
  /\ \A h \in Hosts : pc[h] = "probe" =>
       /\ holder[h] \in Hosts
       /\ sawAlive[h] \/ pc[holder[h]] = "crashed"

\* Who is inside the lock holds it; nobody seizes it until a host crashed or
\* was overtaken.
LockInv ==
  \/ /\ named
     /\ \A h \in Hosts : pc[h] \in Owning => mutex = h
     /\ \A h \in Hosts : pc[h] \notin {"exists", "probe", "stale", "recreate"}
  \/ ~named /\ (~NoCrash \/ Overtaken)
  \/ /\ ~named
     /\ \A h \in Hosts : pc[h] \in Owning => lockFile = h
     /\ \A h \in Hosts : pc[h] \notin {"stale", "recreate"}

Inv == TypeOK /\ FilesInv /\ LookInv /\ LockInv

-----------------------------------------------------------------------------
\* The platform does not change.
LEMMA NamedKept == [Next]_vars => named' = named
<1> USE DEF locks
<1>1. CASE UNCHANGED vars
  BY <1>1 DEF vars
<1>2. ASSUME NEW h \in Hosts, TakeMutex(h) \/ CreateLock(h) \/ ReadStatus(h)
                               \/ ProbeProcess(h) \/ UnlinkStale(h)
                               \/ RecreateLock(h)
      PROVE  named' = named
  BY <1>2 DEF TakeMutex, CreateLock, ReadStatus, ProbeProcess, UnlinkStale,
              RecreateLock
<1>3. ASSUME NEW h \in Hosts, WriteToken(h) \/ TakeFiles(h) \/ Prepare(h)
                               \/ TruncateStatus(h) \/ WriteStatus(h)
      PROVE  named' = named
  BY <1>3 DEF WriteToken, TakeFiles, Prepare, TruncateStatus, WriteStatus
<1>4. ASSUME NEW h \in Hosts, LeaveLoop(h) \/ ServerEnds(h) \/ ShutDown(h)
                               \/ Raise(h) \/ RequestShutdown(h)
      PROVE  named' = named
  BY <1>4 DEF LeaveLoop, ServerEnds, ShutDown, Raise, RequestShutdown
<1>5. ASSUME NEW h \in Hosts, Unlock(h) \/ CleanToken(h) \/ CleanStatus(h)
                               \/ Crash(h)
      PROVE  named' = named
  BY <1>5 DEF Unlock, CleanToken, CleanStatus, Crash
<1> QED
  BY <1>1, <1>2, <1>3, <1>4, <1>5 DEF Next, HostStep

\* Every variable keeps its type.
LEMMA TypeStep == TypeOK /\ [Next]_vars => TypeOK'
<1> SUFFICES ASSUME TypeOK, [Next]_vars PROVE TypeOK'
  OBVIOUS
<1> USE HostAssumption DEF TypeOK, Statuses, States, PCs, Owning, Ended, Goto,
                           Unreadable, look
<1>1. CASE UNCHANGED vars
  BY <1>1 DEF vars, locks, files, memory
<1>2. ASSUME NEW h \in Hosts, TakeMutex(h) \/ CreateLock(h) \/ ReadStatus(h)
                               \/ ProbeProcess(h) \/ UnlinkStale(h)
                               \/ RecreateLock(h)
      PROVE  TypeOK'
  <2>1. CASE TakeMutex(h) \/ CreateLock(h) \/ UnlinkStale(h) \/ RecreateLock(h)
    BY <2>1 DEF TakeMutex, CreateLock, UnlinkStale, RecreateLock, locks, files,
                memory
  <2>2. CASE ReadStatus(h)
    <3>1. status.pid \in Hosts \cup {NoHost} /\ Alive(status.pid) \in BOOLEAN
      BY DEF Alive
    <3>2. holder' \in [Hosts -> Hosts \cup {NoHost}]
      BY <2>2, <3>1 DEF ReadStatus
    <3>3. sawAlive' \in [Hosts -> BOOLEAN]
      BY <2>2, <3>1 DEF ReadStatus
    <3>4. pc' \in [Hosts -> PCs]
      BY <2>2 DEF ReadStatus
    <3> QED
      BY <2>2, <3>2, <3>3, <3>4 DEF ReadStatus, locks, files, memory
  <2>3. CASE ProbeProcess(h)
    BY <2>3 DEF ProbeProcess, locks, files, memory
  <2> QED
    BY <1>2, <2>1, <2>2, <2>3
<1>3. ASSUME NEW h \in Hosts, WriteToken(h) \/ TruncateStatus(h)
      PROVE  TypeOK'
  BY <1>3 DEF WriteToken, TruncateStatus, locks, memory
<1>4. ASSUME NEW h \in Hosts, TakeFiles(h)
      PROVE  TypeOK'
  <2>1. pc' \in [Hosts -> PCs] /\ ownsFiles' \in [Hosts -> BOOLEAN]
    BY <1>4 DEF TakeFiles
  <2> QED
    BY <1>4, <2>1 DEF TakeFiles, locks, files
<1>5. ASSUME NEW h \in Hosts, Prepare(h)
      PROVE  TypeOK'
  <2>1. PICK s \in {"ready", "failed"} : publish' = [publish EXCEPT ![h] = s]
    BY <1>5 DEF Prepare
  <2>2. publish' \in [Hosts -> States]
    BY <2>1
  <2> QED
    BY <1>5, <2>2 DEF Prepare, locks, files
<1>6. ASSUME NEW h \in Hosts, WriteStatus(h)
      PROVE  TypeOK'
  <2>1. publish[h] \in {"starting", "ready", "failed"}
    OBVIOUS
  <2>2. pc' \in [Hosts -> PCs]
    BY <1>6, <2>1 DEF WriteStatus
  <2>3. status' \in Statuses
    BY <1>6 DEF WriteStatus
  <2> QED
    BY <1>6, <2>2, <2>3 DEF WriteStatus, locks
<1>7. ASSUME NEW h \in Hosts, LeaveLoop(h) \/ ServerEnds(h) \/ ShutDown(h)
                               \/ Raise(h) \/ RequestShutdown(h)
      PROVE  TypeOK'
  BY <1>7 DEF LeaveLoop, ServerEnds, ShutDown, Raise, RequestShutdown,
              locks, files, memory
<1>8. ASSUME NEW h \in Hosts, CleanToken(h) \/ CleanStatus(h)
      PROVE  TypeOK'
  <2>1. CASE CleanToken(h)
    BY <2>1 DEF CleanToken, locks, memory
  <2>2. CASE CleanStatus(h)
    <3>1. pc' \in [Hosts -> PCs] /\ requested' \in [Hosts -> BOOLEAN]
      BY <2>2 DEF CleanStatus, Forget
    <3> QED
      BY <2>2, <3>1 DEF CleanStatus, Forget, locks
  <2> QED
    BY <1>8, <2>1, <2>2
<1>9. ASSUME NEW h \in Hosts, Crash(h)
      PROVE  TypeOK'
  BY <1>9 DEF Crash, Forget, files
<1>10. ASSUME NEW h \in Hosts, Unlock(h)
      PROVE  TypeOK'
  <2>1. pc' \in [Hosts -> PCs]
    BY <1>10 DEF Unlock
  <2> QED
    BY <1>10, <2>1 DEF Unlock, files, memory
<1> QED
  BY <1>1, <1>2, <1>3, <1>4, <1>5, <1>6, <1>7, <1>8, <1>9, <1>10
     DEF Next, HostStep

\* A status in the file names a host that has yet to remove it or crashed.
LEMMA FilesStep == TypeOK /\ FilesInv /\ [Next]_vars => FilesInv'
<1> SUFFICES ASSUME TypeOK, FilesInv, [Next]_vars PROVE FilesInv'
  OBVIOUS
<1> USE HostAssumption DEF TypeOK, FilesInv, MayBeNamed, PCs, Owning, Ended,
                           Goto
<1>1. CASE UNCHANGED vars
  BY <1>1 DEF vars, locks, files, memory
<1>2. ASSUME NEW h \in Hosts, TakeMutex(h) \/ CreateLock(h) \/ ReadStatus(h)
                               \/ ProbeProcess(h) \/ UnlinkStale(h)
                               \/ RecreateLock(h)
      PROVE  FilesInv'
  BY <1>2 DEF TakeMutex, CreateLock, ReadStatus, ProbeProcess, UnlinkStale,
              RecreateLock,
              locks, files, memory
<1>3. ASSUME NEW h \in Hosts, WriteToken(h) \/ TakeFiles(h) \/ Prepare(h)
      PROVE  FilesInv'
  BY <1>3 DEF WriteToken, TakeFiles, Prepare, locks, files, memory
<1>4. ASSUME NEW h \in Hosts, TruncateStatus(h)
      PROVE  FilesInv'
  BY <1>4 DEF TruncateStatus, locks, memory
<1>5. ASSUME NEW h \in Hosts, WriteStatus(h)
      PROVE  FilesInv'
  <2>1. status'.pid = h /\ ownsFiles'[h]
    BY <1>5 DEF WriteStatus
  <2>2. publish[h] \in {"starting", "ready", "failed"}
    BY DEF States
  <2>3. /\ pc' \in [Hosts -> PCs]
        /\ pc'[h] \in {"preparing", "serving", "unlocking"}
        /\ \A g \in Hosts \ {h} : pc'[g] = pc[g]
    BY <1>5, <2>2 DEF WriteStatus
  <2> QED
    BY <1>5, <2>1, <2>3 DEF WriteStatus
<1>6. ASSUME NEW h \in Hosts, LeaveLoop(h) \/ ServerEnds(h) \/ ShutDown(h)
                               \/ Raise(h) \/ RequestShutdown(h)
      PROVE  FilesInv'
  BY <1>6 DEF LeaveLoop, ServerEnds, ShutDown, Raise, RequestShutdown,
              locks, files, memory
<1>7. ASSUME NEW h \in Hosts, Unlock(h)
      PROVE  FilesInv'
  BY <1>7 DEF Unlock, files, memory
<1>8. ASSUME NEW h \in Hosts, CleanToken(h) \/ CleanStatus(h)
      PROVE  FilesInv'
  BY <1>8 DEF CleanToken, CleanStatus, Forget, locks, memory
<1>9. ASSUME NEW h \in Hosts, Crash(h)
      PROVE  FilesInv'
  BY <1>9 DEF Crash, Forget, files
<1> QED
  BY <1>1, <1>2, <1>3, <1>4, <1>5, <1>6, <1>7, <1>8, <1>9 DEF Next, HostStep

\* A crashed host stays crashed.
LEMMA CrashIsFinal ==
  ASSUME TypeOK, [Next]_vars, NEW c \in Hosts, pc[c] = "crashed"
  PROVE  pc'[c] = "crashed"
<1> USE DEF TypeOK, Goto, Owning, Ended
<1>1. CASE UNCHANGED vars
  BY <1>1 DEF vars
<1>2. ASSUME NEW h \in Hosts, TakeMutex(h) \/ CreateLock(h) \/ ReadStatus(h)
                               \/ ProbeProcess(h) \/ UnlinkStale(h)
                               \/ RecreateLock(h)
      PROVE  pc'[c] = "crashed"
  BY <1>2 DEF TakeMutex, CreateLock, ReadStatus, ProbeProcess, UnlinkStale,
              RecreateLock
<1>3. ASSUME NEW h \in Hosts, WriteToken(h) \/ TakeFiles(h) \/ Prepare(h)
                               \/ TruncateStatus(h) \/ WriteStatus(h)
      PROVE  pc'[c] = "crashed"
  BY <1>3 DEF WriteToken, TakeFiles, Prepare, TruncateStatus, WriteStatus
<1>4. ASSUME NEW h \in Hosts, LeaveLoop(h) \/ ServerEnds(h) \/ ShutDown(h)
                               \/ Raise(h) \/ RequestShutdown(h)
      PROVE  pc'[c] = "crashed"
  BY <1>4 DEF LeaveLoop, ServerEnds, ShutDown, Raise, RequestShutdown
<1>5. ASSUME NEW h \in Hosts, Unlock(h) \/ CleanToken(h) \/ CleanStatus(h)
                               \/ Crash(h)
      PROVE  pc'[c] = "crashed"
  BY <1>5 DEF Unlock, CleanToken, CleanStatus, Crash, Alive
<1> QED
  BY <1>1, <1>2, <1>3, <1>4, <1>5 DEF Next, HostStep

\* Under the named mutex, who is inside the lock holds the mutex.
LEMMA MutexStep ==
  ASSUME TypeOK, [Next]_vars, named,
         \A h \in Hosts : pc[h] \in Owning => mutex = h,
         \A h \in Hosts : pc[h] \notin {"exists", "probe", "stale", "recreate"}
  PROVE  /\ \A h \in Hosts : pc'[h] \in Owning => mutex' = h
         /\ \A h \in Hosts : pc'[h] \notin {"exists", "probe", "stale", "recreate"}
<1> USE HostAssumption DEF TypeOK, Goto, Owning, Ended
<1> DEFINE Goal == /\ \A h \in Hosts : pc'[h] \in Owning => mutex' = h
                   /\ \A h \in Hosts : pc'[h] \notin {"exists", "probe", "stale", "recreate"}
<1>1. CASE UNCHANGED vars
  BY <1>1 DEF vars, locks
<1>2. ASSUME NEW h \in Hosts, TakeMutex(h) \/ CreateLock(h) \/ ReadStatus(h)
                               \/ ProbeProcess(h) \/ UnlinkStale(h)
                               \/ RecreateLock(h)
      PROVE  Goal
  BY <1>2 DEF TakeMutex, CreateLock, ReadStatus, ProbeProcess, UnlinkStale,
              RecreateLock, locks
<1>3. ASSUME NEW h \in Hosts, WriteToken(h) \/ TakeFiles(h) \/ Prepare(h)
                               \/ TruncateStatus(h)
      PROVE  Goal
  BY <1>3 DEF WriteToken, TakeFiles, Prepare, TruncateStatus, locks
<1>4. ASSUME NEW h \in Hosts, WriteStatus(h)
      PROVE  Goal
  <2>1. publish[h] \in {"starting", "ready", "failed"}
    BY DEF States
  <2> QED
    BY <1>4, <2>1 DEF WriteStatus, locks
<1>5. ASSUME NEW h \in Hosts, LeaveLoop(h) \/ ServerEnds(h) \/ ShutDown(h)
                               \/ Raise(h) \/ RequestShutdown(h)
      PROVE  Goal
  <2>1. CASE LeaveLoop(h) \/ ServerEnds(h)
    BY <2>1 DEF LeaveLoop, ServerEnds, locks
  <2>2. CASE ShutDown(h)
    BY <2>2 DEF ShutDown, locks
  <2>3. CASE Raise(h)
    BY <2>3 DEF Raise, locks
  <2>4. CASE RequestShutdown(h)
    BY <2>4 DEF RequestShutdown, locks
  <2> QED
    BY <1>5, <2>1, <2>2, <2>3, <2>4
<1>6. ASSUME NEW h \in Hosts, Unlock(h) \/ CleanToken(h) \/ CleanStatus(h)
                               \/ Crash(h)
      PROVE  Goal
  <2>1. CASE Unlock(h)
    BY <2>1 DEF Unlock, locks
  <2>2. CASE CleanToken(h)
    BY <2>2 DEF CleanToken, locks
  <2>3. CASE CleanStatus(h)
    BY <2>3 DEF CleanStatus, locks
  <2>4. CASE Crash(h)
    BY <2>4 DEF Crash, Alive, locks
  <2> QED
    BY <1>6, <2>1, <2>2, <2>3, <2>4
<1> QED
  BY <1>1, <1>2, <1>3, <1>4, <1>5, <1>6 DEF Next, HostStep

\* Without it, and while no host has crashed or was overtaken, who is inside
\* the lock created host.lock, and nobody takes the lock for stale.
LEMMA LockFileStep ==
  ASSUME TypeOK, LookInv, [Next]_vars, ~named,
         NoCrash, NoCrash', ~Overtaken',
         \A h \in Hosts : pc[h] \in Owning => lockFile = h,
         \A h \in Hosts : pc[h] \notin {"stale", "recreate"}
  PROVE  /\ \A h \in Hosts : pc'[h] \in Owning => lockFile' = h
         /\ \A h \in Hosts : pc'[h] \notin {"stale", "recreate"}
<1> USE HostAssumption DEF TypeOK, NoCrash, Goto, Owning, Ended
<1> DEFINE Goal == /\ \A h \in Hosts : pc'[h] \in Owning => lockFile' = h
                   /\ \A h \in Hosts : pc'[h] \notin {"stale", "recreate"}
<1>1. CASE UNCHANGED vars
  BY <1>1 DEF vars, locks
<1>2. ASSUME NEW h \in Hosts, ReadStatus(h)
      PROVE  Goal
  BY <1>2 DEF ReadStatus, locks
<1>3. ASSUME NEW h \in Hosts, ProbeProcess(h)
      PROVE  Goal
  <2>1. sawAlive[h]
    BY <1>3 DEF ProbeProcess, LookInv
  <2>2. pc'[h] = "refused"
    BY <1>3, <2>1 DEF ProbeProcess, Overtaken
  <2> QED
    BY <1>3, <2>2 DEF ProbeProcess, locks
<1>4. ASSUME NEW h \in Hosts, TakeMutex(h) \/ CreateLock(h)
                               \/ UnlinkStale(h) \/ RecreateLock(h)
      PROVE  Goal
  BY <1>4 DEF TakeMutex, CreateLock, UnlinkStale, RecreateLock
<1>5. ASSUME NEW h \in Hosts, WriteToken(h) \/ TakeFiles(h) \/ Prepare(h)
                               \/ TruncateStatus(h)
      PROVE  Goal
  BY <1>5 DEF WriteToken, TakeFiles, Prepare, TruncateStatus, locks
<1>6. ASSUME NEW h \in Hosts, WriteStatus(h)
      PROVE  Goal
  <2>1. publish[h] \in {"starting", "ready", "failed"}
    BY DEF States
  <2> QED
    BY <1>6, <2>1 DEF WriteStatus, locks
<1>7. ASSUME NEW h \in Hosts, LeaveLoop(h) \/ ServerEnds(h) \/ ShutDown(h)
                               \/ Raise(h) \/ RequestShutdown(h)
      PROVE  Goal
  BY <1>7 DEF LeaveLoop, ServerEnds, ShutDown, Raise, RequestShutdown, locks
<1>8. ASSUME NEW h \in Hosts, Unlock(h) \/ CleanToken(h) \/ CleanStatus(h)
      PROVE  Goal
  BY <1>8 DEF Unlock, CleanToken, CleanStatus, locks
<1>9. ASSUME NEW h \in Hosts, Crash(h)
      PROVE  Goal
  BY <1>9 DEF Crash
<1> QED
  BY <1>1, <1>2, <1>3, <1>4, <1>5, <1>6, <1>7, <1>8, <1>9 DEF Next, HostStep

\* What a host knows when it probes a process stays true, and a host that
\* overtook its holder stays on record.
LEMMA LookStep ==
  TypeOK /\ FilesInv /\ LookInv /\ [Next]_vars =>
    LookInv' /\ (Overtaken => Overtaken')
<1> SUFFICES ASSUME TypeOK, FilesInv, LookInv, [Next]_vars
             PROVE  LookInv' /\ (Overtaken => Overtaken')
  OBVIOUS
<1> DEFINE Goal == LookInv' /\ (Overtaken => Overtaken')
<1> USE HostAssumption DEF TypeOK, LookInv, Overtaken, Owning, Ended, Goto, look
<1>1. CASE UNCHANGED vars
  BY <1>1 DEF vars
<1>2. ASSUME NEW h \in Hosts, ReadStatus(h)
      PROVE  Goal
  <2>1. status # Unreadable =>
          status.pid \in Hosts /\ (Alive(status.pid) \/ pc[status.pid] = "crashed")
    BY DEF FilesInv, MayBeNamed, Alive
  <2> QED
    BY <1>2, <2>1 DEF ReadStatus
<1>3. ASSUME NEW h \in Hosts, ProbeProcess(h)
      PROVE  Goal
  BY <1>3 DEF ProbeProcess, Alive
<1>4. ASSUME NEW h \in Hosts, TakeMutex(h) \/ CreateLock(h)
                               \/ UnlinkStale(h) \/ RecreateLock(h)
      PROVE  Goal
  BY <1>4 DEF TakeMutex, CreateLock, UnlinkStale, RecreateLock
<1>5. ASSUME NEW h \in Hosts, WriteToken(h) \/ TakeFiles(h) \/ Prepare(h)
                               \/ TruncateStatus(h)
      PROVE  Goal
  BY <1>5 DEF WriteToken, TakeFiles, Prepare, TruncateStatus
<1>6. ASSUME NEW h \in Hosts, WriteStatus(h)
      PROVE  Goal
  <2>1. publish[h] \in {"starting", "ready", "failed"}
    BY DEF States
  <2> QED
    BY <1>6, <2>1 DEF WriteStatus
<1>7. ASSUME NEW h \in Hosts, LeaveLoop(h) \/ ServerEnds(h) \/ ShutDown(h)
                               \/ Raise(h) \/ RequestShutdown(h)
      PROVE  Goal
  BY <1>7 DEF LeaveLoop, ServerEnds, ShutDown, Raise, RequestShutdown
<1>8. ASSUME NEW h \in Hosts, Unlock(h) \/ CleanToken(h) \/ CleanStatus(h)
      PROVE  Goal
  BY <1>8 DEF Unlock, CleanToken, CleanStatus
<1>9. ASSUME NEW h \in Hosts, Crash(h)
      PROVE  Goal
  BY <1>9 DEF Crash, Alive
<1> QED
  BY <1>1, <1>2, <1>3, <1>4, <1>5, <1>6, <1>7, <1>8, <1>9 DEF Next, HostStep

\* The lock invariant is inductive, on top of the other three.
LEMMA LockStep == Inv /\ [Next]_vars => LockInv'
<1> SUFFICES ASSUME Inv, [Next]_vars PROVE LockInv'
  OBVIOUS
<1>1. CASE named
  BY <1>1, MutexStep, NamedKept DEF Inv, LockInv
<1>2. CASE ~named
  <2>1. CASE ~NoCrash \/ Overtaken
    BY <1>2, <2>1, CrashIsFinal, LookStep, NamedKept DEF Inv, LockInv, NoCrash
  <2>2. CASE ~NoCrash' \/ Overtaken'
    BY <1>2, <2>2, NamedKept DEF LockInv
  <2>3. CASE NoCrash /\ NoCrash' /\ ~Overtaken /\ ~Overtaken'
    BY <1>2, <2>3, LockFileStep, NamedKept DEF Inv, LockInv, NoCrash
  <2> QED
    BY <2>1, <2>2, <2>3
<1> QED
  BY <1>1, <1>2

\* Every reachable state satisfies the invariant.
LEMMA Invariance == Spec => []Inv
<1>1. Init => Inv
  BY HostAssumption DEF Init, Inv, TypeOK, FilesInv, LookInv, LockInv, Statuses,
                        States, PCs, Owning, Ended, Unreadable
<1>2. Inv /\ [Next]_vars => Inv'
  BY TypeStep, FilesStep, LookStep, LockStep DEF Inv
<1> QED
  BY <1>1, <1>2, PTL DEF Spec

-----------------------------------------------------------------------------
\* Type correctness.
THEOREM TypeCorrect == Spec => []TypeOK
<1>1. Inv => TypeOK
  BY DEF Inv
<1> QED
  BY <1>1, Invariance, PTL

\* SingleInstanceLock admits one host at a time: under the named mutex always,
\* under the lock file until a host crashed or ended while it was looked at.
THEOREM OneHost == Spec => []SingleOwnerUnlessOvertaken
<1>1. Inv => SingleOwnerUnlessOvertaken
  BY DEF Inv, LockInv, SingleOwnerUnlessOvertaken, SingleOwner
<1> QED
  BY <1>1, Invariance, PTL

\* status.json names a dead process only if that process crashed.
THEOREM StaleStatusFromCrash == Spec => []DeadStatusMeansCrash
<1>1. Inv => DeadStatusMeansCrash
  BY DEF Inv, FilesInv, DeadStatusMeansCrash, MayBeNamed, Alive, Ended
<1> QED
  BY <1>1, Invariance, PTL
=============================================================================
