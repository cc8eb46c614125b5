----------------------------- MODULE HostInstance -----------------------------
(***************************************************************************)
(* Hosts of one runtime root: run_host (runtime/supervisor.py) under its   *)
(* SingleInstanceLock (runtime/instance.py), with the files of the runtime *)
(* directory they share: host.lock, control.token and status.json.         *)
(*                                                                         *)
(* A host is one process that calls run_host once; its name is also its    *)
(* pid, and pids are not used again.  Every file operation is a step.      *)
(***************************************************************************)
EXTENDS FiniteSets

CONSTANTS Hosts, NoHost

ASSUME HostAssumption == NoHost \notin Hosts

VARIABLES
  named,     \* the platform: is there a Windows mutex?  Otherwise host.lock is used
  lockFile,  \* the host that created host.lock, or NoHost: no such file
  mutex,     \* the process that holds the named mutex, or NoHost
  token,     \* the host whose token is in control.token, or NoHost: no file
  status,    \* status.json: what it says, or that nothing can be read from it
  pc,        \* where each host's run_host is
  publish,   \* the state that the next write_status of a host writes
  ownsFiles, \* owns_runtime_files
  requested, \* shutdown_requested
  holder,    \* the process that the status read by _try_file_lock names
  sawAlive   \* history: that process was alive when the status was read, and
             \* nothing but its death let the reader pass

locks == <<named, lockFile, mutex>>
files == <<token, status>>
look == <<holder, sawAlive>>
memory == <<publish, ownsFiles, requested>>
vars == <<locks, files, pc, memory, look>>

States == {"starting", "ready", "failed"}
\* read_status returns None for a file that is absent or not complete.
Statuses == [pid : Hosts \cup {NoHost}, state : States \cup {"unreadable"}]
Unreadable == [pid |-> NoHost, state |-> "unreadable"]

\* Inside "with SingleInstanceLock".
Owning == {"owned", "token", "truncate", "write", "preparing", "serving",
           "stopping", "unlocking"}
Ended == {"refused", "done", "crashed"}
PCs == Owning \cup Ended \cup
  {"new", "exists", "probe", "stale", "recreate", "cleanToken", "cleanStatus"}

Init ==
  /\ named \in BOOLEAN
  /\ lockFile = NoHost
  /\ mutex = NoHost
  /\ token = NoHost
  /\ status = Unreadable
  /\ pc = [h \in Hosts |-> "new"]
  /\ publish = [h \in Hosts |-> "starting"]
  /\ ownsFiles = [h \in Hosts |-> FALSE]
  /\ requested = [h \in Hosts |-> FALSE]
  /\ holder = [h \in Hosts |-> NoHost]
  /\ sawAlive = [h \in Hosts |-> FALSE]

Goto(h, l) == pc' = [pc EXCEPT ![h] = l]

\* What run_host remembers goes when it ends.
Forget(h) ==
  /\ publish' = [publish EXCEPT ![h] = "starting"]
  /\ ownsFiles' = [ownsFiles EXCEPT ![h] = FALSE]
  /\ requested' = [requested EXCEPT ![h] = FALSE]

\* process_alive
Alive(h) == pc[h] \notin Ended \cup {"new"}

-----------------------------------------------------------------------------
(***************************************************************************)
(* SingleInstanceLock.__enter__                                            *)
(***************************************************************************)
\* _try_windows_mutex
TakeMutex(h) ==
  /\ pc[h] = "new" /\ named
  /\ IF mutex = NoHost THEN mutex' = h /\ Goto(h, "owned")
                       ELSE Goto(h, "refused") /\ UNCHANGED mutex
  /\ UNCHANGED <<named, lockFile, files, memory, look>>

\* _try_file_lock: O_CREAT | O_EXCL
CreateLock(h) ==
  /\ pc[h] = "new" /\ ~named
  /\ IF lockFile = NoHost THEN lockFile' = h /\ Goto(h, "owned")
                          ELSE Goto(h, "exists") /\ UNCHANGED lockFile
  /\ UNCHANGED <<named, mutex, files, memory, look>>

\* Variant: a status that cannot be read makes the lock stale, too.
ReadStatusUnreadable(h) ==
  /\ pc[h] = "exists"
  /\ IF status = Unreadable
     THEN Goto(h, "stale") /\ UNCHANGED look
     ELSE /\ Goto(h, "probe")
          /\ holder' = [holder EXCEPT ![h] = status.pid]
          /\ sawAlive' = [sawAlive EXCEPT ![h] = Alive(status.pid)]
  /\ UNCHANGED <<locks, files, memory>>

\* The lock exists: read_status.  Nobody is called dead when nobody is named.
ReadStatus(h) ==
  /\ pc[h] = "exists"
  /\ IF status = Unreadable
     THEN Goto(h, "refused") /\ UNCHANGED look
     ELSE /\ Goto(h, "probe")
          /\ holder' = [holder EXCEPT ![h] = status.pid]
          /\ sawAlive' = [sawAlive EXCEPT ![h] = Alive(status.pid)]
  /\ UNCHANGED <<locks, files, memory>>

\* process_alive: by now the process that was named may have ended, and the
\* lock may be another's.
ProbeProcess(h) ==
  /\ pc[h] = "probe"
  /\ IF Alive(holder[h])
     THEN Goto(h, "refused") /\ sawAlive' = [sawAlive EXCEPT ![h] = FALSE]
     ELSE Goto(h, "stale") /\ UNCHANGED sawAlive
  /\ holder' = [holder EXCEPT ![h] = NoHost]
  /\ UNCHANGED <<locks, files, memory>>

UnlinkStale(h) ==
  /\ pc[h] = "stale"
  /\ lockFile' = NoHost
  /\ Goto(h, "recreate")
  /\ UNCHANGED <<named, mutex, files, memory, look>>

\* The second O_EXCL: its FileExistsError is not caught.
RecreateLock(h) ==
  /\ pc[h] = "recreate"
  /\ IF lockFile = NoHost THEN lockFile' = h /\ Goto(h, "owned")
                          ELSE Goto(h, "refused") /\ UNCHANGED lockFile
  /\ UNCHANGED <<named, mutex, files, memory, look>>

-----------------------------------------------------------------------------
(***************************************************************************)
(* run_host, inside the lock.                                              *)
(***************************************************************************)
WriteToken(h) ==
  /\ pc[h] = "owned"
  /\ token' = h
  /\ Goto(h, "token")
  /\ UNCHANGED <<locks, status, memory, look>>

\* protect_runtime_secret: when it raises, owns_runtime_files is still false.
TakeFiles(h) ==
  /\ pc[h] = "token"
  /\ \/ ownsFiles' = [ownsFiles EXCEPT ![h] = TRUE] /\ Goto(h, "truncate")
     \/ Goto(h, "unlocking") /\ UNCHANGED ownsFiles
  /\ UNCHANGED <<locks, files, publish, requested, look>>

\* write_status: O_TRUNC, then the text.
TruncateStatus(h) ==
  /\ pc[h] = "truncate"
  /\ status' = Unreadable
  /\ Goto(h, "write")
  /\ UNCHANGED <<locks, token, memory, look>>

\* Variant: publishing a state starts a new account of the shutdown request.
WriteStatusForgets(h) ==
  /\ pc[h] = "write"
  /\ status' = [pid |-> h, state |-> publish[h]]
  /\ requested' = [requested EXCEPT ![h] = FALSE]
  /\ Goto(h, CASE publish[h] = "starting" -> "preparing"
               [] publish[h] = "ready" -> "serving"
               [] publish[h] = "failed" -> "unlocking")
  /\ publish' = [publish EXCEPT ![h] = "starting"]
  /\ UNCHANGED <<locks, token, ownsFiles, look>>

WriteStatus(h) ==
  /\ pc[h] = "write"
  /\ status' = [pid |-> h, state |-> publish[h]]
  /\ Goto(h, CASE publish[h] = "starting" -> "preparing"
               [] publish[h] = "ready" -> "serving"
               [] publish[h] = "failed" -> "unlocking")
  /\ publish' = [publish EXCEPT ![h] = "starting"]
  /\ UNCHANGED <<locks, token, ownsFiles, requested, look>>

\* Variant: a state that status.json does not have.
PrepareStopped(h) ==
  /\ pc[h] = "preparing"
  /\ \E s \in {"ready", "failed", "stopped"} :
       publish' = [publish EXCEPT ![h] = s]
  /\ Goto(h, "truncate")
  /\ UNCHANGED <<locks, files, ownsFiles, requested, look>>

\* verify_installation, migrate_with_backup, frontend, server start.
Prepare(h) ==
  /\ pc[h] = "preparing"
  /\ \E s \in {"ready", "failed"} : publish' = [publish EXCEPT ![h] = s]
  /\ Goto(h, "truncate")
  /\ UNCHANGED <<locks, files, ownsFiles, requested, look>>

\* Anything in the with block raises.
Raise(h) ==
  /\ pc[h] \in {"owned", "truncate", "write", "preparing", "serving", "stopping"}
  /\ Goto(h, "unlocking")
  /\ publish' = [publish EXCEPT ![h] = "starting"]
  /\ UNCHANGED <<locks, files, ownsFiles, requested, look>>

\* request_shutdown: the API's /runtime/shutdown or the service control.
RequestShutdown(h) ==
  /\ pc[h] \in Owning
  /\ requested' = [requested EXCEPT ![h] = TRUE]
  /\ UNCHANGED <<locks, files, pc, publish, ownsFiles, look>>

\* The wait loop sees the request, or that the server thread ended.
LeaveLoop(h) ==
  /\ pc[h] = "serving" /\ requested[h]
  /\ Goto(h, "stopping")
  /\ UNCHANGED <<locks, files, memory, look>>

ServerEnds(h) ==
  /\ pc[h] = "serving"
  /\ Goto(h, "stopping")
  /\ UNCHANGED <<locks, files, memory, look>>

\* Server joined, _shutdown_owned_managers.
ShutDown(h) ==
  /\ pc[h] = "stopping"
  /\ Goto(h, "unlocking")
  /\ UNCHANGED <<locks, files, memory, look>>

\* SingleInstanceLock.__exit__: the file is unlinked, whoever created it.
Unlock(h) ==
  /\ pc[h] = "unlocking"
  /\ lockFile' = IF named THEN lockFile ELSE NoHost
  /\ mutex' = IF mutex = h THEN NoHost ELSE mutex
  /\ Goto(h, IF ownsFiles[h] THEN "cleanToken" ELSE "done")
  /\ UNCHANGED <<named, files, memory, look>>

\* The finally block of run_host, outside the lock: both files are unlinked,
\* whoever wrote them.
CleanToken(h) ==
  /\ pc[h] = "cleanToken"
  /\ token' = NoHost
  /\ Goto(h, "cleanStatus")
  /\ UNCHANGED <<locks, status, memory, look>>

\* Variant: only the token is removed.
CleanStatusKept(h) ==
  /\ pc[h] = "cleanStatus"
  /\ Forget(h)
  /\ Goto(h, "done")
  /\ UNCHANGED <<locks, files, look>>

CleanStatus(h) ==
  /\ pc[h] = "cleanStatus"
  /\ status' = Unreadable
  /\ Forget(h)
  /\ Goto(h, "done")
  /\ UNCHANGED <<locks, token, look>>

\* The process dies; the system releases its mutex and leaves its files.
Crash(h) ==
  /\ Alive(h)
  /\ Goto(h, "crashed")
  /\ mutex' = IF mutex = h THEN NoHost ELSE mutex
  /\ Forget(h)
  /\ holder' = [holder EXCEPT ![h] = NoHost]
  /\ UNCHANGED <<named, lockFile, files, sawAlive>>

-----------------------------------------------------------------------------
HostStep(h) ==
  \/ ReadStatus(h) \/ ProbeProcess(h) \/ UnlinkStale(h) \/ RecreateLock(h)
  \/ WriteToken(h) \/ TakeFiles(h) \/ TruncateStatus(h) \/ WriteStatus(h) \/ Prepare(h)
  \/ LeaveLoop(h) \/ ShutDown(h) \/ Unlock(h) \/ CleanToken(h)
  \/ CleanStatus(h)

Next == \E h \in Hosts :
  \/ TakeMutex(h) \/ CreateLock(h) \/ HostStep(h)
  \/ Raise(h) \/ RequestShutdown(h) \/ ServerEnds(h) \/ Crash(h)

Spec == Init /\ [][Next]_vars

\* A host that was started goes on; nothing makes anybody start or stop one.
Fairness == \A h \in Hosts : WF_vars(HostStep(h))
FairSpec == Spec /\ Fairness

-----------------------------------------------------------------------------
(***************************************************************************)
(* Properties.                                                             *)
(***************************************************************************)
\* Every variable has its type.
TypeOK ==
  /\ named \in BOOLEAN
  /\ lockFile \in Hosts \cup {NoHost}
  /\ mutex \in Hosts \cup {NoHost}
  /\ token \in Hosts \cup {NoHost}
  /\ status \in Statuses
  /\ pc \in [Hosts -> PCs]
  /\ publish \in [Hosts -> States]
  /\ ownsFiles \in [Hosts -> BOOLEAN]
  /\ requested \in [Hosts -> BOOLEAN]
  /\ holder \in [Hosts -> Hosts \cup {NoHost}]
  /\ sawAlive \in [Hosts -> BOOLEAN]

SingleOwner == \A g, h \in Hosts : pc[g] \in Owning /\ pc[h] \in Owning => g = h

NoCrash == \A h \in Hosts : pc[h] # "crashed"

\* Some host read the status of a live process, which ended before it was
\* probed: what was found dead may have given the lock to another.
Overtaken == \E h \in Hosts : sawAlive[h] /\ pc[h] # "probe"

\* One host at a time is inside the lock, under the named mutex in any case.
\* Under the lock file two hosts are only after a crash, or after a host ended
\* between the two looks of another, at its status and at its process.
SingleOwnerUnlessOvertaken == named \/ (NoCrash /\ ~Overtaken) => SingleOwner

\* A status that names a dead process is what a crash left behind: hosts that
\* end in good order, in whatever order they overlap, take theirs away.
DeadStatusMeansCrash ==
  status # Unreadable => Alive(status.pid) \/ pc[status.pid] = "crashed"

\* A host whose shutdown was requested ends, whatever it was doing then.
ShutdownIsObeyed ==
  \A h \in Hosts : requested[h] ~> pc[h] \in {"done", "crashed"}

\* "cleans transient control files only when it owns the current instance":
\* a host that serves has its token and its status in the runtime directory.
ServingHostHasItsFiles ==
  \A h \in Hosts : pc[h] = "serving" =>
    token = h /\ status = [pid |-> h, state |-> "ready"]
=============================================================================
