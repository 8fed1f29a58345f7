-------------------------------- MODULE McpLock --------------------------------
(***************************************************************************)
(* The .imcp lock file beside one database (src/ida/lock.rs): an advisory   *)
(* process lock on a file that its owner unlinks, and that the supervisor   *)
(* or a forced open reclaims from a worker that died.                       *)
(*                                                                         *)
(* Every system call is a step.  The lock belongs to a process and an       *)
(* inode: closing any descriptor of the process on that inode drops it.     *)
(***************************************************************************)
EXTENDS Integers, FiniteSets

CONSTANTS
    Workers,         \* worker processes, each with one IDA thread; also their pids
    Threads,         \* runtime threads of the supervisor process
    Sup,             \* the supervisor process
    ReclaimAttempts, \* WORKER_LOCK_RECLAIM_ATTEMPTS
    MaxFiles         \* bound of the model on lock files ever created

Actors  == Workers \cup Threads
Files   == 1 .. MaxFiles
NoFile  == 0
NoOwner == "free"
NoPid   == "nopid"

ASSUME LockAssumption ==
    /\ Workers \cap Threads = {}
    /\ Sup \notin Workers
    /\ NoOwner \notin Workers \cup {Sup}
    /\ NoPid \notin Workers \cup {Sup}
    /\ ReclaimAttempts \in Nat \ {0}
    /\ MaxFiles \in Nat

VARIABLES
    path,     \* the inode the .imcp path names
    created,  \* number of inodes created so far
    locker,   \* the process that holds the advisory lock of every inode
    pidOf,    \* the pid recorded in every inode
    alive,    \* worker processes that run
    stage,    \* cleanup attempts the supervisor has left for every worker
    job       \* where every actor is

vars == <<path, created, locker, pidOf, alive, stage, job>>

Pcs == {"idle", "signal", "reclaimopen", "reclaimlock", "reclaimcheck", "owned",
        "create", "lock", "writepid", "held", "unlinkcheck", "unlink", "close"}

JobRec == [op : {"none", "force", "artifacts", "remove"},
           pc : Pcs, file : Files \cup {NoFile}, pid : Workers \cup {Sup, NoPid}]

Job(op, pc, file, pid) == [op |-> op, pc |-> pc, file |-> file, pid |-> pid]

Idle == Job("none", "idle", NoFile, NoPid)

\* Positions in which the actor's code relies on holding its file's lock.
Locked == {"reclaimcheck", "owned", "writepid", "held", "unlinkcheck", "unlink"}

Owner(a) == IF a \in Workers THEN a ELSE Sup

Names(a) == path = job[a].file

-----------------------------------------------------------------------------
Init ==
    /\ path = NoFile /\ created = 0
    /\ locker = [f \in Files |-> NoOwner]
    /\ pidOf = [f \in Files |-> NoPid]
    /\ alive = Workers
    /\ stage = [w \in Workers |-> ReclaimAttempts + 1]
    /\ job = [a \in Actors |-> Idle]

-----------------------------------------------------------------------------
(* System calls.                                                           *)

\* Mutant of CloseFile: the descriptor is leaked.
CloseForgotten(a, f) == locker

\* close(2) on an inode drops the process's lock on it.
CloseFile(a, f) == [locker EXCEPT ![f] = IF @ = Owner(a) THEN NoOwner ELSE @]

\* Mutant of LockRefused: the lock is not consulted.
LockNeverRefused(a) == FALSE

\* F_SETLK fails when another process holds the lock; its own never conflicts.
LockRefused(a) == locker[job[a].file] \notin {NoOwner, Owner(a)}

\* Mutant of ReadLockFilePid: reads through a fresh descriptor and closes it.
ReadThroughNewDescriptor(a) == CloseFile(a, job[a].file)

\* read_lock_file_pid_from_file reads through the descriptor that is locked.
ReadLockFilePid(a) == locker

\* Mutant of LockPathNamesFile: the path is not compared with the locked file.
AnyPath(a) == path # NoFile

LockPathNamesFile(a) == path # NoFile /\ Names(a)

-----------------------------------------------------------------------------
(* Where an actor goes when a reclaim fails or a lock file has been removed. *)

\* An attempt of cleanup_after_worker_loss that failed is repeated until
\* ReclaimAttempts are used up; then remove_mcp_lock_for_pid tries once.
StageAfter(a, succeeded) ==
    [w \in Workers |->
        IF job[a].op \in {"artifacts", "remove"} /\ job[a].pid = w
        THEN IF job[a].op = "remove" THEN 0 ELSE IF succeeded THEN 1 ELSE stage[w] - 1
        ELSE stage[w]]

\* A forced open goes on to acquire_mcp_lock.
JobAfter(a) == IF job[a].op = "force" THEN Job("none", "create", NoFile, NoPid) ELSE Idle

\* reclaim_mcp_lock_path returns None: its descriptor, if any, is closed.
ReclaimFails(a) ==
    /\ job' = [job EXCEPT ![a] = JobAfter(a)]
    /\ stage' = StageAfter(a, FALSE)

Goto(a, pc) == job' = [job EXCEPT ![a].pc = pc]

-----------------------------------------------------------------------------
(* acquire_mcp_lock, in a worker's handle_open or in the supervisor's       *)
(* preparation of a DSC output.                                             *)

\* open(2) with O_CREAT, at once or after the stale lock of a forced open has
\* been dealt with.
CreateLockFile(a) ==
    /\ a \in alive \cup Threads
    /\ job[a].pc \in {"idle", "create"}
    /\ \/ path # NoFile /\ UNCHANGED <<path, created>>
       \/ path = NoFile /\ created < MaxFiles /\ created' = created + 1 /\ path' = created'
    /\ job' = [job EXCEPT ![a] = Job("none", "lock", path', NoPid)]
    /\ UNCHANGED <<locker, pidOf, alive, stage>>

\* DatabaseLocked: the descriptor is closed on return.
AcquireRefused(a) ==
    /\ job[a].pc = "lock" /\ LockRefused(a)
    /\ locker' = CloseFile(a, job[a].file)
    /\ job' = [job EXCEPT ![a] = Idle]
    /\ UNCHANGED <<path, created, pidOf, alive, stage>>

AcquireLocks(a) ==
    /\ job[a].pc = "lock" /\ ~LockRefused(a)
    /\ locker' = [locker EXCEPT ![job[a].file] = Owner(a)]
    /\ Goto(a, "writepid")
    /\ UNCHANGED <<path, created, pidOf, alive, stage>>

\* set_len(0) and write_all, under the lock.  A reader or a crash in between
\* meets an empty file, as it does before the first write of a new file.
WritePid(a) ==
    /\ job[a].pc = "writepid"
    /\ pidOf' = [pidOf EXCEPT ![job[a].file] = Owner(a)]
    /\ Goto(a, "held")
    /\ UNCHANGED <<path, created, locker, alive, stage>>

-----------------------------------------------------------------------------
(* release_mcp_lock when the database is closed, Drop for McpLock and        *)
(* remove_mcp_lock_file: compare, unlink, close.                            *)

CompareLockPath(a) ==
    /\ job[a].pc \in {"held", "unlinkcheck"}
    /\ Goto(a, IF LockPathNamesFile(a) THEN "unlink" ELSE "close")
    /\ UNCHANGED <<path, created, locker, pidOf, alive, stage>>

\* unlink(2) removes whatever the path names by now.
RemoveLockFile(a) ==
    /\ job[a].pc = "unlink"
    /\ path' = NoFile
    /\ Goto(a, "close")
    /\ UNCHANGED <<created, locker, pidOf, alive, stage>>

CloseLockFile(a) ==
    /\ job[a].pc = "close"
    /\ locker' = CloseFile(a, job[a].file)
    /\ job' = [job EXCEPT ![a] = JobAfter(a)]
    /\ stage' = StageAfter(a, TRUE)
    /\ UNCHANGED <<path, created, pidOf, alive>>

-----------------------------------------------------------------------------
(* Reclaiming the file of a process that died.                             *)

\* A forced open starts with clean_stale_mcp_lock, which reads the recorded pid
\* through a descriptor of its own.
ReadStalePid(w) ==
    /\ w \in alive /\ job[w].pc = "idle"
    /\ path # NoFile
    /\ locker' = CloseFile(w, path)
    /\ job' = [job EXCEPT ![w] =
                  Job("force", IF pidOf[path] = NoPid THEN "reclaimopen" ELSE "signal", NoFile, pidOf[path])]
    /\ UNCHANGED <<path, created, pidOf, alive, stage>>

\* kill(pid, 0): a process that runs keeps its lock.
CheckProcessRunning(w) ==
    /\ job[w].pc = "signal"
    /\ job' = [job EXCEPT ![w] = IF job[w].pid \in alive \cup {Sup} THEN JobAfter(w)
                                 ELSE [@ EXCEPT !.pc = "reclaimopen"]]
    /\ UNCHANGED <<path, created, locker, pidOf, alive, stage>>

\* Mutant of CleanUpAfterWorker: the number of attempts is not limited.
CleanUpWithoutLimit(t, w, op) ==
    /\ job[t].pc = "idle"
    /\ \A u \in Threads : job[u].pc # "idle" => job[u].pid # w
    /\ job' = [job EXCEPT ![t] = Job(op, "reclaimopen", NoFile, w)]
    /\ UNCHANGED <<path, created, locker, pidOf, alive, stage>>

\* finish_dead_worker: the worker's process has been told to end, and may not
\* have ended.  One task per worker; between two attempts it only sleeps.
CleanUpAfterWorker(t, w, op) ==
    /\ job[t].pc = "idle"
    /\ \A u \in Threads : job[u].pc # "idle" => job[u].pid # w
    /\ \/ op = "artifacts" /\ stage[w] > 1
       \/ op = "remove" /\ stage[w] \in {1, ReclaimAttempts + 1}
    /\ job' = [job EXCEPT ![t] = Job(op, "reclaimopen", NoFile, w)]
    /\ UNCHANGED <<path, created, locker, pidOf, alive, stage>>

ReclaimOpens(a) ==
    /\ job[a].pc = "reclaimopen"
    /\ IF path = NoFile THEN ReclaimFails(a)
       ELSE job' = [job EXCEPT ![a].pc = "reclaimlock", ![a].file = path] /\ UNCHANGED stage
    /\ UNCHANGED <<path, created, locker, pidOf, alive>>

ReclaimLocks(a) ==
    /\ job[a].pc = "reclaimlock"
    /\ IF LockRefused(a)
       THEN ReclaimFails(a) /\ locker' = CloseFile(a, job[a].file)
       ELSE /\ locker' = [locker EXCEPT ![job[a].file] = Owner(a)]
            /\ Goto(a, "reclaimcheck") /\ UNCHANGED stage
    /\ UNCHANGED <<path, created, pidOf, alive>>

\* The recorded pid and the path are compared under the lock.
ReclaimChecks(a) ==
    /\ job[a].pc = "reclaimcheck"
    /\ IF pidOf[job[a].file] = job[a].pid /\ LockPathNamesFile(a)
       THEN /\ Goto(a, IF job[a].op = "artifacts" THEN "owned" ELSE "unlinkcheck")
            /\ locker' = ReadLockFilePid(a)
            /\ UNCHANGED stage
       ELSE ReclaimFails(a) /\ locker' = CloseFile(a, job[a].file)
    /\ UNCHANGED <<path, created, pidOf, alive>>

\* remove_new_database_artifacts, under the reclaimed lock.
RemoveArtifacts(t) ==
    /\ job[t].pc = "owned"
    /\ Goto(t, "unlinkcheck")
    /\ UNCHANGED <<path, created, locker, pidOf, alive, stage>>

\* A worker process ends: its descriptors are closed, its file stays.
WorkerDies(w) ==
    /\ w \in alive
    /\ alive' = alive \ {w}
    /\ locker' = [f \in Files |-> IF locker[f] = w THEN NoOwner ELSE locker[f]]
    /\ job' = [job EXCEPT ![w] = Idle]
    /\ UNCHANGED <<path, created, pidOf, stage>>

-----------------------------------------------------------------------------
Acquire(a) ==
    CreateLockFile(a) \/ AcquireRefused(a) \/ AcquireLocks(a) \/ WritePid(a)

Remove(a) == CompareLockPath(a) \/ RemoveLockFile(a) \/ CloseLockFile(a)

Reclaim(a) == ReclaimOpens(a) \/ ReclaimLocks(a) \/ ReclaimChecks(a)

Next ==
    \/ \E a \in Actors : Acquire(a) \/ Remove(a) \/ Reclaim(a)
    \/ \E w \in Workers : ReadStalePid(w) \/ CheckProcessRunning(w) \/ WorkerDies(w)
    \/ \E t \in Threads : RemoveArtifacts(t)
                            \/ \E w \in Workers, op \in {"artifacts", "remove"} :
                                 CleanUpAfterWorker(t, w, op)

Spec == Init /\ [][Next]_vars

-----------------------------------------------------------------------------
(* Properties.                                                             *)

\* Every variable has its type.
TypeOK ==
    /\ path \in Files \cup {NoFile} /\ created \in 0..MaxFiles
    /\ locker \in [Files -> Workers \cup {Sup, NoOwner}]
    /\ pidOf \in [Files -> Workers \cup {Sup, NoPid}]
    /\ alive \subseteq Workers
    /\ stage \in [Workers -> 0 .. ReclaimAttempts + 1]
    /\ job \in [Actors -> JobRec]

\* A supervisor that runs on one thread (the stdio and worker runtimes).
OneThread == \A s, t \in Threads : s = t

\* Wherever the code writes the file, opens the database, removes artifacts or
\* unlinks the path, its process still holds the advisory lock it took: no
\* descriptor of the same process was closed on that inode in the meantime.
LockKept == \A a \in Actors : job[a].pc \in Locked => locker[job[a].file] = Owner(a)

\* A locked inode is in use by an actor of the process that locked it: a dead
\* worker or a forgotten descriptor never locks a database out.
NoLeakedLock == \A f \in Files : locker[f] # NoOwner =>
    \E a \in Actors : Owner(a) = locker[f] /\ job[a].file = f

\* A lock file in use is removed by its holder only: as long as a process holds
\* the database and the path names its file, no release, no forced open and no
\* late cleanup of another actor takes the path away.
HolderKeepsPath == [][\A a \in Actors :
    job[a].pc = "held" /\ Names(a) /\ job'[a].pc = "held" => path' = path]_vars

\* lock.rs: "prevent concurrent database access".  Two processes never hold
\* the lock of one database at the same time.
MutualExclusion == \A a, b \in Actors : job[a].pc = "held" /\ job[b].pc = "held" => Owner(a) = Owner(b)

\* lock.rs: "Cleanup callers must hold this lock while removing partial
\* database artifacts": nobody else has the database open at that moment.
CleanupExcludesOwners == \A t \in Threads, w \in Workers :
    job[t].pc = "owned" /\ job[w].pc = "held" => job[w].file # job[t].file
=============================================================================
