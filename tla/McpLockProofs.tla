----------------------------- MODULE McpLockProofs -----------------------------
(***************************************************************************)
(* Proofs about McpLock, for any number of workers, lock files and reclaim  *)
(* attempts.  TypeInv holds for any number of supervisor threads; LockInv   *)
(* needs OneThread, without which the lock of a process may be dropped by   *)
(* another thread of the same process.                                      *)
(***************************************************************************)
EXTENDS McpLock, TLAPS

Cleaning(a) == job[a].op \in {"artifacts", "remove"}

\* Positions in which the actor has a descriptor of its file.
Opened == Locked \cup {"reclaimlock", "lock", "close"}

\* One cleanup task per worker, only in supervisor threads, within its attempts.
CleanupInv == \A a \in Actors : Cleaning(a) =>
    /\ a \in Threads
    /\ job[a].pc # "idle"
    /\ job[a].pid \in Workers
    /\ job[a].op = "artifacts" => stage[job[a].pid] > 1
    /\ \A b \in Actors : Cleaning(b) /\ job[b].pid = job[a].pid => b = a

FileInv == \A a \in Actors : job[a].pc \in Opened => job[a].file \in Files

TypeInv == TypeOK /\ CleanupInv /\ FileInv

\* An actor about to unlink has the file the path names.
UnlinkInv == \A a \in Actors : job[a].pc = "unlink" => Names(a)

LockInv == TypeInv /\ LockKept /\ UnlinkInv

\* The process of an actor: a worker's own, or the supervisor for a thread.
LEMMA ActorKinds ==
    ASSUME NEW a \in Actors
    PROVE  /\ Owner(a) \in Workers \cup {Sup}
           /\ Owner(a) # NoOwner
           /\ Owner(a) = Sup <=> a \in Threads
BY LockAssumption DEF Actors, Owner

\* On one thread, different actors belong to different processes.
LEMMA OwnersDiffer ==
    ASSUME OneThread, NEW a \in Actors, NEW b \in Actors, Owner(a) = Owner(b)
    PROVE  a = b
BY LockAssumption DEF Actors, Owner, OneThread

\* close(2) leaves a map of inodes to lock owners.
LEMMA CloseFileType ==
    ASSUME TypeOK, NEW a \in Actors, NEW f
    PROVE  CloseFile(a, f) \in [Files -> Workers \cup {Sup, NoOwner}]
BY DEF TypeOK, CloseFile

\* The cleanup counters stay in range and only the finished task's one moves.
LEMMA StageAfterType ==
    ASSUME TypeInv, NEW a \in Actors, NEW s \in BOOLEAN
    PROVE  /\ StageAfter(a, s) \in [Workers -> 0 .. ReclaimAttempts + 1]
           /\ \A b \in Actors : b # a /\ Cleaning(b) => StageAfter(a, s)[job[b].pid] = stage[job[b].pid]
<1>1. \A w \in Workers : stage[w] \in 0 .. ReclaimAttempts + 1
  BY DEF TypeInv, TypeOK
<1>2. \A w \in Workers : job[a].op = "artifacts" /\ job[a].pid = w => stage[w] > 1
  BY DEF TypeInv, CleanupInv, Cleaning
<1>3. StageAfter(a, s) \in [Workers -> 0 .. ReclaimAttempts + 1]
  BY <1>1, <1>2, LockAssumption DEF StageAfter
<1>4. \A b \in Actors : b # a /\ Cleaning(b) => StageAfter(a, s)[job[b].pid] = stage[job[b].pid]
  BY DEF TypeInv, CleanupInv, Cleaning, StageAfter
<1> QED BY <1>3, <1>4

-----------------------------------------------------------------------------
(* Type correctness.                                                       *)

\* The initial state: no file, no lock, everybody idle.
LEMMA TypeInit == Init => TypeInv
BY LockAssumption DEF Init, TypeInv, TypeOK, CleanupInv, FileInv, Cleaning, Opened, Locked, Idle,
   JobRec, Job, Pcs, Files, NoFile

\* Every system call of every actor keeps the types.
LEMMA TypeStep == TypeInv /\ [Next]_vars => TypeInv'
<1> SUFFICES ASSUME TypeInv, [Next]_vars PROVE TypeInv'
  OBVIOUS
<1> USE LockAssumption
<1>j. /\ job \in [Actors -> JobRec]
      /\ Workers \subseteq Actors /\ Threads \subseteq Actors
      /\ path \in Files \cup {NoFile}
      /\ NoFile \notin Files
  BY DEF TypeInv, TypeOK, Actors, Files, NoFile
<1>1. ASSUME NEW a \in Actors, CreateLockFile(a) PROVE TypeInv'
  <2>1. path' \in Files /\ created' \in 0..MaxFiles
    BY <1>1, <1>j DEF CreateLockFile, TypeInv, TypeOK, Files, NoFile
  <2>2. job' = [job EXCEPT ![a] = Job("none", "lock", path', NoPid)]
    BY <1>1 DEF CreateLockFile
  <2>3. TypeOK'
    BY <1>1, <1>j, <2>1, <2>2 DEF CreateLockFile, TypeInv, TypeOK, JobRec, Job, Pcs
  <2>4. CleanupInv' /\ FileInv'
    BY <1>1, <1>j, <2>1, <2>2 DEF CreateLockFile, TypeInv, CleanupInv, FileInv, Cleaning, JobRec, Job, Opened
  <2> QED BY <2>3, <2>4 DEF TypeInv
<1>2. ASSUME NEW a \in Actors, AcquireRefused(a) \/ CloseLockFile(a) PROVE TypeInv'
  <2>1. locker' \in [Files -> Workers \cup {Sup, NoOwner}]
    <3>1. CloseFile(a, job[a].file) \in [Files -> Workers \cup {Sup, NoOwner}]
      BY CloseFileType DEF TypeInv
    <3> QED BY <1>2, <3>1 DEF AcquireRefused, CloseLockFile
  <2>2. /\ stage' \in [Workers -> 0 .. ReclaimAttempts + 1]
        /\ \A b \in Actors : b # a /\ Cleaning(b) => stage'[job[b].pid] = stage[job[b].pid]
    <3>1. /\ StageAfter(a, TRUE) \in [Workers -> 0 .. ReclaimAttempts + 1]
          /\ \A b \in Actors : b # a /\ Cleaning(b) => StageAfter(a, TRUE)[job[b].pid] = stage[job[b].pid]
      BY StageAfterType
    <3>2. stage \in [Workers -> 0 .. ReclaimAttempts + 1]
      BY DEF TypeInv, TypeOK
    <3>3. stage' = stage \/ stage' = StageAfter(a, TRUE)
      BY <1>2 DEF AcquireRefused, CloseLockFile
    <3>4. CASE stage' = stage
      BY <3>2, <3>4
    <3>5. CASE stage' = StageAfter(a, TRUE)
      BY <3>1, <3>5, Zenon
    <3> QED BY <3>3, <3>4, <3>5
  <2>3. PICK pc \in {"idle", "create"} :
          job' = [job EXCEPT ![a] = Job("none", pc, NoFile, NoPid)]
    BY <1>2 DEF AcquireRefused, CloseLockFile, JobAfter, Idle
  <2>4. TypeOK'
    BY <1>2, <1>j, <2>1, <2>2, <2>3 DEF AcquireRefused, CloseLockFile, TypeInv, TypeOK, JobRec, Job, Pcs
  <2>5. CleanupInv' /\ FileInv'
    BY <1>j, <2>2, <2>3 DEF TypeInv, CleanupInv, FileInv, Cleaning, JobRec, Job, Opened, Locked
  <2> QED BY <2>4, <2>5 DEF TypeInv
<1>3. ASSUME NEW a \in Actors, AcquireLocks(a) \/ WritePid(a) PROVE TypeInv'
  <2>1. job[a].file \in Files
    BY <1>3 DEF AcquireLocks, WritePid, TypeInv, FileInv, Opened, Locked
  <2>2. /\ locker' \in [Files -> Workers \cup {Sup, NoOwner}]
        /\ pidOf' \in [Files -> Workers \cup {Sup, NoPid}]
    BY <1>3, <2>1, ActorKinds DEF AcquireLocks, WritePid, TypeInv, TypeOK
  <2>3. PICK pc \in {"writepid", "held"} : job' = [job EXCEPT ![a].pc = pc]
    BY <1>3 DEF AcquireLocks, WritePid, Goto
  <2>4. TypeOK'
    BY <1>3, <1>j, <2>2, <2>3 DEF AcquireLocks, WritePid, TypeInv, TypeOK, JobRec, Job, Pcs
  <2>5. CleanupInv' /\ FileInv'
    BY <1>3, <1>j, <2>1, <2>3 DEF AcquireLocks, WritePid, TypeInv, CleanupInv, FileInv, Cleaning, JobRec, Job
  <2> QED BY <2>4, <2>5 DEF TypeInv
<1>4. ASSUME NEW a \in Actors, CompareLockPath(a) \/ RemoveLockFile(a) \/ RemoveArtifacts(a)
      PROVE TypeInv'
  <2>1. job[a].file \in Files
    BY <1>4 DEF CompareLockPath, RemoveLockFile, RemoveArtifacts, TypeInv, FileInv, Opened, Locked
  <2>2. PICK pc \in {"unlink", "close", "unlinkcheck"} : job' = [job EXCEPT ![a].pc = pc]
    BY <1>4 DEF CompareLockPath, RemoveLockFile, RemoveArtifacts, Goto
  <2>3. TypeOK'
    BY <1>4, <1>j, <2>2 DEF CompareLockPath, RemoveLockFile, RemoveArtifacts, TypeInv, TypeOK, JobRec, Job, Pcs
  <2>4. CleanupInv' /\ FileInv'
    BY <1>4, <1>j, <2>1, <2>2
       DEF CompareLockPath, RemoveLockFile, RemoveArtifacts, TypeInv, CleanupInv, FileInv, Cleaning, JobRec, Job
  <2> QED BY <2>3, <2>4 DEF TypeInv
<1>5. ASSUME NEW w \in Workers, ReadStalePid(w) PROVE TypeInv'
  <2>1. path \in Files /\ pidOf[path] \in Workers \cup {Sup, NoPid}
    BY <1>5, <1>j DEF ReadStalePid, TypeInv, TypeOK
  <2>2. PICK pc \in {"reclaimopen", "signal"} :
          job' = [job EXCEPT ![w] = Job("force", pc, NoFile, pidOf[path])]
    BY <1>5 DEF ReadStalePid
  <2>3. locker' \in [Files -> Workers \cup {Sup, NoOwner}]
    BY <1>5, <1>j, CloseFileType DEF ReadStalePid, TypeInv
  <2>4. TypeOK'
    BY <1>5, <1>j, <2>1, <2>2, <2>3 DEF ReadStalePid, TypeInv, TypeOK, JobRec, Job, Pcs
  <2>5. CleanupInv' /\ FileInv'
    BY <1>5, <1>j, <2>2 DEF ReadStalePid, TypeInv, CleanupInv, FileInv, Cleaning, JobRec, Job, Opened, Locked
  <2> QED BY <2>4, <2>5 DEF TypeInv
<1>6. ASSUME NEW w \in Workers, CheckProcessRunning(w) PROVE TypeInv'
  <2>1. \/ job' = [job EXCEPT ![w] = Job("none", "create", NoFile, NoPid)]
        \/ job' = [job EXCEPT ![w] = Idle]
        \/ job' = [job EXCEPT ![w].pc = "reclaimopen"]
    BY <1>6 DEF CheckProcessRunning, JobAfter, Idle
  <2>2. TypeOK'
    BY <1>6, <1>j, <2>1 DEF CheckProcessRunning, TypeInv, TypeOK, JobRec, Job, Pcs, Idle
  <2>3. CleanupInv' /\ FileInv'
    BY <1>6, <1>j, <2>1
       DEF CheckProcessRunning, TypeInv, CleanupInv, FileInv, Cleaning, JobRec, Job, Idle, Opened, Locked
  <2> QED BY <2>2, <2>3 DEF TypeInv
<1>7. ASSUME NEW t \in Threads, NEW w \in Workers, NEW op \in {"artifacts", "remove"},
             CleanUpAfterWorker(t, w, op) PROVE TypeInv'
  <2>1. job' = [job EXCEPT ![t] = Job(op, "reclaimopen", NoFile, w)]
    BY <1>7 DEF CleanUpAfterWorker
  <2>2. TypeOK'
    BY <1>7, <1>j, <2>1 DEF CleanUpAfterWorker, TypeInv, TypeOK, JobRec, Job, Pcs
  <2>3. \A b \in Actors : Cleaning(b) => job[b].pid # w
    BY <1>7 DEF CleanUpAfterWorker, TypeInv, CleanupInv
  <2>4. op = "artifacts" => stage[w] > 1
    BY <1>7 DEF CleanUpAfterWorker
  <2>5. CleanupInv'
    BY <1>7, <1>j, <2>1, <2>3, <2>4 DEF CleanUpAfterWorker, TypeInv, CleanupInv, Cleaning, JobRec, Job
  <2>6. FileInv'
    BY <1>7, <1>j, <2>1 DEF CleanUpAfterWorker, TypeInv, FileInv, JobRec, Job, Opened, Locked
  <2> QED BY <2>2, <2>5, <2>6 DEF TypeInv
<1>8. ASSUME NEW a \in Actors, Reclaim(a), ReclaimFails(a) PROVE TypeInv'
  <2>1. locker' \in [Files -> Workers \cup {Sup, NoOwner}]
    BY <1>8, CloseFileType, ActorKinds
       DEF Reclaim, ReclaimOpens, ReclaimLocks, ReclaimChecks, TypeInv, TypeOK, ReadLockFilePid
  <2>2. /\ stage' \in [Workers -> 0 .. ReclaimAttempts + 1]
        /\ \A b \in Actors : b # a /\ Cleaning(b) => stage'[job[b].pid] = stage[job[b].pid]
    BY <1>8, StageAfterType DEF ReclaimFails
  <2>3. PICK pc \in {"idle", "create"} :
          job' = [job EXCEPT ![a] = Job("none", pc, NoFile, NoPid)]
    BY <1>8 DEF ReclaimFails, JobAfter, Idle
  <2>4. UNCHANGED <<path, created, pidOf, alive>>
    BY <1>8 DEF Reclaim, ReclaimOpens, ReclaimLocks, ReclaimChecks
  <2>5. TypeOK'
    BY <1>j, <2>1, <2>2, <2>3, <2>4 DEF TypeInv, TypeOK, JobRec, Job, Pcs
  <2>6. CleanupInv' /\ FileInv'
    BY <1>j, <2>2, <2>3 DEF TypeInv, CleanupInv, FileInv, Cleaning, JobRec, Job, Opened, Locked
  <2> QED BY <2>5, <2>6 DEF TypeInv
<1>9. ASSUME NEW a \in Actors, Reclaim(a), ~ReclaimFails(a) PROVE TypeInv'
  <2>1. /\ UNCHANGED <<path, created, pidOf, alive, stage>>
        /\ locker' \in [Files -> Workers \cup {Sup, NoOwner}]
    BY <1>9, ActorKinds
       DEF Reclaim, ReclaimOpens, ReclaimLocks, ReclaimChecks, TypeInv, TypeOK, ReadLockFilePid
  <2>2. PICK pc \in {"reclaimlock", "reclaimcheck", "owned", "unlinkcheck"}, f \in Files :
          job' = [job EXCEPT ![a] = Job(job[a].op, pc, f, job[a].pid)]
    <3>1. CASE ReclaimOpens(a)
      BY <1>9, <1>j, <3>1 DEF ReclaimOpens, Job, JobRec
    <3>2. CASE ReclaimLocks(a) \/ ReclaimChecks(a)
      <4>1. job[a].file \in Files
        BY <3>2 DEF ReclaimLocks, ReclaimChecks, TypeInv, FileInv, Opened, Locked
      <4>2. \E pc \in {"reclaimcheck", "owned", "unlinkcheck"} : job' = [job EXCEPT ![a].pc = pc]
        BY <1>9, <3>2 DEF ReclaimLocks, ReclaimChecks, Goto
      <4>3. job[a] \in JobRec
        BY <1>j
      <4>4. \A pc : [job[a] EXCEPT !.pc = pc] = Job(job[a].op, pc, job[a].file, job[a].pid)
        BY <4>3 DEF JobRec, Job
      <4>5. \A pc : [job EXCEPT ![a].pc = pc]
                      = [job EXCEPT ![a] = Job(job[a].op, pc, job[a].file, job[a].pid)]
        BY <4>4
      <4> QED BY <4>1, <4>2, <4>5
    <3> QED BY <1>9, <3>1, <3>2 DEF Reclaim
  <2>3. TypeOK'
    BY <1>j, <2>1, <2>2 DEF TypeInv, TypeOK, JobRec, Job, Pcs
  <2>4. CleanupInv' /\ FileInv'
    BY <1>j, <2>1, <2>2 DEF TypeInv, CleanupInv, FileInv, Cleaning, JobRec, Job
  <2> QED BY <2>3, <2>4 DEF TypeInv
<1>10. ASSUME NEW w \in Workers, WorkerDies(w) PROVE TypeInv'
  <2>1. job' = [job EXCEPT ![w] = Job("none", "idle", NoFile, NoPid)]
    BY <1>10 DEF WorkerDies, Idle
  <2>2. TypeOK'
    BY <1>10, <1>j, <2>1 DEF WorkerDies, TypeInv, TypeOK, JobRec, Job, Pcs
  <2>3. CleanupInv' /\ FileInv'
    BY <1>10, <1>j, <2>1 DEF WorkerDies, TypeInv, CleanupInv, FileInv, Cleaning, JobRec, Job, Opened, Locked
  <2> QED BY <2>2, <2>3 DEF TypeInv
<1>11. CASE UNCHANGED vars
  BY <1>11 DEF vars, TypeInv, TypeOK, CleanupInv, FileInv, Cleaning
<1> QED
  BY <1>1, <1>2, <1>3, <1>4, <1>5, <1>6, <1>7, <1>8, <1>9, <1>10, <1>11, <1>j
     DEF Next, Acquire, Remove

\* Every variable of the lock model keeps its type, on any number of threads:
\* in particular no cleanup uses more than its attempts.
THEOREM LockTypeCorrect == Spec => []TypeOK
<1>1. TypeInv => TypeOK
  BY DEF TypeInv
<1> QED BY <1>1, TypeInit, TypeStep, PTL DEF Spec

-----------------------------------------------------------------------------
(* The advisory lock, on one supervisor thread.                            *)

\* What a step of actor a may do to locks for LockKept to survive: it keeps
\* every lock of another process, and has its own where it relies on it.
LEMMA LockKeptBy ==
    ASSUME OneThread, LockKept, NEW a \in Actors,
           \A b \in Actors : b # a => job'[b] = job[b],
           \A f \in Files : locker[f] \in (Workers \cup {Sup}) \ {Owner(a)} => locker'[f] = locker[f],
           job'[a].pc \in Locked => locker'[job'[a].file] = Owner(a),
           FileInv
    PROVE  LockKept'
<1> SUFFICES ASSUME NEW b \in Actors, (job[b].pc \in Locked)'
             PROVE  (locker[job[b].file] = Owner(b))'
  BY DEF LockKept, Locked
<1>1. CASE b = a
  BY <1>1 DEF Owner
<1>2. CASE b # a
  <2>1. job'[b] = job[b] /\ job[b].pc \in Locked
    BY <1>2 DEF Locked
  <2>2. locker[job[b].file] = Owner(b) /\ job[b].file \in Files
    BY <2>1 DEF LockKept, FileInv, Opened
  <2>3. Owner(b) # Owner(a) /\ Owner(b) \in Workers \cup {Sup}
    BY <1>2, OwnersDiffer, ActorKinds
  <2> QED BY <2>1, <2>2, <2>3 DEF Owner
<1> QED BY <1>1, <1>2

\* A step of a that leaves the path alone, or creates it, disturbs nobody who
\* is about to unlink.
LEMMA UnlinkInvBy ==
    ASSUME UnlinkInv, FileInv, NEW a \in Actors,
           \A b \in Actors : b # a => job'[b] = job[b],
           path = NoFile \/ path' = path,
           job'[a].pc = "unlink" => path' = job'[a].file
    PROVE  UnlinkInv'
<1> SUFFICES ASSUME NEW b \in Actors, job'[b].pc = "unlink" PROVE path' = job'[b].file
  BY DEF UnlinkInv, Names
<1>1. CASE b = a
  BY <1>1
<1>2. CASE b # a
  <2>1. job'[b] = job[b] /\ path = job[b].file
    BY <1>2 DEF UnlinkInv, Names
  <2>2. job[b].file \in Files
    BY <2>1, <1>2 DEF FileInv, Opened, Locked
  <2> QED BY <2>1, <2>2, LockAssumption DEF Files, NoFile
<1> QED BY <1>1, <1>2

\* Closing a descriptor drops no other process's lock.
LEMMA CloseKeepsOthers ==
    ASSUME TypeOK, NEW a \in Actors, NEW g, NEW f \in Files, locker[f] # Owner(a)
    PROVE  CloseFile(a, g)[f] = locker[f]
BY DEF TypeOK, CloseFile

\* Initially nobody relies on a lock.
LEMMA LockInvInit == Init => LockInv
BY TypeInit DEF Init, LockInv, LockKept, UnlinkInv, Locked, Idle, Job

\* One case per system call; each is an instance of LockKeptBy and UnlinkInvBy,
\* except the unlink itself.
LEMMA LockInvStep == OneThread /\ LockInv /\ [Next]_vars => LockInv'
<1> SUFFICES ASSUME OneThread, LockInv, [Next]_vars PROVE LockKept' /\ UnlinkInv'
  BY TypeStep DEF LockInv
<1> USE LockAssumption
<1>j. /\ job \in [Actors -> JobRec]
      /\ Workers \subseteq Actors /\ Threads \subseteq Actors
      /\ LockKept /\ UnlinkInv /\ FileInv /\ TypeOK
      /\ locker \in [Files -> Workers \cup {Sup, NoOwner}]
  BY DEF LockInv, TypeInv, TypeOK, Actors
<1>c. \A a \in Actors : \A g, f : f \in Files /\ locker[f] # Owner(a) => CloseFile(a, g)[f] = locker[f]
  BY <1>j, CloseKeepsOthers
<1>1. ASSUME NEW a \in Actors, CreateLockFile(a) PROVE LockKept' /\ UnlinkInv'
  <2>1. /\ job' = [job EXCEPT ![a] = Job("none", "lock", path', NoPid)]
        /\ locker' = locker /\ (path = NoFile \/ path' = path)
    BY <1>1 DEF CreateLockFile
  <2>2. job'[a].pc = "lock" /\ \A b \in Actors : b # a => job'[b] = job[b]
    BY <1>j, <2>1 DEF Job
  <2>3. LockKept'
    BY <1>j, <2>1, <2>2, LockKeptBy DEF Locked
  <2> QED BY <1>j, <2>1, <2>2, <2>3, UnlinkInvBy
<1>2. ASSUME NEW a \in Actors, AcquireRefused(a) \/ CloseLockFile(a) PROVE LockKept' /\ UnlinkInv'
  <2>1. PICK pc \in {"idle", "create"} : job' = [job EXCEPT ![a] = Job("none", pc, NoFile, NoPid)]
    BY <1>2 DEF AcquireRefused, CloseLockFile, JobAfter, Idle
  <2>2. job'[a].pc \in {"idle", "create"} /\ \A b \in Actors : b # a => job'[b] = job[b]
    BY <1>j, <2>1 DEF Job
  <2>3. locker' = CloseFile(a, job[a].file) /\ path' = path
    BY <1>2 DEF AcquireRefused, CloseLockFile
  <2>4. LockKept'
    BY <1>j, <1>c, <2>2, <2>3, LockKeptBy DEF Locked
  <2> QED BY <1>j, <2>2, <2>3, <2>4, UnlinkInvBy
<1>3. ASSUME NEW a \in Actors, AcquireLocks(a) PROVE LockKept' /\ UnlinkInv'
  <2>1. /\ job' = [job EXCEPT ![a].pc = "writepid"]
        /\ locker' = [locker EXCEPT ![job[a].file] = Owner(a)]
        /\ locker[job[a].file] \in {NoOwner, Owner(a)}
        /\ path' = path /\ job[a].pc = "lock"
    BY <1>3 DEF AcquireLocks, Goto, LockRefused
  <2>2. job[a].file \in Files
    BY <1>j, <2>1 DEF FileInv, Opened
  <2>3. /\ job'[a].pc = "writepid" /\ job'[a].file = job[a].file
        /\ \A b \in Actors : b # a => job'[b] = job[b]
    BY <1>j, <2>1 DEF JobRec
  <2>4. LockKept'
    BY <1>j, <2>1, <2>2, <2>3, LockKeptBy
  <2> QED BY <1>j, <2>1, <2>3, <2>4, UnlinkInvBy
<1>4. ASSUME NEW a \in Actors, WritePid(a) \/ CompareLockPath(a) \/ RemoveArtifacts(a)
      PROVE LockKept' /\ UnlinkInv'
  <2>1. PICK pc \in {"held", "unlink", "close", "unlinkcheck"} :
          /\ job' = [job EXCEPT ![a].pc = pc]
          /\ pc = "unlink" => Names(a)
    BY <1>4 DEF WritePid, CompareLockPath, RemoveArtifacts, Goto, LockPathNamesFile
  <2>2. /\ job'[a].pc = pc /\ job'[a].file = job[a].file
        /\ \A b \in Actors : b # a => job'[b] = job[b]
    BY <1>j, <2>1 DEF JobRec
  <2>3. locker' = locker /\ path' = path /\ job[a].pc \in Locked
    BY <1>4 DEF WritePid, CompareLockPath, RemoveArtifacts, Locked
  <2>4. LockKept'
    BY <1>j, <2>2, <2>3, LockKeptBy DEF LockKept
  <2> QED BY <1>j, <2>1, <2>2, <2>3, <2>4, UnlinkInvBy DEF Names
<1>5. ASSUME NEW a \in Actors, RemoveLockFile(a) PROVE LockKept' /\ UnlinkInv'
  <2>1. /\ job' = [job EXCEPT ![a].pc = "close"] /\ locker' = locker /\ job[a].pc = "unlink"
    BY <1>5 DEF RemoveLockFile, Goto
  <2>2. job'[a].pc = "close" /\ \A b \in Actors : b # a => job'[b] = job[b]
    BY <1>j, <2>1 DEF JobRec
  <2>3. LockKept'
    BY <1>j, <2>1, <2>2, LockKeptBy DEF Locked
  \* Nobody else is about to unlink: two actors cannot hold one file's lock.
  <2>4. \A b \in Actors : b # a => job[b].pc # "unlink"
    <3> SUFFICES ASSUME NEW b \in Actors, b # a, job[b].pc = "unlink" PROVE FALSE
      OBVIOUS
    <3>1. job[a].file = job[b].file
      BY <1>j, <2>1 DEF UnlinkInv, Names
    <3>2. locker[job[a].file] = Owner(a) /\ locker[job[b].file] = Owner(b)
      BY <1>j, <2>1 DEF LockKept, Locked
    <3> QED BY <3>1, <3>2, OwnersDiffer
  <2> QED BY <2>2, <2>3, <2>4 DEF UnlinkInv
<1>6. ASSUME NEW w \in Workers, ReadStalePid(w) PROVE LockKept' /\ UnlinkInv'
  <2>1. PICK pc \in {"reclaimopen", "signal"} :
          job' = [job EXCEPT ![w] = Job("force", pc, NoFile, pidOf[path])]
    BY <1>6 DEF ReadStalePid
  <2>2. job'[w].pc \in {"reclaimopen", "signal"} /\ \A b \in Actors : b # w => job'[b] = job[b]
    BY <1>j, <2>1 DEF Job
  <2>3. locker' = CloseFile(w, path) /\ path' = path
    BY <1>6 DEF ReadStalePid
  <2>4. LockKept'
    BY <1>j, <1>c, <2>2, <2>3, LockKeptBy DEF Locked
  <2> QED BY <1>j, <2>2, <2>3, <2>4, UnlinkInvBy
<1>7. ASSUME NEW a \in Actors,
             \/ a \in Workers /\ CheckProcessRunning(a)
             \/ \E w \in Workers, op \in {"artifacts", "remove"} : CleanUpAfterWorker(a, w, op)
      PROVE  LockKept' /\ UnlinkInv'
  <2>1. /\ locker' = locker /\ path' = path
        /\ job'[a].pc \in {"idle", "create", "reclaimopen"}
        /\ \A b \in Actors : b # a => job'[b] = job[b]
    <3>1. CASE CheckProcessRunning(a)
      BY <1>j, <3>1 DEF CheckProcessRunning, JobAfter, Idle, Job, JobRec
    <3>2. ASSUME NEW w \in Workers, NEW op \in {"artifacts", "remove"}, CleanUpAfterWorker(a, w, op)
          PROVE  <2>1!1 /\ <2>1!2 /\ <2>1!3
      BY <1>j, <3>2 DEF CleanUpAfterWorker, Job
    <3> QED BY <1>7, <3>1, <3>2
  <2>2. LockKept'
    BY <1>j, <2>1, LockKeptBy DEF Locked
  <2> QED BY <1>j, <2>1, <2>2, UnlinkInvBy
<1>8. ASSUME NEW a \in Actors, Reclaim(a), ReclaimFails(a) PROVE LockKept' /\ UnlinkInv'
  <2>1. PICK pc \in {"idle", "create"} : job' = [job EXCEPT ![a] = Job("none", pc, NoFile, NoPid)]
    BY <1>8 DEF ReclaimFails, JobAfter, Idle
  <2>2. job'[a].pc \in {"idle", "create"} /\ \A b \in Actors : b # a => job'[b] = job[b]
    BY <1>j, <2>1 DEF Job
  <2>3. path' = path /\ (locker' = locker \/ locker' = CloseFile(a, job[a].file))
    <3>1. CASE ReclaimOpens(a)
      BY <3>1 DEF ReclaimOpens
    <3>2. CASE ReclaimLocks(a)
      <4>1. ~Goto(a, "reclaimcheck") \/ LockRefused(a)
        BY <1>j, <2>2 DEF Goto, JobRec
      <4> QED BY <3>2, <4>1 DEF ReclaimLocks
    <3>3. CASE ReclaimChecks(a)
      BY <3>3 DEF ReclaimChecks, ReadLockFilePid
    <3> QED BY <1>8, <3>1, <3>2, <3>3 DEF Reclaim
  <2>4. LockKept'
    BY <1>j, <1>c, <2>2, <2>3, LockKeptBy DEF Locked
  <2> QED BY <1>j, <2>2, <2>3, <2>4, UnlinkInvBy
<1>9. ASSUME NEW a \in Actors, ReclaimOpens(a), ~ReclaimFails(a) PROVE LockKept' /\ UnlinkInv'
  <2>1. /\ job' = [job EXCEPT ![a].pc = "reclaimlock", ![a].file = path]
        /\ locker' = locker /\ path' = path
    BY <1>9 DEF ReclaimOpens
  <2>2. job'[a].pc = "reclaimlock" /\ \A b \in Actors : b # a => job'[b] = job[b]
    BY <1>j, <2>1 DEF JobRec
  <2>3. LockKept'
    BY <1>j, <2>1, <2>2, LockKeptBy DEF Locked
  <2> QED BY <1>j, <2>1, <2>2, <2>3, UnlinkInvBy
<1>10. ASSUME NEW a \in Actors, ReclaimLocks(a), ~ReclaimFails(a) PROVE LockKept' /\ UnlinkInv'
  <2>1. /\ job' = [job EXCEPT ![a].pc = "reclaimcheck"]
        /\ locker' = [locker EXCEPT ![job[a].file] = Owner(a)]
        /\ locker[job[a].file] \in {NoOwner, Owner(a)}
        /\ path' = path /\ job[a].pc = "reclaimlock"
    BY <1>10 DEF ReclaimLocks, Goto, LockRefused
  <2>2. job[a].file \in Files
    BY <1>j, <2>1 DEF FileInv, Opened
  <2>3. /\ job'[a].pc = "reclaimcheck" /\ job'[a].file = job[a].file
        /\ \A b \in Actors : b # a => job'[b] = job[b]
    BY <1>j, <2>1 DEF JobRec
  <2>4. LockKept'
    BY <1>j, <2>1, <2>2, <2>3, LockKeptBy
  <2> QED BY <1>j, <2>1, <2>3, <2>4, UnlinkInvBy
<1>11. ASSUME NEW a \in Actors, ReclaimChecks(a), ~ReclaimFails(a) PROVE LockKept' /\ UnlinkInv'
  <2>1. PICK pc \in {"owned", "unlinkcheck"} : job' = [job EXCEPT ![a].pc = pc]
    BY <1>11 DEF ReclaimChecks, Goto
  <2>2. /\ job'[a].pc = pc /\ job'[a].file = job[a].file
        /\ \A b \in Actors : b # a => job'[b] = job[b]
    BY <1>j, <2>1 DEF JobRec
  <2>3. locker' = locker /\ path' = path /\ job[a].pc = "reclaimcheck"
    BY <1>11 DEF ReclaimChecks, ReadLockFilePid
  <2>4. LockKept'
    BY <1>j, <2>2, <2>3, LockKeptBy DEF LockKept, Locked
  <2> QED BY <1>j, <2>2, <2>3, <2>4, UnlinkInvBy
<1>12. ASSUME NEW w \in Workers, WorkerDies(w) PROVE LockKept' /\ UnlinkInv'
  <2>1. /\ job' = [job EXCEPT ![w] = Idle]
        /\ locker' = [f \in Files |-> IF locker[f] = w THEN NoOwner ELSE locker[f]]
        /\ path' = path /\ Owner(w) = w
    BY <1>12 DEF WorkerDies, Owner
  <2>2. job'[w].pc = "idle" /\ \A b \in Actors : b # w => job'[b] = job[b]
    BY <1>j, <2>1 DEF Idle, Job
  <2>3. LockKept'
    BY <1>j, <2>1, <2>2, LockKeptBy DEF Locked
  <2> QED BY <1>j, <2>1, <2>2, <2>3, UnlinkInvBy
<1>13. CASE UNCHANGED vars
  BY <1>j, <1>13 DEF vars, LockKept, UnlinkInv, Names, Owner
<1> QED
  BY <1>1, <1>2, <1>3, <1>4, <1>5, <1>6, <1>7, <1>8, <1>9, <1>10, <1>11, <1>12, <1>13, <1>j
     DEF Next, Acquire, Remove, Reclaim

\* A step never takes the path from a process that holds the database.
LEMMA HolderStep ==
    ASSUME OneThread, LockInv, [Next]_vars, NEW a \in Actors,
           job[a].pc = "held", Names(a), job'[a].pc = "held"
    PROVE  path' = path
<1>1. job[a].file \in Files /\ locker[job[a].file] = Owner(a) /\ path # NoFile
  BY LockAssumption DEF LockInv, TypeInv, FileInv, LockKept, Opened, Locked, Names, Files, NoFile
<1>2. ASSUME NEW b \in Actors, RemoveLockFile(b) PROVE FALSE
  <2>1. job[b].pc = "unlink" /\ job[b].file = job[a].file
    BY <1>2 DEF RemoveLockFile, LockInv, UnlinkInv, Names
  <2>2. locker[job[b].file] = Owner(b)
    BY <2>1 DEF LockInv, LockKept, Locked
  <2> QED BY <1>1, <2>1, <2>2, OwnersDiffer
<1>3. ASSUME NEW b \in Actors, CreateLockFile(b) PROVE path' = path
  BY <1>1, <1>3 DEF CreateLockFile
<1> QED
  BY <1>2, <1>3
     DEF Next, vars, Acquire, Remove, Reclaim, AcquireRefused, AcquireLocks, WritePid, CompareLockPath,
         CloseLockFile, ReclaimOpens, ReclaimLocks, ReclaimChecks, ReadStalePid, CheckProcessRunning,
         WorkerDies, RemoveArtifacts, CleanUpAfterWorker

\* On one supervisor thread a process never loses the advisory lock it relies
\* on: closing other descriptors, refused attempts and reclaims all leave it.
THEOREM LockIsKept == OneThread /\ Spec => []LockKept
<1>1. LockInv => LockKept
  BY DEF LockInv
<1>2. OneThread /\ Init => LockInv
  BY LockInvInit
<1>3. SUFFICES ASSUME OneThread PROVE Spec => []LockKept
  OBVIOUS
<1>4. LockInv /\ [Next]_vars => LockInv'
  BY <1>3, LockInvStep
<1> QED BY <1>1, <1>2, <1>3, <1>4, LockInvInit, PTL DEF Spec

\* On one supervisor thread the lock file of a process that holds a database
\* is not unlinked by anybody else: not by another release, a forced open or a
\* cleanup that comes late.
THEOREM PathStaysWithHolder == OneThread /\ Spec => HolderKeepsPath
<1>1. SUFFICES ASSUME OneThread PROVE Spec => HolderKeepsPath
  OBVIOUS
<1>2. LockInv /\ [Next]_vars => LockInv'
  BY <1>1, LockInvStep
<1>3. LockInv /\ [Next]_vars =>
        [\A a \in Actors : job[a].pc = "held" /\ Names(a) /\ job'[a].pc = "held" => path' = path]_vars
  BY <1>1, HolderStep
<1> QED BY <1>2, <1>3, LockInvInit, PTL DEF Spec, HolderKeepsPath

\* On one supervisor thread, artifacts are removed only while no worker has the
\* database open under the reclaimed file.
THEOREM CleanupIsExclusive == OneThread /\ Spec => []CleanupExcludesOwners
<1>1. SUFFICES ASSUME OneThread PROVE Spec => []CleanupExcludesOwners
  OBVIOUS
<1>2. LockInv => CleanupExcludesOwners
  BY LockAssumption DEF LockInv, LockKept, CleanupExcludesOwners, Locked, Owner, Actors
<1>3. LockInv /\ [Next]_vars => LockInv'
  BY <1>1, LockInvStep
<1> QED BY <1>2, <1>3, LockInvInit, PTL DEF Spec
-----------------------------------------------------------------------------
(* Locks are not leaked, on any number of threads.                         *)

\* Outside the positions with a descriptor an actor remembers no file.
DescriptorInv == \A a \in Actors : job[a].pc \notin Opened => job[a].file = NoFile

LeakInv == TypeInv /\ DescriptorInv /\ NoLeakedLock

\* What a step of actor a may do for LeakInv to survive: it keeps its file or
\* gives up its lock with it, and takes only the lock of its file.
LEMMA LeakFreeBy ==
    ASSUME LeakInv, NEW a \in Actors,
           \A b \in Actors : b # a => job'[b] = job[b],
           \A f \in Files : \/ locker'[f] \in {locker[f], NoOwner}
                            \/ locker'[f] = Owner(a) /\ job'[a].file = f,
           \A f \in Files : job[a].file = f /\ job'[a].file # f => locker'[f] # Owner(a),
           job'[a].pc \notin Opened => job'[a].file = NoFile
    PROVE  DescriptorInv' /\ NoLeakedLock'
<1>1. DescriptorInv'
  BY DEF LeakInv, DescriptorInv
<1>2. ASSUME NEW f \in Files, locker'[f] # NoOwner
      PROVE  \E b \in Actors : Owner(b) = locker'[f] /\ job'[b].file = f
  <2>1. CASE locker'[f] = locker[f]
    <3>1. PICK b \in Actors : Owner(b) = locker[f] /\ job[b].file = f
      BY <1>2, <2>1 DEF LeakInv, NoLeakedLock
    <3> QED BY <2>1, <3>1
  <2>2. CASE locker'[f] = Owner(a) /\ job'[a].file = f
    BY <2>2
  <2> QED BY <1>2, <2>1, <2>2
<1> QED BY <1>1, <1>2 DEF NoLeakedLock, Owner

\* close(2) leaves the other locks alone and none of the process on the inode.
LEMMA CloseFileDrops ==
    ASSUME TypeOK, NEW a \in Actors, NEW f
    PROVE  /\ \A g \in Files : CloseFile(a, f)[g] \in {locker[g], NoOwner}
           /\ f \in Files => CloseFile(a, f)[f] # Owner(a)
BY ActorKinds DEF TypeOK, CloseFile

\* An actor that is done, or goes on to acquire, remembers no file.
LEMMA NoFileAfter ==
    /\ \A a : JobAfter(a).file = NoFile
    /\ Idle.file = NoFile
    /\ \A op, pc, f, pid : Job(op, pc, f, pid).file = f
BY DEF JobAfter, Idle, Job

\* Nothing is locked at first.
LEMMA LeakInit == Init => LeakInv
BY TypeInit DEF Init, LeakInv, DescriptorInv, NoLeakedLock, Idle, Job

\* Every step keeps or closes what it locked.
LEMMA LeakStep == LeakInv /\ [Next]_vars => LeakInv'
<1> SUFFICES ASSUME LeakInv, [Next]_vars PROVE LeakInv'
  OBVIOUS
<1>t. TypeInv'
  BY TypeStep DEF LeakInv
<1>j. /\ TypeOK /\ FileInv /\ DescriptorInv
      /\ job \in [Actors -> JobRec]
      /\ locker \in [Files -> Workers \cup {Sup, NoOwner}]
      /\ Workers \subseteq Actors /\ Threads \subseteq Actors
      /\ NoFile \notin Files
  BY DEF LeakInv, TypeInv, TypeOK, Actors, Files, NoFile
<1> USE DEF Opened, Locked
<1>1. ASSUME NEW a \in Actors, CreateLockFile(a) PROVE LeakInv'
  <2>1. job' = [job EXCEPT ![a] = Job("none", "lock", path', NoPid)] /\ locker' = locker
    BY <1>1 DEF CreateLockFile
  <2>2. job[a].file \notin Files
    BY <1>1, <1>j DEF CreateLockFile, DescriptorInv
  <2> QED BY <1>j, <1>t, <2>1, <2>2, LeakFreeBy DEF LeakInv, Job
<1>2. ASSUME NEW a \in Actors, NEW j, job' = [job EXCEPT ![a] = j],
             j.file = NoFile, locker' = CloseFile(a, job[a].file)
      PROVE  LeakInv'
  BY <1>2, <1>j, <1>t, CloseFileDrops, LeakFreeBy DEF LeakInv
<1>3. ASSUME NEW a \in Actors, NEW pc \in Opened, job' = [job EXCEPT ![a].pc = pc],
             locker' = locker \/ locker' = [locker EXCEPT ![job[a].file] = Owner(a)]
      PROVE  LeakInv'
  <2>1. \A b \in Actors : job'[b].file = job[b].file /\ (b # a => job'[b] = job[b])
    BY <1>3, <1>j DEF JobRec
  <2>2. job'[a].pc \in Opened
    BY <1>3, <1>j DEF JobRec
  <2>3. \A f \in Files : \/ locker'[f] \in {locker[f], NoOwner}
                         \/ locker'[f] = Owner(a) /\ job'[a].file = f
    BY <1>3, <1>j, <2>1
  <2> QED BY <1>t, <2>1, <2>2, <2>3, LeakFreeBy DEF LeakInv
<1>4. ASSUME NEW a \in Actors, NEW j, job' = [job EXCEPT ![a] = j], j.file = NoFile,
             job[a].pc \notin Opened, locker' = locker
      PROVE  LeakInv'
  <2>1. job[a].file = NoFile
    BY <1>4, <1>j DEF DescriptorInv
  <2> QED BY <1>4, <1>j, <1>t, <2>1, LeakFreeBy DEF LeakInv
<1>5. ASSUME NEW a \in Actors, Acquire(a) \/ Remove(a) PROVE LeakInv'
  <2>1. CASE AcquireRefused(a) \/ CloseLockFile(a)
    <3>1. \E j : job' = [job EXCEPT ![a] = j] /\ j.file = NoFile
      BY <2>1, NoFileAfter DEF AcquireRefused, CloseLockFile
    <3>2. locker' = CloseFile(a, job[a].file)
      BY <2>1 DEF AcquireRefused, CloseLockFile
    <3> QED BY <1>2, <3>1, <3>2
  <2>2. CASE AcquireLocks(a) \/ WritePid(a) \/ CompareLockPath(a) \/ RemoveLockFile(a)
    BY <1>3, <2>2 DEF AcquireLocks, WritePid, CompareLockPath, RemoveLockFile, Goto
  <2> QED BY <1>1, <1>5, <2>1, <2>2 DEF Acquire, Remove
<1>6. ASSUME NEW a \in Actors, Reclaim(a) PROVE LeakInv'
  <2>1. CASE ReclaimOpens(a)
    <3>1. CASE path = NoFile
      <4>1. \E j : job' = [job EXCEPT ![a] = j] /\ j.file = NoFile
        BY <2>1, <3>1, NoFileAfter DEF ReclaimOpens, ReclaimFails
      <4>2. job[a].pc \notin Opened /\ locker' = locker
        BY <2>1 DEF ReclaimOpens
      <4> QED BY <1>4, <4>1, <4>2
    <3>2. CASE path # NoFile
      <4>1. job' = [job EXCEPT ![a].pc = "reclaimlock", ![a].file = path] /\ locker' = locker
        BY <2>1, <3>2 DEF ReclaimOpens
      <4>2. job[a].file \notin Files
        BY <1>j, <2>1 DEF ReclaimOpens, DescriptorInv
      <4>3. job'[a].pc = "reclaimlock"
        BY <4>1, <1>j DEF JobRec
      <4> QED BY <1>j, <1>t, <4>1, <4>2, <4>3, LeakFreeBy DEF LeakInv
    <3> QED BY <3>1, <3>2
  <2>2. CASE ReclaimLocks(a) \/ ReclaimChecks(a)
    <3>1. CASE ReclaimFails(a) /\ locker' = CloseFile(a, job[a].file)
      <4>1. \E j : job' = [job EXCEPT ![a] = j] /\ j.file = NoFile
        BY <3>1, NoFileAfter DEF ReclaimFails
      <4> QED BY <1>2, <3>1, <4>1
    <3>2. CASE ~(ReclaimFails(a) /\ locker' = CloseFile(a, job[a].file))
      <4>1. \E pc \in Opened : job' = [job EXCEPT ![a].pc = pc]
        BY <2>2, <3>2 DEF ReclaimLocks, ReclaimChecks, Goto
      <4>2. locker' = locker \/ locker' = [locker EXCEPT ![job[a].file] = Owner(a)]
        BY <2>2, <3>2 DEF ReclaimLocks, ReclaimChecks, ReadLockFilePid
      <4> QED BY <1>3, <4>1, <4>2
    <3> QED BY <3>1, <3>2
  <2> QED BY <1>6, <2>1, <2>2 DEF Reclaim
<1>7. ASSUME NEW w \in Workers, ReadStalePid(w) PROVE LeakInv'
  <2>1. PICK pc, p : job' = [job EXCEPT ![w] = Job("force", pc, NoFile, p)]
    BY <1>7 DEF ReadStalePid
  <2>2. job[w].file = NoFile
    BY <1>7, <1>j DEF ReadStalePid, DescriptorInv
  <2>3. \A g \in Files : locker'[g] \in {locker[g], NoOwner}
    BY <1>7, <1>j, CloseFileDrops DEF ReadStalePid
  <2>4. job'[w].file = NoFile /\ \A b \in Actors : b # w => job'[b] = job[b]
    BY <1>j, <2>1, NoFileAfter
  <2> QED BY <1>j, <1>t, <2>2, <2>3, <2>4, LeakFreeBy DEF LeakInv
<1>8. ASSUME NEW w \in Workers, CheckProcessRunning(w) PROVE LeakInv'
  <2>1. job[w].file = NoFile /\ job[w].pc \notin Opened
    BY <1>8, <1>j DEF CheckProcessRunning, DescriptorInv
  <2>2. PICK j : job' = [job EXCEPT ![w] = j] /\ j.file = NoFile
    <3>1. job[w] \in JobRec /\ [job[w] EXCEPT !.pc = "reclaimopen"].file = NoFile
      BY <1>j, <2>1 DEF JobRec
    <3> QED BY <1>8, <1>j, <3>1, NoFileAfter DEF CheckProcessRunning
  <2> QED BY <1>4, <1>8, <1>j, <2>1, <2>2 DEF CheckProcessRunning
<1>9. ASSUME NEW w \in Workers, WorkerDies(w) PROVE LeakInv'
  <2>1. job' = [job EXCEPT ![w] = Idle]
    BY <1>9 DEF WorkerDies
  <2>2. \A f \in Files : locker'[f] \in {locker[f], NoOwner} /\ locker'[f] # Owner(w)
    BY <1>9, ActorKinds, LockAssumption DEF WorkerDies, Owner
  <2> QED BY <1>j, <1>t, <2>1, <2>2, LeakFreeBy DEF LeakInv, Idle, Job
<1>10. ASSUME NEW t \in Threads, RemoveArtifacts(t) PROVE LeakInv'
  BY <1>3, <1>10, <1>j DEF RemoveArtifacts, Goto
<1>11. ASSUME NEW t \in Threads, NEW w \in Workers, NEW op \in {"artifacts", "remove"},
             CleanUpAfterWorker(t, w, op) PROVE LeakInv'
  <2>1. job' = [job EXCEPT ![t] = Job(op, "reclaimopen", NoFile, w)] /\ locker' = locker
    BY <1>11 DEF CleanUpAfterWorker
  <2>2. Job(op, "reclaimopen", NoFile, w).file = NoFile
    BY DEF Job
  <2> QED BY <1>4, <1>11, <1>j, <2>1, <2>2 DEF CleanUpAfterWorker
<1>12. CASE UNCHANGED vars
  BY <1>12, <1>t DEF vars, LeakInv, DescriptorInv, NoLeakedLock
<1> QED BY <1>5, <1>6, <1>7, <1>8, <1>9, <1>10, <1>11, <1>12 DEF Next

\* A locked inode is always in use by an actor of the process that locked it,
\* also with several supervisor threads that drop each other's locks: neither
\* a death nor an early return of lock.rs leaves a database locked out.
THEOREM NoLockIsLeaked == Spec => []NoLeakedLock
<1>1. LeakInv => NoLeakedLock
  BY DEF LeakInv
<1> QED BY <1>1, LeakInit, LeakStep, PTL DEF Spec
=============================================================================
