------------------------ MODULE WorkerPoolLossProofs ------------------------
(* Nothing of the pool is lost: no child process, no leased worker, no      *)
(* wake-up of a waiting request, and nothing survives shutdown_all.  The    *)
(* theorems hold for every value of the constants of WorkerPool and build   *)
(* on the inductive invariant PoolInv.                                      *)
EXTENDS WorkerPoolProofs

USE DEF LeaseId, SpawnGuard, Unreserve

-----------------------------------------------------------------------------
(* Child processes.  A running process belongs to a slot in use, or its     *)
(* slot is dead and whoever marked it has not ended the process yet.        *)

ProcessOK(w) ==
    process[w] = "up" =>
      \/ child[w].state \in {"idle", "leased", "closing"}
      \/ child[w].state = "dead" /\ retire[w].pc \in {"taken", "forgotten"}

ProcessInv == \A w \in Ids : ProcessOK(w)

\* Steps that leave slots, processes and retirements alone.
LEMMA ProcessKept ==
  ASSUME ProcessInv, UNCHANGED <<child, process, retire>>
  PROVE  ProcessInv'
  BY DEF ProcessInv, ProcessOK

\* Marking a slot dead begins its retirement.
LEMMA ProcessTaken ==
  ASSUME TypeInv, ProcessInv, NEW w \in Ids, NEW by, TakeDeadWorker(w, by), UNCHANGED process
  PROVE  ProcessInv'
<1>1. ProcessOK(w)'
  BY DEF TakeDeadWorker, Child, ProcessOK, TypeInv, TypeOK
<1>2. \A v \in Ids : v # w => ProcessOK(v)'
  BY DEF TakeDeadWorker, ProcessInv, ProcessOK, TypeInv, TypeOK
<1> QED BY <1>1, <1>2 DEF ProcessInv

\* A retirement moves on once the process has ended.
LEMMA ProcessEnded ==
  ASSUME TypeInv, ProcessInv, NEW w \in Ids, process' = [process EXCEPT ![w] = "gone"],
         \A v \in Ids : v # w => retire'[v] = retire[v], UNCHANGED child
  PROVE  ProcessInv'
<1>1. ProcessOK(w)'
  BY DEF ProcessOK, TypeInv, TypeOK
<1>2. \A v \in Ids : v # w => ProcessOK(v)'
  BY DEF ProcessInv, ProcessOK, TypeInv, TypeOK
<1> QED BY <1>1, <1>2 DEF ProcessInv

LEMMA StartupsProcess == ASSUME TypeInv, SlotInv, ProcessInv, Startups PROVE ProcessInv'
<1>1. ASSUME WarmMin PROVE ProcessInv'
  BY <1>1, ProcessKept DEF WarmMin, slotVars
<1>2. ASSUME NEW id \in Ids, SpawnSlot(id) PROVE ProcessInv'
  <2>1. ProcessOK(id)'
    BY <1>2 DEF SpawnSlot, ProcessOK, Child, TypeInv, TypeOK
  <2>2. \A v \in Ids : v # id => ProcessOK(v)'
    BY <1>2 DEF SpawnSlot, ProcessInv, ProcessOK, TypeInv, TypeOK
  <2> QED BY <2>1, <2>2 DEF ProcessInv
<1>3. ASSUME NEW id \in Ids, SpawnFails(id) \/ InstallSlot(id) \/ ReleaseReservation(id)
      PROVE  ProcessInv'
  BY <1>3, ProcessKept DEF SpawnFails, InstallSlot, ReleaseReservation, slotVars
<1>4. ASSUME NEW id \in Ids, DiscardAtShutdown(id) PROVE ProcessInv'
  <2>1. TakeDeadWorker(id, "startup") /\ UNCHANGED process
    BY <1>4 DEF DiscardAtShutdown, DiscardUninstalledSlot, TakeDeadWorker
  <2> QED BY <2>1, ProcessTaken
<1> QED BY <1>1, <1>2, <1>3, <1>4 DEF Startups

LEMMA LeaseRequestsProcess == ASSUME TypeInv, SlotInv, ProcessInv, LeaseRequests PROVE ProcessInv'
<1>1. ASSUME NEW c \in Clients, NEW w \in Ids, LeaseIdle(c, w) PROVE ProcessInv'
  <2>1. child[w].state = "idle" /\ child'[w].state = "leased"
    BY <1>1 DEF LeaseIdle, IdleChildren, Child, TypeInv, TypeOK
  <2>2. \A v \in Ids : v # w => child'[v] = child[v]
    BY <1>1 DEF LeaseIdle, TypeInv, TypeOK
  <2> QED BY <1>1, <2>1, <2>2 DEF LeaseIdle, ProcessInv, ProcessOK
<1>2. ASSUME NEW c \in Clients, RequestLease(c) \/ LeaseNew(c) \/ LeaseWaitsOrFails(c)
                                  \/ LeaseRefused(c) \/ LeaseEnds(c)
      PROVE  ProcessInv'
  <2>1. UNCHANGED slotVars
    BY <1>2 DEF RequestLease, LeaseNew, LeaseWaitsOrFails, LeaseRefused, LeaseEnds
  <2> QED BY <2>1, ProcessKept DEF slotVars
<1>3. ASSUME NEW c \in Clients, LeaseEndsInStartup(c) PROVE ProcessInv'
  <2>1. PICK id \in Ids : id = request[c].worker
    BY <1>3 DEF LeaseEndsInStartup, TypeInv, HandleBound
  <2>2. AbandonStartup(id)
    BY <1>3, <2>1 DEF LeaseEndsInStartup
  <2>3. CASE UNCHANGED <<child, process, retire>>
    BY <2>3, ProcessKept
  <2>4. CASE DiscardUninstalledSlot(id) /\ UNCHANGED process
    BY <2>4, ProcessTaken DEF DiscardUninstalledSlot, TakeDeadWorker
  <2>5. CASE /\ process' = [process EXCEPT ![id] = "gone"]
             /\ retire' = [retire EXCEPT ![id].pc = "done"] /\ UNCHANGED child
    <3>1. \A v \in Ids : v # id => retire'[v] = retire[v]
      BY <2>5 DEF TypeInv, TypeOK
    <3> QED BY <2>5, <3>1, ProcessEnded
  <2> QED BY <2>2, <2>3, <2>4, <2>5 DEF AbandonStartup
<1> QED BY <1>1, <1>2, <1>3 DEF LeaseRequests

\* A retirement awaited by a future.
LEMMA RetireInlineProcess ==
  ASSUME TypeInv, ProcessInv, NEW f \in Futures, future[f].pc # "none", RetireInline(f),
         UNCHANGED process
  PROVE  ProcessInv'
<1>1. future[f].worker \in Ids
  BY FutureHandle
<1> QED BY <1>1, ProcessTaken, ProcessKept DEF RetireInline

LEMMA CallsProcess == ASSUME TypeInv, ProcessInv, Calls PROVE ProcessInv'
<1>1. ASSUME NEW f \in Futures, CallRetires(f) \/ ReopenRetires(f) PROVE ProcessInv'
  BY <1>1, RetireInlineProcess DEF CallRetires, ReopenRetires
<1>2. ASSUME NEW f \in Futures,
             AdmitCall(f) \/ CallNeverDispatched(f) \/ CallSettles(f) \/ ReopenTakes(f)
      PROVE  ProcessInv'
  <2>1. UNCHANGED slotVars
    BY <1>2 DEF AdmitCall, CallNeverDispatched, CallSettles, ReopenTakes
  <2> QED BY <2>1, ProcessKept DEF slotVars
<1>3. ASSUME NEW f \in Futures, NEW h \in handles, CallTool(f, h) \/ Reopen(f, h)
      PROVE  ProcessInv'
  BY <1>3, ProcessKept DEF CallTool, Reopen, slotVars
<1> QED BY <1>1, <1>2, <1>3 DEF Calls

LEMMA ReleasesProcess == ASSUME TypeInv, CallInv, ProcessInv, Releases PROVE ProcessInv'
<1>1. ASSUME NEW f \in Futures, ReleaseRetires(f) PROVE ProcessInv'
  BY <1>1, RetireInlineProcess DEF ReleaseRetires
<1>2. ASSUME NEW f \in Futures, NEW h \in handles, Release(f, h) PROVE ProcessInv'
  BY <1>2, ProcessKept DEF Release, slotVars
<1>3. ASSUME NEW f \in Futures, ScheduleIdleReap(f) PROVE ProcessInv'
  BY <1>3, ProcessKept DEF ScheduleIdleReap
<1>4. ASSUME NEW f \in Futures, ReleaseLocks(f) \/ ReleaseCloses(f) PROVE ProcessInv'
  <2>1. future[f].worker \in Ids
    BY <1>4, FutureHandle DEF ReleaseLocks, ReleaseCloses
  <2>2. \A v \in Ids : child'[v] = child[v] \/ child'[v].state \in {"idle", "closing"}
    BY <1>4, <2>1 DEF ReleaseLocks, ReleaseCloses, Child, TypeInv, TypeOK
  <2> QED BY <1>4, <2>2 DEF ReleaseLocks, ReleaseCloses, ProcessInv, ProcessOK
<1> QED BY <1>1, <1>2, <1>3, <1>4 DEF Releases

LEMMA DropsProcess == ASSUME TypeInv, ProcessInv, Drops PROVE ProcessInv'
<1>1. ASSUME NEW f \in Futures, DropUnarmed(f) \/ DropArmed(f) PROVE ProcessInv'
  BY <1>1, ProcessKept DEF DropUnarmed, DropArmed, slotVars
<1>2. ASSUME NEW f \in Futures, DropRetiring(f) PROVE ProcessInv'
  <2>1. PICK w \in Ids : w = future[f].worker
    BY <1>2, FutureHandle DEF DropRetiring
  <2>2. \A v \in Ids : v # w => retire'[v] = retire[v]
    BY <1>2, <2>1 DEF DropRetiring, TypeInv, TypeOK
  <2> QED BY <1>2, <2>1, <2>2, ProcessEnded DEF DropRetiring
<1> QED BY <1>1, <1>2 DEF Drops

LEMMA RetirementsProcess == ASSUME TypeInv, SlotInv, ProcessInv, Retirements PROVE ProcessInv'
<1>1. ASSUME NEW w \in Ids, ForgetSlot(w) PROVE ProcessInv'
  <2>1. \A v \in Ids : retire'[v] = retire[v] \/ retire'[v].pc = "forgotten"
    BY <1>1 DEF ForgetSlot, TypeInv, TypeOK, RetireRec
  <2> QED BY <1>1, <2>1 DEF ForgetSlot, ProcessInv, ProcessOK
<1>2. ASSUME NEW w \in Ids, FinishDeadWorker(w) PROVE ProcessInv'
  <2>1. \A v \in Ids : v # w => retire'[v] = retire[v]
    BY <1>2 DEF FinishDeadWorker, TypeInv, TypeOK
  <2> QED BY <1>2, <2>1, ProcessEnded DEF FinishDeadWorker
<1>3. ASSUME NEW w \in Ids, Replenish(w) PROVE ProcessInv'
  <2>1. process[w] # "up"
    BY <1>3 DEF Replenish, ProcessInv, ProcessOK, SlotInv, SlotOK
  <2>2. \A v \in Ids : v # w => retire'[v] = retire[v]
    BY <1>3 DEF Replenish, TypeInv, TypeOK
  <2> QED BY <1>3, <2>1, <2>2 DEF Replenish, ProcessInv, ProcessOK
<1>4. ASSUME NEW w \in Ids, IdleReap(w) PROVE ProcessInv'
  BY <1>4, ProcessTaken, ProcessKept DEF IdleReap
<1>5. ASSUME NEW w \in Ids, ProbeMarksDead(w) PROVE ProcessInv'
  BY <1>5, ProcessTaken DEF ProbeMarksDead
<1>6. ASSUME NEW w \in Ids, ProbeForgetsDead(w) PROVE ProcessInv'
  BY <1>6, ProcessKept DEF ProbeForgetsDead, slotVars
<1>7. ASSUME NEW w \in Ids, ProcessDies(w) PROVE ProcessInv'
  BY <1>7, ProcessEnded DEF ProcessDies
<1>8. ASSUME NEW w \in Ids, NEW l \in Leases, AbandonedCallEnds(w, l) PROVE ProcessInv'
  BY <1>8, ProcessKept DEF AbandonedCallEnds
<1>9. ASSUME NEW h \in guards, GuardRetires(h) PROVE ProcessInv'
  <2>1. h.worker \in Ids
    BY DEF TypeInv, TypeOK, Handle
  <2> QED BY <1>9, <2>1, ProcessTaken, ProcessKept DEF GuardRetires
<1> QED BY <1>1, <1>2, <1>3, <1>4, <1>5, <1>6, <1>7, <1>8, <1>9 DEF Retirements

LEMMA ShutdownProcess == ASSUME TypeInv, ProcessInv, Shutdown PROVE ProcessInv'
<1>1. ASSUME BeginDrain \/ BeginShutdown \/ SweepBegins \/ SweepEnds PROVE ProcessInv'
  BY <1>1, ProcessKept DEF BeginDrain, BeginShutdown, SweepBegins, SweepEnds, slotVars
<1>2. ASSUME NEW w \in Ids, SweepMarks(w) PROVE ProcessInv'
  BY <1>2, ProcessTaken, ProcessKept DEF SweepMarks
<1> QED BY <1>1, <1>2 DEF Shutdown

\* A running child process is being started under a reservation, is an
\* installed slot, or is being retired: no failed or abandoned startup, no
\* forgotten dead slot and no dropped retirement leaks one.
THEOREM NoProcessIsLeaked == Spec => []NoLeakedProcess
<1>1. Init => ProcessInv
  BY DEF Init, ProcessInv, ProcessOK
<1>2. PoolInv /\ ProcessInv /\ [Next]_vars => ProcessInv'
  <2> SUFFICES ASSUME PoolInv, ProcessInv, [Next]_vars PROVE ProcessInv'
    OBVIOUS
  <2>1. CASE UNCHANGED vars
    BY <2>1, ProcessKept DEF vars, slotVars
  <2> QED BY <2>1, StartupsProcess, LeaseRequestsProcess, CallsProcess, ReleasesProcess,
             DropsProcess, RetirementsProcess, ShutdownProcess DEF PoolInv, Next
<1>3. PoolInv /\ ProcessInv => NoLeakedProcess
  BY DEF PoolInv, SlotInv, SlotOK, ProcessInv, ProcessOK, NoLeakedProcess
<1> QED BY <1>1, <1>2, <1>3, PoolInvariant, PTL DEF Spec

-----------------------------------------------------------------------------
(* Owners.  A slot enters children with its lease, or is leased there, only *)
(* together with the handle; a startup for a lease still has the request    *)
(* that will get it (ServedInv), or it is discarded.                        *)

\* No slot is installed or leased, and handles are never taken back.
Unowned ==
    /\ children' \subseteq children /\ handles \subseteq handles'
    /\ \A w \in children' : child'[w].state \in {"leased", "closing"} =>
          child[w].state \in {"leased", "closing"} /\ child'[w].lease = child[w].lease

LEMMA OwnerKept == ASSUME LeaseHasOwner, Unowned PROVE LeaseHasOwner'
  BY DEF LeaseHasOwner, Unowned

\* Steps that change slots by marking them dead only.
LEMMA UnownedMark ==
  ASSUME TypeInv, children' \subseteq children, handles \subseteq handles',
         \A w \in Ids : child'[w] = child[w] \/ child'[w].state \notin {"leased", "closing"}
  PROVE  Unowned
  BY DEF Unowned, TypeInv, TypeOK

\* Taking a worker marks one slot dead.
LEMMA TakeMarks ==
  ASSUME TypeInv, NEW w \in Ids, NEW by, TakeDeadWorker(w, by)
  PROVE  \A v \in Ids : child'[v] = child[v] \/ child'[v].state = "dead"
  BY DEF TakeDeadWorker, TypeInv, TypeOK, Child

LEMMA StartupsOwner ==
  ASSUME TypeInv, SlotInv, ServedInv, LeaseHasOwner, Startups
  PROVE  LeaseHasOwner'
<1>1. ASSUME NEW id \in Ids, InstallSlot(id) PROVE LeaseHasOwner'
  <2>1. ASSUME child[id].state \in {"leased", "closing"}
        PROVE  [worker |-> id, lease |-> child[id].lease] \in handles'
    <3>1. startup[id].lease # NoLease /\ child[id].lease = startup[id].lease
      <4>1. child[id] = IF startup[id].lease = NoLease THEN Child("idle", NoLease)
                        ELSE Child("leased", startup[id].lease)
        BY <1>1 DEF InstallSlot, SlotInv, SlotOK
      <4> QED BY <2>1, <4>1 DEF Child
    <3>2. PICK c \in Clients : request[c].worker = id
      BY <1>1, <3>1 DEF InstallSlot, ServedInv, StartsFor, Serves
    <3> QED BY <1>1, <3>1, <3>2 DEF InstallSlot
  <2>2. UNCHANGED child /\ children' = children \cup {id} /\ handles \subseteq handles'
    BY <1>1 DEF InstallSlot, slotVars
  <2> QED BY <2>1, <2>2 DEF LeaseHasOwner
<1>2. ASSUME NEW id \in Ids, SpawnSlot(id) PROVE LeaseHasOwner'
  <2>1. id \notin children
    BY <1>2 DEF SpawnSlot, SlotInv, SlotOK
  <2>2. \A v \in Ids : v # id => child'[v] = child[v]
    BY <1>2 DEF SpawnSlot, TypeInv, TypeOK
  <2>3. Unowned
    BY <1>2, <2>1, <2>2 DEF Unowned, SpawnSlot, poolVars, TypeInv, TypeOK
  <2> QED BY <2>3, OwnerKept
<1>3. ASSUME NEW id \in Ids, DiscardAtShutdown(id) PROVE LeaseHasOwner'
  <2>1. TakeDeadWorker(id, "startup")
    BY <1>3 DEF DiscardAtShutdown, DiscardUninstalledSlot, TakeDeadWorker
  <2> QED BY <1>3, <2>1, TakeMarks, UnownedMark, OwnerKept DEF DiscardAtShutdown, poolVars
<1>4. ASSUME NEW id \in Ids, SpawnFails(id) \/ ReleaseReservation(id) PROVE LeaseHasOwner'
  <2>1. UNCHANGED <<children, child, handles>>
    BY <1>4 DEF SpawnFails, ReleaseReservation, poolVars, slotVars
  <2> QED BY <2>1 DEF LeaseHasOwner
<1>5. ASSUME WarmMin PROVE LeaseHasOwner'
  BY <1>5 DEF WarmMin, slotVars, LeaseHasOwner
<1> QED BY <1>1, <1>2, <1>3, <1>4, <1>5 DEF Startups

LEMMA LeaseRequestsOwner ==
  ASSUME TypeInv, SlotInv, LeaseHasOwner, LeaseRequests
  PROVE  LeaseHasOwner'
<1>1. ASSUME NEW c \in Clients, NEW w \in Ids, LeaseIdle(c, w) PROVE LeaseHasOwner'
  <2>1. child'[w] = Child("leased", request[c].lease)
        /\ \A v \in Ids : v # w => child'[v] = child[v]
    BY <1>1 DEF LeaseIdle, TypeInv, TypeOK
  <2>2. [worker |-> w, lease |-> child'[w].lease] \in handles' /\ handles \subseteq handles'
    BY <1>1, <2>1 DEF LeaseIdle, Child
  <2>3. children' = children /\ children \subseteq Ids
    BY <1>1 DEF LeaseIdle, poolVars, TypeInv, TypeOK
  <2> QED BY <2>1, <2>2, <2>3 DEF LeaseHasOwner
<1>2. ASSUME NEW c \in Clients, RequestLease(c) \/ LeaseNew(c) \/ LeaseWaitsOrFails(c)
                                  \/ LeaseRefused(c) \/ LeaseEnds(c)
      PROVE  LeaseHasOwner'
  <2>1. UNCHANGED <<child, handles>> /\ children' \subseteq children
    BY <1>2 DEF RequestLease, LeaseNew, LeaseWaitsOrFails, LeaseRefused, LeaseEnds, Live,
                poolVars, slotVars
  <2> QED BY <2>1 DEF LeaseHasOwner
<1>3. ASSUME NEW c \in Clients, LeaseEndsInStartup(c) PROVE LeaseHasOwner'
  <2>1. request[c].worker \in Ids
    BY <1>3 DEF LeaseEndsInStartup, TypeInv, HandleBound
  <2>2. \A w \in Ids : child'[w] = child[w] \/ child'[w].state = "dead"
    BY <1>3, <2>1 DEF LeaseEndsInStartup, AbandonStartup, DiscardUninstalledSlot, TypeInv, TypeOK,
                      Child
  <2> QED BY <1>3, <2>2, UnownedMark, OwnerKept DEF LeaseEndsInStartup, poolVars
<1> QED BY <1>1, <1>2, <1>3 DEF LeaseRequests

\* Calls, releases, drops, retirements and shutdown lease nothing.
LEMMA OthersOwner ==
  ASSUME TypeInv, SlotInv, Calls \/ Releases \/ Drops \/ Retirements \/ Shutdown
  PROVE  Unowned
<1>1. ASSUME NEW f \in Futures, future[f].pc # "none", RetireInline(f),
             UNCHANGED <<children, handles>>
      PROVE  Unowned
  <2>1. future[f].worker \in Ids
    BY <1>1, FutureHandle
  <2>2. \A w \in Ids : child'[w] = child[w] \/ child'[w].state = "dead"
    BY <1>1, <2>1, TakeMarks DEF RetireInline
  <2> QED BY <1>1, <2>2, UnownedMark
<1>2. CASE Calls
  <2>1. ASSUME NEW f \in Futures, CallRetires(f) \/ ReopenRetires(f) PROVE Unowned
    BY <1>1, <2>1 DEF CallRetires, ReopenRetires, poolVars
  <2>2. ASSUME NEW f \in Futures,
               AdmitCall(f) \/ CallNeverDispatched(f) \/ CallSettles(f) \/ ReopenTakes(f)
        PROVE  Unowned
    <3>1. UNCHANGED <<children, child, handles>>
      BY <2>2 DEF AdmitCall, CallNeverDispatched, CallSettles, ReopenTakes, poolVars, slotVars
    <3> QED BY <3>1 DEF Unowned
  <2>3. ASSUME NEW f \in Futures, NEW h \in handles, CallTool(f, h) \/ Reopen(f, h)
        PROVE  Unowned
    BY <2>3 DEF CallTool, Reopen, poolVars, slotVars, Unowned
  <2> QED BY <1>2, <2>1, <2>2, <2>3 DEF Calls
<1>3. CASE Releases
  <2>1. ASSUME NEW f \in Futures, ReleaseRetires(f) PROVE Unowned
    BY <1>1, <2>1 DEF ReleaseRetires, poolVars
  <2>2. ASSUME NEW f \in Futures, NEW h \in handles, Release(f, h) PROVE Unowned
    BY <2>2 DEF Release, poolVars, slotVars, Unowned
  <2>3. ASSUME NEW f \in Futures, ScheduleIdleReap(f) PROVE Unowned
    BY <2>3 DEF ScheduleIdleReap, poolVars, Unowned
  <2>4. ASSUME NEW f \in Futures, ReleaseLocks(f) PROVE Unowned
    <3>1. PICK w \in Ids : w = future[f].worker
      BY <2>4, FutureHandle DEF ReleaseLocks
    <3>2. CASE BelongsToLease(w, future[f].lease)
      <4>1. /\ child'[w] = Child("closing", future[f].lease)
            /\ \A v \in Ids : v # w => child'[v] = child[v]
        BY <2>4, <3>1, <3>2 DEF ReleaseLocks, TypeInv, TypeOK
      <4>2. child[w].state \in {"leased", "closing"} /\ child'[w].lease = child[w].lease
        BY <3>2, <4>1 DEF BelongsToLease, Child
      <4> QED BY <2>4, <4>1, <4>2 DEF ReleaseLocks, poolVars, Unowned, TypeInv, TypeOK
    <3>3. CASE ~BelongsToLease(w, future[f].lease)
      BY <2>4, <3>1, <3>3 DEF ReleaseLocks, poolVars, Unowned
    <3> QED BY <3>2, <3>3
  <2>5. ASSUME NEW f \in Futures, ReleaseCloses(f) PROVE Unowned
    <3>1. future[f].worker \in Ids
      BY <2>5, FutureHandle DEF ReleaseCloses
    <3>2. \A v \in Ids : child'[v] = child[v] \/ child'[v].state = "idle"
      BY <2>5, <3>1 DEF ReleaseCloses, Child, TypeInv, TypeOK
    <3> QED BY <2>5, <3>2, UnownedMark DEF ReleaseCloses, poolVars
  <2> QED BY <1>3, <2>1, <2>2, <2>3, <2>4, <2>5 DEF Releases
<1>4. CASE Drops
  <2>1. UNCHANGED <<children, child, handles>>
    BY <1>4 DEF Drops, DropUnarmed, DropArmed, DropRetiring, poolVars, slotVars
  <2> QED BY <2>1 DEF Unowned
<1>5. CASE Retirements
  <2>1. ASSUME NEW w \in Ids, IdleReap(w) \/ ProbeMarksDead(w) PROVE Unowned
    <3>1. \A v \in Ids : child'[v] = child[v] \/ child'[v].state = "dead"
      BY <2>1, TakeMarks DEF IdleReap, ProbeMarksDead
    <3> QED BY <2>1, <3>1, UnownedMark DEF IdleReap, ProbeMarksDead, poolVars, taskVars
  <2>2. ASSUME NEW h \in guards, GuardRetires(h) PROVE Unowned
    <3>1. h.worker \in Ids
      BY DEF TypeInv, TypeOK, Handle
    <3>2. \A v \in Ids : child'[v] = child[v] \/ child'[v].state = "dead"
      BY <2>2, <3>1, TakeMarks DEF GuardRetires
    <3> QED BY <2>2, <3>2, UnownedMark DEF GuardRetires, poolVars
  <2>3. ASSUME NEW w \in Ids, ForgetSlot(w) \/ FinishDeadWorker(w) \/ Replenish(w)
                                \/ ProbeForgetsDead(w) \/ ProcessDies(w)
                                \/ \E l \in Leases : AbandonedCallEnds(w, l)
        PROVE  Unowned
    <3>1. UNCHANGED <<child, handles>> /\ children' \subseteq children
      BY <2>3 DEF ForgetSlot, FinishDeadWorker, Replenish, ProbeForgetsDead, ProcessDies,
                  AbandonedCallEnds, poolVars, slotVars, taskVars
    <3> QED BY <3>1 DEF Unowned
  <2> QED BY <1>5, <2>1, <2>2, <2>3 DEF Retirements
<1>6. CASE Shutdown
  <2>1. ASSUME NEW w \in Ids, SweepMarks(w) PROVE Unowned
    <3>1. \A v \in Ids : child'[v] = child[v] \/ child'[v].state = "dead"
      BY <2>1, TakeMarks DEF SweepMarks
    <3> QED BY <2>1, <3>1, UnownedMark DEF SweepMarks
  <2>2. ASSUME BeginDrain \/ BeginShutdown \/ SweepBegins \/ SweepEnds PROVE Unowned
    BY <2>2 DEF BeginDrain, BeginShutdown, SweepBegins, SweepEnds, slotVars, taskVars, Unowned
  <2> QED BY <1>6, <2>1, <2>2 DEF Shutdown
<1> QED BY <1>2, <1>3, <1>4, <1>5, <1>6

\* An installed worker that is leased or closing has an owner, whoever gave up
\* while it was started.
THEOREM LeasesHaveOwners == Spec => []LeaseHasOwner
<1>1. Init => LeaseHasOwner
  BY DEF Init, LeaseHasOwner
<1>2. PoolInv /\ ServedInv /\ LeaseHasOwner /\ [Next]_vars => LeaseHasOwner'
  <2> SUFFICES ASSUME PoolInv, ServedInv, LeaseHasOwner, [Next]_vars PROVE LeaseHasOwner'
    OBVIOUS
  <2>1. CASE UNCHANGED vars
    BY <2>1 DEF vars, poolVars, slotVars, taskVars, LeaseHasOwner
  <2> QED BY <2>1, StartupsOwner, LeaseRequestsOwner, OthersOwner, OwnerKept DEF PoolInv, Next
<1> QED BY <1>1, <1>2, PoolInvariant, LeaseInvariant, PTL DEF Spec

-----------------------------------------------------------------------------
(* Wake-ups.  A step that installs a worker, ends a reservation or makes a  *)
(* worker idle notifies every waiter; the others can only add reservations  *)
(* and take idle workers away.                                              *)

\* Nobody waits after the step.
Awake == \A c \in Clients : request'[c].pc # "wait"

\* No reservation ends, no worker becomes idle, and who waits has found the
\* pool as NoStrandedWaiter says.
StillBusy ==
    /\ spawning \subseteq spawning' /\ IdleChildren' \subseteq IdleChildren
    /\ \A c \in Clients : request'[c].pc = "wait" =>
          request[c].pc = "wait" \/ (spawning # {} /\ IdleChildren = {})

LEMMA WaiterKept == ASSUME NoStrandedWaiter, Awake \/ StillBusy PROVE NoStrandedWaiter'
  BY DEF NoStrandedWaiter, Awake, StillBusy

\* notify_waiters leaves nobody waiting.
LEMMA NotifiedAwake ==
  ASSUME NEW req \in [Clients -> RequestRec], request' = Notified(req)
  PROVE  Awake
  BY NotifiedType DEF Awake

\* Steps that add no slot and make none idle, and leave the requests alone.
LEMMA BusyMark ==
  ASSUME TypeInv, children' \subseteq children, spawning \subseteq spawning',
         \A w \in Ids : child'[w] = child[w] \/ child'[w].state # "idle",
         \A c \in Clients : request'[c].pc = "wait" => request[c].pc = "wait"
  PROVE  StillBusy
  BY DEF StillBusy, IdleChildren, TypeInv, TypeOK

LEMMA StartupsWaiter == ASSUME TypeInv, SlotInv, Startups PROVE Awake \/ StillBusy
<1>1. ASSUME WarmMin PROVE StillBusy
  BY <1>1, BusyMark DEF WarmMin, ReserveSpawnSlot, slotVars
<1>2. ASSUME NEW id \in Ids, SpawnSlot(id) PROVE StillBusy
  <2>1. id \notin children
    BY <1>2 DEF SpawnSlot, SlotInv, SlotOK
  <2>2. \A v \in Ids : v # id => child'[v] = child[v]
    BY <1>2 DEF SpawnSlot, TypeInv, TypeOK
  <2> QED BY <1>2, <2>1, <2>2 DEF SpawnSlot, poolVars, StillBusy, IdleChildren, TypeInv, TypeOK
<1>3. ASSUME NEW id \in Ids, SpawnFails(id) PROVE StillBusy
  BY <1>3, BusyMark DEF SpawnFails, poolVars, slotVars
<1>4. ASSUME NEW id \in Ids, InstallSlot(id) \/ ReleaseReservation(id) PROVE Awake
  <2>1. RequestsAfterStartup(id) \in [Clients -> RequestRec]
    BY AfterStartupType DEF TypeInv
  <2>2. request' = Notified(RequestsAfterStartup(id))
    BY <1>4 DEF InstallSlot, ReleaseReservation
  <2> QED BY <2>1, <2>2, NotifiedAwake
<1>5. ASSUME NEW id \in Ids, DiscardAtShutdown(id) PROVE StillBusy
  <2>1. TakeDeadWorker(id, "startup")
    BY <1>5 DEF DiscardAtShutdown, DiscardUninstalledSlot, TakeDeadWorker
  <2> QED BY <1>5, <2>1, TakeMarks, BusyMark DEF DiscardAtShutdown, poolVars
<1> QED BY <1>1, <1>2, <1>3, <1>4, <1>5 DEF Startups

LEMMA LeaseRequestsWaiter == ASSUME TypeInv, LeaseRequests PROVE StillBusy
<1>1. ASSUME NEW c \in Clients, LeaseWaitsOrFails(c) PROVE StillBusy
  <2>1. \A d \in Clients : request'[d].pc = "wait" => request[d].pc = "wait" \/ spawning # {}
    <3>1. CASE spawning # {}
      BY <3>1
    <3>2. CASE spawning = {}
      BY <1>1, <3>2 DEF LeaseWaitsOrFails, NoRequest, TypeInv, TypeOK
    <3> QED BY <3>1, <3>2
  <2> QED BY <1>1, <2>1 DEF LeaseWaitsOrFails, Live, slotVars, StillBusy, IdleChildren
<1>2. ASSUME NEW c \in Clients, NEW w \in Ids, LeaseIdle(c, w) PROVE StillBusy
  <2>1. \A v \in Ids : child'[v] = child[v] \/ child'[v].state = "leased"
    BY <1>2 DEF LeaseIdle, Child, TypeInv, TypeOK
  <2>2. \A d \in Clients : request'[d].pc = "wait" => request[d].pc = "wait"
    BY <1>2 DEF LeaseIdle, NoRequest, TypeInv, TypeOK
  <2> QED BY <1>2, <2>1, <2>2, BusyMark DEF LeaseIdle, poolVars
<1>3. ASSUME NEW c \in Clients, LeaseNew(c) PROVE StillBusy
  <2>1. \A d \in Clients : request'[d].pc = "wait" => request[d].pc = "wait"
    BY <1>3 DEF LeaseNew, TypeInv, TypeOK
  <2> QED BY <1>3, <2>1, BusyMark DEF LeaseNew, ReserveSpawnSlot, Live, slotVars
<1>4. ASSUME NEW c \in Clients, RequestLease(c) PROVE StillBusy
  <2>1. \A d \in Clients : request'[d].pc = "wait" => request[d].pc = "wait"
    BY <1>4 DEF RequestLease, TypeInv, TypeOK
  <2> QED BY <1>4, <2>1, BusyMark DEF RequestLease, slotVars
<1>5. ASSUME NEW c \in Clients, LeaseRefused(c) \/ LeaseEnds(c) PROVE StillBusy
  <2>1. \A d \in Clients : request'[d].pc = "wait" => request[d].pc = "wait"
    BY <1>5 DEF LeaseRefused, LeaseEnds, NoRequest, TypeInv, TypeOK
  <2> QED BY <1>5, <2>1, BusyMark DEF LeaseRefused, LeaseEnds, poolVars, slotVars
<1>6. ASSUME NEW c \in Clients, LeaseEndsInStartup(c) PROVE StillBusy
  <2>1. request[c].worker \in Ids
    BY <1>6 DEF LeaseEndsInStartup, TypeInv, HandleBound
  <2>2. \A w \in Ids : child'[w] = child[w] \/ child'[w].state = "dead"
    BY <1>6, <2>1 DEF LeaseEndsInStartup, AbandonStartup, DiscardUninstalledSlot, TypeInv, TypeOK,
                      Child
  <2>3. \A d \in Clients : request'[d].pc = "wait" => request[d].pc = "wait"
    BY <1>6 DEF LeaseEndsInStartup, NoRequest, TypeInv, TypeOK
  <2> QED BY <1>6, <2>2, <2>3, BusyMark DEF LeaseEndsInStartup, poolVars
<1> QED BY <1>1, <1>2, <1>3, <1>4, <1>5, <1>6 DEF LeaseRequests

\* Calls, releases, drops, retirements and shutdown.
LEMMA OthersWaiter ==
  ASSUME TypeInv, Calls \/ Releases \/ Drops \/ Retirements \/ Shutdown
  PROVE  Awake \/ StillBusy
<1>0. ASSUME UNCHANGED <<children, spawning, child, request>> PROVE StillBusy
  BY <1>0, BusyMark
<1>1. ASSUME NEW f \in Futures, future[f].pc # "none", RetireInline(f),
             UNCHANGED <<children, spawning, request>>
      PROVE  StillBusy
  <2>1. future[f].worker \in Ids
    BY <1>1, FutureHandle
  <2>2. \A w \in Ids : child'[w] = child[w] \/ child'[w].state = "dead"
    BY <1>1, <2>1, TakeMarks DEF RetireInline
  <2> QED BY <1>1, <2>2, BusyMark
<1>2. CASE Calls
  <2>1. ASSUME NEW f \in Futures, CallRetires(f) \/ ReopenRetires(f) PROVE StillBusy
    BY <1>1, <2>1 DEF CallRetires, ReopenRetires, poolVars
  <2>2. ASSUME NEW f \in Futures,
               AdmitCall(f) \/ CallNeverDispatched(f) \/ CallSettles(f) \/ ReopenTakes(f)
        PROVE  StillBusy
    <3>1. UNCHANGED <<children, spawning, child, request>>
      BY <2>2 DEF AdmitCall, CallNeverDispatched, CallSettles, ReopenTakes, poolVars, slotVars
    <3> QED BY <1>0, <3>1
  <2>3. ASSUME NEW f \in Futures, NEW h \in handles, CallTool(f, h) \/ Reopen(f, h)
        PROVE  StillBusy
    BY <1>0, <2>3 DEF CallTool, Reopen, poolVars, slotVars
  <2> QED BY <1>2, <2>1, <2>2, <2>3 DEF Calls
<1>3. CASE Releases
  <2>1. ASSUME NEW f \in Futures, ReleaseRetires(f) PROVE StillBusy
    BY <1>1, <2>1 DEF ReleaseRetires, poolVars
  <2>2. ASSUME NEW f \in Futures, NEW h \in handles, Release(f, h) PROVE StillBusy
    BY <1>0, <2>2 DEF Release, poolVars, slotVars
  <2>3. ASSUME NEW f \in Futures, ScheduleIdleReap(f) PROVE StillBusy
    BY <1>0, <2>3 DEF ScheduleIdleReap, poolVars
  <2>4. ASSUME NEW f \in Futures, ReleaseLocks(f) PROVE StillBusy
    <3>1. future[f].worker \in Ids
      BY <2>4, FutureHandle DEF ReleaseLocks
    <3>2. \A v \in Ids : child'[v] = child[v] \/ child'[v].state = "closing"
      BY <2>4, <3>1 DEF ReleaseLocks, Child, TypeInv, TypeOK
    <3> QED BY <2>4, <3>2, BusyMark DEF ReleaseLocks, poolVars
  <2>5. ASSUME NEW f \in Futures, ReleaseCloses(f) PROVE Awake \/ StillBusy
    <3>1. CASE child[future[f].worker].state = "dead"
      BY <1>0, <2>5, <3>1 DEF ReleaseCloses, poolVars
    <3>2. CASE child[future[f].worker].state # "dead"
      BY <2>5, <3>2, NotifiedAwake DEF ReleaseCloses, TypeInv, TypeOK
    <3> QED BY <3>1, <3>2
  <2> QED BY <1>3, <2>1, <2>2, <2>3, <2>4, <2>5 DEF Releases
<1>4. CASE Drops
  <2>1. UNCHANGED <<children, spawning, child, request>>
    BY <1>4 DEF Drops, DropUnarmed, DropArmed, DropRetiring, poolVars, slotVars
  <2> QED BY <1>0, <2>1
<1>5. CASE Retirements
  <2>1. ASSUME NEW w \in Ids, IdleReap(w) \/ ProbeMarksDead(w) PROVE StillBusy
    <3>1. \A v \in Ids : child'[v] = child[v] \/ child'[v].state = "dead"
      BY <2>1, TakeMarks DEF IdleReap, ProbeMarksDead
    <3> QED BY <2>1, <3>1, BusyMark DEF IdleReap, ProbeMarksDead, poolVars, taskVars
  <2>2. ASSUME NEW h \in guards, GuardRetires(h) PROVE StillBusy
    <3>1. h.worker \in Ids
      BY DEF TypeInv, TypeOK, Handle
    <3>2. \A v \in Ids : child'[v] = child[v] \/ child'[v].state = "dead"
      BY <2>2, <3>1, TakeMarks DEF GuardRetires
    <3> QED BY <2>2, <3>2, BusyMark DEF GuardRetires, poolVars
  <2>3. ASSUME NEW w \in Ids, ForgetSlot(w) \/ ProbeForgetsDead(w) PROVE Awake
    BY <2>3, NotifiedAwake DEF ForgetSlot, ProbeForgetsDead, TypeInv, TypeOK
  <2>4. ASSUME NEW w \in Ids, FinishDeadWorker(w) \/ ProcessDies(w)
                                \/ \E l \in Leases : AbandonedCallEnds(w, l)
        PROVE  StillBusy
    <3>1. UNCHANGED <<children, spawning, child, request>>
      BY <2>4 DEF FinishDeadWorker, ProcessDies, AbandonedCallEnds, poolVars, taskVars
    <3> QED BY <1>0, <3>1
  <2>5. ASSUME NEW w \in Ids, Replenish(w) PROVE StillBusy
    BY <2>5, BusyMark DEF Replenish
  <2> QED BY <1>5, <2>1, <2>2, <2>3, <2>4, <2>5 DEF Retirements
<1>6. CASE Shutdown
  <2>1. ASSUME NEW w \in Ids, SweepMarks(w) PROVE Awake \/ StillBusy
    <3>1. CASE child[w].state # "dead"
      <4>1. \A v \in Ids : child'[v] = child[v] \/ child'[v].state = "dead"
        BY <2>1, <3>1, TakeMarks DEF SweepMarks
      <4> QED BY <2>1, <3>1, <4>1, BusyMark DEF SweepMarks
    <3>2. CASE child[w].state = "dead"
      BY <2>1, <3>2, NotifiedAwake DEF SweepMarks, TypeInv, TypeOK
    <3> QED BY <3>1, <3>2
  <2>2. ASSUME BeginDrain \/ BeginShutdown \/ SweepBegins \/ SweepEnds PROVE StillBusy
    BY <1>0, <2>2 DEF BeginDrain, BeginShutdown, SweepBegins, SweepEnds, slotVars, taskVars
  <2> QED BY <1>6, <2>1, <2>2 DEF Shutdown
<1> QED BY <1>2, <1>3, <1>4, <1>5, <1>6

\* A lease request sleeps only while a startup is in progress and no installed
\* worker is idle: the notification that ends its wait is never lost.
THEOREM WaitersAreWoken == Spec => []NoStrandedWaiter
<1>1. Init => NoStrandedWaiter
  BY DEF Init, NoStrandedWaiter, NoRequest
<1>2. PoolInv /\ NoStrandedWaiter /\ [Next]_vars => NoStrandedWaiter'
  <2> SUFFICES ASSUME PoolInv, NoStrandedWaiter, [Next]_vars PROVE NoStrandedWaiter'
    OBVIOUS
  <2>1. CASE UNCHANGED vars
    BY <2>1 DEF vars, poolVars, slotVars, taskVars, NoStrandedWaiter, IdleChildren
  <2> QED BY <2>1, StartupsWaiter, LeaseRequestsWaiter, OthersWaiter, WaiterKept DEF PoolInv, Next
<1> QED BY <1>1, <1>2, PoolInvariant, PTL DEF Spec

-----------------------------------------------------------------------------
(* Shutdown.  Once shutdown_all looks at the children nothing is started    *)
(* any more, so children only shrinks; what it has marked and is still      *)
(* installed is carried by its own retirement, for whose end it waits.      *)

\* A retirement a future awaits is carried by that future.
RetiringInv == \A f \in Futures :
    future[f].pc = "retiring" => retire[future[f].worker].by = f

TakenBySweep(w) == retire[w].pc = "taken" /\ retire[w].by = "shutdown"

SweepSound ==
    /\ sweep.phase # "none" => shuttingDown /\ spawning = {}
    /\ sweep.phase # "none" => \A w \in children : w \in sweep.slots \/ TakenBySweep(w)
    /\ sweep.phase # "marking" => sweep.slots = {}
    /\ sweep.phase = "done" => children = {}

\* What a step may do to the retirement of a dead slot: its carrier stays, and
\* what the sweep took stays taken until it is forgotten.
RetireStep ==
    \A w \in Ids : child[w].state = "dead" =>
      /\ retire'[w].by = retire[w].by
      /\ w \in children' \ spawning /\ TakenBySweep(w) => TakenBySweep(w)'

LEMMA RetireKept ==
  ASSUME \A w \in Ids : child[w].state = "dead" => retire'[w] = retire[w]
  PROVE  RetireStep
  BY DEF RetireStep, TakenBySweep

\* Only a slot that is not dead is taken.
LEMMA RetireTaken ==
  ASSUME TypeInv, NEW w \in Ids, NEW by, child[w].state # "dead", TakeDeadWorker(w, by)
  PROVE  RetireStep
<1>1. \A v \in Ids : v # w => retire'[v] = retire[v]
  BY DEF TakeDeadWorker, TypeInv, TypeOK
<1> QED BY <1>1, RetireKept

\* A retirement that moves on, other than one the sweep has just begun.
LEMMA RetireMoves ==
  ASSUME TypeInv, NEW w \in Ids, NEW pc, retire' = [retire EXCEPT ![w].pc = pc],
         w \notin children' \ spawning \/ ~TakenBySweep(w)
  PROVE  RetireStep
<1>1. \A v \in Ids : v # w => retire'[v] = retire[v]
  BY DEF TypeInv, TypeOK
<1>2. retire'[w].by = retire[w].by
  BY DEF TypeInv, TypeOK, RetireRec
<1> QED BY <1>1, <1>2 DEF RetireStep, TakenBySweep

LEMMA RetireInlineStep ==
  ASSUME TypeInv, NEW f \in Futures, future[f].pc # "none", RetireInline(f)
  PROVE  RetireStep
<1>1. future[f].worker \in Ids
  BY FutureHandle
<1>2. CASE BelongsToLease(future[f].worker, future[f].lease)
  <2>1. child[future[f].worker].state # "dead"
    BY <1>2 DEF BelongsToLease
  <2> QED BY <1>1, <1>2, <2>1, RetireTaken DEF RetireInline
<1>3. CASE ~BelongsToLease(future[f].worker, future[f].lease)
  BY <1>3, RetireKept DEF RetireInline
<1> QED BY <1>2, <1>3

LEMMA StartupsRetire == ASSUME TypeInv, SlotInv, Startups PROVE RetireStep
<1>1. ASSUME NEW id \in Ids, DiscardAtShutdown(id) PROVE RetireStep
  <2>1. TakeDeadWorker(id, "startup")
    BY <1>1 DEF DiscardAtShutdown, DiscardUninstalledSlot, TakeDeadWorker
  <2>2. child[id].state # "dead"
    <3>1. child[id] = IF startup[id].lease = NoLease THEN Child("idle", NoLease)
                      ELSE Child("leased", startup[id].lease)
      BY <1>1 DEF DiscardAtShutdown, SlotInv, SlotOK
    <3> QED BY <3>1 DEF Child
  <2> QED BY <2>1, <2>2, RetireTaken
<1>2. ASSUME NEW id \in Ids, SpawnSlot(id) \/ SpawnFails(id) \/ InstallSlot(id)
                               \/ ReleaseReservation(id)
      PROVE  RetireStep
  <2>1. UNCHANGED retire
    BY <1>2 DEF SpawnSlot, SpawnFails, InstallSlot, ReleaseReservation, slotVars
  <2> QED BY <2>1, RetireKept
<1>3. ASSUME WarmMin PROVE RetireStep
  BY <1>3, RetireKept DEF WarmMin, slotVars
<1> QED BY <1>1, <1>2, <1>3 DEF Startups

LEMMA LeaseRequestsRetire == ASSUME TypeInv, SlotInv, LeaseRequests PROVE RetireStep
<1>1. ASSUME NEW c \in Clients, LeaseEndsInStartup(c) PROVE RetireStep
  <2>1. PICK id \in Ids : id = request[c].worker
    BY <1>1 DEF LeaseEndsInStartup, TypeInv, HandleBound
  <2>2. AbandonStartup(id)
    BY <1>1, <2>1 DEF LeaseEndsInStartup
  <2>3. CASE startup[id].pc = "ready" /\ DiscardUninstalledSlot(id)
    <3>1. child[id] = IF startup[id].lease = NoLease THEN Child("idle", NoLease)
                      ELSE Child("leased", startup[id].lease)
      BY <2>3 DEF SlotInv, SlotOK
    <3>2. child[id].state # "dead"
      BY <3>1 DEF Child
    <3> QED BY <2>3, <3>2, RetireTaken DEF DiscardUninstalledSlot, TakeDeadWorker
  <2>4. CASE startup[id].pc = "discard" /\ retire' = [retire EXCEPT ![id].pc = "done"]
    <3>1. id \in spawning
      BY <2>4 DEF SlotInv, SlotOK
    <3> QED BY <2>4, <3>1, RetireMoves
  <2>5. CASE UNCHANGED retire
    BY <2>5, RetireKept
  <2> QED BY <2>2, <2>3, <2>4, <2>5 DEF AbandonStartup
<1>2. ASSUME NEW c \in Clients, NEW w \in Ids, LeaseIdle(c, w) PROVE RetireStep
  BY <1>2, RetireKept DEF LeaseIdle
<1>3. ASSUME NEW c \in Clients, RequestLease(c) \/ LeaseNew(c) \/ LeaseWaitsOrFails(c)
                                  \/ LeaseRefused(c) \/ LeaseEnds(c)
      PROVE  RetireStep
  <2>1. UNCHANGED retire
    BY <1>3 DEF RequestLease, LeaseNew, LeaseWaitsOrFails, LeaseRefused, LeaseEnds, slotVars
  <2> QED BY <2>1, RetireKept
<1> QED BY <1>1, <1>2, <1>3 DEF LeaseRequests

LEMMA FuturesRetire ==
  ASSUME TypeInv, RetiringInv, Calls \/ Releases \/ Drops
  PROVE  RetireStep
<1>1. ASSUME NEW f \in Futures, CallRetires(f) \/ ReopenRetires(f) \/ ReleaseRetires(f)
      PROVE  RetireStep
  BY <1>1, RetireInlineStep DEF CallRetires, ReopenRetires, ReleaseRetires
<1>2. ASSUME NEW f \in Futures, AdmitCall(f) \/ CallNeverDispatched(f) \/ CallSettles(f)
                                  \/ ReopenTakes(f) \/ ReleaseLocks(f) \/ ReleaseCloses(f) \/ ScheduleIdleReap(f)
      PROVE  RetireStep
  <2>1. UNCHANGED retire
    BY <1>2 DEF AdmitCall, CallNeverDispatched, CallSettles, ReopenTakes, ReleaseLocks,
                ReleaseCloses, ScheduleIdleReap, slotVars
  <2> QED BY <2>1, RetireKept
<1>3. ASSUME NEW f \in Futures, NEW h \in handles, CallTool(f, h) \/ Reopen(f, h) \/ Release(f, h)
      PROVE  RetireStep
  BY <1>3, RetireKept DEF CallTool, Reopen, Release, slotVars
<1>4. ASSUME NEW f \in Futures, DropUnarmed(f) \/ DropArmed(f) PROVE RetireStep
  BY <1>4, RetireKept DEF DropUnarmed, DropArmed, slotVars
<1>5. ASSUME NEW f \in Futures, DropRetiring(f) PROVE RetireStep
  <2>1. PICK w \in Ids : w = future[f].worker
    BY <1>5, FutureHandle DEF DropRetiring
  <2>2. retire[w].by = f /\ f # "shutdown"
    BY <1>5, <2>1, PoolAssumption DEF DropRetiring, RetiringInv, Carriers
  <2> QED BY <1>5, <2>1, <2>2, RetireMoves DEF DropRetiring, TakenBySweep
<1> QED BY <1>1, <1>2, <1>3, <1>4, <1>5 DEF Calls, Releases, Drops

LEMMA RetirementsRetire ==
  ASSUME TypeInv, Retirements \/ Shutdown
  PROVE  RetireStep
<1>1. ASSUME NEW w \in Ids, ForgetSlot(w) PROVE RetireStep
  BY <1>1, RetireMoves DEF ForgetSlot
<1>2. ASSUME NEW w \in Ids, FinishDeadWorker(w) \/ Replenish(w) PROVE RetireStep
  <2>1. ~TakenBySweep(w)
    BY <1>2 DEF FinishDeadWorker, Replenish, TakenBySweep
  <2>2. \E pc : retire' = [retire EXCEPT ![w].pc = pc]
    BY <1>2 DEF FinishDeadWorker, Replenish
  <2> QED BY <2>1, <2>2, RetireMoves
<1>3. ASSUME NEW w \in Ids, IdleReap(w) \/ ProbeMarksDead(w) \/ SweepMarks(w) PROVE RetireStep
  <2>1. \/ UNCHANGED retire
        \/ child[w].state # "dead" /\ \E by : TakeDeadWorker(w, by)
    BY <1>3 DEF IdleReap, ProbeMarksDead, SweepMarks
  <2> QED BY <2>1, RetireTaken, RetireKept
<1>4. ASSUME NEW h \in guards, GuardRetires(h) PROVE RetireStep
  <2>1. h.worker \in Ids
    BY DEF TypeInv, TypeOK, Handle
  <2>2. BelongsToLease(h.worker, h.lease) => child[h.worker].state # "dead"
    BY DEF BelongsToLease
  <2> QED BY <1>4, <2>1, <2>2, RetireTaken, RetireKept DEF GuardRetires
<1>5. ASSUME NEW w \in Ids, ProbeForgetsDead(w) \/ ProcessDies(w)
                              \/ \E l \in Leases : AbandonedCallEnds(w, l)
      PROVE  RetireStep
  BY <1>5, RetireKept DEF ProbeForgetsDead, ProcessDies, AbandonedCallEnds, slotVars
<1>6. ASSUME BeginDrain \/ BeginShutdown \/ SweepBegins \/ SweepEnds PROVE RetireStep
  BY <1>6, RetireKept DEF BeginDrain, BeginShutdown, SweepBegins, SweepEnds, slotVars
<1> QED BY <1>1, <1>2, <1>3, <1>4, <1>5, <1>6 DEF Retirements, Shutdown

LEMMA RetireNext == ASSUME TypeInv, SlotInv, RetiringInv, [Next]_vars PROVE RetireStep
<1>1. CASE UNCHANGED vars
  BY <1>1, RetireKept DEF vars, slotVars
<1> QED BY <1>1, StartupsRetire, LeaseRequestsRetire, FuturesRetire, RetirementsRetire DEF Next

\* A future begins to retire a worker by taking it.
LEMMA RetiringStep ==
  ASSUME TypeInv, [Next]_vars
  PROVE  \A f \in Futures : future'[f].pc = "retiring" =>
            \/ future[f].pc = "retiring" /\ future'[f].worker = future[f].worker
            \/ retire'[future'[f].worker].by = f
<1> DEFINE Same(f) == future[f].pc = "retiring" /\ future'[f].worker = future[f].worker
           Goal == \A f \in Futures : future'[f].pc = "retiring" =>
                      Same(f) \/ retire'[future'[f].worker].by = f
<1>1. ASSUME NEW f \in Futures, future[f].pc # "none", RetireInline(f) PROVE Goal
  <2>1. \A g \in Futures : g # f => future'[g] = future[g]
    BY <1>1 DEF RetireInline, End, TypeInv, TypeOK
  <2>2. CASE BelongsToLease(future[f].worker, future[f].lease)
    <3>1. PICK w \in Ids : w = future[f].worker
      BY <1>1, FutureHandle
    <3>2. future'[f].worker = w
      BY <1>1, <2>2, <3>1 DEF RetireInline, TypeInv, TypeOK, FutureRec
    <3>3. retire'[w].by = f
      BY <1>1, <2>2, <3>1 DEF RetireInline, TakeDeadWorker, TypeInv, TypeOK
    <3> QED BY <2>1, <3>2, <3>3
  <2>3. CASE ~BelongsToLease(future[f].worker, future[f].lease)
    BY <1>1, <2>1, <2>3 DEF RetireInline, End, NoFuture, TypeInv, TypeOK
  <2> QED BY <2>2, <2>3
<1>2. ASSUME NEW f \in Futures, End(f) PROVE Goal
  BY <1>2 DEF End, NoFuture, TypeInv, TypeOK
<1>3. ASSUME NEW f \in Futures, NEW pc, pc # "retiring", future' = [future EXCEPT ![f].pc = pc]
      PROVE  Goal
  BY <1>3 DEF TypeInv, TypeOK, FutureRec
<1>4. ASSUME UNCHANGED future PROVE Goal
  BY <1>4
<1>5. CASE Calls
  <2>1. ASSUME NEW f \in Futures, CallRetires(f) \/ ReopenRetires(f) PROVE Goal
    BY <1>1, <2>1 DEF CallRetires, ReopenRetires
  <2>2. ASSUME NEW f \in Futures, AdmitCall(f) \/ ReopenTakes(f) PROVE Goal
    BY <1>2, <1>3, <2>2 DEF AdmitCall, ReopenTakes
  <2>3. ASSUME NEW f \in Futures, CallNeverDispatched(f) \/ CallSettles(f) PROVE Goal
    BY <1>2, <2>3 DEF CallNeverDispatched, CallSettles
  <2>4. ASSUME NEW f \in Futures, NEW h \in handles, CallTool(f, h) \/ Reopen(f, h) PROVE Goal
    BY <2>4 DEF CallTool, Reopen, Begin, TypeInv, TypeOK
  <2> QED BY <1>5, <2>1, <2>2, <2>3, <2>4 DEF Calls
<1>6. CASE Releases
  <2>1. ASSUME NEW f \in Futures, ReleaseRetires(f) PROVE Goal
    BY <1>1, <2>1 DEF ReleaseRetires
  <2>2. ASSUME NEW f \in Futures, ReleaseLocks(f) \/ ReleaseCloses(f) PROVE Goal
    BY <1>3, <2>2 DEF ReleaseLocks, ReleaseCloses
  <2>3. ASSUME NEW f \in Futures, ScheduleIdleReap(f) PROVE Goal
    BY <1>2, <2>3 DEF ScheduleIdleReap
  <2>4. ASSUME NEW f \in Futures, NEW h \in handles, Release(f, h) PROVE Goal
    BY <2>4 DEF Release, Begin, TypeInv, TypeOK
  <2> QED BY <1>6, <2>1, <2>2, <2>3, <2>4 DEF Releases
<1>7. CASE Drops
  BY <1>2, <1>7 DEF Drops, DropUnarmed, DropArmed, DropRetiring
<1>8. CASE Retirements
  <2>1. ASSUME NEW w \in Ids, Replenish(w) PROVE Goal
    BY <2>1 DEF Replenish, FuturesAfterRetire, NoFuture
  <2>2. (\E w \in Ids : Replenish(w)) \/ UNCHANGED future
    BY <1>8 DEF Retirements, ForgetSlot, FinishDeadWorker, IdleReap, ProbeMarksDead,
                ProbeForgetsDead, ProcessDies, AbandonedCallEnds, GuardRetires, taskVars
  <2> QED BY <1>4, <2>1, <2>2
<1>9. Startups \/ LeaseRequests => UNCHANGED future
  BY DEF Startups, LeaseRequests, WarmMin, SpawnSlot, SpawnFails, InstallSlot, DiscardAtShutdown,
         ReleaseReservation, RequestLease, LeaseIdle, LeaseNew, LeaseWaitsOrFails, LeaseRefused,
         LeaseEnds, LeaseEndsInStartup
<1>10. Shutdown \/ UNCHANGED vars => UNCHANGED future
  BY DEF Shutdown, BeginDrain, BeginShutdown, SweepBegins, SweepEnds, SweepMarks, vars, taskVars
<1>11. Goal
  BY <1>4, <1>5, <1>6, <1>7, <1>8, <1>9, <1>10 DEF Next
<1> QED BY <1>11

\* Shutdown is for good, and from its first moment nothing is reserved; with
\* no startup left, nothing is installed either.
LEMMA ClosedPool ==
  ASSUME TypeInv, [Next]_vars, shuttingDown
  PROVE  shuttingDown' /\ spawning' \subseteq spawning /\ children' \subseteq children
<1>1. CASE Startups
  <2>1. ASSUME NEW id \in Ids, ReleaseReservation(id)
        PROVE  shuttingDown' /\ spawning' \subseteq spawning /\ children' \subseteq children
    <3>1. shuttingDown'
      BY <2>1, Zenon DEF ReleaseReservation
    <3> QED BY <2>1, <3>1 DEF ReleaseReservation
  <2> QED BY <1>1, <2>1 DEF Startups, WarmMin, ReserveSpawnSlot, SpawnSlot, SpawnFails, InstallSlot,
                            DiscardAtShutdown, poolVars
<1>2. CASE LeaseRequests
  BY <1>2 DEF LeaseRequests, RequestLease, LeaseIdle, LeaseNew, LeaseWaitsOrFails, LeaseRefused,
              LeaseEnds, LeaseEndsInStartup, poolVars
<1>3. CASE Calls \/ Releases \/ Drops
  BY <1>3 DEF Calls, Releases, Drops, AdmitCall, CallNeverDispatched, CallSettles, CallRetires,
         ReopenTakes, ReopenRetires, CallTool, Reopen, ReleaseLocks, ReleaseCloses, ReleaseRetires,
         ScheduleIdleReap, Release, DropUnarmed, DropArmed, DropRetiring, poolVars
<1>4. CASE Retirements
  <2>1. Replacements = {}
    BY DEF Replacements
  <2> QED BY <1>4, <2>1 DEF Retirements, ForgetSlot, FinishDeadWorker, Replenish, IdleReap,
         ProbeMarksDead, ProbeForgetsDead, ProcessDies, AbandonedCallEnds, GuardRetires, poolVars
<1>5. CASE Shutdown \/ UNCHANGED vars
  BY <1>5 DEF Shutdown, BeginDrain, BeginShutdown, SweepBegins, SweepEnds, SweepMarks, vars, poolVars
<1> QED BY <1>1, <1>2, <1>3, <1>4, <1>5 DEF Next

\* Only shutdown_all moves the sweep.
LEMMA SweepMoves ==
  ASSUME [Next]_vars
  PROVE  UNCHANGED sweep \/ SweepBegins \/ SweepEnds \/ \E w \in Ids : SweepMarks(w)
<1>1. Startups \/ LeaseRequests => UNCHANGED sweep
  BY DEF Startups, LeaseRequests, WarmMin, SpawnSlot, SpawnFails, InstallSlot, DiscardAtShutdown,
         ReleaseReservation, RequestLease, LeaseIdle, LeaseNew, LeaseWaitsOrFails, LeaseRefused,
         LeaseEnds, LeaseEndsInStartup, poolVars
<1>2. Calls \/ Releases \/ Drops => UNCHANGED sweep
  BY DEF Calls, Releases, Drops, AdmitCall, CallNeverDispatched, CallSettles, CallRetires,
         ReopenTakes, ReopenRetires, CallTool, Reopen, ReleaseLocks, ReleaseCloses, ReleaseRetires,
         ScheduleIdleReap, Release, DropUnarmed, DropArmed, DropRetiring, poolVars
<1>3. Retirements => UNCHANGED sweep
  BY DEF Retirements, ForgetSlot, FinishDeadWorker, Replenish, IdleReap,
         ProbeMarksDead, ProbeForgetsDead, ProcessDies, AbandonedCallEnds, GuardRetires, poolVars
<1>4. BeginDrain \/ BeginShutdown \/ UNCHANGED vars => UNCHANGED sweep
  BY DEF BeginDrain, BeginShutdown, vars, poolVars
<1> QED BY <1>1, <1>2, <1>3, <1>4 DEF Next, Shutdown

LEMMA SweepSoundNext ==
  ASSUME TypeInv, SlotInv, RetiringInv, SweepSound, [Next]_vars
  PROVE  SweepSound'
<1>0. RetireStep
  BY RetireNext
<1>1. CASE UNCHANGED sweep
  <2>1. CASE sweep.phase = "none"
    BY <1>1, <2>1 DEF SweepSound
  <2>2. CASE sweep.phase # "none"
    <3>1. shuttingDown' /\ spawning = {} /\ spawning' = {} /\ children' \subseteq children
      BY <2>2, ClosedPool DEF SweepSound
    <3>2. ASSUME NEW w \in children' PROVE w \in sweep'.slots \/ TakenBySweep(w)'
      <4>1. w \in Ids /\ w \in children
        BY <3>1, <3>2 DEF TypeInv, TypeOK
      <4>2. TakenBySweep(w) => child[w].state = "dead"
        BY <4>1 DEF TakenBySweep, SlotInv, SlotOK
      <4> QED BY <1>0, <1>1, <2>2, <3>1, <3>2, <4>1, <4>2 DEF RetireStep, SweepSound
    <3> QED BY <1>1, <2>2, <3>1, <3>2 DEF SweepSound
  <2> QED BY <2>1, <2>2
<1>2. CASE SweepBegins
  BY <1>2 DEF SweepBegins, SweepSound
<1>3. ASSUME NEW w \in Ids, SweepMarks(w) PROVE SweepSound'
  <2>1. sweep.phase = "marking" /\ shuttingDown /\ spawning = {}
    BY <1>3 DEF SweepMarks, SweepSound, TypeInv, TypeOK
  <2>2. sweep'.phase = "marking" /\ sweep'.slots = sweep.slots \ {w}
    BY <1>3, <2>1 DEF SweepMarks, TypeInv, TypeOK
  <2>3. ASSUME NEW v \in children' PROVE v \in sweep'.slots \/ TakenBySweep(v)'
    <3>1. CASE child[w].state # "dead"
      <4>1. v \in Ids /\ v \in children
        BY <1>3, <2>3, <3>1 DEF SweepMarks, TypeInv, TypeOK
      <4>2. TakenBySweep(w)' /\ (v # w => retire'[v] = retire[v])
        BY <1>3, <3>1, <4>1 DEF SweepMarks, TakeDeadWorker, TakenBySweep, TypeInv, TypeOK
      <4> QED BY <2>1, <2>2, <4>1, <4>2 DEF SweepSound, TakenBySweep
    <3>2. CASE child[w].state = "dead"
      <4>1. v \in children /\ v # w /\ UNCHANGED retire
        BY <1>3, <2>3, <3>2 DEF SweepMarks
      <4> QED BY <2>1, <2>2, <4>1 DEF SweepSound, TakenBySweep
    <3> QED BY <3>1, <3>2
  <2>4. shuttingDown' /\ spawning' = {}
    BY <1>3, <2>1 DEF SweepMarks
  <2> QED BY <2>2, <2>3, <2>4 DEF SweepSound
<1>4. CASE SweepEnds
  <2>1. \A w \in children : TakenBySweep(w) /\ w \in Ids
    BY <1>4 DEF SweepEnds, SweepSound, TypeInv, TypeOK
  <2>2. children = {}
    BY <1>4, <2>1 DEF SweepEnds, TakenBySweep
  <2>3. sweep'.phase = "done" /\ sweep'.slots = {}
    BY <1>4 DEF SweepEnds, TypeInv, TypeOK
  <2> QED BY <1>4, <2>2, <2>3 DEF SweepEnds, SweepSound
<1> QED BY <1>1, <1>2, <1>3, <1>4, SweepMoves

LEMMA RetiringInvNext ==
  ASSUME TypeInv, SlotInv, CallInv, RetiringInv, [Next]_vars
  PROVE  RetiringInv'
<1>1. RetireStep
  BY RetireNext
<1>2. \A f \in Futures : future[f].pc = "retiring" =>
         future[f].worker \in Ids /\ child[future[f].worker].state = "dead"
  BY FutureHandle DEF CallInv
<1> QED BY <1>1, <1>2, RetiringStep DEF RetireStep, RetiringInv

\* Once shutdown_all returned, nothing is installed or being started, every
\* slot is dead, and it stays so, whatever was under way.
THEOREM PoolStaysEmpty == Spec => []ShutdownIsFinal
<1>1. Init => RetiringInv /\ SweepSound
  BY DEF Init, RetiringInv, SweepSound, NoFuture
<1>2. PoolInv /\ RetiringInv /\ SweepSound /\ [Next]_vars => RetiringInv' /\ SweepSound'
  BY RetiringInvNext, SweepSoundNext DEF PoolInv
<1>3. PoolInv /\ SweepSound => ShutdownIsFinal
  BY DEF PoolInv, SlotInv, SlotOK, SweepSound, ShutdownIsFinal
<1> QED BY <1>1, <1>2, <1>3, PoolInvariant, PTL DEF Spec
=============================================================================
