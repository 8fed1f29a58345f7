------------------------------ MODULE WorkerPool ------------------------------
(***************************************************************************)
(* The supervisor's pool of IDA child processes (src/ida/pool.rs).         *)
(*                                                                         *)
(* A child slot is started under a reservation, installed, leased to one   *)
(* session at a time, and released back to idle or retired.  Everything    *)
(* that can be interleaved by the runtime is a step of its own: the inner  *)
(* mutex, the slot's state mutex and the slot's call lock delimit the      *)
(* steps.  Futures that run a call or a release may be dropped at any      *)
(* await, child processes may die at any moment.                           *)
(***************************************************************************)
EXTENDS Integers, FiniteSets

CONSTANTS
    Clients,          \* sessions that ask for a lease (one future each)
    Futures,          \* futures that run call_tool or release on a handle
    MaxWorkers,       \* config.max_workers
    MinWorkers,       \* config.min_workers
    QueueCapacity,    \* CHILD_QUEUE_CAPACITY
    AcquireCapacity,  \* POOL_ACQUIRE_CAPACITY
    PreserveOnCancel, \* the handles' flag: calls are owned by the pool
    MaxIds,           \* bound of the model on next_id
    MaxLeases         \* bound of the model on next_lease_id

\* Who may carry the retirement of a worker, besides a future of Futures.
Carriers == {"none", "detached", "reaper", "shutdown", "startup"}

ASSUME PoolAssumption ==
    /\ MaxWorkers \in Nat \ {0}
    /\ MinWorkers \in 0..MaxWorkers   \* main.rs refuses min > max
    /\ QueueCapacity \in Nat
    /\ AcquireCapacity \in Nat
    /\ PreserveOnCancel \in BOOLEAN
    /\ MaxIds \in Nat
    /\ MaxLeases \in Nat
    /\ Futures \cap Carriers = {}

VARIABLES
    children,     \* ids of the installed slots (PoolInner.children)
    spawning,     \* reserved ids (PoolInner.spawning)
    nextId,
    nextLease,
    draining,     \* stop_queued_calls is cancelled
    shuttingDown, \* PoolInner.shutting_down, and the shutdown token
    warm,         \* workers warm_min has still to start
    sweep,        \* shutdown_all: its phase and the slots it still has to mark
    child,        \* ChildState of every slot
    process,      \* the child process behind every slot
    startup,      \* the task that holds the reservation of an id
    request,      \* lease() of every client
    handles,      \* every PooledWorkerHandle ever returned
    future,       \* call_tool / release futures
    guards,       \* detached tasks spawned by a dropped WorkerRetireGuard
    retire,       \* progress of the retirement of every slot
    reapTimer,    \* a schedule_idle_reap whose sleep_started >= last_used
    abandoned     \* leases whose dropped call still runs in the child

poolVars  == <<children, spawning, nextId, nextLease, draining, shuttingDown, warm, sweep>>
slotVars  == <<child, process, retire, reapTimer, abandoned>>
taskVars  == <<startup, request, handles, future, guards>>
vars      == <<poolVars, slotVars, taskVars>>

Ids     == 0 .. MaxIds - 1
Leases  == 1 .. MaxLeases
NoLease == 0
NoId    == -1
Handle  == [worker : Ids, lease : Leases]

Child(state, lease) == [state |-> state, lease |-> lease]

ChildRec == [state : {"absent", "idle", "leased", "closing", "dead"},
             lease : Leases \cup {NoLease}]

StartupRec == [pc : {"none", "spawn", "ready", "discard", "cleanup"},
               lease : Leases \cup {NoLease}]

RequestRec == [pc : {"none", "scan", "wait", "start"},
               lease : Leases \cup {NoLease}, worker : Ids \cup {NoId}]

FutureRec == [op : {"none", "call", "reopen", "release"},
              pc : {"none", "queue", "exec", "retiring", "reopenwait", "stale", "lockwait",
                    "closing", "released"},
              worker : Ids \cup {NoId}, lease : Leases \cup {NoLease}]

RetireRec == [pc : {"none", "taken", "forgotten", "finished", "done", "lost"},
              by : Futures \cup Carriers]

-----------------------------------------------------------------------------
(* State read by the operations.                                           *)

\* Mutant of BelongsToLease: a handle of an earlier lease passes.
BelongsToAnyLease(w, l) == child[w].state \in {"leased", "closing"}

BelongsToLease(w, l) == child[w].state \in {"leased", "closing"} /\ child[w].lease = l

Live == {w \in children : child[w].state # "dead"}

ActiveCount == Cardinality(spawning) + Cardinality(Live)

IdleChildren == {w \in children : child[w].state = "idle"}

HoldsCallLock(f) == future[f].pc \in {"exec", "closing", "stale", "retiring"}

\* Mutant of CallLockFree: the call lock is not taken.
CallLockIgnored(w) == TRUE

CallLockFree(w) == \A f \in Futures : HoldsCallLock(f) => future[f].worker # w

QueuedCalls(w) ==
    {f \in Futures : future[f].op = "call" /\ future[f].worker = w}

\* Mutant of Notified: nobody is woken.
NotNotified(req) == req

\* changed.notify_waiters(): every registered waiter scans again.
Notified(req) ==
    [c \in Clients |-> IF req[c].pc = "wait" THEN [req[c] EXCEPT !.pc = "scan"] ELSE req[c]]

NoRequest == [pc |-> "none", lease |-> NoLease, worker |-> NoId]
NoStartup == [pc |-> "none", lease |-> NoLease]
NoFuture  == [op |-> "none", pc |-> "none", worker |-> NoId, lease |-> NoLease]
NoRetire  == [pc |-> "none", by |-> "none"]

\* The lease future that waits for the startup of id returns.
RequestsAfterStartup(id) ==
    [c \in Clients |-> IF request[c].worker = id THEN NoRequest ELSE request[c]]

-----------------------------------------------------------------------------
Init ==
    /\ children = {} /\ spawning = {}
    /\ nextId = 0 /\ nextLease = 0
    /\ draining = FALSE /\ shuttingDown = FALSE
    /\ warm = MinWorkers
    /\ sweep = [phase |-> "none", slots |-> {}]
    /\ child = [w \in Ids |-> Child("absent", NoLease)]
    /\ process = [w \in Ids |-> "none"]
    /\ startup = [w \in Ids |-> NoStartup]
    /\ request = [c \in Clients |-> NoRequest]
    /\ handles = {}
    /\ future = [f \in Futures |-> NoFuture]
    /\ guards = {}
    /\ retire = [w \in Ids |-> NoRetire]
    /\ reapTimer = [w \in Ids |-> FALSE]
    /\ abandoned = [w \in Ids |-> {}]

-----------------------------------------------------------------------------
(* Starting a worker under a reservation.                                  *)

\* Mutant of Unreserve: the reservation is never given back.
KeepsReservation(id) == spawning

\* finish_spawn_reservation removes the id from spawning.
Unreserve(id) == spawning \ {id}

\* reserve_spawn_slot_locked: the new worker is idle when lease = NoLease.
ReserveSpawnSlot(lease) ==
    /\ ~shuttingDown
    /\ nextId < MaxIds
    /\ nextId' = nextId + 1
    /\ spawning' = spawning \cup {nextId}
    /\ startup' = [startup EXCEPT ![nextId] = [pc |-> "spawn", lease |-> lease]]

\* warm_min starts one worker after the other before the server serves.
WarmMin ==
    /\ warm > 0
    /\ spawning = {}
    /\ ReserveSpawnSlot(NoLease)
    /\ UNCHANGED <<children, nextLease, draining, shuttingDown, warm, sweep, slotVars,
                   request, handles, future, guards>>

\* spawn_slot succeeds: the process runs and its slot exists, uninstalled.
SpawnSlot(id) ==
    /\ startup[id].pc = "spawn"
    /\ ~shuttingDown
    /\ startup' = [startup EXCEPT ![id].pc = "ready"]
    /\ process' = [process EXCEPT ![id] = "up"]
    /\ child' = [child EXCEPT ![id] =
                    IF startup[id].lease = NoLease THEN Child("idle", NoLease)
                    ELSE Child("leased", startup[id].lease)]
    /\ UNCHANGED <<poolVars, retire, reapTimer, abandoned, request, handles, future, guards>>

\* spawn_slot fails: no process, handshake timeout, or shutdown.
SpawnFails(id) ==
    /\ startup[id].pc = "spawn"
    /\ startup' = [startup EXCEPT ![id].pc = "cleanup"]
    /\ UNCHANGED <<poolVars, slotVars, request, handles, future, guards>>

\* finish_spawn_reservation(Some(slot)) while the pool accepts workers.  The
\* handle goes to the lease future that waits for this startup, if any.
InstallSlot(id) ==
    /\ startup[id].pc = "ready"
    /\ ~shuttingDown
    /\ children' = children \cup {id}
    /\ spawning' = Unreserve(id)
    /\ startup' = [startup EXCEPT ![id] = NoStartup]
    /\ request' = Notified(RequestsAfterStartup(id))
    /\ handles' = IF startup[id].lease = NoLease \/ \A c \in Clients : request[c].worker # id
                  THEN handles
                  ELSE handles \cup {[worker |-> id, lease |-> startup[id].lease]}
    /\ warm' = IF warm > 0 THEN warm - 1 ELSE 0
    /\ UNCHANGED <<nextId, nextLease, draining, shuttingDown, sweep, slotVars, future, guards>>

\* Mutant of DiscardUninstalledSlot: the slot is dropped, its worker is not taken.
DropsUninstalledSlot(id) ==
    /\ startup' = [startup EXCEPT ![id].pc = "cleanup"]
    /\ UNCHANGED <<child, retire>>

\* discard_uninstalled_slot takes the slot; Forget and Finish end it.
DiscardUninstalledSlot(id) ==
    /\ child' = [child EXCEPT ![id] = Child("dead", NoLease)]
    /\ retire' = [retire EXCEPT ![id] = [pc |-> "taken", by |-> "startup"]]
    /\ startup' = [startup EXCEPT ![id].pc = "discard"]

\* finish_spawn_reservation(Some(slot)) after shutdown began.
DiscardAtShutdown(id) ==
    /\ startup[id].pc = "ready"
    /\ shuttingDown
    /\ DiscardUninstalledSlot(id)
    /\ UNCHANGED <<poolVars, process, reapTimer, abandoned, request, handles, future, guards>>

\* finish_spawn_reservation(None), or its last step after a discard.  A
\* failed warm_min ends the server.
ReleaseReservation(id) ==
    /\ \/ startup[id].pc = "cleanup"
       \/ startup[id].pc = "discard" /\ retire[id].pc = "done"
    /\ spawning' = Unreserve(id)
    /\ startup' = [startup EXCEPT ![id] = NoStartup]
    /\ request' = Notified(RequestsAfterStartup(id))
    /\ draining' = (draining \/ warm > 0)
    /\ shuttingDown' = (shuttingDown \/ warm > 0)
    /\ UNCHANGED <<children, nextId, nextLease, warm, sweep, slotVars, handles, future, guards>>

-----------------------------------------------------------------------------
(* lease(): one future per client, with a deadline.                        *)

\* Mutant of LeaseId: the first lease gets the id that means none.
LeaseIdFromZero == nextLease

\* next_lease_id, incremented for every request.
LeaseId == nextLease + 1

RequestLease(c) ==
    /\ request[c].pc = "none"
    /\ warm = 0
    /\ Cardinality({d \in Clients : request[d].pc # "none"}) < AcquireCapacity
    /\ nextLease < MaxLeases
    /\ nextLease' = nextLease + 1
    /\ request' = [request EXCEPT ![c] = [pc |-> "scan", lease |-> LeaseId, worker |-> NoId]]
    /\ UNCHANGED <<children, spawning, nextId, draining, shuttingDown, warm, sweep, slotVars,
                   startup, handles, future, guards>>

\* lease_inner finds an idle child.
LeaseIdle(c, w) ==
    /\ request[c].pc = "scan" /\ ~shuttingDown
    /\ w \in IdleChildren
    /\ child' = [child EXCEPT ![w] = Child("leased", request[c].lease)]
    /\ reapTimer' = [reapTimer EXCEPT ![w] = FALSE]
    /\ handles' = handles \cup {[worker |-> w, lease |-> request[c].lease]}
    /\ request' = [request EXCEPT ![c] = NoRequest]
    /\ UNCHANGED <<poolVars, process, retire, abandoned, startup, future, guards>>

\* lease_inner finds none: dead slots are dropped, then it starts a worker,
\* waits for a startup, or fails: PoolExhausted, or no id left to reserve.
LeaseNew(c) ==
    /\ request[c].pc = "scan" /\ ~shuttingDown
    /\ IdleChildren = {}
    /\ ActiveCount < MaxWorkers
    /\ children' = Live
    /\ ReserveSpawnSlot(request[c].lease)
    /\ request' = [request EXCEPT ![c] = [pc |-> "start", lease |-> @.lease, worker |-> nextId]]
    /\ UNCHANGED <<nextLease, draining, shuttingDown, warm, sweep, slotVars, handles, future, guards>>

LeaseWaitsOrFails(c) ==
    /\ request[c].pc = "scan" /\ ~shuttingDown
    /\ IdleChildren = {}
    /\ ActiveCount >= MaxWorkers \/ nextId = MaxIds
    /\ children' = Live
    /\ request' = [request EXCEPT ![c] =
                     IF ActiveCount >= MaxWorkers /\ spawning # {}
                     THEN [@ EXCEPT !.pc = "wait"] ELSE NoRequest]
    /\ UNCHANGED <<spawning, nextId, nextLease, draining, shuttingDown, warm, sweep, slotVars,
                   startup, handles, future, guards>>

\* shutdown refuses the request (in the scan, or out of the wait).
LeaseRefused(c) ==
    /\ request[c].pc \in {"scan", "wait"}
    /\ shuttingDown
    /\ request' = [request EXCEPT ![c] = NoRequest]
    /\ UNCHANGED <<poolVars, slotVars, startup, handles, future, guards>>

\* The deadline passes, or the caller drops the future.
LeaseEnds(c) ==
    /\ request[c].pc \in {"scan", "wait"}
    /\ request' = [request EXCEPT ![c] = NoRequest]
    /\ UNCHANGED <<poolVars, slotVars, startup, handles, future, guards>>

\* Mutant of AbandonStartup: dropping the reservation does nothing.
AbandonStartupIgnored(id) ==
    /\ startup[id].pc # "discard"
    /\ UNCHANGED <<startup, child, process, retire>>

\* Drop for SpawnReservation: a detached task cleans up what the startup did
\* so far.  Dropping a discard kills the process of the worker it took.
AbandonStartup(id) ==
    \/ /\ startup[id].pc = "spawn"
       /\ startup' = [startup EXCEPT ![id].pc = "cleanup"]
       /\ UNCHANGED <<child, process, retire>>
    \/ /\ startup[id].pc = "ready"
       /\ DiscardUninstalledSlot(id)
       /\ UNCHANGED process
    \/ /\ startup[id].pc = "discard"
       /\ startup' = [startup EXCEPT ![id].pc = "cleanup"]
       /\ process' = [process EXCEPT ![id] = "gone"]
       /\ retire' = [retire EXCEPT ![id].pc = "done"]
       /\ UNCHANGED child
    \/ /\ startup[id].pc = "cleanup"
       /\ UNCHANGED <<startup, child, process, retire>>

LeaseEndsInStartup(c) ==
    /\ request[c].pc = "start"
    /\ request' = [request EXCEPT ![c] = NoRequest]
    /\ AbandonStartup(request[c].worker)
    /\ UNCHANGED <<poolVars, reapTimer, abandoned, handles, future, guards>>

-----------------------------------------------------------------------------
(* Retirement of a worker: mark_dead_for_lease, mark_dead_inner and         *)
(* mark_stale_idle_dead.  Take marks the slot dead under its mutex; the     *)
(* rest follows in steps of whoever carries the retirement.                 *)

\* Mutant of TakeDeadWorker: the slot is marked, nobody carries the retirement.
MarksDeadOnly(w, by) ==
    /\ child' = [child EXCEPT ![w] = Child("dead", NoLease)]
    /\ UNCHANGED retire

TakeDeadWorker(w, by) ==
    /\ child' = [child EXCEPT ![w] = Child("dead", NoLease)]
    /\ retire' = [retire EXCEPT ![w] = [pc |-> "taken", by |-> by]]

ForgetSlot(w) ==
    /\ retire[w].pc = "taken"
    /\ children' = children \ {w}
    /\ retire' = [retire EXCEPT ![w].pc = "forgotten"]
    /\ request' = Notified(request)
    /\ UNCHANGED <<spawning, nextId, nextLease, draining, shuttingDown, warm, sweep,
                   child, process, reapTimer, abandoned, startup, handles, future, guards>>

\* Only the retirements of a lease replace the worker.
Replenishes(w) == retire[w].by \in Futures \cup {"detached"}

\* finish_dead_worker: the service is closed, the process is gone, partial
\* artifacts and the output lock are cleaned up.
FinishDeadWorker(w) ==
    /\ retire[w].pc = "forgotten"
    /\ process' = [process EXCEPT ![w] = "gone"]
    /\ abandoned' = [abandoned EXCEPT ![w] = {}]
    /\ retire' = [retire EXCEPT ![w].pc = IF Replenishes(w) THEN "finished" ELSE "done"]
    /\ UNCHANGED <<poolVars, child, reapTimer, taskVars>>

\* The future that carried the retirement of w returns.
FuturesAfterRetire(w) ==
    [f \in Futures |-> IF retire[w].by = f THEN NoFuture ELSE future[f]]

\* schedule_replenishment counts every slot in children, dead ones too.
Missing == MinWorkers - (Cardinality(spawning) + Cardinality(children))

\* The ids it reserves, under one lock of the pool.
Replacements ==
    IF shuttingDown THEN {} ELSE {id \in Ids : nextId <= id /\ id < nextId + Missing}

Replenish(w) ==
    /\ retire[w].pc = "finished"
    /\ spawning' = spawning \cup Replacements
    /\ nextId' = nextId + Cardinality(Replacements)
    /\ startup' = [id \in Ids |-> IF id \in Replacements THEN [pc |-> "spawn", lease |-> NoLease]
                                  ELSE startup[id]]
    /\ retire' = [retire EXCEPT ![w].pc = "done"]
    /\ future' = FuturesAfterRetire(w)
    /\ UNCHANGED <<children, nextLease, draining, shuttingDown, warm, sweep,
                   child, process, reapTimer, abandoned, request, handles, guards>>

\* A detached guard runs mark_dead_for_lease: a no-op for another lease.
GuardRetires(h) ==
    /\ h \in guards
    /\ guards' = guards \ {h}
    /\ IF BelongsToLease(h.worker, h.lease)
       THEN TakeDeadWorker(h.worker, "detached")
       ELSE UNCHANGED <<child, retire>>
    /\ UNCHANGED <<poolVars, process, reapTimer, abandoned, startup, request, handles, future>>

\* The workspace reaper finds the transport of a leased worker closed and
\* calls mark_dead.  Only pools of min_workers = 0 have that reaper.
ProbeMarksDead(w) ==
    /\ MinWorkers = 0
    /\ process[w] = "gone" /\ child[w].state \in {"leased", "closing"}
    /\ w \in children
    /\ TakeDeadWorker(w, "detached")
    /\ UNCHANGED <<poolVars, process, reapTimer, abandoned, taskVars>>

\* The same probe of a slot that is dead already: mark_dead only forgets it.
ProbeForgetsDead(w) ==
    /\ MinWorkers = 0
    /\ w \in children /\ child[w].state = "dead"
    /\ children' = children \ {w}
    /\ request' = Notified(request)
    /\ UNCHANGED <<spawning, nextId, nextLease, draining, shuttingDown, warm, sweep, slotVars,
                   startup, handles, future, guards>>

\* A child process exits on its own; nobody notices until it is used.
ProcessDies(w) ==
    /\ process[w] = "up"
    /\ process' = [process EXCEPT ![w] = "gone"]
    /\ abandoned' = [abandoned EXCEPT ![w] = {}]
    /\ UNCHANGED <<poolVars, child, retire, reapTimer, taskVars>>

-----------------------------------------------------------------------------
(* Calls on a handle.                                                      *)

Begin(f, op, pc, h) ==
    future' = [future EXCEPT ![f] = [op |-> op, pc |-> pc, worker |-> h.worker, lease |-> h.lease]]

End(f) == future' = [future EXCEPT ![f] = NoFuture]

\* call_tool: a full queue answers Busy and changes nothing; a pool-owned
\* call is refused once shutdown began.
CallTool(f, h) ==
    /\ future[f].pc = "none"
    /\ h \in handles
    /\ Cardinality(QueuedCalls(h.worker)) < QueueCapacity
    /\ PreserveOnCancel => ~shuttingDown
    /\ Begin(f, "call", "queue", h)
    /\ UNCHANGED <<poolVars, slotVars, startup, request, handles, guards>>

\* call_tool_admitted: with the call lock, the slot's state decides.
AdmitCall(f) ==
    LET w == future[f].worker
        l == future[f].lease IN
    /\ future[f].pc = "queue"
    /\ ~shuttingDown
    /\ CallLockFree(w)
    /\ IF child[w] = Child("leased", l)
       THEN future' = [future EXCEPT ![f].pc = "exec"]
       ELSE End(f)
    /\ UNCHANGED <<poolVars, slotVars, startup, request, handles, guards>>

\* Cancelled, dropped, timed out, drained or shut down before dispatch.
CallNeverDispatched(f) ==
    /\ future[f].pc = "queue"
    /\ End(f)
    /\ UNCHANGED <<poolVars, slotVars, startup, request, handles, guards>>

\* A settled reply.
CallSettles(f) ==
    /\ future[f].pc = "exec"
    /\ process[future[f].worker] = "up"
    /\ End(f)
    /\ UNCHANGED <<poolVars, slotVars, startup, request, handles, guards>>

\* mark_dead_for_lease, awaited by the future f.
RetireInline(f) ==
    LET w == future[f].worker IN
    IF BelongsToLease(w, future[f].lease)
    THEN /\ TakeDeadWorker(w, f)
         /\ future' = [future EXCEPT ![f].pc = "retiring"]
    ELSE /\ End(f)
         /\ UNCHANGED <<child, retire>>

\* Timeout, cancellation while executing, transport failure or a retiring error.
CallRetires(f) ==
    /\ future[f].pc = "exec"
    /\ RetireInline(f)
    /\ UNCHANGED <<poolVars, process, reapTimer, abandoned, startup, request, handles, guards>>

-----------------------------------------------------------------------------
(* lease_for_open meets a lease whose worker is lost: it waits for the call *)
(* lock and retires the worker, with no guard, before it leases again.      *)

Reopen(f, h) ==
    /\ future[f].pc = "none"
    /\ h \in handles
    /\ ~BelongsToLease(h.worker, h.lease) \/ process[h.worker] = "gone"
    /\ Begin(f, "reopen", "reopenwait", h)
    /\ UNCHANGED <<poolVars, slotVars, startup, request, handles, guards>>

\* It has the call lock and takes the lease out of the handle (Workspace has the
\* handle).  mark_dead_for_lease then waits for the slot's state ...
ReopenTakes(f) ==
    /\ future[f].pc = "reopenwait"
    /\ CallLockFree(future[f].worker)
    /\ future' = [future EXCEPT ![f].pc = "stale"]
    /\ UNCHANGED <<poolVars, slotVars, startup, request, handles, guards>>

\* ... and retires the worker, if the lease has not ended meanwhile.
ReopenRetires(f) ==
    /\ future[f].pc = "stale"
    /\ RetireInline(f)
    /\ UNCHANGED <<poolVars, process, reapTimer, abandoned, startup, request, handles, guards>>

-----------------------------------------------------------------------------
(* release(): closes the database and resets the slot.                     *)

Release(f, h) ==
    /\ future[f].pc = "none"
    /\ h \in handles
    /\ Begin(f, "release", "lockwait", h)
    /\ UNCHANGED <<poolVars, slotVars, startup, request, handles, guards>>

\* With the call lock: a stale handle does nothing, the owner starts to close.
ReleaseLocks(f) ==
    LET w == future[f].worker
        l == future[f].lease IN
    /\ future[f].pc = "lockwait"
    /\ CallLockFree(w)
    /\ IF BelongsToLease(w, l)
       THEN /\ child' = [child EXCEPT ![w] = Child("closing", l)]
            /\ future' = [future EXCEPT ![f].pc = "closing"]
       ELSE /\ future' = [future EXCEPT ![f].pc = "released"]
            /\ UNCHANGED child
    /\ UNCHANGED <<poolVars, process, retire, reapTimer, abandoned, startup, request, handles,
                   guards>>

\* close_idb answered, and the error, if any, does not retire the worker.  The
\* child serves one request at a time, so no earlier request still runs.
ReleaseCloses(f) ==
    LET w == future[f].worker IN
    /\ future[f].pc = "closing"
    /\ process[w] = "up" /\ abandoned[w] = {}
    /\ future' = [future EXCEPT ![f].pc = "released"]
    /\ IF child[w].state = "dead"
       THEN UNCHANGED <<child, request>>
       ELSE /\ child' = [child EXCEPT ![w] = Child("idle", NoLease)]
            /\ request' = Notified(request)
    /\ UNCHANGED <<poolVars, process, retire, reapTimer, abandoned, startup, handles, guards>>

\* close_idb failed in a way that leaves the save unconfirmed.
ReleaseRetires(f) ==
    /\ future[f].pc = "closing"
    /\ RetireInline(f)
    /\ UNCHANGED <<poolVars, process, reapTimer, abandoned, startup, request, handles, guards>>

\* An idle slot gets an idle-reap timer.
ScheduleIdleReap(f) ==
    /\ future[f].pc = "released"
    /\ reapTimer' = [reapTimer EXCEPT ![future[f].worker] =
                        @ \/ child[future[f].worker].state = "idle"]
    /\ End(f)
    /\ UNCHANGED <<poolVars, child, process, retire, abandoned, startup, request, handles, guards>>

\* The timer fires: take_stale_idle_worker_if_above_min.
IdleReap(w) ==
    /\ reapTimer[w]
    /\ reapTimer' = [reapTimer EXCEPT ![w] = FALSE]
    /\ IF ActiveCount > MinWorkers /\ child[w].state = "idle"
       THEN TakeDeadWorker(w, "reaper")
       ELSE UNCHANGED <<child, retire>>
    /\ UNCHANGED <<poolVars, process, abandoned, taskVars>>

-----------------------------------------------------------------------------
(* A future is dropped by its caller.  An armed WorkerRetireGuard spawns a  *)
(* detached retirement; a retirement awaited by the future itself stops     *)
(* where it is, and dropping its DeadWorker kills the process.              *)

\* Mutant of SpawnGuard: a dropped future retires nothing.
NoGuard(h) == guards

\* Drop for WorkerRetireGuard.
SpawnGuard(h) == guards \cup {h}

DropUnarmed(f) ==
    /\ future[f].pc \in {"reopenwait", "stale", "released"}
    /\ End(f)
    /\ UNCHANGED <<poolVars, slotVars, startup, request, handles, guards>>

DropArmed(f) ==
    LET w == future[f].worker
        h == [worker |-> w, lease |-> future[f].lease] IN
    /\ future[f].pc \in {"exec", "lockwait", "closing"}
    /\ PreserveOnCancel => future[f].op # "call"
    /\ End(f)
    /\ guards' = SpawnGuard(h)
    /\ abandoned' = [abandoned EXCEPT ![w] =
                        IF future[f].pc = "exec" /\ process[w] = "up"
                        THEN @ \cup {h.lease} ELSE @]
    /\ UNCHANGED <<poolVars, child, process, retire, reapTimer, startup, request, handles>>

DropRetiring(f) ==
    LET w == future[f].worker IN
    /\ future[f].pc = "retiring"
    /\ PreserveOnCancel => future[f].op # "call"
    /\ End(f)
    /\ guards' = IF future[f].op = "reopen" THEN guards
                  ELSE SpawnGuard([worker |-> w, lease |-> future[f].lease])
    /\ retire' = [retire EXCEPT ![w].pc = "lost"]
    /\ process' = [process EXCEPT ![w] = "gone"]
    /\ abandoned' = [abandoned EXCEPT ![w] = {}]
    /\ UNCHANGED <<poolVars, child, reapTimer, startup, request, handles>>

\* The child finishes a call nobody waits for any more.
AbandonedCallEnds(w, l) ==
    /\ l \in abandoned[w]
    /\ abandoned' = [abandoned EXCEPT ![w] = @ \ {l}]
    /\ UNCHANGED <<poolVars, child, process, retire, reapTimer, taskVars>>

-----------------------------------------------------------------------------
(* Shutdown.                                                               *)

BeginDrain ==
    /\ ~draining
    /\ draining' = TRUE
    /\ UNCHANGED <<children, spawning, nextId, nextLease, shuttingDown, warm, sweep, slotVars,
                   taskVars>>

\* begin_shutdown stops the queued calls too.
BeginShutdown ==
    /\ ~shuttingDown
    /\ draining' = TRUE /\ shuttingDown' = TRUE
    /\ UNCHANGED <<children, spawning, nextId, nextLease, warm, sweep, slotVars, taskVars>>

\* Mutant of SweepBegins: startups are not waited for.
SweepBeginsEarly ==
    /\ shuttingDown /\ sweep.phase = "none"
    /\ sweep' = [phase |-> "marking", slots |-> children]
    /\ UNCHANGED <<children, spawning, nextId, nextLease, draining, shuttingDown, warm, slotVars,
                   taskVars>>

\* shutdown_all, once replenishment and startups have been waited for.
SweepBegins ==
    /\ shuttingDown /\ sweep.phase = "none"
    /\ spawning = {}
    /\ sweep' = [phase |-> "marking", slots |-> children]
    /\ UNCHANGED <<children, spawning, nextId, nextLease, draining, shuttingDown, warm, slotVars,
                   taskVars>>

\* mark_dead_without_replacement: a slot somebody else took is only forgotten.
SweepMarks(w) ==
    /\ w \in sweep.slots
    /\ sweep' = [sweep EXCEPT !.slots = @ \ {w}]
    /\ IF child[w].state # "dead"
       THEN TakeDeadWorker(w, "shutdown") /\ UNCHANGED <<children, request>>
       ELSE children' = children \ {w} /\ request' = Notified(request)
            /\ UNCHANGED <<child, retire>>
    /\ UNCHANGED <<spawning, nextId, nextLease, draining, shuttingDown, warm, process, reapTimer,
                   abandoned, startup, handles, future, guards>>

\* Every slot has been marked, and the pool-owned calls have been joined.
SweepEnds ==
    /\ sweep.phase = "marking" /\ sweep.slots = {}
    /\ \A w \in Ids : retire[w].by = "shutdown" => retire[w].pc = "done"
    /\ PreserveOnCancel => \A f \in Futures : future[f].op # "call"
    /\ sweep' = [sweep EXCEPT !.phase = "done"]
    /\ UNCHANGED <<children, spawning, nextId, nextLease, draining, shuttingDown, warm, slotVars,
                   taskVars>>

-----------------------------------------------------------------------------
Startups == WarmMin \/ \E id \in Ids :
    SpawnSlot(id) \/ SpawnFails(id) \/ InstallSlot(id) \/ DiscardAtShutdown(id)
      \/ ReleaseReservation(id)

LeaseRequests == \E c \in Clients :
    RequestLease(c) \/ LeaseNew(c) \/ LeaseWaitsOrFails(c) \/ LeaseRefused(c) \/ LeaseEnds(c)
      \/ LeaseEndsInStartup(c)
      \/ \E w \in Ids : LeaseIdle(c, w)

Calls == \E f \in Futures :
    AdmitCall(f) \/ CallNeverDispatched(f) \/ CallSettles(f) \/ CallRetires(f)
      \/ ReopenTakes(f) \/ ReopenRetires(f)
      \/ \E h \in handles : CallTool(f, h) \/ Reopen(f, h)

Releases == \E f \in Futures :
    ReleaseLocks(f) \/ ReleaseCloses(f) \/ ReleaseRetires(f) \/ ScheduleIdleReap(f)
      \/ \E h \in handles : Release(f, h)

Drops == \E f \in Futures : DropUnarmed(f) \/ DropArmed(f) \/ DropRetiring(f)

Retirements ==
    \/ \E w \in Ids : ForgetSlot(w) \/ FinishDeadWorker(w) \/ Replenish(w)
                        \/ IdleReap(w) \/ ProbeMarksDead(w) \/ ProbeForgetsDead(w)
                        \/ ProcessDies(w)
                        \/ \E l \in Leases : AbandonedCallEnds(w, l)
    \/ \E h \in guards : GuardRetires(h)

Shutdown == BeginDrain \/ BeginShutdown \/ SweepBegins \/ SweepEnds \/ \E w \in Ids : SweepMarks(w)

Next == Startups \/ LeaseRequests \/ Calls \/ Releases \/ Drops \/ Retirements \/ Shutdown

Spec == Init /\ [][Next]_vars

-----------------------------------------------------------------------------
(* Safety.                                                                 *)

\* Every variable has its type.
TypeOK ==
    /\ children \subseteq Ids /\ spawning \subseteq Ids
    /\ nextId \in 0..MaxIds /\ nextLease \in 0..MaxLeases
    /\ draining \in BOOLEAN /\ shuttingDown \in BOOLEAN
    /\ warm \in 0..MinWorkers
    /\ sweep \in [phase : {"none", "marking", "done"}, slots : SUBSET Ids]
    /\ child \in [Ids -> ChildRec]
    /\ process \in [Ids -> {"none", "up", "gone"}]
    /\ startup \in [Ids -> StartupRec]
    /\ request \in [Clients -> RequestRec]
    /\ handles \subseteq Handle
    /\ future \in [Futures -> FutureRec]
    /\ guards \subseteq Handle
    /\ retire \in [Ids -> RetireRec]
    /\ reapTimer \in [Ids -> BOOLEAN]
    /\ abandoned \in [Ids -> SUBSET Leases]

\* Reserved and live workers together never exceed max_workers, although
\* leases, replenishment and retirements change the two sets concurrently.
Capacity == ActiveCount <= MaxWorkers

\* A live child process is always somebody's responsibility: it is being
\* started under a reservation, is an installed slot, or is being retired.
NoLeakedProcess == \A w \in Ids :
    process[w] = "up" => w \in spawning \cup children \/ retire[w].pc \in {"taken", "forgotten"}

\* A leased slot has an owner: the handle of its lease was handed out, so a
\* caller that gave up while its worker started strands no worker.
LeaseHasOwner == \A w \in children :
    child[w].state \in {"leased", "closing"} => [worker |-> w, lease |-> child[w].lease] \in handles

\* A lease id names one worker for ever: no two handles share it.
LeaseNamesOneWorker == \A g, h \in handles : g.lease = h.lease => g = h

\* While a request of a lease runs in a child, watched or abandoned, the child
\* is not idle and not leased to anybody else.
WorkIsolation ==
    /\ \A f \in Futures : future[f].pc \in {"exec", "closing"} =>
          \/ BelongsToLease(future[f].worker, future[f].lease)
          \/ child[future[f].worker].state = "dead"
    /\ \A w \in Ids : \A l \in abandoned[w] :
          BelongsToLease(w, l) \/ child[w].state = "dead"

\* I6, first half: a dropped call's worker cannot stay leased unnoticed.
AbandonedCallIsRetired == \A w \in Ids : \A l \in abandoned[w] :
    BelongsToLease(w, l) => [worker |-> w, lease |-> l] \in guards

\* A lease request sleeps only while a startup is in progress and no idle
\* worker is installed: the notification that ends its wait is not lost.
NoStrandedWaiter == \A c \in Clients :
    request[c].pc = "wait" => spawning # {} /\ IdleChildren = {}

\* Once shutdown_all returned, the pool is empty and stays empty.
ShutdownIsFinal == sweep.phase = "done" =>
    /\ children = {} /\ spawning = {}
    /\ \A w \in Ids : child[w].state \in {"absent", "dead"}

\* I6 as pool.rs words it: "worker retirement completes even if the awaiting
\* future is dropped".  A retirement, once begun, is carried on by someone.
RetirementNotLost == \A w \in Ids : retire[w].pc # "lost"

\* A slot that was marked dead is never used again, and a lease ends only by
\* its own release or retirement: no step hands a leased worker to another lease.
LeaseStable == [][\A w \in Ids :
    /\ child[w].state = "dead" => child'[w].state = "dead"
    /\ child[w].state \in {"leased", "closing"} /\ child'[w].state \in {"leased", "closing"}
         => child'[w].lease = child[w].lease]_vars

-----------------------------------------------------------------------------
(* What sessions see of the pool.  A slot that was started for a lease is   *)
(* nobody's until the handle is handed out.                                 *)

Started == {w \in Ids : child[w].state # "absent"}

Retired == {w \in Ids : child[w].state = "dead"}

Holder == [w \in Ids |->
    IF /\ child[w].state \in {"leased", "closing"}
       /\ [worker |-> w, lease |-> child[w].lease] \in handles
    THEN child[w].lease ELSE NoLease]

HandleOf(f) == [worker |-> future[f].worker, lease |-> future[f].lease]

RunningCalls ==
    {HandleOf(f) : f \in {g \in Futures : future[g].pc = "exec"}}
      \cup {h \in Handle : h.lease \in abandoned[h.worker]}

RunningCloses == {HandleOf(f) : f \in {g \in Futures : future[g].pc = "closing"}}

\* The pool keeps the promises of LeaseService, whatever futures are dropped,
\* processes die and leases are given up: a worker serves one lease at a time,
\* nothing of an earlier lease runs in it when it is granted, a call runs only
\* under the lease it was made for, a lease is given back only when nothing of
\* it runs, and a retired worker never serves again.
Service == INSTANCE LeaseService WITH
    Workers <- Ids,
    Limit <- MaxWorkers,
    started <- Started,
    retired <- Retired,
    holder <- Holder,
    granted <- handles,
    calls <- RunningCalls,
    closes <- RunningCloses,
    open <- ~shuttingDown
ImplementsLeaseService == Service!Spec

-----------------------------------------------------------------------------
(* Liveness.  The runtime polls every task it owns, spawn_slot and calls    *)
(* are bounded by deadlines, and main calls shutdown_all after shutdown     *)
(* began.  Nothing is assumed of clients, of native calls or of timers.     *)

Fairness ==
    /\ WF_vars(WarmMin)
    /\ \A id \in Ids :
         /\ WF_vars(SpawnSlot(id) \/ SpawnFails(id))
         /\ WF_vars(InstallSlot(id) \/ DiscardAtShutdown(id))
         /\ WF_vars(ReleaseReservation(id))
         /\ WF_vars(ForgetSlot(id))
         /\ WF_vars(FinishDeadWorker(id))
         /\ WF_vars(Replenish(id))
         /\ WF_vars(SweepMarks(id))
    /\ \A c \in Clients :
         WF_vars(LeaseNew(c) \/ LeaseWaitsOrFails(c) \/ LeaseRefused(c) \/ \E w \in Ids : LeaseIdle(c, w))
    /\ \A f \in Futures : WF_vars(CallRetires(f)) /\ WF_vars(ReleaseRetires(f))
    /\ \A h \in Handle : WF_vars(GuardRetires(h))
    /\ WF_vars(SweepBegins) /\ WF_vars(SweepEnds)

FairSpec == Spec /\ Fairness

\* Every lease request is answered, also without its deadline: it never waits
\* for a startup whose outcome it is not told.
LeaseSettles == \A c \in Clients : request[c].pc # "none" ~> request[c].pc = "none"

\* A worker marked dead has its process ended, whoever carries the retirement.
RetirementKills == \A w \in Ids : child[w].state = "dead" ~> process[w] = "gone"

\* A native call nobody waits for any more is stopped, even if it never ends
\* by itself: its worker is retired, or has been released after it.
AbandonedWorkStops == \A w \in Ids : abandoned[w] # {} ~> abandoned[w] = {}

\* shutdown_all returns, whatever calls, releases and startups are under way.
ShutdownEnds == shuttingDown ~> sweep.phase = "done"

\* --min-workers: "idle child workers to keep warm" (docs/TRANSPORTS.md).  As
\* long as workers start and no retirement is lost, the pool returns to its
\* minimum after every retirement.
KeepsMinWarm ==
    [](\A w \in Ids : retire[w].pc # "lost" /\ startup[w].pc \notin {"cleanup", "discard"})
      => []<>(ActiveCount >= MinWorkers \/ shuttingDown \/ nextId = MaxIds)
=============================================================================
