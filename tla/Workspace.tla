------------------------------- MODULE Workspace -------------------------------
(***************************************************************************)
(* One database of the workspace registry (WorkspaceRegistry and           *)
(* WorkspaceDatabase in src/ida/pool.rs) with the tool calls that use it:  *)
(* the registry entry with its guards and idle time, the lease behind the  *)
(* handle mutex, and the reaper.                                           *)
(*                                                                         *)
(* Every lease is taken under a fresh generation, so the generation also   *)
(* names the worker and the pool lease.  WorkerPool models what the pool   *)
(* does with them; here a leased worker is released or dies.               *)
(***************************************************************************)
EXTENDS Integers, FiniteSets

CONSTANTS
    Sessions,  \* tool calls, each a future that its caller may drop
    Tasks,     \* background drivers
    NoActor,
    Modes,     \* the kinds of binding to consider
    SlowPass,  \* the idle timeout may pass during one pass of the reaper
    MaxGen     \* bound of the model on next_database_generation

Actors == Sessions \cup Tasks
Gens   == 1 .. MaxGen
NoGen  == 0

ASSUME WorkspaceAssumption ==
    /\ NoActor \notin Actors
    /\ Sessions \cap Tasks = {}
    \* "keep" is a workspace whose idle timeout is zero.
    /\ Modes \subseteq {"workspace", "keep", "legacy", "shared"}
    /\ SlowPass \in BOOLEAN
    /\ MaxGen \in Nat

VARIABLES
    mode,
    entry,     \* the entry of the database in the registry
    expired,   \* idle_for() >= idle_timeout
    unused,    \* a whole idle timeout has passed since the last use
    handle,    \* WorkspaceDatabase.handle: the lease, with its debug pin
    mutex,     \* who holds the handle mutex across an await
    nextGen,   \* next_database_generation
    worker,    \* the worker of every generation; "lost": its transport closed
    child,     \* what that child has: no database, a database, a debugger session
    actor,     \* the tool calls and background tasks
    reaper,    \* workspace_reaper
    detached   \* spawned tasks that release, retire or close

entryVars  == <<entry, expired, unused>>
leaseVars  == <<handle, mutex, nextGen>>
workerVars == <<worker, child>>
vars == <<mode, entryVars, leaseVars, workerVars, actor, reaper, detached>>

HandleRec == [gen : Gens \cup {NoGen}, pinned : BOOLEAN]
NoHandle  == [gen |-> NoGen, pinned |-> FALSE]

ActorRec ==
    [guard : {"none", "call", "pin", "arc"},
     op    : {"none", "open", "call", "start", "stop", "close", "closegen"},
     pc    : {"away", "ready", "settle", "retiring", "leasing", "queue", "exec", "unheard", "pin", "unpin",
              "clear", "closegen", "releasing", "remove", "nodb", "leaving", "discard"},
     gen : Gens \cup {NoGen}, expect : Gens \cup {NoGen}, bound : Gens \cup {NoGen},
     creator : BOOLEAN, fresh : BOOLEAN]

Away == [guard |-> "none", op |-> "none", pc |-> "away", gen |-> NoGen, expect |-> NoGen,
         bound |-> NoGen, creator |-> FALSE, fresh |-> FALSE]

ReaperRec == [pc : {"sleep", "probe", "retire", "take", "close", "releasing"},
              reason : {"none", "idle", "terminal"}, gen : Gens \cup {NoGen}]
Asleep == [pc |-> "sleep", reason |-> "none", gen |-> NoGen]

\* A task that closes has still to take the handle.
Detached == [op : {"release", "retire"}, gen : Gens \cup {NoGen}] \cup [op : {"close"}, gen : {NoGen}]

-----------------------------------------------------------------------------
Listed == mode \in {"workspace", "keep"}

Guarded == \E a \in Actors : actor[a].guard \in {"call", "pin"}

\* The slot belongs to the lease and its transport is open.
Serving(g) == g # NoGen /\ worker[g] = "leased"

CallLockFree(g) ==
    \A a \in Actors : actor[a].gen = g => actor[a].pc \notin {"exec", "unheard", "retiring"}

MutexFree == mutex = NoActor

\* has_running_workspace_open
OpenRuns == \E t \in Tasks : actor[t].pc \notin {"away", "leaving"}

At(a, pc) == actor[a].pc = pc

\* An actor between two operations has no lease in hand.
Goto(a, pc) ==
    actor' = [actor EXCEPT ![a] =
       CASE pc = "ready"   -> [@ EXCEPT !.pc = pc, !.gen = NoGen, !.expect = NoGen, !.fresh = FALSE]
         [] pc = "leaving" -> [Away EXCEPT !.pc = pc, !.guard = actor[a].guard,
                                           !.creator = actor[a].creator, !.bound = actor[a].bound]
         [] OTHER          -> [@ EXCEPT !.pc = pc]]

\* mark_dead_for_lease: a no-op for a lease that ended.
Retired(g) == [worker EXCEPT ![g] = IF @ \in {"leased", "lost"} THEN "dead" ELSE @]

Closed(g) == [child EXCEPT ![g] = "empty"]

Init ==
    /\ mode \in Modes
    /\ entry = IF mode \in {"workspace", "keep"} THEN "none" ELSE "listed"
    /\ expired = FALSE /\ unused = FALSE
    /\ handle = NoHandle /\ mutex = NoActor /\ nextGen = 0
    /\ worker = [g \in Gens |-> "none"]
    /\ child = [g \in Gens |-> "empty"]
    /\ actor = [a \in Actors |-> Away]
    /\ reaper = Asleep
    /\ detached = {}

-----------------------------------------------------------------------------
(* Guards: WorkspaceLease and WorkspacePin.                                *)

Touch == expired' = FALSE

\* allocate_database, by a tool call that opens.
AllocateDatabase(a) ==
    /\ Listed /\ entry = "none" /\ At(a, "away")
    /\ entry' = "listed" /\ Touch /\ unused' = FALSE
    /\ actor' = [actor EXCEPT ![a] = [Away EXCEPT !.guard = "call", !.pc = "ready", !.creator = TRUE]]
    /\ UNCHANGED <<mode, leaseVars, workerVars, reaper, detached>>

\* acquire: the guard is taken under the registry lock; the touch follows while
\* the guard protects the entry.  Other bindings have no guard.
Acquire(a) ==
    /\ entry = "listed" /\ At(a, "away")
    /\ Touch /\ unused' = FALSE
    /\ actor' = [actor EXCEPT ![a] = [Away EXCEPT !.guard = IF Listed THEN "call" ELSE "arc",
                                                  !.pc = "ready"]]
    /\ UNCHANGED <<mode, entry, leaseVars, workerVars, reaper, detached>>

\* start_dsc_background spawns a driver with a pin, if the entry is still there.
StartBackground(a, t) ==
    /\ At(a, "ready") /\ actor[a].op = "none" /\ At(t, "away")
    /\ Listed => actor[a].creator
    /\ IF Listed /\ entry = "listed" THEN Touch ELSE UNCHANGED expired
    /\ actor' = [actor EXCEPT
         ![a].op = "call", ![a].creator = FALSE,
         ![t] = [Away EXCEPT !.guard = IF Listed /\ entry = "listed" THEN "pin" ELSE "arc",
                             !.pc = "ready"]]
    /\ UNCHANGED <<mode, entry, unused, leaseVars, workerVars, reaper, detached>>

\* Mutant of TouchBeforeLeave: the guard goes first.
LeaveUntouched(a) == UNCHANGED expired

\* Drop for WorkspaceLease and WorkspacePin publish the time first ...
TouchBeforeLeave(a) == IF actor[a].guard \in {"call", "pin"} THEN Touch ELSE UNCHANGED expired

EndCall(a) ==
    /\ At(a, "ready") /\ actor[a].op # "none"
    /\ TouchBeforeLeave(a)
    /\ Goto(a, "leaving")
    /\ UNCHANGED <<mode, entry, unused, leaseVars, workerVars, reaper, detached>>

\* ... and the guard count second.  The router removes the entry it allocated
\* when the response is an error.
Leave(a) ==
    /\ At(a, "leaving")
    /\ actor' \in {[actor EXCEPT ![a] = Away], [actor EXCEPT ![a] = [Away EXCEPT !.pc = "discard"]]}
    /\ actor'[a].pc = "discard" => actor[a].creator
    /\ actor[a].creator /\ actor[a].bound = NoGen => actor'[a].pc = "discard"
    /\ UNCHANGED <<mode, entryVars, leaseVars, workerVars, reaper, detached>>

Remove == entry' = IF entry = "listed" THEN "removed" ELSE entry

Discard(a) ==
    /\ At(a, "discard")
    /\ Remove
    /\ actor' = [actor EXCEPT ![a] = Away]
    /\ UNCHANGED <<mode, expired, unused, leaseVars, workerVars, reaper, detached>>

InUse == \E a \in Actors : actor[a].guard \in {"call", "pin"} /\ ~At(a, "leaving")

\* A whole idle timeout passes.
Expire ==
    /\ mode = "workspace" /\ entry = "listed"
    /\ SlowPass \/ reaper.pc # "take"
    /\ expired' = TRUE
    /\ unused' = (unused \/ ~InUse)
    /\ UNCHANGED <<mode, entry, leaseVars, workerVars, actor, reaper, detached>>

-----------------------------------------------------------------------------
(* lease_for_open and the open that follows.                               *)

\* Mutant of NextGeneration: the counter may overflow.
NextGenerationUnchecked(a) ==
    /\ nextGen' = nextGen + 1 /\ mutex' = a
    /\ actor' = [actor EXCEPT ![a].op = "open", ![a].pc = "leasing", ![a].gen = nextGen + 1]

\* next_database_generation, a checked addition: the open fails when the counter
\* is exhausted, and keeps the handle mutex otherwise.
NextGeneration(a) ==
    \/ /\ nextGen < MaxGen
       /\ nextGen' = nextGen + 1 /\ mutex' = a
       /\ actor' = [actor EXCEPT ![a].op = "open", ![a].pc = "leasing", ![a].gen = nextGen + 1]
    \/ /\ nextGen = MaxGen
       /\ nextGen' = nextGen /\ mutex' = NoActor
       /\ actor' = [actor EXCEPT ![a].op = "open", ![a].pc = "ready", ![a].gen = NoGen]

\* In a workspace only the call that allocated the database, or its driver, opens.
LeaseForOpen(a) ==
    /\ At(a, "ready") /\ actor[a].op = "none"
    /\ Listed => actor[a].creator \/ a \in Tasks
    /\ MutexFree
    /\ \/ /\ Serving(handle.gen)
          /\ actor' = [actor EXCEPT ![a].op = "open", ![a].pc = "queue", ![a].gen = handle.gen,
                                    ![a].fresh = FALSE]
          /\ UNCHANGED <<mutex, nextGen>>
       \/ /\ handle.gen # NoGen /\ ~Serving(handle.gen)
          /\ actor' = [actor EXCEPT ![a].op = "open", ![a].pc = "settle"]
          /\ mutex' = a
          /\ UNCHANGED nextGen
       \/ handle.gen = NoGen /\ NextGeneration(a)
    /\ UNCHANGED <<mode, entryVars, handle, workerVars, reaper, detached>>

\* With the stale slot's call lock the lease is taken out of the handle; until
\* mark_dead_for_lease has the slot's state lock, no guard retires the worker.
StaleSettles(a) ==
    /\ At(a, "settle") /\ CallLockFree(handle.gen)
    /\ handle' = NoHandle
    /\ actor' = [actor EXCEPT ![a].pc = "retiring", ![a].gen = handle.gen]
    /\ UNCHANGED <<mode, entryVars, mutex, nextGen, workerVars, reaper, detached>>

\* Then the slot is marked dead.  WorkerPool has the rest of the retirement.
StaleRetires(a) ==
    /\ At(a, "retiring")
    /\ worker' = Retired(actor[a].gen)
    /\ child' = Closed(actor[a].gen)
    /\ NextGeneration(a)
    /\ UNCHANGED <<mode, entryVars, handle, reaper, detached>>

LeaseGranted(a) ==
    /\ At(a, "leasing")
    /\ worker' = [worker EXCEPT ![actor[a].gen] = "leased"]
    /\ handle' = [gen |-> actor[a].gen, pinned |-> FALSE]
    /\ mutex' = NoActor
    /\ actor' = [actor EXCEPT ![a].pc = "queue", ![a].fresh = TRUE]
    /\ UNCHANGED <<mode, entryVars, nextGen, child, reaper, detached>>

LeaseFails(a) ==
    /\ At(a, "leasing")
    /\ mutex' = NoActor
    /\ Goto(a, "ready")
    /\ UNCHANGED <<mode, entryVars, handle, nextGen, workerVars, reaper, detached>>

-----------------------------------------------------------------------------
(* dispatch_result_observed: one call in the worker.                       *)

\* Mutant of RequiredHandle: the generation is not compared.
AnyHandle(e) == handle.gen # NoGen

\* required_handle_for_generation
RequiredHandle(e) == handle.gen # NoGen /\ e \in {NoGen, handle.gen}

\* A first operation of a call is not bound to a generation; what follows an
\* open may be.  Debugger calls are calls like any other outside a workspace,
\* where nothing reads the pin.
Dispatch(a, op, e) ==
    /\ At(a, "ready") /\ MutexFree
    /\ op # "call" => Listed
    /\ \/ a \in Sessions /\ actor[a].op = "none" /\ ~actor[a].creator /\ e = NoGen
       \/ op = "call" /\ actor[a].op \in {"open", "call"} /\ actor[a].bound # NoGen
            /\ e \in {NoGen, actor[a].bound}
    /\ actor' = [actor EXCEPT ![a] =
                    IF RequiredHandle(e)
                    THEN [@ EXCEPT !.op = op, !.expect = e, !.gen = handle.gen, !.pc = "queue"]
                    ELSE [@ EXCEPT !.op = op]]
    /\ UNCHANGED <<mode, entryVars, leaseVars, workerVars, reaper, detached>>

\* What follows an error that cost the worker.
AfterLoss(a) ==
    IF actor[a].op # "open" THEN {"clear"}
    ELSE IF actor[a].fresh THEN {"closegen"} ELSE {"closegen", "ready"}

\* call_tool with the call lock: the lease may have ended meanwhile.
Admit(a) ==
    /\ At(a, "queue") /\ CallLockFree(actor[a].gen)
    /\ \E pc \in IF worker[actor[a].gen] \in {"leased", "lost"} THEN {"exec"} ELSE AfterLoss(a) : Goto(a, pc)
    /\ UNCHANGED <<mode, entryVars, leaseVars, workerVars, reaper, detached>>

\* NeverDispatched or Busy: nothing is touched.
NeverDispatched(a) ==
    /\ At(a, "queue")
    /\ Goto(a, "ready")
    /\ UNCHANGED <<mode, entryVars, leaseVars, workerVars, reaper, detached>>

CallSettles(a) ==
    /\ At(a, "exec") /\ Serving(actor[a].gen)
    /\ actor[a].op = "open" \/ (actor[a].op = "call" /\ child[actor[a].gen] # "empty")
    /\ child' = [child EXCEPT ![actor[a].gen] = IF @ = "empty" THEN "open" ELSE @]
    /\ actor' = [actor EXCEPT ![a] =
                    [@ EXCEPT !.pc = "ready", !.gen = NoGen, !.expect = NoGen, !.fresh = FALSE,
                              !.bound = IF actor[a].op = "open" THEN actor[a].gen ELSE actor[a].bound]]
    /\ UNCHANGED <<mode, entryVars, leaseVars, worker, reaper, detached>>

\* An error that does not cost the worker: a fresh lease without a database is
\* given back.
CallRefused(a) ==
    /\ At(a, "exec") /\ Serving(actor[a].gen)
    /\ Goto(a, IF actor[a].op = "open" /\ actor[a].fresh THEN "closegen" ELSE "ready")
    /\ UNCHANGED <<mode, entryVars, leaseVars, workerVars, reaper, detached>>

\* Timeout, cancellation, lost transport, or an answer that retires (an unsettled
\* open, a debugger timeout): call_tool retires the worker.
CallRetires(a) ==
    /\ At(a, "exec")
    /\ worker' = Retired(actor[a].gen)
    /\ child' = Closed(actor[a].gen)
    /\ \E pc \in AfterLoss(a) : Goto(a, pc)
    /\ UNCHANGED <<mode, entryVars, leaseVars, reaper, detached>>

\* clear_handle_if_lease
ClearHandle(a) ==
    /\ At(a, "clear") /\ MutexFree
    /\ handle' = IF handle.gen = actor[a].gen THEN NoHandle ELSE handle
    /\ Goto(a, "ready")
    /\ UNCHANGED <<mode, entryVars, mutex, nextGen, workerVars, reaper, detached>>

-----------------------------------------------------------------------------
(* debug_start and debug_stop: the pin follows the call, without its lock. *)

\* The child owns a process afterwards; it refuses a second start.
DebugStarts(a) ==
    /\ At(a, "exec") /\ Serving(actor[a].gen)
    /\ actor[a].op = "start" /\ child[actor[a].gen] = "open"
    /\ child' = [child EXCEPT ![actor[a].gen] = "debug"]
    /\ Goto(a, "pin")
    /\ UNCHANGED <<mode, entryVars, leaseVars, worker, reaper, detached>>

DebugStops(a) ==
    /\ At(a, "exec") /\ Serving(actor[a].gen)
    /\ actor[a].op = "stop" /\ child[actor[a].gen] = "debug"
    /\ child' = [child EXCEPT ![actor[a].gen] = "open"]
    /\ Goto(a, "unpin")
    /\ UNCHANGED <<mode, entryVars, leaseVars, worker, reaper, detached>>

\* set_debug_pin_for_lease
SetDebugPin(a) ==
    /\ actor[a].pc \in {"pin", "unpin"} /\ MutexFree
    /\ handle' = IF handle.gen = actor[a].gen THEN [handle EXCEPT !.pinned = At(a, "pin")] ELSE handle
    /\ Goto(a, "ready")
    /\ UNCHANGED <<mode, entryVars, mutex, nextGen, workerVars, reaper, detached>>

-----------------------------------------------------------------------------
(* Closing.                                                                *)

\* close_idb: close takes the handle and releases it.
CloseIdb(a) ==
    /\ a \in Sessions /\ ~actor[a].creator
    /\ At(a, "ready") /\ actor[a].op = "none" /\ MutexFree
    /\ actor' = [actor EXCEPT ![a].op = "close", ![a].gen = handle.gen,
                              ![a].pc = IF handle.gen = NoGen THEN "nodb" ELSE "releasing"]
    /\ handle' = NoHandle
    /\ UNCHANGED <<mode, entryVars, mutex, nextGen, workerVars, reaper, detached>>

\* close_if_generation: after a failed open, or by a driver that gives up.
CloseIfGeneration(a) ==
    LET g == IF At(a, "closegen") THEN actor[a].gen ELSE actor[a].bound IN
    /\ \/ At(a, "closegen")
       \/ a \in Tasks /\ At(a, "ready") /\ actor[a].bound # NoGen /\ actor[a].op # "closegen"
    /\ MutexFree
    /\ actor' = [actor EXCEPT ![a] =
                    IF handle.gen = g
                    THEN [@ EXCEPT !.op = "closegen", !.gen = g, !.pc = "releasing"]
                    ELSE [@ EXCEPT !.op = "closegen", !.gen = NoGen, !.expect = NoGen,
                                   !.fresh = FALSE, !.pc = "ready"]]
    /\ handle' = IF handle.gen = g THEN NoHandle ELSE handle
    /\ UNCHANGED <<mode, entryVars, mutex, nextGen, workerVars, reaper, detached>>

\* WorkerPool.release: the database is closed, or the worker is retired.
Released(g) ==
    /\ CallLockFree(g)
    /\ worker' \in {Retired(g), [worker EXCEPT ![g] = IF @ = "leased" THEN "free" ELSE @]}
    /\ worker'[g] # "lost"
    /\ child' = Closed(g)

ReleaseEnds(a) ==
    /\ At(a, "releasing")
    /\ Released(actor[a].gen)
    /\ Goto(a, IF actor[a].op = "close" THEN "remove" ELSE "ready")
    /\ UNCHANGED <<mode, entryVars, leaseVars, reaper, detached>>

\* workspace_close_should_remove_entry, then remove.
CloseRemoves(a) ==
    /\ actor[a].pc \in {"remove", "nodb"}
    /\ IF Listed /\ (At(a, "nodb") => ~OpenRuns) THEN Remove ELSE UNCHANGED entry
    /\ Goto(a, "ready")
    /\ UNCHANGED <<mode, expired, unused, leaseVars, workerVars, reaper, detached>>

-----------------------------------------------------------------------------
(* A tool call's future is dropped where it is suspended.                  *)

\* Drop for WorkerRetireGuard
RetireGuard(a) == detached \cup {[op |-> "retire", gen |-> actor[a].gen]}

DropCall(a) ==
    /\ a \in Sessions
    /\ \/ /\ actor[a].pc \in {"settle", "retiring", "leasing", "queue"}
          /\ UNCHANGED detached
       \/ /\ actor[a].pc \in {"pin", "unpin", "clear", "closegen"} /\ ~MutexFree
          /\ UNCHANGED detached
       \/ /\ actor[a].pc \in {"exec", "releasing"}
          /\ mode = "shared" => actor[a].pc # "exec"
          /\ detached' = RetireGuard(a)
    /\ mutex' = IF mutex = a THEN NoActor ELSE mutex
    /\ TouchBeforeLeave(a)
    /\ actor' = [actor EXCEPT ![a] = [Away EXCEPT !.pc = "leaving", !.guard = actor[a].guard]]
    /\ UNCHANGED <<mode, entry, unused, handle, nextGen, workerVars, reaper>>

\* preserve_on_cancel: the pool owns the call, nobody waits for its answer.
DropShared(a) ==
    /\ a \in Sessions /\ mode = "shared" /\ At(a, "exec")
    /\ Goto(a, "unheard")
    /\ UNCHANGED <<mode, entryVars, leaseVars, workerVars, reaper, detached>>

UnheardEnds(a) ==
    /\ At(a, "unheard")
    /\ \/ Serving(actor[a].gen) /\ UNCHANGED worker
            /\ child' = [child EXCEPT ![actor[a].gen] =
                            IF @ = "empty" /\ actor[a].op = "open" THEN "open" ELSE @]
       \/ worker' = Retired(actor[a].gen) /\ child' = Closed(actor[a].gen)
    /\ Goto(a, "leaving")
    /\ UNCHANGED <<mode, entryVars, leaseVars, reaper, detached>>

\* The spawned tasks run.
DetachedRuns(d) ==
    /\ d \in detached
    /\ \/ /\ d.op = "retire"
          /\ worker' = Retired(d.gen) /\ child' = Closed(d.gen)
          /\ detached' = detached \ {d}
          /\ UNCHANGED handle
       \/ /\ d.op = "release"
          /\ Released(d.gen)
          /\ detached' = detached \ {d}
          /\ UNCHANGED handle
       \/ /\ d.op = "close" /\ MutexFree
          /\ handle' = NoHandle
          /\ detached' = (detached \ {d})
               \cup {[op |-> "release", gen |-> g] : g \in {handle.gen} \ {NoGen}}
          /\ UNCHANGED <<worker, child>>
    /\ UNCHANGED <<mode, entryVars, mutex, nextGen, actor, reaper>>

-----------------------------------------------------------------------------
(* The end of a binding, and the environment.                              *)

\* WorkspaceRegistry.shutdown drains the registry and closes every database.
ShutdownRegistry ==
    /\ Listed /\ entry = "listed"
    /\ entry' = "removed"
    /\ detached' = detached \cup {[op |-> "close", gen |-> NoGen]}
    /\ UNCHANGED <<mode, expired, unused, leaseVars, workerVars, actor, reaper>>

\* Drop for LegacySessionBinding
LegacyEnds ==
    /\ mode = "legacy" /\ entry = "listed"
    /\ \A a \in Actors : actor[a].guard = "none"
    /\ entry' = "removed"
    /\ UNCHANGED <<mode, expired, unused, leaseVars, workerVars, actor, reaper, detached>>

\* Mutant of HandleAtDrop: the database forgets its lease.
ForgetsHandle == detached

\* Drop for WorkspaceDatabase releases what is left.
HandleAtDrop == detached \cup {[op |-> "release", gen |-> g] : g \in {handle.gen} \ {NoGen}}

\* The last reference to a removed database goes away.
DropDatabase ==
    /\ entry = "removed"
    /\ \A a \in Actors : actor[a].guard = "none"
    /\ reaper.pc \in {"sleep", "take"} /\ \A d \in detached : d.op # "close"
    /\ entry' = "dropped"
    /\ detached' = HandleAtDrop
    /\ handle' = NoHandle
    /\ UNCHANGED <<mode, expired, unused, mutex, nextGen, workerVars, actor, reaper>>

\* A child process exits on its own.
ProcessDies(g) ==
    /\ worker[g] = "leased"
    /\ worker' = [worker EXCEPT ![g] = "lost"]
    /\ child' = Closed(g)
    /\ UNCHANGED <<mode, entryVars, leaseVars, actor, reaper, detached>>

-----------------------------------------------------------------------------
(* workspace_reaper.                                                       *)

\* collect_reap_candidates
ReaperCollects ==
    /\ Listed /\ entry = "listed" /\ ~Guarded
    /\ reaper.pc = "sleep"
    /\ reaper' = [reaper EXCEPT !.pc = "probe"]
    /\ UNCHANGED <<mode, entryVars, leaseVars, workerVars, actor, detached>>

Reapable(reason) == reaper' = [pc |-> "take", reason |-> reason, gen |-> NoGen]

\* Mutant of WorkerUnavailable: a pin is believed without a look at the worker.
UnpinnedUnavailable == ~Serving(handle.gen) /\ ~handle.pinned

WorkerUnavailable == ~Serving(handle.gen)

\* probe_reap_candidates with lease_reap_decision: a lease whose worker is lost
\* is taken out of the handle ...
ReaperProbes ==
    /\ reaper.pc = "probe"
    /\ \/ /\ ~MutexFree
          /\ reaper' = Asleep
          /\ UNCHANGED handle
       \/ /\ MutexFree /\ handle.gen = NoGen
          /\ Reapable("terminal")
          /\ UNCHANGED handle
       \/ /\ MutexFree /\ handle.gen # NoGen /\ WorkerUnavailable
          /\ handle' = NoHandle
          /\ reaper' = [reaper EXCEPT !.pc = "retire", !.gen = handle.gen]
       \/ /\ MutexFree /\ handle.gen # NoGen /\ ~WorkerUnavailable
          /\ IF ~handle.pinned /\ mode = "workspace" /\ expired
             THEN Reapable("idle") ELSE reaper' = Asleep
          /\ UNCHANGED handle
    /\ UNCHANGED <<mode, entryVars, mutex, nextGen, workerVars, actor, detached>>

\* ... and the worker marked dead.
ReaperRetires ==
    /\ reaper.pc = "retire"
    /\ worker' = Retired(reaper.gen)
    /\ child' = Closed(reaper.gen)
    /\ Reapable("terminal")
    /\ UNCHANGED <<mode, entryVars, leaseVars, actor, detached>>

\* Mutant of StillReapable: the idle time is not read again.
StillUnguarded ==
    /\ entry = "listed" /\ ~Guarded
    /\ reaper.reason = "terminal" => MutexFree /\ handle.gen = NoGen

StillReapable ==
    /\ entry = "listed" /\ ~Guarded
    /\ reaper.reason = "idle" => expired
    /\ reaper.reason = "terminal" => MutexFree /\ handle.gen = NoGen

\* take_expired_entries
ReaperTakes ==
    /\ reaper.pc = "take"
    /\ IF StillReapable
       THEN entry' = "removed" /\ reaper' = [reaper EXCEPT !.pc = "close"]
       ELSE UNCHANGED entry /\ reaper' = Asleep
    /\ UNCHANGED <<mode, expired, unused, leaseVars, workerVars, actor, detached>>

ReaperCloses ==
    /\ reaper.pc = "close" /\ MutexFree
    /\ handle' = NoHandle
    /\ reaper' = IF handle.gen = NoGen THEN Asleep
                 ELSE [pc |-> "releasing", reason |-> "none", gen |-> handle.gen]
    /\ UNCHANGED <<mode, entryVars, mutex, nextGen, workerVars, actor, detached>>

ReaperReleases ==
    /\ reaper.pc = "releasing"
    /\ Released(reaper.gen)
    /\ reaper' = Asleep
    /\ UNCHANGED <<mode, entryVars, leaseVars, actor, detached>>

-----------------------------------------------------------------------------
Guards(a) ==
    EndCall(a) \/ Leave(a) \/ Discard(a)
      \/ (a \in Sessions /\ (AllocateDatabase(a) \/ Acquire(a)
                               \/ \E t \in Tasks : StartBackground(a, t)))

Opens(a) ==
    LeaseForOpen(a) \/ StaleSettles(a) \/ StaleRetires(a) \/ LeaseGranted(a) \/ LeaseFails(a)

Calls(a) ==
    \/ \E op \in {"call", "start", "stop"}, e \in Gens \cup {NoGen} : Dispatch(a, op, e)
    \/ Admit(a) \/ NeverDispatched(a) \/ CallSettles(a) \/ CallRefused(a) \/ CallRetires(a)
    \/ ClearHandle(a)
    \/ DebugStarts(a) \/ DebugStops(a) \/ SetDebugPin(a)

Closes(a) == CloseIdb(a) \/ CloseIfGeneration(a) \/ ReleaseEnds(a) \/ CloseRemoves(a)

Drops(a) == DropCall(a) \/ DropShared(a) \/ UnheardEnds(a)

Reaper ==
    ReaperCollects \/ ReaperProbes \/ ReaperRetires \/ ReaperTakes \/ ReaperCloses \/ ReaperReleases

Next ==
    \/ \E a \in Actors : Guards(a) \/ Opens(a) \/ Calls(a) \/ Closes(a) \/ Drops(a)
    \/ \E d \in detached : DetachedRuns(d)
    \/ \E g \in Gens : ProcessDies(g)
    \/ Reaper \/ Expire \/ ShutdownRegistry \/ LegacyEnds \/ DropDatabase

Spec == Init /\ [][Next]_vars

\* The runtime polls the reaper and its spawned tasks; a removed database that
\* nobody refers to is dropped.
Fairness ==
    /\ WF_vars(ReaperCollects) /\ WF_vars(ReaperProbes) /\ WF_vars(ReaperRetires)
    /\ WF_vars(ReaperTakes) /\ WF_vars(ReaperCloses) /\ WF_vars(ReaperReleases)
    /\ WF_vars(DropDatabase)
    /\ \A d \in Detached : WF_vars(DetachedRuns(d))

FairSpec == Spec /\ Fairness

-----------------------------------------------------------------------------
(* Properties.                                                             *)

\* Every variable has its type.
TypeOK ==
    /\ mode \in Modes
    /\ entry \in {"none", "listed", "removed", "dropped"}
    /\ expired \in BOOLEAN /\ unused \in BOOLEAN
    /\ handle \in HandleRec
    /\ mutex \in Actors \cup {NoActor}
    /\ nextGen \in 0..MaxGen
    /\ worker \in [Gens -> {"none", "leased", "lost", "free", "dead"}]
    /\ child \in [Gens -> {"empty", "open", "debug"}]
    /\ actor \in [Actors -> ActorRec]
    /\ reaper \in ReaperRec
    /\ detached \subseteq Detached

\* Who will give back or retire the worker of a lease, or use it.
Owned(g) ==
    \/ handle.gen = g /\ entry # "dropped"
    \/ \E a \in Actors : actor[a].gen = g /\ actor[a].pc \in {"releasing", "retiring"}
    \/ reaper.pc \in {"releasing", "retire"} /\ reaper.gen = g
    \/ \E d \in detached : d.gen = g

\* A worker that serves a lease is always somebody's: the handle of a database
\* that is still referred to, a release or retirement under way, or a spawned
\* task.
NoOrphanLease == \A g \in Gens : worker[g] = "leased" => Owned(g)

\* I6: so is a leased worker whose transport closed.  The open that takes the
\* stale lease out of the handle has no guard: dropped before the slot is marked
\* dead, it leaves it leased to nobody.
LostIsRetired == \A g \in Gens : worker[g] = "lost" => Owned(g)

\* I8: a call bound to a generation runs in the worker of that generation, and
\* not after that database was closed.
GenerationGate == \A a \in Actors :
    actor[a].pc \in {"exec", "unheard"} /\ actor[a].expect # NoGen =>
      actor[a].gen = actor[a].expect /\ worker[actor[a].expect] # "free"

\* The reaper evicts for idleness.
Evicts == reaper.pc = "take" /\ reaper.reason = "idle" /\ entry = "listed" /\ entry' = "removed"
            /\ reaper'.pc = "close"

\* I2: an entry is evicted only when no call and no task has used it for a whole
\* idle timeout, although the guards are counted and timed apart.
EvictedIsUnused == [][Evicts => unused /\ ~Guarded]_vars

\* I2: an entry with a debug pin is not evicted, although the pin is read in an
\* earlier step than the entry is removed.
PinBlocksEviction == [][Evicts => ~handle.pinned]_vars

\* I4 and I5: when no debugger call is under way, the database is pinned exactly
\* if its child owns a debugger session.
DebugCalls == \E a \in Actors :
    actor[a].op \in {"start", "stop"} /\ actor[a].pc \notin {"away", "ready", "leaving", "queue"}

PinTracksSession ==
    ~DebugCalls /\ Serving(handle.gen) => (handle.pinned <=> child[handle.gen] = "debug")

\* I1 and I9: a lease whose worker is lost does not stay installed once the
\* database is left alone, pinned or not, idle timeout or not.
LossIsNoticed ==
    Listed /\ <>[](\A a \in Actors : actor[a].guard = "none")
      => []<>(handle.gen = NoGen \/ Serving(handle.gen))
=============================================================================
