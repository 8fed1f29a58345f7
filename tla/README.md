# TLA+ models of ida-mcp-rs

ida-mcp-rs serves IDA Pro databases to MCP clients. A supervisor process speaks
MCP over stdio or HTTP and drives one or several child processes, each of which
owns one IDA kernel on its main thread. This directory holds TLA+ models of the
parts of the supervisor and of its children whose correctness depends on
ordering, cancellation, crashes or limits, the TLC configurations that check
them, and TLAPS proofs for every value of their constants.

File names below are relative to `src/` of the repository (`ida/pool.rs` is
`src/ida/pool.rs`); line numbers are those of the modelled commit.

## 1. Inventory

### 1.1 Components

| Component | Code | State | Operations |
|---|---|---|---|
| Worker pool | `ida/pool.rs` 1–1300, 2700–3560 | installed slots, reserved ids, next id and lease id, shutting-down flag; per slot: state (idle, leased, closing, dead), call lock, process | lease, call_tool, release, retirement and its guard, replenishment, idle reap, drain, shutdown_all |
| Workspace registry | `ida/pool.rs` 1302–2700, 3746–3975 | entries by database id, active calls, pins, last use; per database: handle, lease generation, debug pin | allocate, acquire, pin, close, TTL reaper, open with generations, debug start and stop |
| Open-lock files | `ida/lock.rs` | the `.imcp` file, its inode, its POSIX lock, the recorded pid | acquire, release, forced reclaim, reclaim after a lost worker |
| Database open | `ida/handlers/database.rs` | files beside the input, provenance record | candidate selection, reuse or overwrite, partial-artifact snapshot and cleanup |
| IDA loop | `ida/loop_impl.rs` | open database, generation, crash flag, deferred initialisation | open, close, close-if-generation, shutdown, dispatch, reject |
| Worker channel | `ida/worker.rs`, `ida/request.rs` | bounded request queue, close tokens, side-effect admission | send, retry, cancel while queued, session close |
| Task registry | `server/task.rs` | tasks by id and key, terminal results, cancellation flags | create, complete, fail, request_cancel, prune, reclaim |
| Operation registry | `server/operation.rs` | running and recent operations, progress events | start, progress, finish |
| Server and tools | `server/mod.rs`, `server/tool_filter.rs`, `tool_registry.rs`, `ida/remote.rs` | sessions, tool filter, background drivers | offer, call, single and batch handlers, forwarding to a child, background analysis and DSC opens, shutdown |
| Public stdio | `transport/public_stdio.rs` | line buffer, pending error reply | bounded read, reject, receive |
| Process start | `main.rs` | signals, modes, runtimes | serve, drain, shutdown order |

The components that are listed in `PROJECT.json` and not here (schemas, SDK
wrappers, Mach-O and shared-cache readers, HTTP configuration, logging) keep no
state that two actors share.

### 1.2 Interactions

* A session of the server asks the workspace for a database; the workspace
  leases a pool slot for it. Every later tool call goes through that handle.
* The pool forwards a call to the child over a pipe. The child's worker channel
  queues it for the IDA loop, which runs one request at a time.
* A child that opens a database takes its `.imcp` lock. When the pool loses a
  child during an open, it reclaims that lock itself and removes the partial
  artifacts.
* Long operations are tasks: the driver of a task calls the pool, and the client
  polls or cancels through the registry.
* Nearly everything in the supervisor is a future of the tokio runtime: its
  caller may drop it at every `await`. A guard object (`WorkerRetireGuard`,
  `SpawnReservation`) then finishes the job in a detached task.

### 1.3 Where it is hard

* **Cancellation**: a dropped future leaves native work running in a child, a
  process half started, or a retirement half done.
* **Stale handles**: a lease ends, its slot goes to another session, and a late
  call, release, probe or timer of the earlier lease arrives.
* **Limits**: leases, replenishment and retirement all change the number of
  workers; each may count the others' intermediate states.
* **Lost wake-ups and shutdown**: requests wait for startups, shutdown waits for
  everybody, and each of them may fail or be cancelled.
* **Process death**: a child dies at any moment, and its lock file, partial
  database and slot are left to others.
* **Deadlines**: a caller gives up while its request is queued, runs, or has
  just been done; what it is told must be true.
* **Loss inside the SDK**: a crash the guard catches leaves a corrupt database in
  memory that no later request may save; a lost worker must not be folded into a
  successful reply.
* **Background work**: completion, failure, cancellation, session end and
  shutdown race for one task, whose driver has a database or a subprocess to
  clean up.
* **POSIX locks**: they belong to the process, not to the descriptor, and the
  locked file is unlinked by its owner.

### 1.4 What makes each component correct

* Worker pool: a child works for one lease at a time; abandoned work ends with
  the worker; the limit holds; nothing is leaked; requests are answered;
  shutdown ends, and is final.
* Open-lock files: one process per database; a holder keeps lock and path;
  nothing stays locked; cleanup never touches a new owner's files.
* Workspace registry: a request of an earlier generation never reaches a later
  database; a reaped database has no calls, pins or debug session.
* Database open: only files that were verified or created by the call are
  overwritten or removed.
* IDA loop and channel: close and shutdown are honoured after every failure; a
  withdrawn request has no effect, an executed one is never reported withdrawn;
  lock, generation and database come and go together; a crashed database is
  never saved.
* Server and tools: the pooled and the local backend do the same; a read-only
  server changes nothing; a lost worker is reported; every call is answered.
* Task registry: a terminal task has no work behind it and never changes; a
  running task is never dropped to make room; a cancelled task left nothing
  behind.

The `hazards` of `PROJECT.json` give each of these at the line where it bites.

## 2. Modules

| Module | Role |
|---|---|
| `LeaseService` | what a session may rely on about its worker: the abstract specification |
| `WorkerPool` | the pool, one action per critical section; implements `LeaseService` |
| `McpLock` | the lock file, one action per system call |
| `Workspace` | one database of the workspace registry, its lease, its calls and the reaper |
| `Requests` | tables: how every worker method sends and waits, how every loop arm is guarded, what its handler changes |
| `IdaLoop` | the worker channel and the main-thread loop, over `Requests` |
| `Tools` | tables: what every tool handler asks of its backend, where the backend forwards it, which tools there are; extends `Requests` |
| `ToolCalls` | a tool call from the client to the child and back, over `Tools` |
| `TaskService` | what a client may rely on about background tasks: the abstract specification |
| `Tasks` | task registry, background drivers, idat, cancellation, shutdown; implements `TaskService` |
| `Tables` | the union of two tables, and lemmas about it |
| `WorkerPoolProofs`, `WorkerPoolLossProofs`, `McpLockProofs`, `WorkspaceProofs`, `IdaLoopProofs`, `TasksProofs`, `ToolCallsProofs` | theorems |
| `MC...` | symmetry and instances for TLC |

`ToolCalls` composes the handlers, the pooled backend and the request tables of
the loop: a tool's plan, the child tool each method becomes, and the request that
tool sends are looked up through three tables and compared. The other modules
are separate: the pool of `WorkerPool` is one lease in `Workspace`, `ToolCalls`
and `Tasks`, which rely on it as `LeaseService` states it, and a worker's channel
is a call with an outcome there.

Definitions introduced by a comment "Mutant of D" are altered forms of D, used
only to show that a property notices the alteration. No specification uses them.

### 2.1 LeaseService and WorkerPool

**LeaseService.** A session is granted a worker in which nothing runs, under an
id nobody had before. Calls reach the worker only under that lease, until it is
being given back; it is free again only when nothing of the lease runs any more.
A worker may be retired at any moment, by anybody, and then never serves again;
after the pool was closed nobody is granted a worker and no call begins. A request
may end at any time: answered, refused or lost.

**Atomicity.** A step is what happens under one acquisition of the pool's inner
mutex or of a slot's state mutex, or between two awaits. `lease_inner` looks at
all slots while it holds the inner mutex; the model reads them at once. The
waiter is registered (`changed.enable()`) before the scan, so a notification
after the scan is never missed; the model has the waiting request move back to
`scan` at every `notify_waiters`.

**State.**

| Variable | Code |
|---|---|
| `children`, `spawning`, `nextId`, `nextLease`, `shuttingDown` | fields of `PoolInner` and of the pool |
| `draining` | `stop_queued_calls` |
| `child` | `ChildState` of every slot |
| `process` | the operating-system process behind the slot |
| `startup` | the task that holds a `SpawnReservation`: spawning, ready to install, discarding, cleaning up |
| `request` | the `lease()` future of a client: scanning, waiting, starting its worker |
| `handles` | every `PooledWorkerHandle` returned, kept for ever, since a stale one may still be used |
| `future` | a `call_tool`, `release` or `lease_for_open` future; positions `exec`, `closing`, `retiring`, `stale` hold the slot's call lock |
| `retire` | how far a retirement is and who carries it: `taken`, `forgotten`, `finished`, `done`, or `lost` with its carrier |
| `guards` | detached tasks spawned by a dropped `WorkerRetireGuard` |
| `reapTimer` | an idle-reap task whose start is not older than the slot's last use |
| `abandoned` | leases whose dropped call still runs in the child |
| `warm`, `sweep` | progress of `warm_min` and of `shutdown_all` |

**Actions.** Startup: `WarmMin`, `SpawnSlot`, `SpawnFails`, `InstallSlot`,
`DiscardAtShutdown`, `ReleaseReservation`. Lease: `RequestLease`, `LeaseIdle`,
`LeaseNew`, `LeaseWaitsOrFails`, `LeaseRefused`, `LeaseEnds` and
`LeaseEndsInStartup` (deadline or dropped caller). Calls: `CallTool`,
`AdmitCall`, `CallNeverDispatched`, `CallSettles`, `CallRetires`. Reopening a
lost lease: `Reopen`, `ReopenTakes`, `ReopenRetires`. Release: `Release`, `ReleaseLocks`,
`ReleaseCloses`, `ReleaseRetires`, `ScheduleIdleReap`, `IdleReap`. Retirement:
`TakeDeadWorker` (part of several actions), `ForgetSlot`, `FinishDeadWorker`,
`Replenish`, `GuardRetires`, `ProbeMarksDead`, `ProbeForgetsDead`. Dropped
futures: `DropUnarmed`, `DropArmed`, `DropRetiring`. Shutdown: `BeginDrain`,
`BeginShutdown`, `SweepBegins`, `SweepMarks`, `SweepEnds`. Environment:
`ProcessDies`, `AbandonedCallEnds`.

**Abstractions.** Requests and replies carry no data: a call settles, retires
its worker, or is dropped, whichever error text leads there. A timeout is a step
that may always happen. The workspace's reaper appears here only as the probe
that marks lost workers; `Workspace` has the rest of it.

**Refinement.** `Service == INSTANCE LeaseService WITH` maps `started` and
`retired` to the slots that left `absent` and reached `dead`, `granted` to
`handles`, `open` to `~shuttingDown`, `closes` to the futures at `closing`, and
`calls` to the futures at `exec` together with `abandoned`: a call whose caller
is gone still counts as running. `holder` (`Holder`) is the lease of a slot once
its handle was returned: a worker started for a request is granted when the
request is answered, not when its slot is installed or marked as leased.

### 2.2 McpLock

One path, the inodes created there so far, and for every inode the process that
holds its POSIX lock and the pid written in it. An actor is a worker process,
whose IDA thread runs one open or close at a time, or a runtime thread of the
supervisor; all threads share the process `Sup`, hence its locks. Each of
`open`, `fcntl(F_SETLK)`, the read of the pid, `kill(pid, 0)`, the comparison of
path and descriptor, `unlink` and `close` is a step.

`CreateLockFile`, `AcquireRefused`, `AcquireLocks`, `WritePid` are
`acquire_mcp_lock`; `CompareLockPath`, `RemoveLockFile`, `CloseLockFile` are
`release_mcp_lock` and the removal of a reclaimed file; `ReadStalePid`,
`CheckProcessRunning` and the `Reclaim...` actions are a forced open;
`CleanUpAfterWorker`, `Reclaim...` and `RemoveArtifacts` are
`finish_dead_worker` with its limited attempts (`stage`). `WorkerDies` closes
every descriptor of the process.

Left out: `detect_db_lock`, which only words an error; the Windows variant; the
reuse of a dead process's pid. Truncating and writing the pid are one step: in
between the file is empty, as a new file is. The cleanup may start while the
killed worker still runs, as in the code. A forced open looks at two candidate
paths one after the other; the model has one path.

### 2.3 Workspace

**State.** `entry` is the database's registry entry (not allocated, listed,
removed, dropped), `expired` what `idle_for` says about the idle timeout, and
`unused` (read by properties only) whether a whole timeout has passed without a
guard. `handle` is the lease of `WorkspaceDatabase.handle` with its generation
and debug pin, `mutex` who keeps the handle mutex across an await, `nextGen` the
generation counter. `worker` and `child` are the leased worker and what its
process has, by generation. `actor` is one record per tool call or background
driver: its guard, its operation, where it is, the lease it works on and the
generation it is bound to. `reaper` is the position of `workspace_reaper`,
`detached` the spawned releases, retirements and closes.

**Modes.** `workspace` and `keep` (idle timeout zero) are entries of the
registry; `legacy` is a session's own binding, `shared` the one database of the
shared HTTP server, whose calls the pool owns (`preserve_on_cancel`). The last
two have no guards, and only they can open a second time: in a workspace
`open_idb` always allocates a new entry.

**Actions.** Guards: `AllocateDatabase`, `Acquire`, `StartBackground`, `EndCall`
(the time is published), `Leave` (the count drops), `Discard` (the router
removes what it allocated). Opens: `LeaseForOpen`, `StaleSettles` and
`StaleRetires` (the lease of a lost worker is taken, then its worker retired),
`LeaseGranted`, `LeaseFails`; `NextGeneration` fails when the counter is
exhausted. Calls: `Dispatch`, `Admit`, `NeverDispatched`,
`CallSettles`, `CallRefused`, `CallRetires`, `ClearHandle`, and for the debugger
`DebugStarts`, `DebugStops`, `SetDebugPin`. Closes: `CloseIdb`,
`CloseIfGeneration`, `ReleaseEnds`, `CloseRemoves`. Dropped futures: `DropCall`,
`DropShared`, `UnheardEnds`, and the spawned tasks `DetachedRuns`. Ends:
`ShutdownRegistry`, `LegacyEnds`, `DropDatabase`. Reaper: `ReaperCollects`,
`ReaperProbes`, `ReaperRetires`, `ReaperTakes`, `ReaperCloses`,
`ReaperReleases`. Environment:
`Expire`, `ProcessDies`.

**Abstractions.** One entry stands for the registry: entries share only the
registry lock, and what one database costs another, the time a reaper pass
takes, is the constant `SlowPass`. A generation names one lease, so it also
names the worker. The pool's release and retirement are one step each; their
steps are in `WorkerPool`. A future is dropped where it is suspended, with the
effect of the guards alive there. Outside a workspace debugger calls are calls
like any other: nothing reads the pin there. `dispatch_result_observed` has a
branch (2231-2244) that retires the worker after an answer with a fatal error;
`call_tool` already turns these answers into errors, so the model has only the
retirement in `call_tool`. Left out: close tokens, `list_databases`.

### 2.4 Requests and IdaLoop

**Tables.** `Requests` has a record per method of `IdaWorker`: `try` (fails when
the queue is full), `retry` (five seconds) or `insist`; a wait without limit, a
bounded one, or that of a side effect, which gives up only while it can still
withdraw the request. Per request kind it has the loop's arm, whether it runs in
the crash guard, whether it is admitted, whether it is bound to a generation,
and what the handler behind it does: read, edit, save, analyse, start or stop a
debuggee, run a script. `Shapes` is the set of the combinations that occur, so
that TLC explores what a request does and not its name. The tables are put
together with the operators of `Tables`, `@@` for two, which means what that of
the module TLC does, and `Merged` for several with different keys, and with the
lemmas about them.

**State.** `call` is a request from its caller's side, with the
`SideEffectAdmission` it shares with the loop; `queue` is the bounded channel;
`loop` is what the main thread does and for whom; `ida` is what `run_ida_loop`
owns: the library's state, the database in memory and on disk, the current and
the last generation, the lock, the crash flag, the debugger's record, and the
debuggee itself.

**Actions.** Callers: `Submit`, `Resend`, `GiveUp`, `ReadDeadline`,
`SideEffectDeadline`, `Abandon` (dropped), `CancelToken`. Loop: `Receive` (takes
a request and first discards a database the SDK crashed in), `Initialise`,
`InitialiseFails`, `RejectVersion`, `Dispatch` (admission), `OpenAgain`,
`OpenFresh`, `OpenExhausted`, `Close`, `CloseSkipped`, `Handle`, `Shutdown`, `Crash`
(caught by the guard), `Die` (wherever the SDK is called outside the guard,
`Unguarded`: open, the bare arms, the closes, and the teardown of a debugger
session after a crash). Environment: `DebuggeeExits`.

**Abstractions.** A handler succeeds or fails, with what it may have changed by
then; a script may save, and start or stop a process under the debugger behind
the loop's back (`ScriptLeaves`), but not close the database. The end of the loop when all senders are dropped is not modelled: nobody is
left to notice. `handle_open` either opens, finds the same database open, or
fails; choosing the file is not modelled.

### 2.5 Tools and ToolCalls

`Handlers` gives, for every tool and variant of its arguments, the backend
methods its handler calls; `Local` and `Pooled` give what a method becomes in a
worker process and in a pooled server. A call of `ToolCalls` resolves the
session's lease, waits for the call lock (`Resolve`, `Admit`, `Refuse`), runs in
the child, where a tool may send a second request (`Succeed`, `Fail`,
`FindClosed`, `CrashInSdk`, `Deadline`, `Die`), and its result is delivered to a
handler that has more items or is done. The tools of a configuration come from
the filter: base, read-only, debugger and workspace capability. Routes with the
same control are one route: names are dropped once the tables are compared.

Arguments, paging and the text of replies are left out. So is the foreground
operation wrapper (`run_foreground_operation`), which adds progress events and a
cancellation token to three tools.

### 2.6 TaskService and Tasks

**TaskService.** A task is admitted if nothing runs under its key and the
registry has room, settles once, with no work behind it, says cancelled only if
somebody asked, and only settled tasks are forgotten. `docs/TRANSPORTS.md` and
the comments of `server/task.rs` promise this.

**State of Tasks.** `registry` has an entry per task and the settled ones in the
order of their last update, of which the first `old` have passed the retention
time. `cancelled` has the drivers whose token is cancelled, `starting` those
whose token is not stored yet. `driver` is each spawned future at its await, with
the generation it opened and its idat process; `native` is the task the IDA worker
works for, `lease` the current database generation, `output` the database file
next to each cache, `told` what `create_keyed` disclosed. `setup` is the
deployment: SDK before or from 9.4, and whether a cancelled call spares its
worker (shared HTTP).

**Actions.** Clients: `AnalyzeInBackground`, `OpenDsc`, `Poll`, `cancel_task`,
`EndSession`. Handler: `Register`. Driver: `Start`, `IdatDone`, `StopIdat`,
`LeaseForOpen`, `Dispatch`, `NeverDispatched`, `Answer`, `CancelRunning`, each
with what the driver does up to its next await (`Analyzed`, `Opened`, `Loaded`,
`StatusRead`), `Finish`, `Closed`. Shutdown: `BeginShutdown`, `CancelAllRunning`,
`RetireWorkers`. Environment: `IdatExits`, `Age`, `OpenElsewhere`,
`CloseElsewhere`.

**Refinement.** `Service == INSTANCE TaskService WITH` maps `working` to the
tasks with a call in the worker or a running idat, `asked` to the tokens and
requests, `status` and `keyOf` to the status of the entries and the keys of the
running ones (`StatusOf`, `KeyOf`).

**Abstractions.** Messages and results are left out; a completed task may hold a
tool error. One cache stands for the dyld caches. The result of a worker call and
the driver's continuation are one step. After `RetireWorkers` the process has
exited. Left out: `create_completed`, `list_all`, and the background `open_idb` of
a workspace, whose driver is an actor of `Workspace`.

## 3. Runs

| Run | Instance | Checks | States |
|---|---|---|---|
| `pool_stdio` | 1 worker kept warm, 2 clients, 2 futures, 2 ids, 2 leases | `TypeOK`, `WorkIsolation`, `AbandonedCallIsRetired`, `NoStrandedWaiter`, `NoLeakedProcess` | 1 420 000 |
| `pool_workspace` | 2 workers, none kept warm, 2 clients, 1 future, 3 ids | `Capacity`, `LeaseHasOwner`, `ShutdownIsFinal`, `ImplementsLeaseService` | 820 000 |
| `pool_live` | 1 worker kept warm, 1 client, 1 future, with fairness | `LeaseSettles`, `RetirementKills`, `AbandonedWorkStops`, `ShutdownEnds` | 82 000 |
| `lock_file` | 2 workers, 1 supervisor thread, 3 files, 2 attempts | `TypeOK`, `LockKept`, `NoLeakedLock`, `CleanupExcludesOwners`, `HolderKeepsPath` | 1 266 000 |
| `lock_exclusion` | 3 workers | `MutualExclusion` is violated | stops at the counterexample |
| `workspace` | 2 calls, 1 driver, with and without idle timeout, 1 generation | `NoOrphanLease`, `EvictedIsUnused`, `PinBlocksEviction` | 397 000 |
| `workspace_bindings` | 1 call, 1 driver, all four bindings, slow reaper passes, 2 generations, with fairness | `TypeOK`, `GenerationGate`, `LossIsNoticed` | 149 000 |
| `ida_loop` | 2 callers, a queue of 1, 2 generations, with fairness | `RefusedNeverRuns`, `GenerationBound`, `NeverSavesCorrupt`, `LockFollowsDatabase`, `DebuggeeOwned`, `Settles` | 474 000 |
| `tool_calls` | 2 calls, 2 items, 2 leases, 2 bases, all filters, with fairness | `RoutesAgree`, `ReadOnlyHolds`, `FatalSurfaces`, `RunsOnItsLease`, `AlwaysAnswered` | 202 000 |
| `tasks` | 1 session, 2 tasks, room for 2, 2 generations, 1 image | `ImplementsTaskService`, `CancelledIsClean` | 1 536 000 |
| `task_limit` | 1 session, 2 sessionless clients, 2 tasks, room for 1, 2 generations, 2 images, with fairness | `NeverForgotten`, `HandlesStayPrivate`, `CancelSettles` | 197 000 |
| `task_half_written` | 1 task | `NoHalfWrittenReuse` is violated | stops at the counterexample |

What the runs of the newer modules show:

* `ida_loop`: a caller told that its request was refused, timed out or expired,
  and one that withdrew a side effect by leaving, can rely on it; a request bound
  to a generation touches no other; whatever follows a crash, the corrupt
  database is not saved; lock, generation and database agree between any two
  requests; no debuggee runs without a record unless a crash or a script
  interfered; every
  caller with a limit is told something.
* `tool_calls` (servers that include everything or one category; the lean list
  is a part of the former): for every tool and every variant of its arguments, the child
  asks its IDA thread for the request the handler meant and the parent reads the
  reply in the form it has; a read-only server never edits; a fatal loss of the
  worker is never folded into a batch (4.2, item 8, has the one that is not
  fatal); a call that waited never runs in a later
  database; a hung child leaves nobody unanswered.
* `tasks`: the promises of `TaskService`, across every interleaving of two
  tasks, their cancellation, session end and shutdown; and that a cancelled task
  left no fatal loss, no failed cleanup and no open database of its own behind.
* `task_limit`: at the limit a live driver keeps its entry; ids stay with their
  clients; a cancelled task ends although idat hangs.

`PinBlocksEviction` is checked for reaper passes shorter than the idle timeout
(`SlowPass = FALSE`). `take_expired_entries` does not read the pin again: it
relies on a fresh pin implying a fresh use (comment at `ida/pool.rs` 1811). With
`SlowPass = TRUE`, when a whole idle timeout passes between the probe of a
database and its removal, TLC finds an entry evicted with its pin.

**Bounds.** `MaxIds`, `MaxLeases`, `MaxFiles`, `MaxGen`, `MaxGenerations`, `MaxTasks` and
`MaxLives` bound counters that only grow; every other constant is a parameter of
the program. `MaxGeneration` of `IdaLoop` is the largest value of the code's
64-bit counter; a small one lets the exhausted counter happen. Two ids are a worker and its
replacement, three are two workers and a replacement while the third races them.
Two leases are what a stale handle needs, two futures are a call and a release
(or two calls) on one slot. Three lock files are an orphaned inode, the current
one and its successor. Two generations are a database and the one that replaces
it under a call of the first; a workspace entry has only one. Tool calls are
reused, so two of them make any number of calls. An id that cannot be reserved any more because of the
bound makes a lease fail, as a failed startup does. A queue of one place is full with one
request. Two tasks are two keys, or a task and the one that takes its place; two
images are a module and a framework. Everything the proofs cover
(section 5) does not depend on these bounds.

`PreserveOnCancel` (the shared HTTP server, one worker) is FALSE in the pool's
runs: TRUE only removes the dropped calls, so the invariants hold a fortiori, and
the theorems hold for both values.

**Deadlock** is checked in `tool_calls` only. Elsewhere the system may rest: without clients, calls and signals the pool rests,
when all workers are dead nobody touches the lock file, and a database that was
dropped is not used again; the IDA loop may have ended, and the process of `Tasks`
may have exited.

**Fairness** (`FairSpec`). Weak fairness is assumed of the steps that the
runtime takes by itself: tasks it owns are polled, spawning a worker ends by
success, failure or handshake timeout, a call and the close of a release have a
deadline after which the worker is retired, a detached guard runs, `main` calls
`shutdown_all` after shutdown began. Nothing is assumed of clients (they need
not call, release or drop anything), of native calls (they need not return), of
idle timers or of process death. In `Workspace` only the reaper, the spawned tasks
and the drop of an unreferenced database are fair; a reaper pass recurs on a
timer and the runtime polls what was spawned. In `IdaLoop` the main thread is
fair (a native call that never returns is ended by the parent's watchdog) and a
retrying sender wakes after every backoff; `Settles` says nothing of the two
senders that insist, which competing callers can keep out. In `ToolCalls` the call
lock is strongly fair, because tokio's mutex grants it in order, and the worker
operation timeout is fair; the child may hang. In `Tasks` the runtime polls
handlers and drivers, the pool's watchdog bounds every call, and a cancelled
select is taken; idat may hang, nobody has to cancel or shut down anything.

## 4. Where code and documentation disagree

### 4.1 Checked by a run

1. `lock_exclusion`: `acquire_mcp_lock` does not compare path and descriptor
   after it got the lock. A process that opened the file before its owner
   unlinked it holds an orphaned inode while another one locks a new file.
2. `task_half_written`: `docs/TRANSPORTS.md` (142–145) says that a cancelled idat
   leaves no half-written database. When idat has ended with an error by itself
   and the driver sees the exit before the cancellation, `run_dsc_background`
   (`server/mod.rs` 2180) publishes `cancelled` before it looks at the exit code
   and does not remove the output; the next `open_dsc` opens it.

### 4.2 Known divergences

Each of the first six is a definition that TLC refutes with the configuration
named; they are kept beside the runs for whoever changes the code.

1. `WorkerPool!RetirementNotLost` (`MCPoolRetireLost.cfg`): invariant I6 of
   `ida/pool.rs` (line 1350) says that retirement completes when the awaiting
   future is dropped. It completes only when the future is dropped before the
   slot was marked dead: afterwards the guard's retirement meets a dead slot and
   does nothing, so artifacts, lock file and replenishment are left undone. The
   process itself is killed (`RetirementKills` holds).
2. `WorkerPool!KeepsMinWarm` (`MCPoolMinWarm.cfg`): `--min-workers` is documented
   as workers kept warm. Replenishment counts slots that an idle reap has marked
   dead and not yet forgotten, and the reap does not replenish.
3. `McpLock!CleanupExcludesOwners` with two threads (`MCLockCleanup.cfg`): two
   cleanups of one supervisor process on two threads drop each other's POSIX
   lock, and artifacts are removed under a new owner. The stdio supervisor runs
   on one thread (`main.rs` 524, 602, 679) and is not affected, which
   `CleanupIsExclusive` proves; the HTTP one is multi-threaded (842, 990, 1145).
4. `Workspace!PinTracksSession` (`MCWorkspacePin.cfg`): invariants I4 and I5 of
   `ida/pool.rs` (1343, 1348) say that a start which leaves a process pins the
   entry and a stop unpins it. Both apply the pin after the call's lock was
   released; when a stop and a start of one database overlap, the pins may be
   applied in the other order than the child executed the calls.
5. `IdaLoop!ShutdownHonoured` (`MCIdaShutdown.cfg`): `reject_with_error`
   (`loop_impl.rs` 2360) says "always honour shutdown". When deferred
   initialisation fails (610–618) a Shutdown request is dropped without effect
   and the loop waits for the next request; the version-mismatch path does end.
6. `Workspace!LostIsRetired` (`MCWorkspaceOrphan.cfg`): the same invariant I6.
   `lease_for_open` takes the lease of a lost worker out of the handle
   (`ida/pool.rs` 2103) and then awaits `mark_dead_for_lease`, which begins by
   waiting for the slot's state (761), with no `WorkerRetireGuard`. An open whose
   future is dropped there leaves the slot leased with no handle, no carrier and
   nobody to retire it. `NoOrphanLease` is therefore about workers that still
   serve; the model has the step in two (`StaleSettles`, `StaleRetires`), and
   `WorkerPool` likewise (`ReopenTakes`, `ReopenRetires`).
7. `loop_impl.rs` 36–39 says of `admit_or_reject!` that every side-effecting arm
   opens with it. The arms of DeclareType, ApplyTypes, DeclareStack, DeleteStack,
   LuminaApply, SetComments, Rename, PatchBytes, PatchAsm and LoadDebugInfo do
   not; their callers wait without a deadline, so `RefusedNeverRuns` holds.
8. `error.rs` 129–132 and `task.rs` 408–410 say that a lost worker is surfaced and
   never presented as a clean cancellation. `WorkerClosed` retires the worker and
   is not `is_fatal`: a batch can fold it into an item, and a task asked to stop
   settles as cancelled on it. `FatalSurfaces` and `CancelledIsClean` are about
   the errors that are fatal.
9. `remote.rs` 31–33 says that the parent retires a worker on the crash key only;
   `classify_child_error` also maps any ordinary error whose text contains
   "worker channel closed", a script's or one that quotes a name, to
   `WorkerClosed`, which retires it.
10. `tool_annotations_for` marks `analyze_funcs` and `infer_types` as read-only
   tools, while the read-only deny list treats `analyze_funcs` as mutating.
11. `handlers/database.rs` 5–8: only files that were verified are overwritten. The
    existence of the chosen candidate is checked before the lock is taken
    (about 775), so a database created in between is overwritten. The cleanup
    after a lost worker (480–495) compares with a snapshot taken before dispatch.
12. The items of a batch resolve the session's database one by one; a close and
    an open in between let one reply mix two databases.

## 5. Proofs

All theorems hold for every value of the constants that satisfies the
assumption named in the module they are about (`PoolAssumption`,
`LockAssumption`, `WorkspaceAssumption`, `CallsAssumption`, and the
`BoundsAssumption` of `IdaLoop`, `Tasks` and `ToolCalls`); TLC evaluates these on
every run. The sets of clients, futures, calls and sessions may be infinite, and
the bounds on ids, leases, files and generations are arbitrary. Two hypotheses
go further than the assumptions, and are written in the theorem: `OneThread`
(5.2) and `SlowPass = FALSE` (5.3).

### 5.1 WorkerPoolProofs

`PoolInv` is the inductive invariant, a conjunction of

* `TypeInv`: `TypeOK`, and `HandleBound`: every future and every
  guard works on a handle that was handed out;
* `SlotInv`: reservation, startup, slot state and retirement of an id fit
  together: an id not yet reserved is absent, a slot that is neither reserved
  nor installed is absent or dead, a slot ready to install has the state its
  reservation asks for, a retirement exists only for a dead slot, and every
  handle names a slot that is no longer being started;
* `SweepInv`: what `shutdown_all` has still to mark is installed or dead;
* `CallInv`: the call lock has one holder, and what its position says about the
  slot is true or the slot is dead. `WorkIsolation` is not inductive without it:
  two futures at `exec` and `closing` on one slot would let the release free the
  slot under the call.

`TypeCorrect` needs only `TypeInv`. `Isolation` follows from `PoolInv`.
`LeaseIsStable` uses `MonotoneStep`, what one step may do to a slot: dead stays
dead, a leased slot keeps its lease until it is idle or dead, and an installed
slot is forgotten only when dead. `AbandonedIsRetired` follows from two lemmas
that bound how `abandoned` grows and how `guards` shrinks. `CapacityBound` adds
`WarmInv`, which relates the workers `warm_min` has still to start to the slots
installed before the server serves; `PoolGrowth` bounds the growth of each
action. `LeaseIdsAreUnique` adds `LeaseInv` (pending requests and handles have
distinct ids, none beyond the counter) and `ServedInv` (the startup of a
leased worker has the request it serves).

**Refinement.** `PoolImplementsLeaseService`: every step is one of
`LeaseService` or changes nothing a session sees. What it needs is `ServiceInv`:
`PoolInv`, `LeaseInv`, `ServedInv`, `AbandonedCallIsRetired` and `Capacity`, each
proved above. There is one lemma per group of actions (`StartupsMap`,
`LeaseRequestsMap`, `CallsMap`, `ReleasesMap`, `DropsMap`, `RetirementsMap`,
`ShutdownMap`), over lemmas that say when nothing begins or ends (`NothingRuns`),
nothing changes hands (`NothingMoves`) and requests to one worker end or go on
unwatched (`RequestsEnd`). The cases that carry weight:

* a grant finds nothing running in the worker, by `CallInv` for an idle one
  (`IdleIsQuiet`) and by `AbandonedCallIsRetired` for one that was just started:
  whoever works in a slot, watched or not, was handed its handle
  (`StartingIsQuiet`); its id is unused by `LeaseInv`;
* a new process is a `Start` only below the limit: its reservation is counted, so
  `Capacity` gives the room (`RoomToStart`);
* a release frees the worker when the child has answered the close, which its one
  IDA thread does after the dropped calls before it; the call lock keeps every
  other future out (`ReleaseMaps`);
* a dropped future goes from watched to abandoned in one step, so the service
  sees its call go on (`DropsMap`).

`WorkerPoolLossProofs` shows that the pool loses nothing, on top of `PoolInv`:

* `NoProcessIsLeaked`: `ProcessInv`, a running process belongs to a slot in use,
  or to a dead one whose retirement has not come to the process yet. The
  retirements dropped half-way are the point: the process of a slot marked dead
  is ended by whoever carries the retirement, or by the drop of its carrier.
* `LeasesHaveOwners`: every step either installs and leases nothing (`Unowned`)
  or adds the handle with the lease. An install for a lease needs `ServedInv`,
  that its request is still there, which the drop of a request in its startup
  preserves by discarding the worker.
* `WaitersAreWoken`: every step either leaves nobody waiting (`Awake`) or ends no
  reservation and frees no worker (`StillBusy`).
* `PoolStaysEmpty`: `SweepSound`, from the moment `shutdown_all` looks at the
  children none is added and each is still to be marked or in a retirement that
  the sweep itself carries, for which it waits; `RetireStep` says that no other
  task moves such a retirement on, `RetiringInv` that a future awaits only its
  own.

### 5.2 McpLockProofs

`TypeInv` (for any number of threads) is `TypeOK`, the limit on attempts of a
cleanup, and that only created inodes are referred to. `LockInv` adds `LockKept`
and `UnlinkInv`: an actor about to unlink has the file the path names. The lemmas `LockKeptBy` and `UnlinkInvBy` reduce each action to what it
does to `locker` and `path`; the hard case is the `unlink` of another actor,
which is impossible because both would hold the lock of one inode. They need
`OneThread`; with two threads `LockKept` is false, which `MCLockCleanup.cfg`
shows by its consequence. From `LockInv` follow `LockIsKept`,
`PathStaysWithHolder` and `CleanupIsExclusive`.

`NoLockIsLeaked` holds for any number of threads. `LeakInv` adds to `TypeInv` and
`NoLeakedLock` the fact that an actor between two jobs has no descriptor
(`DescriptorInv`): a `close` drops every lock of the process on that inode, so a
lock survives only with an actor that still refers to the file.

### 5.3 WorkspaceProofs

`Inv` is `TypeOK`, `NoOrphanLease`, `LeaseInv` (generations are given out in
order, an installed one was leased) and, for every actor, `ActorInv`:

* an open between its first step and the new lease has the handle mutex, and
  when it waits for the pool the handle is empty; without this a granted lease
  could overwrite another one;
* an open about to retire the worker of a stale lease has one that no longer
  serves: dropped there, it leaves no serving worker without an owner (what it
  does leave is 4.2, item 6);
* a call has a generation that was leased, and a call about to clear the handle
  has lost its worker, so clearing orphans nothing. For this a generation must
  not be leased twice, which is `LeaseInv` with the mutex;
* an actor on its way has a guard or a reference, so the database is not dropped
  under it;
* a bound call has the handle of its generation, and a call in a worker holds
  the call lock, so a release does not free the worker under it.

Most steps leave alone what another actor relies on: `Quiet` says what that is,
`QuietKeeps` that it suffices. `GotoMoves`, `RetiredEffect` and `ReleasedEffect`
say what the shared operators do; each action then has one lemma. From `Inv`
follow `WorkspaceTypeCorrect`, `NoLeaseIsOrphaned` and `GenerationsAreGated`, for
every kind of binding and with or without slow reaper passes.

**Eviction.** `UsersInv` says who has a guard: every tool call of a workspace
from its first step to its last, only for entries of the registry; calls that
nobody hears belong to a shared database. `UsersStep`: in every step each user
of the database (`Uses`: a guard whose last use is not published yet) stays one,
or the entry is touched. With `TimeMoves`, what a step may do to the clock, an
entry that is out of time and not in use was unused for a whole timeout
(`UseInv`), and the second look of `take_expired_entries` makes
`EvictionNeedsIdleness` of it. For `PinsAreRespected`, `EvictionInv` says that a
pin the probe did not see belongs to a call still at work: only a debugger call
sets a pin (`PinMoves`), only a probe without a pin leads to a removal
(`TakeMoves`). The theorem assumes `SlowPass = FALSE`; without it the property
is false (section 3).

### 5.4 IdaLoopProofs

`IInv` has two halves. `ChannelInv` is about callers, queue and loop: a caller has
one request at most in the channel and the loop (`OnceInv`); a request there has
changed nothing yet, and its caller was told of a refusal only if it reads or is
withdrawn (`Pending`); a request whose handler runs has passed the checks of its
arm (`ServedInv`). The admission flag is why `RefusedRequestsNeverRun` is true:
caller and loop both set it, from `queued` only. `DatabaseInv` is
`LockFollowsDatabase`, `NeverSavesCorrupt` and `DebuggeeOwned` with `CrashInv`:
the guard's flag is set exactly while a corrupt database is in memory, and no
request is served meanwhile, because `Receive` discards it first.

The tables enter by `ShapeFacts`, proved from the tables: a request whose caller may withdraw is
admitted by its arm, one whose caller has a deadline only reads, and a plain
close is not bound to a generation. These are the facts a new request kind has
to respect.

### 5.5 TasksProofs

`IInv`: the registry is in order (`RegistryOK`: the settled tasks are listed once
each, only a running task has a request pending), a driver at work has a running
entry and a consistent position (`DriverOK`), bad news settles a task at once
(`NewsOK`), and only its client or the owning session was told of a task (`ToldOK`).
Every action is one of four kinds of step: `Asking` (requests to stop, old
results that expire), `Serving` (a driver goes on), `Settling` (a driver settles
its task and ends), `Admitting` (a task is created). Each kind preserves the
invariant and is a step of `TaskService` or a stutter, so the actions are
analysed once, for invariants and refinement. `TasksImplementTaskService` covers
`Service!Spec`, which is a safety specification.

### 5.6 ToolCallsProofs

`IInv` is `Bookkeeping` (types), `CallsSound`, `OneInChild` and `RunsOnItsLease`.
`CallsSound`: a handler at work has an item and a step left, has not met a fatal
loss without having answered, and repeats only plain steps. `OneInChild` is the
call lock; without it a call could lose the worker under another one and
`RunsOnItsLease` would not be inductive. The tables enter by `OfferedRoutes`: a
tool that repeats its items repeats one method that neither opens, closes nor
debugs, so a fatal loss ends the batch with an error and is not folded.

**Routes.** `RoutesAreFaithful` and `ReadOnlyServersRead` are about every filter
and every offered tool, so they rest on the tables as a whole. `Methods` is what
handlers call on their backend, split into `Reading` and the rest. Table by
table, with the lemmas of `Tables` for their unions:

* `HandlersFit`: every handler calls methods of `Methods` only, of `Reading` only
  unless its tool is on the deny list or kept on purpose, and the tool a method
  is forwarded to has a handler that calls this method first, then at most reads,
  and replies in the form the parent decodes;
* `PooledForwards`: the pooled backend forwards each method to that tool, in that
  variant and form;
* `LocalServes` and `ReadingReads`: the method of the worker behind a reading
  method sends a request whose arm only reads.

`StepOfMethod` puts them together, `OfferedRoutes` lifts it to what a server
offers under a filter. `RoutesAreFaithful` then follows from `IInv`.
`ReadOnlyServersRead` adds `FromFilter`, that a call at work is on a route its
filter offers; it is inductive because a step ends the call or leaves it on its
route (`DeliverStays`, `ProceedStays`). A new tool or method that is not entered
in all three tables alike makes one of these lemmas fail.

### 5.7 Only model-checked

* The liveness properties: `LeaseSettles`, `RetirementKills`,
  `AbandonedWorkStops`, `ShutdownEnds`, `LossIsNoticed`, `Settles`, `CancelSettles`,
  `AlwaysAnswered`. Fairness is out of the prover's reach.
* The properties of section 4, which are false of the code.

Every invariant, action property and refinement the passing runs check is a
theorem. `LeaseStable`, `LeaseNamesOneWorker` and the type correctness of `IdaLoop`, `Tasks` and
`ToolCalls` are proved and need no run.

## 6. Not modelled

* Close tokens (`worker.rs` 55–122) and paging: comparison of secrets and offsets.
* Candidate selection and provenance in `handlers/database.rs`: decisions over
  file names, hashes and directory contents. What concurrency can do to them is
  4.2, item 11.
* The operation registry and `run_foreground_operation`: progress for display.
* The public stdio line reader, HTTP access control and configuration: sequential
  functions of one input.
* The signal handler of the crash guard, the SDK behind the handlers, Mach-O and
  shared-cache readers, schemas, logging.

## 7. Plan

1. `Workspace`, `ToolCalls` and `Tasks` composed with `LeaseService` in place of
   their one lease.
2. `CleanupExcludesOwners` for two threads, should the code serialise the
   cleanups of one process.
