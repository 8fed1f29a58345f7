------------------------------- MODULE Tasks -------------------------------
(***************************************************************************)
(* Background tasks: the registry (server/task.rs), the handlers that      *)
(* create tasks, and the drivers that run them (server/mod.rs,             *)
(* spawn_analyze_funcs_task and run_dsc_background).  A driver calls the   *)
(* IDA worker, or an idat subprocess on SDKs before 9.4, while clients     *)
(* poll and cancel, sessions end and the server shuts down.  Everything    *)
(* between two awaits of a driver is one action; the registry mutex makes  *)
(* every registry operation one step.                                      *)
(***************************************************************************)
EXTENDS Naturals, FiniteSets, Sequences, SequencesExt

CONSTANTS
  Sessions,        \* legacy sessions, which own their tasks
  Sessionless,     \* MCP 2026 clients, which share TaskOwner::Runtime
  Caches,          \* shared caches somebody wants to open
  MaxTasks,        \* bound: tasks created
  MaxEntries,      \* MAX_TASK_REGISTRY_ENTRIES
  MaxGenerations,  \* bound: database generations
  Images           \* images one open_dsc loads: the module and its frameworks

ASSUME BoundsAssumption ==
  /\ MaxTasks \in Nat \ {0} /\ MaxEntries \in Nat \ {0}
  /\ MaxGenerations \in Nat /\ Images \in Nat \ {0}
  /\ Sessions \cap Sessionless = {}
  /\ "analyze_funcs" \notin Caches

VARIABLES
  setup,      \* the deployment: SDK generation, and whether cancelling spares the worker
  registry,   \* TaskRegistry
  starting,   \* tasks whose handler has not stored the cancellation token yet
  cancelled,  \* drivers whose cancellation token is cancelled
  driver,     \* the spawned futures
  native,     \* the task whose call the IDA worker executes (0: none)
  lease,      \* the database generation that is current (0: none)
  created,    \* database generations used up
  output,     \* the database file next to every cache
  told,       \* client and id, where create_keyed disclosed another's task
  alive,      \* sessions still connected
  stage       \* of the server's shutdown

vars == <<setup, registry, starting, cancelled, driver, native, lease, created, output,
          told, alive, stage>>

Ids == 1 .. MaxTasks
Clients == Sessions \cup Sessionless
Keys == Caches \cup {"analyze_funcs"}
Owner(c) == IF c \in Sessions THEN c ELSE "Runtime"

-----------------------------------------------------------------------------
(* The registry: an entry per task, and the settled ones in the order of   *)
(* their last update.  The first "old" of those are past the retention TTL.*)
(* worst, the worst news the driver of a task that is not settled or says  *)
(* cancelled had, is history: no action reads it.                          *)

Fresh ==
  [status |-> "none", owner |-> "none", client |-> "none", key |-> "none",
   requested |-> FALSE, token |-> FALSE, worst |-> "none"]

Terminal == {"completed", "failed", "cancelled"}
Running(r, i) == r.entry[i].status = "running"
Retained(r) == {i \in Ids : r.entry[i].status \in Terminal \cup {"running"}}

DropFirst(r, n) ==
  [r EXCEPT
     !.entry = [i \in Ids |-> IF i \in ToSet(SubSeq(r.settled, 1, n))
                              THEN [Fresh EXCEPT !.status = "gone"] ELSE r.entry[i]],
     !.settled = SubSeq(@, n + 1, Len(@)),
     !.old = IF @ > n THEN @ - n ELSE 0]

prune_terminal_tasks(r) == DropFirst(r, r.old)

\* Mutant of reclaim_capacity_for_admission: room is made by dropping the oldest entry.
ReclaimAnything(r) ==
  LET i == CHOOSE j \in Retained(r) : \A k \in Retained(r) : j <= k IN
    IF Cardinality(Retained(r)) < MaxEntries THEN r
    ELSE [r EXCEPT !.entry[i] = [Fresh EXCEPT !.status = "gone"],
                   !.settled = SelectSeq(@, LAMBDA j : j # i), !.old = 0]

reclaim_capacity_for_admission(r) ==
  IF Cardinality(Retained(r)) < MaxEntries \/ r.settled = <<>> THEN r
  ELSE DropFirst(r, 1)

(* TaskEntry: every transition out of running drops the token and the      *)
(* request.  A completed task holds a result, which may be a tool error.   *)
Ended(e, s) ==
  [e EXCEPT !.status = s, !.requested = FALSE, !.token = FALSE,
            !.worst = IF s = "cancelled" THEN @ ELSE "none"]

Transition(r, i, s) ==
  prune_terminal_tasks([r EXCEPT !.entry[i] = Ended(@, s), !.settled = Append(@, i)])

finish_cancelled(r, i) == IF Running(r, i) THEN Transition(r, i, "cancelled") ELSE r

complete(r, i) ==
  CASE ~Running(r, i) -> r
    [] r.entry[i].requested -> finish_cancelled(r, i)
    [] OTHER -> Transition(r, i, "completed")

fail(r, i) ==
  CASE ~Running(r, i) -> r
    [] r.entry[i].requested -> finish_cancelled(r, i)
    [] OTHER -> Transition(r, i, "failed")

\* Mutant of complete_after_fatal_error: a pending cancellation wins.
CompleteLikeAnyError(r, i) == complete(r, i)

complete_after_fatal_error(r, i) ==
  IF Running(r, i) THEN Transition(r, i, "completed") ELSE r

fail_after_cleanup_error(r, i) ==
  IF Running(r, i) THEN Transition(r, i, "failed") ELSE r

complete_with_cancel_token(r, i) ==
  IF i \in cancelled THEN finish_cancelled(r, i) ELSE complete(r, i)

(* request_cancel reaches the token if it is stored already.               *)
request_cancel(r, i) ==
  IF Running(r, i) THEN [r EXCEPT !.entry[i].requested = TRUE] ELSE r

Reached(r, I) == {i \in I : Running(r, i) /\ ~r.entry[i].requested /\ r.entry[i].token}

complete_background_tool_error(r, i, error) ==
  IF error = "fatal" THEN complete_after_fatal_error(r, i)
  ELSE complete_with_cancel_token(r, i)

-----------------------------------------------------------------------------
(* Drivers.  pc is the await a driver is in; calls of the IDA worker are   *)
(* named after the backend method.                                         *)

Calls == {"analyze", "open", "load", "status"}
Asleep == [pc |-> "none", gen |-> 0, fresh |-> FALSE, left |-> 0, idat |-> "none"]

Init ==
  /\ setup \in [sdk94 : BOOLEAN, preserve : BOOLEAN]
  /\ registry = [entry |-> [i \in Ids |-> Fresh], settled |-> <<>>, old |-> 0]
  /\ starting = {} /\ cancelled = {}
  /\ driver = [i \in Ids |-> Asleep]
  /\ native = 0 /\ lease = 0 /\ created = 0
  /\ output = [k \in Caches |-> "none"]
  /\ told = {}
  /\ alive = Sessions
  /\ stage = "up"

NewId == CHOOSE i \in Ids : registry.entry[i].status = "none"

Matching(r, k) == {i \in Ids : Running(r, i) /\ r.entry[i].key = k}

\* Mutant of Disclosed: whoever has the same owner is told the running task's id.
DisclosedToOwner(r, c, k) == {i \in Matching(r, k) : r.entry[i].owner = Owner(c)}

(* AlreadyRunning for the legacy session that owns the match,              *)
(* ExistingTaskIdIsPrivate for everybody else.                             *)
Disclosed(r, c, k) == {i \in Matching(r, k) : c \in Sessions /\ r.entry[i].owner = c}

(* The creator of a task learns its id from the reply, once it is          *)
(* registered.                                                             *)
Knows(c, i) == (registry.entry[i].client = c /\ i \notin starting) \/ <<c, i>> \in told

(* create_keyed, then tokio::spawn of the driver.  The token is stored     *)
(* after the spawn, by Register.                                           *)
create_keyed(c, k) ==
  LET p == prune_terminal_tasks(registry)
      r == reclaim_capacity_for_admission(p)
      i == NewId
  IN  /\ stage = "up"
      /\ c \in Sessions => c \in alive
      /\ c \in Sessionless => setup.preserve
      /\ \E j \in Ids : registry.entry[j].status = "none"
      /\ \/ /\ Matching(p, k) # {}
            /\ registry' = p
            /\ told' = told \cup {<<c, j>> : j \in {m \in Disclosed(p, c, k) : ~Knows(c, m)}}
            /\ UNCHANGED <<driver, starting>>
         \/ /\ Matching(p, k) = {} /\ Cardinality(Retained(r)) >= MaxEntries
            /\ registry' = r
            /\ UNCHANGED <<driver, told, starting>>
         \/ /\ Matching(p, k) = {} /\ Cardinality(Retained(r)) < MaxEntries
            /\ registry' = [r EXCEPT !.entry[i] =
                 [Fresh EXCEPT !.status = "running", !.owner = Owner(c), !.client = c,
                               !.key = k]]
            /\ driver' = [driver EXCEPT ![i] = [Asleep EXCEPT !.pc = "start"]]
            /\ starting' = starting \cup {i}
            /\ UNCHANGED told
      /\ UNCHANGED <<setup, cancelled, native, lease, created, output, alive, stage>>

AnalyzeInBackground(c) == create_keyed(c, "analyze_funcs")

(* open_dsc opens a database file that exists in the foreground.           *)
OpenDsc(c, k) == output[k] = "none" /\ create_keyed(c, k)

Live(i) == driver[i].pc \notin {"none", "done"}

(* The process exits once the workers are retired.                         *)
Alive == stage # "down"
At(i, P) == Alive /\ driver[i].pc \in P

\* Mutant of Register: a cancellation requested before the token was stored is forgotten.
RegisterOnly(i) ==
  /\ Alive /\ i \in starting
  /\ starting' = starting \ {i}
  /\ registry' = [registry EXCEPT !.entry[i].token = i \in Retained(registry)]
  /\ UNCHANGED <<setup, cancelled, driver, native, lease, created, output, told, alive, stage>>

(* set_cancel_token, and the reply that tells the client the id.           *)
Register(i) ==
  /\ Alive /\ i \in starting
  /\ starting' = starting \ {i}
  /\ registry' = [registry EXCEPT !.entry[i].token = i \in Retained(registry)]
  /\ cancelled' = IF registry.entry[i].requested THEN cancelled \cup {i} ELSE cancelled
  /\ UNCHANGED <<setup, driver, native, lease, created, output, told, alive, stage>>

(* tasks/get, tasks/update and task_status read through get_for_owner,     *)
(* which prunes.                                                           *)
Poll(c, i) ==
  /\ stage = "up" /\ Knows(c, i) /\ registry.old > 0
  /\ registry' = prune_terminal_tasks(registry)
  /\ UNCHANGED <<setup, starting, cancelled, driver, native, lease, created, output, told,
                 alive, stage>>

(* tasks/cancel: cancel_for_owner.                                         *)
cancel_task(c, i) ==
  LET p == prune_terminal_tasks(registry) IN
    /\ stage = "up" /\ Knows(c, i)
    /\ Running(p, i) /\ p.entry[i].owner = Owner(c)
    /\ registry' = request_cancel(p, i)
    /\ cancelled' = cancelled \cup Reached(p, {i})
    /\ UNCHANGED <<setup, starting, driver, native, lease, created, output, told, alive, stage>>

(* A legacy session closes: its lifetime token, the parent of its tasks'   *)
(* tokens, is cancelled.                                                   *)
EndSession(s) ==
  /\ Alive /\ s \in alive
  /\ alive' = alive \ {s}
  /\ cancelled' = cancelled \cup {i \in Ids : Live(i) /\ registry.entry[i].owner = s}
  /\ UNCHANGED <<setup, registry, starting, driver, native, lease, created, output, told, stage>>

(* 24 hours pass for the settled task that was updated least recently.     *)
Age ==
  /\ stage = "up" /\ registry.old < Len(registry.settled)
  /\ registry' = [registry EXCEPT !.old = @ + 1]
  /\ UNCHANGED <<setup, starting, cancelled, driver, native, lease, created, output, told,
                 alive, stage>>

(* Another caller opens or closes the database the server holds.  An open  *)
(* of the database that is open already joins its generation.              *)
OpenElsewhere ==
  /\ stage = "up" /\ native = 0 /\ lease = 0 /\ created < MaxGenerations
  /\ created' = created + 1 /\ lease' = created'
  /\ UNCHANGED <<setup, registry, starting, cancelled, driver, native, output, told, alive, stage>>

CloseElsewhere ==
  /\ stage \in {"up", "closing"} /\ native = 0 /\ lease # 0
  /\ lease' = 0
  /\ UNCHANGED <<setup, registry, starting, cancelled, driver, native, created, output, told,
                 alive, stage>>

-----------------------------------------------------------------------------
(* Steps of a driver.  Its token dies with it.                             *)

Kind(i) ==
  CASE registry.entry[i].key = "analyze_funcs" -> "analyze"
    [] setup.sdk94 -> "dscu" [] OTHER -> "idat"

Goto(i, p) ==
  /\ driver' = [driver EXCEPT ![i].pc = p, ![i].idat = "none"]
  /\ UNCHANGED <<registry, cancelled>>

Return(i, r) ==
  /\ registry' = r
  /\ driver' = [driver EXCEPT ![i] = [Asleep EXCEPT !.pc = "done"]]
  /\ cancelled' = cancelled \ {i}

(* The news a driver settles its task on, remembered.                      *)
Noted(i, v) ==
  IF v \in {"fatal", "lost", "cleanup"} THEN [registry EXCEPT !.entry[i].worst = v] ELSE registry

(* The first poll: a DSC driver cancelled by now only says so; otherwise   *)
(* remove_orphaned_dsc_output_artifacts refuses an output that appeared    *)
(* meanwhile, and idat may fail to start.                                  *)
Start(i) ==
  LET k == registry.entry[i].key IN
    /\ At(i, {"start"})
    /\ \/ Kind(i) = "analyze" /\ Goto(i, "analyze") /\ UNCHANGED output
       \/ /\ Kind(i) # "analyze" /\ i \in cancelled
          /\ Return(i, finish_cancelled(registry, i)) /\ UNCHANGED output
       \/ /\ Kind(i) # "analyze" /\ i \notin cancelled
          /\ output[k] # "none" \/ Kind(i) = "idat"
          /\ Return(i, complete_background_tool_error(registry, i, "plain"))
          /\ UNCHANGED output
       \/ /\ Kind(i) = "dscu" /\ i \notin cancelled /\ output[k] = "none"
          /\ Goto(i, "open") /\ UNCHANGED output
       \/ /\ Kind(i) = "idat" /\ i \notin cancelled /\ output[k] = "none"
          /\ driver' = [driver EXCEPT ![i].pc = "idat", ![i].idat = "running"]
          /\ output' = [output EXCEPT ![k] = "half"]
          /\ UNCHANGED <<registry, cancelled>>
    /\ UNCHANGED <<setup, starting, native, lease, created, told, alive, stage>>

(* idat ends on its own, with or without a complete database.              *)
IdatExits(i) ==
  /\ Alive /\ driver[i].idat = "running"
  /\ \/ /\ driver' = [driver EXCEPT ![i].idat = "ok"]
        /\ output' = [output EXCEPT ![registry.entry[i].key] = "whole"]
     \/ /\ driver' = [driver EXCEPT ![i].idat = "error"] /\ UNCHANGED output
  /\ UNCHANGED <<setup, registry, starting, cancelled, native, lease, created, told, alive, stage>>

\* Mutant of StopIdat: the task is settled before idat is killed.
SettleThenStopIdat(i) ==
  /\ At(i, {"idat"}) /\ i \in cancelled
  /\ registry' = finish_cancelled(registry, i)
  /\ UNCHANGED <<setup, starting, cancelled, driver, native, lease, created, output, told,
                 alive, stage>>

(* The cancelled branch of the select, or an error of wait(): kill idat,   *)
(* reap it, remove what it wrote, then settle.                             *)
StopIdat(i) ==
  /\ At(i, {"idat"})
  /\ \/ i \in cancelled /\ Return(i, finish_cancelled(registry, i))
     \/ Return(i, fail(registry, i))
  /\ output' = [output EXCEPT ![registry.entry[i].key] = "none"]
  /\ UNCHANGED <<setup, starting, native, lease, created, told, alive, stage>>

(* The wait branch: a cancellation is looked at before the exit code.      *)
IdatDone(i) ==
  LET k == registry.entry[i].key IN
    /\ At(i, {"idat"}) /\ driver[i].idat \in {"ok", "error"}
    /\ \/ /\ i \in cancelled
          /\ Return(i, finish_cancelled(registry, i)) /\ UNCHANGED output
       \/ /\ i \notin cancelled /\ driver[i].idat = "error"
          /\ Return(i, complete_background_tool_error(registry, i, "plain"))
          /\ output' = [output EXCEPT ![k] = "none"]
       \/ /\ i \notin cancelled /\ driver[i].idat = "ok"
          /\ Goto(i, "open") /\ UNCHANGED output
    /\ UNCHANGED <<setup, starting, native, lease, created, told, alive, stage>>

-----------------------------------------------------------------------------
(* Calls of the IDA worker through the pool.  The result of a call and     *)
(* what the driver makes of it up to its next await are one step.          *)

(* analyze_funcs_unbounded_observed returned.                              *)
Analyzed(i, v) ==
  Return(i, IF v = "ok" THEN complete_with_cancel_token(registry, i)
            ELSE complete_background_tool_error(Noted(i, v), i, v))

(* open_observed_with_generation returned.                                 *)
Opened(i, v) ==
  \/ v # "ok" /\ Return(i, complete_background_tool_error(Noted(i, v), i, v))
  \/ v = "ok" /\ i \in cancelled /\ Goto(i, "closeCancelled")
  \/ v = "ok" /\ i \notin cancelled /\ Kind(i) = "idat" /\ Goto(i, "finish")
  \/ /\ v = "ok" /\ i \notin cancelled /\ Kind(i) = "dscu"
     /\ driver' = [driver EXCEPT ![i].pc = "load", ![i].left = Images]
     /\ UNCHANGED <<registry, cancelled>>

(* One image loaded: the module first, then every framework.               *)
Loaded(i, v) ==
  \/ v = "fatal" /\ Return(i, complete_background_tool_error(Noted(i, v), i, v))
  \/ /\ v # "fatal" /\ (i \in cancelled \/ v # "ok")
     /\ registry' = Noted(i, v) /\ UNCHANGED cancelled
     /\ driver' = [driver EXCEPT ![i].pc = IF i \in cancelled THEN "closeCancelled"
                                           ELSE "closeFailed"]
  \/ /\ v = "ok" /\ i \notin cancelled /\ UNCHANGED <<registry, cancelled>>
     /\ driver' = [driver EXCEPT ![i].left = @ - 1,
                     ![i].pc = IF driver[i].left = 1 THEN "status" ELSE "load"]

(* analysis_status is optional unless the worker is gone.                  *)
StatusRead(i, v) ==
  \/ v = "fatal" /\ Return(i, complete_background_tool_error(Noted(i, v), i, v))
  \/ /\ v # "fatal" /\ registry' = Noted(i, v) /\ UNCHANGED cancelled
     /\ driver' = [driver EXCEPT ![i].pc = IF i \in cancelled THEN "closeCancelled"
                                           ELSE "finish"]

Resume(i, v) ==
  \/ driver[i].pc = "analyze" /\ Analyzed(i, v)
  \/ driver[i].pc = "open" /\ Opened(i, v)
  \/ driver[i].pc = "load" /\ Loaded(i, v)
  \/ driver[i].pc = "status" /\ StatusRead(i, v)

(* A lost worker takes the lease with it; open_error_releases_lease also   *)
(* gives up a lease taken for an open that failed, unless nothing was      *)
(* dispatched.                                                             *)
LeaseAfter(i, v) ==
  IF \/ v \in {"fatal", "lost"}
     \/ v = "plain" /\ driver[i].pc = "open" /\ driver[i].fresh /\ lease = driver[i].gen
  THEN 0 ELSE lease

(* lease_for_open: the generation that is current, or a new one.           *)
LeaseForOpen(i) ==
  /\ At(i, {"open"}) /\ driver[i].gen = 0
  /\ \/ /\ lease # 0 /\ driver' = [driver EXCEPT ![i].gen = lease, ![i].fresh = FALSE]
        /\ UNCHANGED <<registry, cancelled, lease, created>>
     \/ /\ lease = 0 /\ stage = "up" /\ created < MaxGenerations
        /\ created' = created + 1 /\ lease' = created'
        /\ driver' = [driver EXCEPT ![i].gen = created', ![i].fresh = TRUE]
        /\ UNCHANGED <<registry, cancelled>>
     \/ /\ lease = 0 /\ Opened(i, "never") /\ UNCHANGED <<lease, created>>
  /\ UNCHANGED <<setup, starting, native, output, told, alive, stage>>

(* Only open and analyze carry the task's token to the pool.               *)
Cancellable(i) == driver[i].pc \in {"open", "analyze"}
Waiting(i) ==
  /\ At(i, Calls) /\ native # i
  /\ driver[i].pc = "open" => driver[i].gen # 0
Bound(i) == IF driver[i].pc = "analyze" THEN lease # 0 ELSE lease = driver[i].gen

Dispatch(i) ==
  /\ Waiting(i) /\ native = 0 /\ stage = "up" /\ Bound(i)
  /\ Cancellable(i) => i \notin cancelled
  /\ native' = i
  /\ UNCHANGED <<setup, registry, starting, cancelled, driver, lease, created, output, told,
                 alive, stage>>

(* The wait ends without a dispatch: cancelled, out of time, shut down, or *)
(* the database is gone or another one.                                    *)
NeverDispatched(i) ==
  /\ Waiting(i)
  /\ native # 0 \/ stage # "up" \/ ~Bound(i) \/ (Cancellable(i) /\ i \in cancelled)
  /\ Resume(i, IF Bound(i) THEN "never" ELSE "plain")
  /\ UNCHANGED <<setup, starting, native, lease, created, output, told, alive, stage>>

(* The worker answers, dies, or overruns the watchdog, which kills it.     *)
(* "lost" is an error that retires the worker and is not is_fatal:         *)
(* WorkerClosed, or an open that timed out in the child.                   *)
Answer(i) ==
  /\ native = i
  /\ native' = 0
  /\ \E v \in {"ok", "plain", "fatal", "lost"} :
       /\ Resume(i, v)
       /\ lease' = LeaseAfter(i, v)
       /\ output' = IF v = "ok" /\ driver[i].pc = "open"
                    THEN [output EXCEPT ![registry.entry[i].key] = "whole"] ELSE output
  /\ UNCHANGED <<setup, starting, created, told, alive, stage>>

(* Outside shared HTTP a cancelled call kills its worker: WorkerRetired.   *)
CancelRunning(i) ==
  /\ native = i /\ Cancellable(i) /\ i \in cancelled /\ ~setup.preserve
  /\ native' = 0
  /\ Resume(i, "fatal")
  /\ lease' = LeaseAfter(i, "fatal")
  /\ UNCHANGED <<setup, starting, created, output, told, alive, stage>>

(* complete_or_defer_cancellation.                                         *)
Finish(i) ==
  /\ At(i, {"finish"})
  /\ IF i \in cancelled \/ registry.entry[i].requested
     THEN Goto(i, "closeCancelled") ELSE Return(i, complete(registry, i))
  /\ UNCHANGED <<setup, starting, native, lease, created, output, told, alive, stage>>

(* close_if_generation, and what finish_dsc_cancellation_after_open or     *)
(* finish_dsc_tool_error_after_open makes of Closed, NotCurrent and an     *)
(* error of the release, which has taken the lease already.                *)
Closed(i) ==
  /\ At(i, {"closeCancelled", "closeFailed"}) /\ native = 0
  /\ lease' = IF lease = driver[i].gen THEN 0 ELSE lease
  /\ \/ lease = driver[i].gen /\ Return(i, fail_after_cleanup_error(Noted(i, "cleanup"), i))
     \/ driver[i].pc = "closeCancelled" /\ Return(i, finish_cancelled(registry, i))
     \/ /\ driver[i].pc = "closeFailed"
        /\ Return(i, complete_background_tool_error(registry, i, "plain"))
  /\ UNCHANGED <<setup, starting, native, created, output, told, alive, stage>>

-----------------------------------------------------------------------------
(* shutdown_supervised: refuse new calls and save the database, cancel the *)
(* tasks, retire the workers.                                              *)

BeginShutdown ==
  /\ stage = "up" /\ stage' = "closing"
  /\ UNCHANGED <<setup, registry, starting, cancelled, driver, native, lease, created, output,
                 told, alive>>

CancelAllRunning ==
  /\ stage = "closing" /\ stage' = "cancelled"
  /\ LET r == [registry EXCEPT !.entry =
                 [i \in Ids |-> request_cancel(registry, i).entry[i]]]
     IN  registry' = IF r = registry THEN r ELSE prune_terminal_tasks(r)
  /\ cancelled' = cancelled \cup Reached(registry, Ids)
  /\ UNCHANGED <<setup, starting, driver, native, lease, created, output, told, alive>>

(* pool.shutdown_all kills the worker under the call it executes.          *)
RetireWorkers ==
  /\ stage = "cancelled" /\ stage' = "down"
  /\ native' = 0 /\ lease' = 0
  /\ IF native = 0 THEN UNCHANGED <<registry, cancelled, driver>> ELSE Resume(native, "fatal")
  /\ UNCHANGED <<setup, starting, created, output, told, alive>>

-----------------------------------------------------------------------------
Drive(i) ==
  \/ Start(i) \/ IdatDone(i) \/ LeaseForOpen(i) \/ Dispatch(i) \/ NeverDispatched(i)
  \/ Finish(i) \/ Closed(i)

Next ==
  \/ \E c \in Clients : AnalyzeInBackground(c) \/ (\E k \in Caches : OpenDsc(c, k))
  \/ \E c \in Clients, i \in Ids : Poll(c, i) \/ cancel_task(c, i)
  \/ \E i \in Ids : Register(i) \/ Drive(i) \/ IdatExits(i) \/ StopIdat(i)
  \/ \E i \in Ids : Answer(i) \/ CancelRunning(i)
  \/ \E s \in Sessions : EndSession(s)
  \/ Age \/ OpenElsewhere \/ CloseElsewhere
  \/ BeginShutdown \/ CancelAllRunning \/ RetireWorkers

Spec == Init /\ [][Next]_vars

(* The runtime polls every handler and driver that can proceed; the pool's *)
(* watchdog bounds every call.  Nothing bounds idat or a shutdown, and     *)
(* nobody has to cancel anything.                                          *)
FairSpec ==
  /\ Spec
  /\ \A i \in Ids :
       /\ WF_vars(Register(i)) /\ WF_vars(Drive(i)) /\ WF_vars(Answer(i))
       /\ WF_vars(i \in cancelled /\ StopIdat(i))

-----------------------------------------------------------------------------
(* Properties.                                                             *)

Entries ==
  [status : {"none", "running", "gone"} \cup Terminal, owner : Sessions \cup {"Runtime", "none"},
   client : Clients \cup {"none"}, key : Keys \cup {"none"}, requested : BOOLEAN,
   token : BOOLEAN, worst : {"none", "fatal", "lost", "cleanup"}]

Drivers ==
  [pc : {"none", "start", "idat", "finish", "closeCancelled", "closeFailed", "done"} \cup Calls,
   gen : 0 .. MaxGenerations, fresh : BOOLEAN, left : 0 .. Images,
   idat : {"none", "running", "ok", "error"}]

(* Every variable has its type, and a settled task is in the retention     *)
(* order exactly once.                                                     *)
TypeOK ==
  /\ setup \in [sdk94 : BOOLEAN, preserve : BOOLEAN]
  /\ registry \in [entry : [Ids -> Entries], settled : Seq(Ids), old : Nat]
  /\ registry.old <= Len(registry.settled)
  /\ ToSet(registry.settled) = {i \in Ids : registry.entry[i].status \in Terminal}
  /\ \A m, n \in DOMAIN registry.settled : registry.settled[m] = registry.settled[n] => m = n
  /\ starting \subseteq Ids /\ cancelled \subseteq Ids
  /\ driver \in [Ids -> Drivers] /\ native \in 0 .. MaxTasks
  /\ lease \in 0 .. MaxGenerations /\ created \in 0 .. MaxGenerations
  /\ output \in [Caches -> {"none", "half", "whole"}]
  /\ told \subseteq Clients \X Ids /\ alive \subseteq Sessions
  /\ stage \in {"up", "closing", "cancelled", "down"}

(* The IDA work behind a task: a call the worker executes, or idat.        *)
Working == {i \in Ids : native = i \/ driver[i].idat = "running"}
StatusOf == [i \in Ids |-> registry.entry[i].status]
KeyOf == [i \in Ids |-> IF Running(registry, i) THEN registry.entry[i].key ELSE "none"]
Asked == cancelled \cup {i \in Ids : registry.entry[i].requested}

(* The registry and the drivers together keep the promises of TaskService: *)
(* one running task per key and a bounded registry; a task settles once,   *)
(* with no IDA work left behind it; it says cancelled only if asked; and   *)
(* only settled tasks are ever forgotten.                                  *)
Service ==
  INSTANCE TaskService WITH
    Limit <- MaxEntries,
    status <- StatusOf,
    keyOf <- KeyOf,
    asked <- Asked,
    working <- Working
ImplementsTaskService == Service!Spec

(* A driver still at work has a running entry: it can be polled and        *)
(* cancelled, and its key stays taken, however full the registry gets.     *)
NeverForgotten ==
  \A i \in Ids : Live(i) => Running(registry, i)

(* A task that says cancelled left nothing behind: no fatal error ended    *)
(* it, its cleanup did not fail, and the database generation it opened is  *)
(* not the current one (complete_after_fatal_error,                        *)
(* fail_after_cleanup_error, complete_or_defer_cancellation).  A worker    *)
(* lost as WorkerClosed is no fatal error.                                 *)
CancelledIsClean ==
  [][\A i \in Ids : Running(registry, i) /\ registry'.entry[i].status = "cancelled" =>
       /\ registry'.entry[i].worst \notin {"fatal", "cleanup"}
       /\ driver[i].pc \in {"finish", "closeCancelled", "closeFailed"} =>
            lease' # driver[i].gen]_vars

(* A task id is told only to the client that created the task, or to the   *)
(* legacy session that owns it; sessionless clients share an owner and     *)
(* still learn no id from each other (create_keyed).                       *)
HandlesStayPrivate ==
  \A c \in Clients, i \in Retained(registry) : Knows(c, i) =>
    registry.entry[i].client = c \/ (c \in Sessions /\ registry.entry[i].owner = c)

(* A task asked to stop settles unless the process exits first, even while *)
(* idat hangs and even when the request came before the token was stored.  *)
CancelSettles ==
  \A i \in Ids : (i \in Asked /\ Running(registry, i)) ~> (~Running(registry, i) \/ ~Alive)

(* docs/TRANSPORTS.md: cancellation kills idat "and removes its partial    *)
(* database output before publishing `cancelled`, so a later `open_dsc`    *)
(* cannot reuse a half-written database".                                  *)
NoHalfWrittenReuse ==
  \A k \in Caches : output[k] = "half" => Matching(registry, k) # {}

=============================================================================
