------------------------------ MODULE ToolCalls ------------------------------
(***************************************************************************)
(* The life of a tool call in a pooled server, from tools/call to the      *)
(* reply (server/mod.rs, pool.rs, remote.rs).  The handlers of one session *)
(* run concurrently.  Each asks its backend for one item after another;    *)
(* the backend turns every method into a tool call of the child worker     *)
(* that holds the session's lease, and turns the child's answer, silence   *)
(* or death back into a result.  Tools has the tables.                     *)
(***************************************************************************)
EXTENDS Naturals, FiniteSets, Tools

CONSTANTS
  Clients,   \* concurrent calls of one session
  MaxItems,  \* addresses or patterns in one call
  MaxLives,  \* leases the session takes
  Bases      \* the include bases a server may be started with

ASSUME BoundsAssumption ==
  /\ MaxItems \in Nat \ {0} /\ MaxLives \in Nat \ {0}
  /\ Bases \subseteq {"all", "lean"} \cup DOMAIN Categories

VARIABLES
  filter,  \* the tool filter the server was started with
  call,    \* the handlers
  lease,   \* the lease the session holds (0: none)
  fate,    \* what became of every lease
  pinned   \* the lease hosts a debugger session

vars == <<filter, call, lease, fate, pinned>>

-----------------------------------------------------------------------------
(* What is offered.                                                        *)

Filters ==
  [base : Bases, readOnly : BOOLEAN, debugger : BOOLEAN, workspace : BOOLEAN]

Included(b) ==
  CASE b = "all" -> Registry [] b = "lean" -> LeanProfile [] OTHER -> Categories[b]

Allowed(f) == Included(f.base) \ (IF f.readOnly THEN READ_ONLY_DENY_LIST ELSE {})

Enabled(f) ==
  {t \in Allowed(f) : /\ t \in NeedsDebugger => f.debugger
                      /\ t \in NeedsWorkspace => f.workspace}

-----------------------------------------------------------------------------
(* A method on its way through the child, without the names: whether the   *)
(* child ends up sending the request the method stands for and, besides,   *)
(* only requests that read; whether the parent reads the reply in the form *)
(* the child gives it.                                                     *)

KindOf(m) == IdaWorker[Local[m]].kind

Step(m) ==
  LET p == Pooled[m]
      child == Handlers[p.tool].plans[p.variant]
      first == KindOf(child[1])
  IN  [agrees |-> /\ first = KindOf(m)
                  /\ \A i \in 2 .. Len(child) : EffectOf(KindOf(child[i])) = "read",
       understood |-> Handlers[p.tool].form = p.form,
       follow |-> Len(child) > 1,
       effect |-> EffectOf(first),
       guarded |-> ArmOf(first).guarded,
       debug |-> p.tool \in {"debug_launch", "debug_attach", "debug_modules", "debug_stop"}]

(* The tools --read-only keeps on purpose, with what they do.              *)
Preserved ==
  {"open_idb", "close_idb", "analysis_status", "task_status", "recent_operations",
   "tool_catalog", "tool_help", "idb_meta", "load_debug_info"}

Route(t, v) ==
  LET plan == Handlers[t].plans[v] IN
    [many |-> Handlers[t].many, kept |-> t \in Preserved,
     steps |-> [i \in DOMAIN plan |-> Step(plan[i])]]

Offered ==
  [f \in Filters |->
     UNION {{Route(t, v) : v \in DOMAIN Handlers[t].plans} : t \in Enabled(f)}]

-----------------------------------------------------------------------------
Idle ==
  [phase |-> "done", route |-> Route("tool_help", "default"), left |-> 0, step |-> 0,
   lease |-> 0, fresh |-> FALSE, at |-> 0, loss |-> "none", reply |-> "none"]

Live == {g \in DOMAIN fate : fate[g] # "unused"}

Init ==
  /\ filter \in Filters /\ Enabled(filter) # {}
  /\ call = [c \in Clients |-> Idle]
  /\ lease = 0
  /\ fate = [g \in 1 .. MaxLives |-> "unused"]
  /\ pinned = FALSE

Current(c) == call[c].route.steps[call[c].step]

(* SanitizedIdaServer::call_tool refuses what the filter removed; a tool   *)
(* without a plan is answered by the server itself.                        *)
Call(c) ==
  /\ call[c].phase = "done"
  /\ \/ /\ \E r \in Offered[filter], n \in 1 .. MaxItems :
             /\ r.many \/ n = 1
             /\ call' = [call EXCEPT ![c] =
                  IF r.steps = <<>> THEN [Idle EXCEPT !.reply = "ok"]
                  ELSE [Idle EXCEPT !.phase = "next", !.route = r, !.left = n, !.step = 1,
                          !.route.many = (n > 1)]]
     \/ /\ Enabled(filter) # DOMAIN Handlers
        /\ call' = [call EXCEPT ![c] = [Idle EXCEPT !.reply = "disabled"]]
  /\ UNCHANGED <<filter, lease, fate, pinned>>

-----------------------------------------------------------------------------
(* The results of a method, named after ToolError.                         *)

Answered(r, reply) == [Idle EXCEPT !.loss = r.loss, !.reply = reply]

is_fatal(e) == e \in {"SdkCrashed", "DebuggerSessionLost", "WorkerRetired", "WorkerCrashed"}

\* Mutant of Delivered: a batch folds every error into its item.
DeliveredFolded(r, e) ==
  IF e = "none" /\ r.step < Len(r.route.steps)
    THEN [r EXCEPT !.phase = "next", !.step = @ + 1]
  ELSE IF ~r.route.many THEN Answered(r, IF e = "none" THEN "ok" ELSE "error")
  ELSE IF r.left = 1 THEN Answered(r, "ok")
  ELSE [r EXCEPT !.phase = "next", !.left = @ - 1]

(* A handler with one item answers with its result; one with several goes  *)
(* on to the next item unless the worker is lost.                          *)
Delivered(r, e) ==
  IF e = "none" /\ r.step < Len(r.route.steps)
    THEN [r EXCEPT !.phase = "next", !.step = @ + 1]
  ELSE IF ~r.route.many THEN Answered(r, IF e = "none" THEN "ok" ELSE "error")
  ELSE IF is_fatal(e) THEN Answered(r, "error")
  ELSE IF r.left = 1 THEN Answered(r, "ok")
  ELSE [r EXCEPT !.phase = "next", !.left = @ - 1]

Deliver(c, r, e) ==
  call' = [call EXCEPT ![c] =
    [Delivered([r EXCEPT !.at = 0], e) EXCEPT !.lease = 0, !.fresh = FALSE]]

(* The lease the next item runs on: an open takes one, a close gives the   *)
(* session's up before it talks to the child, everything else needs one.   *)
Resolve(c) ==
  /\ call[c].phase = "next"
  /\ LET s == Current(c)
         Queue(g, fresh) ==
           call' = [call EXCEPT ![c].phase = "queued", ![c].lease = g, ![c].fresh = fresh]
     IN  \/ /\ s.effect = "Open" /\ lease = 0
            /\ \E g \in 1 .. MaxLives :
                 /\ g = Cardinality(Live) + 1
                 /\ lease' = g
                 /\ fate' = [fate EXCEPT ![g] = "leased"]
                 /\ Queue(g, TRUE)
            /\ UNCHANGED pinned
         \/ /\ s.effect = "Open" /\ lease = 0
            /\ Deliver(c, call[c], "PoolExhausted")
            /\ UNCHANGED <<lease, fate, pinned>>
         \/ /\ s.effect = "Close" /\ lease # 0
            /\ Queue(lease, FALSE)
            /\ lease' = 0 /\ pinned' = FALSE
            /\ UNCHANGED fate
         \/ /\ s.effect # "Close" /\ lease # 0
            /\ Queue(lease, FALSE)
            /\ UNCHANGED <<lease, fate, pinned>>
         \/ /\ s.effect # "Open" /\ lease = 0
            /\ Deliver(c, call[c], "NoDatabaseOpen")
            /\ UNCHANGED <<lease, fate, pinned>>
  /\ UNCHANGED filter

(* clear_handle_if_lease.                                                  *)
Cleared(g) ==
  /\ lease' = IF lease = g THEN 0 ELSE lease
  /\ pinned' = (pinned /\ lease # g)

\* Mutant of Admit: whoever gets the call lock may use the worker.
AdmitAnyLease(c) ==
  /\ call[c].phase = "queued"
  /\ \A d \in Clients : ~(call[d].phase = "child" /\ call[d].lease = call[c].lease)
  /\ call' = [call EXCEPT ![c].phase = "child", ![c].at = 1]
  /\ UNCHANGED <<filter, lease, fate, pinned>>

(* call_tool_admitted: the call lock, then the state of the child.  A close *)
(* that finds its lease gone has nothing left to do.                       *)
Admit(c) ==
  /\ call[c].phase = "queued"
  /\ \A d \in Clients : ~(call[d].phase = "child" /\ call[d].lease = call[c].lease)
  /\ LET g == call[c].lease IN
       \/ /\ fate[g] = "leased"
          /\ call' = [call EXCEPT ![c].phase = "child", ![c].at = 1]
          /\ UNCHANGED <<lease, pinned>>
       \/ /\ fate[g] = "dead"
          /\ IF Current(c).effect = "Close" THEN Deliver(c, call[c], "none")
             ELSE Deliver(c, [call[c] EXCEPT !.loss = "fatal"], "WorkerCrashed")
          /\ Cleared(g)
       \/ /\ fate[g] = "released"
          /\ Deliver(c, call[c],
               IF Current(c).effect = "Close" THEN "none" ELSE "DatabaseReplaced")
          /\ Cleared(g)
  /\ UNCHANGED <<filter, fate>>

(* The queue is full, the wait for the lock reaches the deadline or is     *)
(* cancelled, the frame is too large: the worker never saw the call.  A    *)
(* close waits for the lock without a limit.                               *)
Refuse(c) ==
  /\ call[c].phase = "queued" /\ Current(c).effect # "Close"
  /\ Deliver(c, call[c], "NeverDispatched")
  /\ UNCHANGED <<filter, lease, fate, pinned>>

-----------------------------------------------------------------------------
(* The answer of the child.                                                *)

(* child_tool_error_retires_worker, and for an open and a close            *)
(* unsettled_open_error_retires_worker and release_error_retires_worker.   *)
Retires(s, e) ==
  \/ e \in {"WorkerClosed", "WorkerCrashed", "SdkCrashed", "WorkerRetired"}
  \/ s.debug /\ e = "TimeoutDetailed"
  \/ s.effect \in {"Open", "Close"} /\ e \in {"TimeoutDetailed", "Cancelled"}
  \/ s.effect = "Close" /\ e \in {"DebuggerTeardown", "RemoteCall"}

(* debugger_worker_loss_error.                                             *)
LossReported(s, e, hosted) ==
  IF hosted \/ (s.effect = "debugStart" /\ e \in {"TimeoutDetailed", "WorkerRetired"})
  THEN "DebuggerSessionLost" ELSE e

(* The worker is retired and the lease it served cleared.                  *)
Lose(c, e, why) ==
  LET g == call[c].lease
      s == Current(c)
      r == [call[c] EXCEPT !.loss = why]
  IN  /\ fate' = [fate EXCEPT ![g] = "dead"]
      /\ Cleared(g)
      /\ Deliver(c, r, LossReported(s, e, pinned /\ lease = g))

(* debug_start pins the lease that served it, if it still is the lease.    *)
Settle(c, e) ==
  LET g == call[c].lease
      s == Current(c)
      starts == s.effect = "debugStart" /\ e \in {"none", "DebuggerStartRetained"}
      ends == s.effect = "debugStop" /\ e = "none"
  IN  /\ Deliver(c, call[c], IF starts /\ lease # g THEN "DebuggerSessionLost" ELSE e)
      /\ pinned' = IF lease # g THEN pinned ELSE (pinned \/ starts) /\ ~ends
      /\ UNCHANGED <<lease, fate>>

(* An open that fails on a lease of its own, or leaves the worker in       *)
(* doubt, gives the lease back.                                            *)
SettleOpen(c, e) ==
  LET g == call[c].lease
      back == e # "none" /\ (call[c].fresh \/ e = "DatabaseReplaced")
  IN  /\ Deliver(c, call[c], e)
      /\ IF back /\ lease = g
         THEN /\ lease' = 0 /\ pinned' = FALSE
              /\ fate' = [fate EXCEPT ![g] = "released"]
         ELSE UNCHANGED <<lease, fate, pinned>>

(* An error that does not retire the child leaves it idle, and the close   *)
(* succeeds.                                                               *)
SettleClose(c, e) ==
  /\ Deliver(c, call[c], "none")
  /\ fate' = [fate EXCEPT ![call[c].lease] = "released"]
  /\ UNCHANGED <<lease, pinned>>

(* dispatch_result_observed and what each method does with the result.     *)
Receive(c, e, why) ==
  LET s == Current(c) IN
    IF Retires(s, e) THEN Lose(c, e, why)
    ELSE IF s.effect = "Open" THEN SettleOpen(c, e)
    ELSE IF s.effect = "Close" THEN SettleClose(c, e)
    ELSE Settle(c, e)

(* What classify_child_error makes of the text of an ordinary error: it    *)
(* looks for its phrases anywhere in the text, which quotes names and      *)
(* messages of the database and of the client.  Only the prefix of a       *)
(* retained start is the start's own.                                      *)
Wordings(s) ==
  {"IdaError", "NotSupported", "WorkerClosed", "TimeoutDetailed", "Cancelled",
   "DebuggerTeardown"}
    \cup (IF s.effect = "debugStart" THEN {"DebuggerStartRetained"} ELSE {})

(* The child sends its first request and, when its tool has a second one,  *)
(* goes on to it.                                                          *)
Succeed(c) ==
  /\ call[c].phase = "child"
  /\ LET s == Current(c) IN
       IF s.follow /\ call[c].at = 1
       THEN /\ call' = [call EXCEPT ![c].at = 2]
            /\ UNCHANGED <<lease, fate, pinned>>
       ELSE Receive(c, IF s.understood THEN "none" ELSE "RemoteProtocol", "none")
  /\ UNCHANGED filter

(* The request failed.  The child ignores a failure of its second request. *)
Fail(c) ==
  /\ call[c].phase = "child"
  /\ \E e \in Wordings(Current(c)) \cup {"RemoteCall"} :
       IF call[c].at = 2 THEN Receive(c, "none", "none")
       ELSE Receive(c, e, IF e = "WorkerClosed" THEN "misread" ELSE "fatal")
  /\ UNCHANGED filter

(* The loop of the child ended: its channel is closed.                     *)
FindClosed(c) ==
  /\ call[c].phase = "child"
  /\ IF call[c].at = 2 THEN Receive(c, "none", "none")
     ELSE Receive(c, "WorkerClosed", "closed")
  /\ UNCHANGED filter

(* A crash the guard caught, in either request: the child marks its reply, *)
(* whatever it says.                                                       *)
CrashInSdk(c) ==
  /\ call[c].phase = "child" /\ Current(c).guarded
  /\ Receive(c, "SdkCrashed", "fatal")
  /\ UNCHANGED filter

\* Mutant of Deadline: a call without a timeout of its own is not watched.
DeadlineOfDebugger(c) ==
  /\ call[c].phase = "child" /\ Current(c).debug
  /\ Lose(c, "WorkerRetired", "fatal")
  /\ UNCHANGED filter

(* The worker operation timeout, and the end of the child process.         *)
Deadline(c) ==
  /\ call[c].phase = "child"
  /\ Lose(c, "WorkerRetired", "fatal")
  /\ UNCHANGED filter

Die(c) ==
  /\ call[c].phase = "child"
  /\ Lose(c, "WorkerCrashed", "fatal")
  /\ UNCHANGED filter

Proceed(c) ==
  \/ Resolve(c) \/ Admit(c) \/ Refuse(c) \/ Succeed(c) \/ Fail(c) \/ FindClosed(c)
  \/ CrashInSdk(c) \/ Deadline(c) \/ Die(c)

Next == \E c \in Clients : Call(c) \/ Proceed(c)

Spec == Init /\ [][Next]_vars

(* The call lock is granted in order and every call to a child has a       *)
(* deadline.  Nothing is assumed of the child, which may hang.             *)
FairSpec ==
  /\ Spec
  /\ \A c \in Clients :
       WF_vars(Resolve(c)) /\ SF_vars(Admit(c)) /\ WF_vars(Deadline(c))
-----------------------------------------------------------------------------
Phases == {"done", "next", "queued", "child"}

Losses == {"none", "fatal", "closed", "misread"}

(* Every variable has its type.                                            *)
TypeOK ==
  /\ filter \in Filters
  /\ \A c \in Clients :
       /\ call[c].phase \in Phases /\ call[c].left \in 0 .. MaxItems
       /\ call[c].lease \in 0 .. MaxLives /\ call[c].at \in 0 .. 2
       /\ call[c].step \in 0 .. Len(call[c].route.steps)
       /\ call[c].loss \in Losses /\ call[c].reply \in {"none", "ok", "error", "disabled"}
  /\ lease \in 0 .. MaxLives
  /\ fate \in [1 .. MaxLives -> {"unused", "leased", "released", "dead"}]
  /\ pinned \in BOOLEAN

(* Whatever a handler asks of its pooled backend, the child ends up asking *)
(* its IDA thread for exactly that request, followed only by reads, and    *)
(* the parent reads the reply in the form the child gave it: the pooled    *)
(* and the local backend do the same (WorkerBackend, PooledDatabaseBinding *)
(* and the handlers the child runs).                                       *)
RoutesAgree ==
  \A c \in Clients :
    call[c].phase = "child" => Current(c).agrees /\ Current(c).understood

(* --read-only leaves nothing that changes a database except the tools it  *)
(* keeps on purpose: no request of a call that passed the filter edits,    *)
(* saves, analyses, runs a script or controls a process, whatever base the *)
(* filter started from (READ_ONLY_DENY_LIST, from_profile_and_inputs).     *)
ReadOnlyHolds ==
  \A c \in Clients :
    filter.readOnly /\ call[c].phase = "child" /\ ~call[c].route.kept =>
      Current(c).effect \in {"read", "Open", "Close"}

(* A call during which the worker crashed, died or was killed at its       *)
(* deadline is answered with an error, also when it had several items and  *)
(* some of them succeeded (is_fatal).  WorkerClosed retires the worker and *)
(* is not fatal: a batch does fold such a loss.                            *)
FatalSurfaces ==
  \A c \in Clients :
    call[c].phase = "done" /\ call[c].loss = "fatal" => call[c].reply = "error"

(* A call only ever runs on the lease it was resolved to, while it is one: *)
(* waiting for the worker it never slips into a database that was opened   *)
(* in between (call_tool_admitted).                                        *)
RunsOnItsLease ==
  \A c \in Clients : call[c].phase = "child" => fate[call[c].lease] = "leased"

(* Every call is answered, even when the child hangs for ever.             *)
AlwaysAnswered == \A c \in Clients : call[c].phase # "done" ~> call[c].phase = "done"
=============================================================================
