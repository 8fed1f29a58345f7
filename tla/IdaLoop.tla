------------------------------- MODULE IdaLoop -------------------------------
(***************************************************************************)
(* The channel between the async callers of an IDA worker and the loop     *)
(* that serves them on the main thread (worker.rs, request.rs,             *)
(* loop_impl.rs, crash_guard.rs).  Callers queue requests, time out,       *)
(* cancel and disappear at any moment; the loop takes one request at a     *)
(* time, initialises IDA on the first one, may catch a crash inside the    *)
(* SDK, and owns the database, its generation, its lock file and the       *)
(* debugger session.                                                       *)
(***************************************************************************)
EXTENDS Integers, Sequences, FiniteSets, Requests

CONSTANTS
  Calls,          \* callers, each with at most one request at a time
  Capacity,       \* REQUEST_QUEUE_CAPACITY
  MaxGeneration,  \* the largest database generation (2^64 - 1 in the code)
  Supervised,     \* the process is a child whose parent enforces deadlines
  NoCall

ASSUME CallsAssumption == NoCall \notin Calls
ASSUME BoundsAssumption ==
  /\ Capacity \in Nat \ {0} /\ MaxGeneration \in Nat \ {0}
  /\ Supervised \in BOOLEAN

VARIABLES
  call,   \* the caller's side of every request
  queue,  \* the bounded channel
  loop,   \* what the main thread is doing, and for which request
  ida     \* the state run_ida_loop owns

vars == <<call, queue, loop, ida>>

-----------------------------------------------------------------------------
(* A request from its caller's side.  expects is the database generation   *)
(* it is bound to (0: none); ran is the generation it changed something in *)
(* (0: it changed nothing yet); done says that its caller waits no more.    *)
Idle ==
  [state |-> "done", shape |-> Shape("segments"), expects |-> 0,
   admission |-> "queued", cancelled |-> FALSE, ran |-> 0, answer |-> "none"]

Sent(s, g) == [Idle EXCEPT !.shape = s, !.expects = g]

(* The answers that promise the caller its request did nothing; every      *)
(* other answer comes from a handler.  "sent" is no answer at all.         *)
Refusals == {"timeout", "expired", "busy", "replaced", "closed", "notCurrent"}

Verdict(a) == IF a \in Refusals THEN "refused" ELSE IF a = "sent" THEN a ELSE "served"

Told(r, a) == [r EXCEPT !.state = "done", !.answer = Verdict(a)]

(* The request no longer exists: what it changed, for which generation,    *)
(* and whether its caller was told that it changed nothing, is all that is *)
(* remembered of it.                                                       *)
Consumed(r) ==
  [Idle EXCEPT !.state = r.state, !.ran = r.ran,
     !.answer = IF r.answer = "served" THEN "none" ELSE r.answer,
     !.expects = IF r.ran = 0 THEN 0 ELSE r.expects,
     !.admission = IF r.admission = "started" THEN "queued" ELSE r.admission]

(* What the loop owns.  database is the state of the open IDB in memory,   *)
(* disk the state last written; crashed is what the crash guard remembers  *)
(* until the next request; debuggee is the process under IDA's debugger,   *)
(* session the loop's record of it; stray records that a crash or a script *)
(* may have left a process beyond that record.                             *)
Fresh ==
  [lib |-> "deferred", database |-> "none", generation |-> 0, last |-> 0,
   lock |-> FALSE, disk |-> "sound", crashed |-> FALSE, stray |-> FALSE,
   session |-> FALSE, debuggee |-> FALSE]

Waiting(c) == call[c].state \in {"waiting", "late"}

Running == loop.phase \notin {"exited", "killed"}

Init ==
  /\ call = [c \in Calls |-> Idle]
  /\ queue = <<>>
  /\ loop = [phase |-> "idle", call |-> NoCall]
  /\ ida \in {Fresh, [Fresh EXCEPT !.lib = "ready"], [Fresh EXCEPT !.lib = "mismatch"]}

-----------------------------------------------------------------------------
(* The caller's side.                                                      *)

(* The request is in the channel.  shutdown expects no answer.             *)
Enqueue(c, r) ==
  /\ Len(queue) < Capacity
  /\ queue' = Append(queue, c)
  /\ call' = [call EXCEPT ![c] =
       IF r.shape.recv = "none" THEN Told(r, "sent")
                                ELSE [r EXCEPT !.state = "waiting"]]

Answered(c, r, a) ==
  /\ call' = [call EXCEPT ![c] = Told(r, a)]
  /\ UNCHANGED queue

(* A bound request names the generation some open returned, or none.       *)
Expectations(s) ==
  IF s.arm.bound THEN 0 .. ida.last
  ELSE IF s.effect = "CloseIfGeneration" THEN 1 .. ida.last
  ELSE {0}

(* The previous request of c is over on both sides.                        *)
Free(c) ==
  /\ call[c].state = "done"
  /\ c # loop.call
  /\ \A i \in DOMAIN queue : queue[i] # c

(* try_send, and the first round of send_with_retry.                       *)
Submit(c) ==
  /\ Free(c)
  /\ \E s \in Shapes : \E g \in Expectations(s) :
       LET r == Sent(s, g) IN
         \/ Running /\ Enqueue(c, r)
         \/ loop.phase = "exited" /\ Answered(c, Consumed(r), "closed")
         \/ /\ Running /\ Len(queue) = Capacity
            /\ IF s.send = "try" THEN Answered(c, Consumed(r), "busy")
               ELSE /\ call' = [call EXCEPT ![c] = [r EXCEPT !.state = "sending"]]
                    /\ UNCHANGED queue
  /\ UNCHANGED <<loop, ida>>

Resend(c) ==
  /\ call[c].state = "sending"
  /\ \/ Running /\ Enqueue(c, call[c])
     \/ loop.phase = "exited" /\ Answered(c, Consumed(call[c]), "closed")
  /\ UNCHANGED <<loop, ida>>

(* CLOSE_SEND_TIMEOUT_SECS pass with the queue full.                       *)
GiveUp(c) ==
  /\ call[c].state = "sending" /\ call[c].shape.send = "retry"
  /\ Running /\ Len(queue) = Capacity
  /\ Answered(c, Consumed(call[c]), "busy")
  /\ UNCHANGED <<loop, ida>>

(* cancel_if_queued.                                                       *)
Withdrawn(r) ==
  IF r.admission = "queued" THEN [r EXCEPT !.admission = "cancelled"] ELSE r

(* The deadline of a read: the caller gives up, the request stays queued.  *)
ReadDeadline(c) ==
  /\ ~Supervised
  /\ call[c].state = "waiting" /\ call[c].shape.recv = "bounded"
  /\ Answered(c, call[c], "timeout")
  /\ UNCHANGED <<loop, ida>>

\* Mutant of SideEffectDeadline: the caller stops waiting for a started request.
SideEffectTimesOut(c) ==
  /\ ~Supervised
  /\ call[c].state = "waiting" /\ call[c].shape.recv = "sideEffect"
  /\ Answered(c, Withdrawn(call[c]), "timeout")
  /\ UNCHANGED <<loop, ida>>

(* The deadline of a side effect: withdrawn if it is still queued,         *)
(* otherwise the caller waits for the real result.                         *)
SideEffectDeadline(c) ==
  /\ ~Supervised
  /\ call[c].state = "waiting" /\ call[c].shape.recv = "sideEffect"
  /\ IF call[c].admission = "queued"
     THEN Answered(c, Withdrawn(call[c]), "timeout")
     ELSE /\ call' = [call EXCEPT ![c].state = "late"]
          /\ UNCHANGED queue
  /\ UNCHANGED <<loop, ida>>

(* The caller's future is dropped; SideEffectWaitGuard withdraws.          *)
Abandon(c) ==
  /\ call[c].state \in {"sending", "waiting", "late"}
  /\ LET r == IF call[c].shape.recv = "sideEffect" THEN Withdrawn(call[c]) ELSE call[c]
     IN  call' = [call EXCEPT ![c] =
           [(IF r.state = "sending" THEN Consumed(r) ELSE r) EXCEPT !.state = "done"]]
  /\ UNCHANGED <<queue, loop, ida>>

(* The foreground operation cancels the token it handed to the request.    *)
CancelToken(c) ==
  /\ call[c].state = "waiting" /\ call[c].shape.observed /\ ~call[c].cancelled
  /\ call' = [call EXCEPT ![c].cancelled = TRUE]
  /\ UNCHANGED <<queue, loop, ida>>

-----------------------------------------------------------------------------
(* The loop.  It answers on a one-shot channel whose receiver may be gone. *)

Current == loop.call

Req == call[Current]

ToldBy(r, a) == IF r.state \in {"waiting", "late"} THEN Told(r, a) ELSE r

Reply(a) == call' = [call EXCEPT ![Current] = Consumed(ToldBy(Req, a))]

Return == loop' = [phase |-> "idle", call |-> NoCall]

\* Mutant of Dropped: the lock outlives the database.
DroppedLocked(s, save) ==
  [s EXCEPT !.database = "none", !.generation = 0,
     !.disk = IF save /\ s.database # "none" THEN s.database ELSE @]

(* The database is dropped: idalib writes it unless told not to.           *)
Dropped(s, save) ==
  [s EXCEPT !.database = "none", !.generation = 0, !.lock = FALSE,
     !.disk = IF save /\ s.database # "none" THEN s.database ELSE @]

\* Mutant of SessionClosed: the record is cleared, the process keeps running.
SessionForgotten(s) == [s EXCEPT !.session = FALSE]

(* close_session: without a database the record is cleared; a debuggee     *)
(* that already exited, and no session, end at once; otherwise the         *)
(* teardown may fail and changes nothing.                                  *)
SessionClosed(s) ==
  IF s.database # "none" /\ s.session THEN [s EXCEPT !.session = FALSE, !.debuggee = FALSE]
  ELSE [s EXCEPT !.session = FALSE]

TeardownMayFail(s) == s.database # "none" /\ s.session /\ s.debuggee

(* discard_database_after_crash: nothing is saved, whatever the debugger   *)
(* answers.                                                                *)
Discarded(i) ==
  {[Dropped(s, FALSE) EXCEPT !.crashed = FALSE] :
     s \in {SessionClosed(i)} \cup (IF TeardownMayFail(i) THEN {i} ELSE {})}

\* Mutant of Receive: the database a crash left behind stays open.
ReceiveAfterCrash ==
  /\ loop.phase = "idle" /\ queue # <<>>
  /\ queue' = Tail(queue)
  /\ loop' = [phase |-> "taken", call |-> Head(queue)]
  /\ ida' = [ida EXCEPT !.crashed = FALSE]
  /\ UNCHANGED call

(* rx.recv, and the discard when the previous request crashed.             *)
Receive ==
  /\ loop.phase = "idle" /\ queue # <<>>
  /\ queue' = Tail(queue)
  /\ loop' = [phase |-> "taken", call |-> Head(queue)]
  /\ IF ida.crashed
     THEN ida' \in Discarded(ida)
     ELSE UNCHANGED ida
  /\ UNCHANGED call

(* Deferred initialisation on the first request.  A request that arrives   *)
(* cancelled, or that meets a failed initialisation, is rejected; nothing  *)
(* answers a rejected Shutdown.                                            *)
InitialiseFails ==
  /\ loop.phase = "taken" /\ ida.lib = "deferred"
  /\ IF Req.cancelled THEN Reply("cancelled") ELSE Reply("error")
  /\ Return
  /\ UNCHANGED <<queue, ida>>

Initialise ==
  /\ loop.phase = "taken" /\ ida.lib = "deferred" /\ ~Req.cancelled
  /\ \E o \in {"ready", "mismatch"} : ida' = [ida EXCEPT !.lib = o]
  /\ UNCHANGED <<call, queue, loop>>

\* Mutant of Exit: the receiver outlives the loop.
ExitKeepsReceiver ==
  /\ loop' = [phase |-> "exited", call |-> NoCall]
  /\ UNCHANGED <<queue, call>>

(* The loop function returns: the receiver is dropped with every request   *)
(* still queued, and their callers see a closed worker.                    *)
Exit ==
  /\ loop' = [phase |-> "exited", call |-> NoCall]
  /\ queue' = <<>>
  /\ call' = [c \in Calls |->
       IF \E i \in DOMAIN queue : queue[i] = c THEN Consumed(ToldBy(call[c], "closed"))
       ELSE IF c = Current THEN Consumed(call[c]) ELSE call[c]]

(* shutdown_cleanup: the database is closed whatever the debugger answers. *)
ShutdownCleanup ==
  \E s \in {SessionClosed(ida)} \cup (IF TeardownMayFail(ida) THEN {ida} ELSE {}) :
    ida' = Dropped(s, TRUE)

Shutdown ==
  /\ loop.phase = "taken" /\ ida.lib # "deferred" /\ Req.shape.effect = "Shutdown"
  /\ ShutdownCleanup
  /\ Exit

(* A library of another version serves nothing.                            *)
RejectVersion ==
  /\ loop.phase = "taken" /\ ida.lib = "mismatch" /\ Req.shape.effect # "Shutdown"
  /\ Reply("error")
  /\ Return
  /\ UNCHANGED <<queue, ida>>

(* Close, and CloseIfGeneration when the generation is still current.      *)
Close ==
  /\ loop.phase = "taken" /\ ida.lib = "ready"
  /\ \/ Req.shape.effect = "Close"
     \/ Req.shape.effect = "CloseIfGeneration" /\ ida.generation = Req.expects
  /\ \/ /\ ida' = Dropped(SessionClosed(ida), TRUE)
        /\ call' = [call EXCEPT ![Current] = Consumed(ToldBy([Req EXCEPT !.ran = ida.generation], "ok"))]
     \/ /\ TeardownMayFail(ida)
        /\ Reply("error")
        /\ UNCHANGED ida
  /\ Return
  /\ UNCHANGED queue

CloseSkipped ==
  /\ loop.phase = "taken" /\ ida.lib = "ready"
  /\ Req.shape.effect = "CloseIfGeneration" /\ ida.generation # Req.expects
  /\ Reply("notCurrent")
  /\ Return
  /\ UNCHANGED <<queue, ida>>

\* Mutant of Stale: any open database will do.
StaleIfClosed == Req.shape.arm.bound /\ Req.expects # 0 /\ ida.generation = 0

(* require_generation.                                                     *)
Stale == Req.shape.arm.bound /\ Req.expects # 0 /\ Req.expects # ida.generation

(* The checks an arm makes before it calls its handler, in order: claim    *)
(* the admission, look at the token, compare the generation.               *)
Dispatch ==
  /\ loop.phase = "taken" /\ ida.lib = "ready"
  /\ Req.shape.effect \notin {"Shutdown", "Close", "CloseIfGeneration"}
  /\ IF Req.shape.arm.admits /\ Req.admission # "queued"
     THEN Reply("expired") /\ Return
     ELSE LET r == IF Req.shape.arm.admits THEN [Req EXCEPT !.admission = "started"] ELSE Req
              a == IF r.shape.arm.token /\ r.cancelled THEN "cancelled"
                   ELSE IF Stale THEN "replaced" ELSE "go"
          IN  /\ call' = [call EXCEPT ![Current] = IF a = "go" THEN r ELSE Consumed(ToldBy(r, a))]
              /\ IF a = "go" THEN loop' = [loop EXCEPT !.phase = "running"] ELSE Return
  /\ UNCHANGED <<queue, ida>>

(* handle_open.  It never replaces an open database: the same path answers *)
(* with the same generation, another path is refused.                      *)
OpenAgain ==
  /\ loop.phase = "running" /\ Req.shape.effect = "Open" /\ ida.database # "none"
  /\ \E a \in {"ok", "error"} : Reply(a)
  /\ Return
  /\ UNCHANGED <<queue, ida>>

(* A fresh open, successful or not.  The generation counter may be         *)
(* exhausted after IDA opened the file.                                    *)
OpenFresh ==
  /\ loop.phase = "running" /\ Req.shape.effect = "Open" /\ ida.database = "none"
  /\ \/ /\ ida.last < MaxGeneration
        /\ ida' = [ida EXCEPT !.database = "sound", !.last = @ + 1,
                              !.generation = ida.last + 1, !.lock = TRUE]
        /\ Reply("ok")
     \/ /\ Reply(IF Req.cancelled THEN "cancelled" ELSE "error")
        /\ UNCHANGED ida
  /\ Return
  /\ UNCHANGED queue

OpenExhausted ==
  /\ loop.phase = "running" /\ Req.shape.effect = "Open" /\ ida.database = "none"
  /\ ida.last = MaxGeneration
  /\ ida' = Dropped([ida EXCEPT !.database = "sound"], TRUE)
  /\ Reply("error")
  /\ Return
  /\ UNCHANGED queue

(* A script may save the database, and start or stop a process under the   *)
(* debugger without the loop's record of it.                               *)
Scripted(s, k, d) ==
  [s EXCEPT !.disk = k, !.debuggee = d, !.stray = s.stray \/ (d /\ ~s.session)]

ScriptLeaves(s) ==
  UNION {{Scripted(s, k, d) : d \in BOOLEAN} : k \in {s.disk, s.database}}

(* What a handler may leave behind when it does not crash: it may fail     *)
(* before or after it changed something.                                   *)
HandlerLeaves(s, e) ==
  CASE e = "save"    -> {s, [s EXCEPT !.disk = s.database]}
    [] e = "analyze" -> {s, [s EXCEPT !.disk = s.database]}
    [] e = "script"  -> ScriptLeaves(s)
    [] e = "debugStart" ->
         IF s.session THEN {s}
         ELSE {s, [s EXCEPT !.session = TRUE, !.debuggee = TRUE]}
    [] e = "debugStop" ->
         IF s.session THEN {s, [s EXCEPT !.session = FALSE, !.debuggee = FALSE]} ELSE {s}
    [] OTHER -> {s}

Touched(r) == IF Mutates(r.shape) THEN [r EXCEPT !.ran = ida.generation] ELSE r

(* Every other arm calls its handler, which needs an open database.  A     *)
(* token cancelled meanwhile turns the answer into a cancellation.         *)
Handle ==
  /\ loop.phase = "running" /\ Req.shape.effect # "Open"
  /\ \/ ida.database = "none" /\ Reply("error") /\ UNCHANGED ida
     \/ /\ ida.database # "none"
        /\ ida' \in HandlerLeaves(ida, Req.shape.effect)
        /\ \E r \in {Req, Touched(Req)} :
             \E a \in IF Req.shape.arm.token /\ Req.cancelled THEN {"cancelled"}
                      ELSE {"ok", "error"} :
               /\ a = "ok" => r = Touched(Req)
               /\ call' = [call EXCEPT ![Current] = Consumed(ToldBy(r, a))]
  /\ Return
  /\ UNCHANGED queue

(* The SDK crashes.  Under the guard the loop survives with a database it  *)
(* can no longer trust; without it the process dies with every caller.     *)
Crash ==
  /\ loop.phase = "running" /\ ida.database # "none" /\ Req.shape.arm.guarded
  /\ \E d \in {ida.debuggee, ida.debuggee \/ Req.shape.effect \in {"debugStart", "script"}} :
       ida' = [ida EXCEPT !.database = "corrupt", !.crashed = TRUE, !.stray = TRUE,
                          !.debuggee = d]
  /\ call' = [call EXCEPT ![Current] = Consumed(ToldBy(Touched(Req), "crash"))]
  /\ Return
  /\ UNCHANGED queue

(* What calls the SDK outside the guard: Open and the bare arms, the arms  *)
(* that close a database, and the teardown of a session after a crash.     *)
Unguarded ==
  \/ loop.phase = "running" /\ ~Req.shape.arm.guarded
  \/ /\ loop.phase = "taken" /\ ida.database # "none"
     /\ \/ Req.shape.effect \in {"Close", "Shutdown"}
        \/ Req.shape.effect = "CloseIfGeneration" /\ ida.generation = Req.expects
  \/ loop.phase = "idle" /\ queue # <<>> /\ ida.crashed /\ ida.session

Die ==
  /\ Unguarded
  /\ loop' = [phase |-> "killed", call |-> NoCall]
  /\ queue' = <<>>
  /\ call' = [c \in Calls |-> [Consumed(call[c]) EXCEPT !.state = "done"]]
  /\ UNCHANGED ida

(* The debugged process exits by itself.                                   *)
DebuggeeExits ==
  /\ ida.debuggee
  /\ ida' = [ida EXCEPT !.debuggee = FALSE]
  /\ UNCHANGED <<call, queue, loop>>

LoopStep ==
  \/ Receive \/ InitialiseFails \/ Initialise \/ Shutdown \/ RejectVersion
  \/ Close \/ CloseSkipped \/ Dispatch
  \/ OpenAgain \/ OpenFresh \/ OpenExhausted \/ Handle \/ Crash \/ Die

CallerStep(c) ==
  \/ Submit(c) \/ Resend(c) \/ GiveUp(c) \/ ReadDeadline(c) \/ SideEffectDeadline(c)
  \/ Abandon(c) \/ CancelToken(c)

Next ==
  \/ LoopStep
  \/ \E c \in Calls : CallerStep(c)
  \/ DebuggeeExits

Spec == Init /\ [][Next]_vars

(* The main thread runs whenever it can (a native call that never returns  *)
(* is ended from outside), and a retrying sender wakes after every backoff *)
(* until it succeeds or its time is up.                                    *)
FairSpec ==
  Spec /\ WF_vars(LoopStep) /\ \A c \in Calls : WF_vars(Resend(c) \/ GiveUp(c))
-----------------------------------------------------------------------------
(* Types.                                                                  *)
States == {"sending", "waiting", "late", "done"}

CallType ==
  [state : States, shape : Shapes, expects : 0 .. MaxGeneration,
   admission : {"queued", "started", "cancelled"}, cancelled : BOOLEAN,
   ran : 0 .. MaxGeneration, answer : {"none", "sent", "refused", "served"}]

IdaType ==
  [lib : {"deferred", "ready", "mismatch"}, database : {"none", "sound", "corrupt"},
   generation : 0 .. MaxGeneration, last : 0 .. MaxGeneration, lock : BOOLEAN,
   disk : {"sound", "corrupt"}, crashed : BOOLEAN, stray : BOOLEAN,
   session : BOOLEAN, debuggee : BOOLEAN]

(* Every variable has its type, and the channel stays within its capacity. *)
TypeOK ==
  /\ call \in [Calls -> CallType]
  /\ queue \in Seq(Calls) /\ Len(queue) <= Capacity
  /\ loop \in [phase : {"idle", "taken", "running", "exited", "killed"},
               call : Calls \cup {NoCall}]
  /\ ida \in IdaType

(* A caller that was told its request expired, found the queue full, was   *)
(* bound to a replaced database or met a closed worker, and one that       *)
(* withdrew a side effect by leaving, can rely on it: the request changed  *)
(* nothing and never will (recv_side_effect, SideEffectWaitGuard and       *)
(* admit_or_reject).                                                       *)
RefusedNeverRuns ==
  \A c \in Calls :
    call[c].admission = "cancelled" \/ call[c].answer = "refused" => call[c].ran = 0

(* A request bound to one database lifetime never acts on another: neither *)
(* the image load of a background task nor its conditional close           *)
(* (require_generation, CloseIfGeneration).                                *)
GenerationBound ==
  \A c \in Calls : call[c].ran # 0 /\ call[c].expects # 0 => call[c].ran = call[c].expects

(* A database the SDK crashed in is never written to disk, whatever comes  *)
(* next in the queue: a save, a close, a shutdown or another crash         *)
(* (discard_database_after_crash).                                         *)
NeverSavesCorrupt == ida.disk = "sound"

(* The lock file is held, and a generation is current, exactly while a     *)
(* database is open (Open, Close, CloseIfGeneration, shutdown_cleanup and  *)
(* the discard after a crash all end that way).                            *)
LockFollowsDatabase ==
  /\ ida.lock <=> ida.database # "none"
  /\ ida.generation # 0 <=> ida.database # "none"

(* As long as no crash and no script interfered, a process under the       *)
(* debugger is always on record with an open database behind it: no start, *)
(* failed start, stop or refused close leaves one running unowned          *)
(* (DebuggerRuntime).                                                      *)
DebuggeeOwned ==
  ida.debuggee /\ ~ida.stray /\ Running => ida.session /\ ida.database # "none"

(* Every caller that waits for an answer, or for room with a time limit,   *)
(* is eventually told something: by the loop, by the channel closing or by *)
(* its limit, unless it leaves.  (close_for_shutdown and shutdown wait for *)
(* room without a limit, and competing callers can keep the queue full.)   *)
(* Callers are interchangeable: one of them stands for all.                *)
Settles ==
  LET c == CHOOSE d \in Calls : TRUE IN
    (Waiting(c) \/ (call[c].state = "sending" /\ call[c].shape.send = "retry"))
      ~> call[c].state = "done"


(* "always honour shutdown" (reject_with_error): once the loop has taken a *)
(* Shutdown request and finished with it, the loop has ended.              *)
ShutdownHonoured ==
  \A c \in Calls :
    /\ call[c].answer = "sent"
    /\ \A i \in DOMAIN queue : queue[i] # c
    /\ loop.call # c
    => ~Running
=============================================================================
