---------------------------- MODULE WorkspaceProofs ----------------------------
(***************************************************************************)
(* Proofs about Workspace, for any number of tool calls, background drivers *)
(* and generations, and for every kind of binding.                          *)
(***************************************************************************)
EXTENDS Workspace, TLAPS

\* What is true of an actor wherever it is.  The handle mutex protects an open
\* from its first step to the new lease, and a lease it retires is not served
\* any more; a generation is worked with only after its lease was taken; a call
\* that cleared the way for ClearHandle lost its worker; a bound call has the
\* lease of its generation, and a call in a worker keeps it from being given back.
ActorInv(a) ==
    /\ actor[a].pc \in {"settle", "retiring", "leasing"} => mutex = a
    /\ At(a, "settle") /\ handle.gen # NoGen => worker[handle.gen] # "leased"
    /\ At(a, "retiring") => /\ handle.gen = NoGen
                            /\ actor[a].gen # NoGen => worker[actor[a].gen] # "leased"
    /\ At(a, "leasing") => /\ handle.gen = NoGen
                           /\ actor[a].gen \in Gens /\ actor[a].gen <= nextGen
                           /\ worker[actor[a].gen] = "none"
    /\ actor[a].pc \in {"queue", "exec", "unheard", "clear"} =>
         actor[a].gen \in Gens /\ worker[actor[a].gen] # "none"
    /\ At(a, "clear") => worker[actor[a].gen] \notin {"leased", "lost"}
    /\ actor[a].pc \notin {"away", "discard"} => actor[a].guard # "none" /\ entry # "dropped"
    /\ actor[a].guard # "none" => entry # "dropped"
    /\ actor[a].pc \in {"ready", "settle", "retiring", "leasing"} => actor[a].expect = NoGen
    /\ actor[a].pc \in {"queue", "exec", "unheard"} => actor[a].expect \in {NoGen, actor[a].gen}
    /\ actor[a].pc \in {"exec", "unheard"} => worker[actor[a].gen] # "free"

\* Generations are given out in order, and an installed one was leased.
LeaseInv ==
    /\ \A g \in Gens : g > nextGen => worker[g] = "none"
    /\ handle.gen # NoGen => worker[handle.gen] # "none"

Inv == TypeOK /\ (\A a \in Actors : ActorInv(a)) /\ LeaseInv /\ NoOrphanLease

Pcs == {"away", "ready", "settle", "retiring", "leasing", "queue", "exec", "unheard", "pin", "unpin",
        "clear", "closegen", "releasing", "remove", "nodb", "leaving", "discard"}

WorkerStates == {"none", "leased", "lost", "free", "dead"}

\* What steps other than a new lease do to the state that an actor relies on.
Quiet(b) ==
    /\ actor'[b] = actor[b]
    /\ mutex' = mutex \/ mutex # b
    /\ handle'.gen \in {handle.gen, NoGen}
    /\ nextGen' \in Int /\ nextGen <= nextGen'
    /\ entry' = "dropped" => entry = "dropped" \/ actor[b].guard = "none"
    /\ \A g \in Gens : /\ worker'[g] = "none" <=> worker[g] = "none"
                       /\ worker'[g] \in {"leased", "lost"} => worker[g] \in {"leased", "lost"}
                       /\ worker'[g] = "leased" => worker[g] = "leased"
                       /\ worker'[g] = "free" => worker[g] = "free" \/ CallLockFree(g)

\* Such a step leaves the actor's invariant as it is.
LEMMA QuietKeeps ==
    ASSUME TypeOK, NEW b \in Actors, ActorInv(b), Quiet(b)
    PROVE  ActorInv(b)'
<1>1. /\ actor[b] \in ActorRec /\ actor[b].gen \in Gens \cup {NoGen}
      /\ handle.gen \in Gens \cup {NoGen} /\ nextGen \in Int /\ Gens \subseteq Int
  BY DEF TypeOK, ActorRec, HandleRec, Gens
<1>2. /\ At(b, "settle") /\ handle.gen # NoGen => worker[handle.gen] # "leased"
      /\ At(b, "retiring") => /\ handle.gen = NoGen
                              /\ actor[b].gen # NoGen => worker[actor[b].gen] # "leased"
  BY DEF ActorInv
<1>3. (At(b, "settle") /\ handle.gen # NoGen => worker[handle.gen] # "leased")'
  BY <1>1, <1>2 DEF Quiet, At
<1>4. (At(b, "retiring") => /\ handle.gen = NoGen
                            /\ actor[b].gen # NoGen => worker[actor[b].gen] # "leased")'
  BY <1>1, <1>2 DEF Quiet, At
<1>5. (At(b, "leasing") => /\ handle.gen = NoGen
                           /\ actor[b].gen \in Gens /\ actor[b].gen <= nextGen
                           /\ worker[actor[b].gen] = "none")'
  <2>1. SUFFICES ASSUME actor[b].pc = "leasing"
                 PROVE  /\ handle'.gen = NoGen /\ actor[b].gen \in Gens
                        /\ actor[b].gen <= nextGen' /\ worker'[actor[b].gen] = "none"
    BY DEF Quiet, At
  <2>2. /\ handle.gen = NoGen /\ actor[b].gen \in Gens /\ actor[b].gen <= nextGen
        /\ worker[actor[b].gen] = "none"
    BY <2>1 DEF ActorInv, At
  <2>3. /\ actor[b].gen \in Int /\ nextGen' \in Int /\ nextGen <= nextGen'
        /\ worker'[actor[b].gen] = "none" /\ handle'.gen = NoGen
    BY <1>1, <2>2 DEF Quiet
  <2> QED BY <1>1, <2>2, <2>3
<1>6. (actor[b].pc \in {"exec", "unheard"} => worker[actor[b].gen] # "free")'
  <2>1. SUFFICES ASSUME actor[b].pc \in {"exec", "unheard"}
                 PROVE  worker'[actor[b].gen] # "free"
    BY DEF Quiet
  <2>2. actor[b].gen \in Gens /\ worker[actor[b].gen] # "free"
    BY <2>1 DEF ActorInv
  <2>3. ~CallLockFree(actor[b].gen)
    BY <2>1 DEF CallLockFree
  <2> QED BY <2>2, <2>3 DEF Quiet
<1>7. (/\ actor[b].pc \in {"queue", "exec", "unheard", "clear"} =>
             actor[b].gen \in Gens /\ worker[actor[b].gen] # "none"
       /\ At(b, "clear") => worker[actor[b].gen] \notin {"leased", "lost"})'
  BY <1>1 DEF ActorInv, Quiet, At
<1> QED BY <1>3, <1>4, <1>5, <1>6, <1>7 DEF ActorInv, Quiet, At

\* The actor is at pc afterwards, with its guard, and with its lease unless it is
\* between two operations; the others have not moved.
Moved(a, pc) ==
    /\ actor' \in [Actors -> ActorRec]
    /\ \A b \in Actors : b # a => actor'[b] = actor[b]
    /\ actor'[a].pc = pc /\ actor'[a].guard = actor[a].guard
    /\ pc \in {"ready", "leaving"} => actor'[a].gen = NoGen /\ actor'[a].expect = NoGen
    /\ pc \notin {"ready", "leaving"} =>
         actor'[a].gen = actor[a].gen /\ actor'[a].expect = actor[a].expect

\* Goto moves one actor.
LEMMA GotoMoves ==
    ASSUME actor \in [Actors -> ActorRec], NEW a \in Actors, NEW pc \in Pcs, Goto(a, pc)
    PROVE  Moved(a, pc)
<1>0. actor[a] \in ActorRec
  OBVIOUS
<1>1. CASE pc = "ready"
  BY <1>0, <1>1 DEF Goto, Moved, ActorRec, Pcs
<1>2. CASE pc = "leaving"
  BY <1>0, <1>2 DEF Goto, Moved, ActorRec, Pcs, Away
<1>3. CASE pc \notin {"ready", "leaving"}
  BY <1>0, <1>3 DEF Goto, Moved, ActorRec, Pcs
<1> QED BY <1>1, <1>2, <1>3

\* Retiring a worker ends its lease and touches no other worker.
LEMMA RetiredEffect ==
    ASSUME TypeOK, NEW g \in Gens \cup {NoGen}
    PROVE  /\ Retired(g) \in [Gens -> WorkerStates]
           /\ Closed(g) \in [Gens -> {"empty", "open", "debug"}]
           /\ \A h \in Gens : h # g => Retired(g)[h] = worker[h]
           /\ g \in Gens => /\ Retired(g)[g] \notin {"leased", "lost"}
                            /\ Retired(g)[g] = "none" <=> worker[g] = "none"
                            /\ Retired(g)[g] = "free" <=> worker[g] = "free"
BY DEF TypeOK, Retired, Closed, WorkerStates

\* A release ends the lease too, and only of a worker without a call.
LEMMA ReleasedEffect ==
    ASSUME TypeOK, NEW g \in Gens \cup {NoGen}, Released(g)
    PROVE  /\ worker' \in [Gens -> WorkerStates]
           /\ child' \in [Gens -> {"empty", "open", "debug"}]
           /\ \A h \in Gens : h # g => worker'[h] = worker[h]
           /\ g \in Gens => /\ worker'[g] \notin {"leased", "lost"}
                            /\ worker'[g] = "none" <=> worker[g] = "none"
           /\ CallLockFree(g)
BY DEF TypeOK, Released, Retired, Closed, WorkerStates

-----------------------------------------------------------------------------
\* The initial state has no guard, no lease and no call.
LEMMA InvInit == Init => Inv
<1> SUFFICES ASSUME Init PROVE Inv
  OBVIOUS
<1>1. /\ \A a \in Actors : actor[a] = Away
      /\ \A g \in Gens : worker[g] = "none"
      /\ handle = NoHandle
  BY DEF Init
<1>2. TypeOK
  <2>1. Away \in ActorRec /\ NoHandle \in HandleRec /\ Asleep \in ReaperRec
    BY DEF Away, ActorRec, NoHandle, HandleRec, Asleep, ReaperRec
  <2>2. expired \in BOOLEAN /\ unused \in BOOLEAN
    BY Zenon DEF Init
  <2>3. nextGen \in 0 .. MaxGen
    BY WorkspaceAssumption DEF Init
  <2>4. entry \in {"none", "listed", "removed", "dropped"}
    BY DEF Init
  <2> QED BY <2>1, <2>2, <2>3, <2>4 DEF Init, TypeOK
<1>3. (\A a \in Actors : ActorInv(a)) /\ LeaseInv /\ NoOrphanLease
  BY <1>1 DEF Init, ActorInv, LeaseInv, NoOrphanLease, Owned, NoHandle, Away, At, NoGen
<1> QED BY <1>2, <1>3 DEF Inv

-----------------------------------------------------------------------------
(* One lemma per action: it keeps Inv. *)

\* A new entry is guarded by the call that allocated it.
LEMMA AllocateDatabaseKeeps ==
    ASSUME Inv, NEW a \in Actors, AllocateDatabase(a)
    PROVE  Inv'
<1>t. TypeOK /\ ActorInv(a) /\ LeaseInv /\ NoOrphanLease
  BY DEF Inv
<1>1. TypeOK'
  BY <1>t DEF TypeOK, AllocateDatabase, Touch, Away, ActorRec, NoGen, entryVars, leaseVars,
     workerVars
<1>2. \A b \in Actors : b # a => Quiet(b)
  BY <1>t DEF TypeOK, ActorInv, Quiet, At, AllocateDatabase, Touch, Away, ActorRec, NoGen,
     entryVars, leaseVars, workerVars
<1>3. ActorInv(a)'
  BY <1>t DEF TypeOK, ActorInv, At, AllocateDatabase, Touch, Away, ActorRec, NoGen, entryVars,
     leaseVars, workerVars
<1>4. LeaseInv'
  BY <1>t DEF TypeOK, LeaseInv, AllocateDatabase, Touch, Away, ActorRec, NoGen, entryVars,
     leaseVars, workerVars
<1>5. NoOrphanLease'
  BY <1>t DEF TypeOK, NoOrphanLease, Owned, ActorInv, At, AllocateDatabase, Touch, Away, ActorRec,
     NoGen, entryVars, leaseVars, workerVars
<1> QED BY <1>t, <1>1, <1>2, <1>3, <1>4, <1>5, QuietKeeps DEF Inv

\* A guard is taken only on a listed entry.
LEMMA AcquireKeeps ==
    ASSUME Inv, NEW a \in Actors, Acquire(a)
    PROVE  Inv'
<1>t. TypeOK /\ ActorInv(a) /\ LeaseInv /\ NoOrphanLease
  BY DEF Inv
<1>1. TypeOK'
  BY <1>t DEF TypeOK, Acquire, Touch, Away, ActorRec, NoGen, entryVars, leaseVars, workerVars
<1>2. \A b \in Actors : b # a => Quiet(b)
  BY <1>t DEF TypeOK, ActorInv, Quiet, At, Acquire, Touch, Away, ActorRec, NoGen, entryVars,
     leaseVars, workerVars
<1>3. ActorInv(a)'
  BY <1>t DEF TypeOK, ActorInv, At, Acquire, Touch, Away, ActorRec, NoGen, entryVars, leaseVars,
     workerVars
<1>4. LeaseInv'
  BY <1>t DEF TypeOK, LeaseInv, Acquire, Touch, Away, ActorRec, NoGen, entryVars, leaseVars,
     workerVars
<1>5. NoOrphanLease'
  BY <1>t DEF TypeOK, NoOrphanLease, Owned, ActorInv, At, Acquire, Touch, Away, ActorRec, NoGen,
     entryVars, leaseVars, workerVars
<1> QED BY <1>t, <1>1, <1>2, <1>3, <1>4, <1>5, QuietKeeps DEF Inv

\* A driver is started by a call that still has its guard.
LEMMA StartBackgroundKeeps ==
    ASSUME Inv, NEW a \in Sessions, NEW t \in Tasks, StartBackground(a, t)
    PROVE  Inv'
<1>t. TypeOK /\ LeaseInv /\ NoOrphanLease
  BY DEF Inv
<1>m. /\ a \in Actors /\ t \in Actors /\ a # t
      /\ actor'[a] = [actor[a] EXCEPT !.op = "call", !.creator = FALSE]
      /\ actor'[t] = [Away EXCEPT !.guard = IF Listed /\ entry = "listed" THEN "pin" ELSE "arc",
                                  !.pc = "ready"]
      /\ \A b \in Actors : b # a /\ b # t => actor'[b] = actor[b]
      /\ actor' \in [Actors -> ActorRec]
  <2>1. a \in Actors /\ t \in Actors /\ a # t
    BY WorkspaceAssumption DEF Actors
  <2>2. actor \in [Actors -> ActorRec] /\ actor[a] \in ActorRec
    BY <2>1, <1>t DEF TypeOK
  <2>3. [Away EXCEPT !.guard = IF Listed /\ entry = "listed" THEN "pin" ELSE "arc",
                     !.pc = "ready"] \in ActorRec
    BY DEF Away, ActorRec
  <2>4. [actor[a] EXCEPT !.op = "call", !.creator = FALSE] \in ActorRec
    BY <2>2 DEF ActorRec
  <2> QED BY <2>1, <2>2, <2>3, <2>4 DEF StartBackground
<1>n. ActorInv(a) /\ ActorInv(t)
  BY <1>m DEF Inv
<1>p. /\ actor'[a].pc = actor[a].pc /\ actor'[a].guard = actor[a].guard
      /\ actor'[a].expect = actor[a].expect /\ actor[a].pc = "ready"
      /\ actor'[t].pc = "ready" /\ actor'[t].guard # "none" /\ actor'[t].expect = NoGen
  <2>1. actor[a] \in ActorRec
    BY <1>t, <1>m DEF TypeOK
  <2> QED BY <2>1, <1>m DEF StartBackground, At, Away, ActorRec
<1>1. TypeOK'
  BY <1>t, <1>m, <1>n, <1>p DEF TypeOK, StartBackground, Touch, entryVars, leaseVars, workerVars
<1>2. \A b \in Actors : b # a /\ b # t => Quiet(b)
  BY <1>t, <1>m, <1>n, <1>p DEF TypeOK, ActorInv, Quiet, At, StartBackground, Touch, entryVars,
     leaseVars, workerVars
<1>3. ActorInv(a)' /\ ActorInv(t)'
  BY <1>n, <1>p DEF ActorInv, At, StartBackground, leaseVars, workerVars
<1>4. LeaseInv'
  BY <1>t, <1>m, <1>n, <1>p DEF TypeOK, LeaseInv, StartBackground, Touch, entryVars, leaseVars,
     workerVars
<1>5. NoOrphanLease'
  BY <1>t, <1>m, <1>n, <1>p DEF TypeOK, NoOrphanLease, Owned, ActorInv, At, StartBackground, Touch,
     entryVars, leaseVars, workerVars
<1> QED BY <1>t, <1>1, <1>2, <1>3, <1>4, <1>5, QuietKeeps, WorkspaceAssumption DEF Inv, Actors

\* The call ends with its guard still counted.
LEMMA EndCallKeeps ==
    ASSUME Inv, NEW a \in Actors, EndCall(a)
    PROVE  Inv'
<1>t. TypeOK /\ ActorInv(a) /\ LeaseInv /\ NoOrphanLease
  BY DEF Inv
<1>m. Moved(a, "leaving")
  BY <1>t, GotoMoves DEF TypeOK, Pcs, EndCall
<1>1. TypeOK'
  BY <1>t, <1>m DEF TypeOK, EndCall, TouchBeforeLeave, Touch, Moved, entryVars, leaseVars,
     workerVars
<1>2. \A b \in Actors : b # a => Quiet(b)
  BY <1>t, <1>m DEF TypeOK, ActorInv, Quiet, At, EndCall, TouchBeforeLeave, Touch, Moved,
     entryVars, leaseVars, workerVars
<1>3. ActorInv(a)'
  BY <1>t, <1>m DEF TypeOK, ActorInv, At, EndCall, TouchBeforeLeave, Touch, Moved, entryVars,
     leaseVars, workerVars
<1>4. LeaseInv'
  BY <1>t, <1>m DEF TypeOK, LeaseInv, EndCall, TouchBeforeLeave, Touch, Moved, entryVars,
     leaseVars, workerVars
<1>5. NoOrphanLease'
  BY <1>t, <1>m DEF TypeOK, NoOrphanLease, Owned, ActorInv, At, EndCall, TouchBeforeLeave, Touch, Moved,
     entryVars, leaseVars, workerVars
<1> QED BY <1>t, <1>1, <1>2, <1>3, <1>4, <1>5, QuietKeeps DEF Inv

\* The guard goes.
LEMMA LeaveKeeps ==
    ASSUME Inv, NEW a \in Actors, Leave(a)
    PROVE  Inv'
<1>t. TypeOK /\ ActorInv(a) /\ LeaseInv /\ NoOrphanLease
  BY DEF Inv
<1>m. PICK r \in {Away, [Away EXCEPT !.pc = "discard"]} : actor' = [actor EXCEPT ![a] = r]
  BY DEF Leave
<1>r. r \in ActorRec /\ r.pc \in {"away", "discard"} /\ r.guard = "none"
  <2>1. CASE r = Away
    BY <2>1 DEF Away, ActorRec
  <2>2. CASE r = [Away EXCEPT !.pc = "discard"]
    BY <2>2 DEF Away, ActorRec
  <2> QED BY <1>m, <2>1, <2>2
<1>1. TypeOK'
  BY <1>t, <1>m, <1>r DEF TypeOK, Leave, entryVars, leaseVars, workerVars
<1>2. \A b \in Actors : b # a => Quiet(b)
  BY <1>t, <1>m, <1>r DEF TypeOK, ActorInv, Quiet, At, Leave, entryVars, leaseVars, workerVars
<1>3. ActorInv(a)'
  BY <1>t, <1>m, <1>r DEF TypeOK, ActorInv, At, Leave, entryVars, leaseVars, workerVars
<1>4. LeaseInv'
  BY <1>t, <1>m, <1>r DEF TypeOK, LeaseInv, Leave, entryVars, leaseVars, workerVars
<1>5. NoOrphanLease'
  BY <1>t, <1>m, <1>r DEF TypeOK, NoOrphanLease, Owned, ActorInv, At, Leave, entryVars, leaseVars,
     workerVars
<1> QED BY <1>t, <1>1, <1>2, <1>3, <1>4, <1>5, QuietKeeps DEF Inv

\* The router removes the entry of a failed allocation.
LEMMA DiscardKeeps ==
    ASSUME Inv, NEW a \in Actors, Discard(a)
    PROVE  Inv'
<1>t. TypeOK /\ ActorInv(a) /\ LeaseInv /\ NoOrphanLease
  BY DEF Inv
<1>1. TypeOK'
  BY <1>t DEF TypeOK, Discard, Remove, Touch, Away, ActorRec, NoGen, entryVars, leaseVars,
     workerVars
<1>2. \A b \in Actors : b # a => Quiet(b)
  BY <1>t DEF TypeOK, ActorInv, Quiet, At, Discard, Remove, Touch, Away, ActorRec, NoGen,
     entryVars, leaseVars, workerVars
<1>3. ActorInv(a)'
  BY <1>t DEF TypeOK, ActorInv, At, Discard, Remove, Touch, Away, ActorRec, NoGen, entryVars,
     leaseVars, workerVars
<1>4. LeaseInv'
  BY <1>t DEF TypeOK, LeaseInv, Discard, Remove, Touch, Away, ActorRec, NoGen, entryVars,
     leaseVars, workerVars
<1>5. NoOrphanLease'
  BY <1>t DEF TypeOK, NoOrphanLease, Owned, ActorInv, At, Discard, Remove, Touch, Away, ActorRec, NoGen,
     entryVars, leaseVars, workerVars
<1> QED BY <1>t, <1>1, <1>2, <1>3, <1>4, <1>5, QuietKeeps DEF Inv

\* An open takes the installed lease, or the mutex and then a fresh generation.
LEMMA LeaseForOpenKeeps ==
    ASSUME Inv, NEW a \in Actors, LeaseForOpen(a)
    PROVE  Inv'
<1>t. TypeOK /\ ActorInv(a) /\ LeaseInv /\ NoOrphanLease
  BY DEF Inv
<1>m. /\ actor' \in [Actors -> ActorRec]
      /\ \A b \in Actors : b # a => actor'[b] = actor[b]
      /\ actor'[a].guard = actor[a].guard /\ actor'[a].expect = actor[a].expect
      /\ mutex = NoActor
      /\ \/ /\ actor'[a].pc = "queue" /\ actor'[a].gen = handle.gen /\ Serving(handle.gen)
            /\ UNCHANGED <<mutex, nextGen>>
         \/ /\ actor'[a].pc = "settle" /\ mutex' = a /\ UNCHANGED nextGen
            /\ worker[handle.gen] # "leased"
         \/ /\ actor'[a].pc = "leasing" /\ mutex' = a /\ handle.gen = NoGen
            /\ nextGen < MaxGen /\ nextGen' = nextGen + 1 /\ actor'[a].gen = nextGen'
         \/ /\ actor'[a].pc = "ready" /\ mutex' = NoActor /\ UNCHANGED nextGen
            /\ actor'[a].gen = NoGen
  <2>1. /\ actor \in [Actors -> ActorRec] /\ actor[a] \in ActorRec /\ handle.gen \in Gens \cup {NoGen}
        /\ nextGen < MaxGen => nextGen + 1 \in Gens
    BY <1>t, WorkspaceAssumption DEF TypeOK, HandleRec, Gens
  <2>2. CASE Serving(handle.gen)
    BY <2>1, <2>2 DEF LeaseForOpen, Serving, ActorRec, MutexFree
  <2>3. CASE handle.gen # NoGen /\ ~Serving(handle.gen)
    BY <2>1, <2>3 DEF LeaseForOpen, Serving, ActorRec, MutexFree
  <2>4. CASE handle.gen = NoGen
    BY <2>1, <2>4 DEF LeaseForOpen, Serving, NextGeneration, ActorRec, MutexFree
  <2> QED BY <2>2, <2>3, <2>4
<1>n. nextGen \in Int /\ MaxGen \in Int /\ NoActor # a /\ handle.gen \in Gens \cup {NoGen}
  BY <1>t, WorkspaceAssumption DEF TypeOK, HandleRec
<1>1. TypeOK'
  BY <1>t, <1>m, <1>n DEF TypeOK, LeaseForOpen, entryVars, leaseVars, workerVars
<1>2. \A b \in Actors : b # a => Quiet(b)
  BY <1>t, <1>m, <1>n, WorkspaceAssumption DEF TypeOK, ActorInv, Quiet, At, LeaseForOpen,
     entryVars, leaseVars, workerVars
<1>3. ActorInv(a)'
  BY <1>t, <1>m, <1>n DEF TypeOK, ActorInv, LeaseInv, LeaseForOpen, Serving, At, Gens, NoGen,
     entryVars, workerVars
<1>4. LeaseInv'
  BY <1>t, <1>m, <1>n DEF TypeOK, LeaseInv, LeaseForOpen, entryVars, leaseVars, workerVars, Gens
<1>5. NoOrphanLease'
  BY <1>t, <1>m, <1>n DEF TypeOK, NoOrphanLease, Owned, ActorInv, At, LeaseForOpen, entryVars,
     leaseVars, workerVars
<1> QED BY <1>t, <1>1, <1>2, <1>3, <1>4, <1>5, QuietKeeps DEF Inv

\* The stale lease moves from the handle to the open that will retire it.
LEMMA StaleSettlesKeeps ==
    ASSUME Inv, NEW a \in Actors, StaleSettles(a)
    PROVE  Inv'
<1>t. TypeOK /\ ActorInv(a) /\ LeaseInv /\ NoOrphanLease
  BY DEF Inv
<1>m. /\ actor' \in [Actors -> ActorRec]
      /\ \A b \in Actors : b # a => actor'[b] = actor[b]
      /\ actor'[a].guard = actor[a].guard /\ actor[a].pc = "settle" /\ actor'[a].pc = "retiring"
      /\ actor'[a].gen = handle.gen /\ actor'[a].expect = actor[a].expect
      /\ handle' = NoHandle /\ NoHandle \in HandleRec /\ NoHandle.gen = NoGen
  <2>1. actor \in [Actors -> ActorRec] /\ actor[a] \in ActorRec /\ handle.gen \in Gens \cup {NoGen}
    BY <1>t DEF TypeOK, HandleRec
  <2> QED BY <2>1 DEF StaleSettles, ActorRec, NoHandle, HandleRec, At
<1>1. TypeOK'
  BY <1>t, <1>m DEF TypeOK, StaleSettles, entryVars, workerVars
<1>2. \A b \in Actors : b # a => Quiet(b)
  BY <1>t, <1>m DEF TypeOK, Quiet, StaleSettles, entryVars, workerVars
<1>3. ActorInv(a)'
  BY <1>t, <1>m DEF TypeOK, ActorInv, StaleSettles, At, entryVars, workerVars
<1>4. LeaseInv'
  BY <1>t, <1>m DEF LeaseInv, StaleSettles, workerVars
<1>5. NoOrphanLease'
  BY <1>t, <1>m DEF TypeOK, NoOrphanLease, Owned, StaleSettles, entryVars, workerVars, Gens, NoGen
<1> QED BY <1>t, <1>1, <1>2, <1>3, <1>4, <1>5, QuietKeeps DEF Inv

\* The stale worker is retired, and the mutex kept for the next generation.
LEMMA StaleRetiresKeeps ==
    ASSUME Inv, NEW a \in Actors, StaleRetires(a)
    PROVE  Inv'
<1>t. TypeOK /\ ActorInv(a) /\ LeaseInv /\ NoOrphanLease
  BY DEF Inv
<1>w. /\ actor[a].gen \in Gens \cup {NoGen}
      /\ worker' \in [Gens -> WorkerStates] /\ child' \in [Gens -> {"empty", "open", "debug"}]
      /\ \A h \in Gens : /\ h # actor[a].gen => worker'[h] = worker[h]
                         /\ worker'[h] = "none" <=> worker[h] = "none"
                         /\ worker'[h] = "free" <=> worker[h] = "free"
                         /\ h = actor[a].gen => worker'[h] \notin {"leased", "lost"}
  BY <1>t, RetiredEffect DEF TypeOK, ActorRec, StaleRetires
<1>m. /\ actor' \in [Actors -> ActorRec]
      /\ \A b \in Actors : b # a => actor'[b] = actor[b]
      /\ actor'[a].guard = actor[a].guard /\ actor'[a].expect = actor[a].expect
      /\ \/ /\ actor'[a].pc = "leasing" /\ mutex' = a
            /\ nextGen < MaxGen /\ nextGen' = nextGen + 1 /\ actor'[a].gen = nextGen'
         \/ /\ actor'[a].pc = "ready" /\ mutex' = NoActor /\ nextGen' = nextGen
            /\ actor'[a].gen = NoGen
      /\ nextGen \in Int /\ nextGen' \in 0 .. MaxGen /\ MaxGen \in Int
      /\ mutex = a /\ handle.gen = NoGen
  <2>1. /\ actor \in [Actors -> ActorRec] /\ actor[a] \in ActorRec /\ nextGen \in 0 .. MaxGen
        /\ nextGen < MaxGen => nextGen + 1 \in Gens
    BY <1>t, WorkspaceAssumption DEF TypeOK, Gens
  <2>2. mutex = a /\ handle.gen = NoGen
    BY <1>t DEF ActorInv, StaleRetires, At
  <2> QED BY <2>1, <2>2, WorkspaceAssumption DEF StaleRetires, NextGeneration, ActorRec, Gens
<1>1. TypeOK'
  BY <1>t, <1>w, <1>m DEF TypeOK, StaleRetires, entryVars, WorkerStates
<1>2. \A b \in Actors : b # a => Quiet(b)
  BY <1>t, <1>w, <1>m DEF TypeOK, Quiet, StaleRetires, entryVars
<1>3. ActorInv(a)'
  BY <1>t, <1>w, <1>m DEF TypeOK, ActorInv, LeaseInv, StaleRetires, At, Gens, NoGen, entryVars
<1>4. LeaseInv'
  BY <1>t, <1>w, <1>m DEF TypeOK, LeaseInv, StaleRetires, Gens
<1>5. NoOrphanLease'
  BY <1>t, <1>w, <1>m DEF TypeOK, NoOrphanLease, Owned, ActorInv, At, StaleRetires, entryVars,
     WorkerStates
<1> QED BY <1>t, <1>1, <1>2, <1>3, <1>4, <1>5, QuietKeeps DEF Inv

\* The new lease is installed in an empty handle.
LEMMA LeaseGrantedKeeps ==
    ASSUME Inv, NEW a \in Actors, LeaseGranted(a)
    PROVE  Inv'
<1>t. TypeOK /\ ActorInv(a) /\ LeaseInv /\ NoOrphanLease
  BY DEF Inv
<1>m. /\ actor' \in [Actors -> ActorRec]
      /\ \A b \in Actors : b # a => actor'[b] = actor[b]
      /\ actor'[a].guard = actor[a].guard /\ actor'[a].pc = "queue"
      /\ actor'[a].gen = actor[a].gen /\ actor'[a].expect = actor[a].expect
  <2>1. actor \in [Actors -> ActorRec] /\ actor[a] \in ActorRec
    BY <1>t DEF TypeOK
  <2> QED BY <2>1 DEF LeaseGranted, ActorRec
<1>w. /\ mutex = a /\ actor[a].gen \in Gens /\ actor[a].gen <= nextGen /\ handle.gen = NoGen
      /\ worker[actor[a].gen] = "none" /\ handle'.gen = actor[a].gen /\ handle' \in HandleRec
      /\ \A g \in Gens : worker'[g] = IF g = actor[a].gen THEN "leased" ELSE worker[g]
      /\ UNCHANGED <<entry, nextGen, reaper, detached>> /\ actor[a].pc = "leasing"
  BY <1>t DEF TypeOK, ActorInv, LeaseGranted, At, HandleRec, entryVars
<1>b. \A b \in Actors : ActorInv(b)
  BY DEF Inv
<1>1. TypeOK'
  BY <1>t, <1>m, <1>w, <1>b, WorkspaceAssumption DEF TypeOK, LeaseGranted, entryVars, leaseVars,
     workerVars
<1>2. \A b \in Actors : b # a => ActorInv(b)'
  BY <1>t, <1>m, <1>w, <1>b DEF TypeOK, ActorInv, At, LeaseGranted, entryVars, leaseVars,
     workerVars
<1>3. ActorInv(a)'
  BY <1>t, <1>m, <1>w DEF ActorInv, At
<1>4. LeaseInv'
  BY <1>t, <1>w DEF LeaseInv, TypeOK, Gens
<1>5. NoOrphanLease'
  BY <1>t, <1>m, <1>w DEF TypeOK, NoOrphanLease, Owned, ActorInv, At, Gens, NoGen
<1> QED BY <1>t, <1>1, <1>2, <1>3, <1>4, <1>5 DEF Inv

\* Without a worker the mutex is given back.
LEMMA LeaseFailsKeeps ==
    ASSUME Inv, NEW a \in Actors, LeaseFails(a)
    PROVE  Inv'
<1>t. TypeOK /\ ActorInv(a) /\ LeaseInv /\ NoOrphanLease
  BY DEF Inv
<1>m. Moved(a, "ready")
  BY <1>t, GotoMoves DEF TypeOK, Pcs, LeaseFails
<1>1. TypeOK'
  BY <1>t, <1>m, WorkspaceAssumption DEF TypeOK, LeaseFails, Moved, entryVars, leaseVars,
     workerVars
<1>2. \A b \in Actors : b # a => Quiet(b)
  BY <1>t, <1>m DEF TypeOK, ActorInv, Quiet, At, LeaseFails, Moved, entryVars, leaseVars,
     workerVars
<1>3. ActorInv(a)'
  BY <1>t, <1>m DEF TypeOK, ActorInv, At, LeaseFails, Moved, entryVars, leaseVars, workerVars
<1>4. LeaseInv'
  BY <1>t, <1>m DEF TypeOK, LeaseInv, LeaseFails, Moved, entryVars, leaseVars, workerVars
<1>5. NoOrphanLease'
  BY <1>t, <1>m DEF TypeOK, NoOrphanLease, Owned, ActorInv, At, LeaseFails, Moved, entryVars, leaseVars,
     workerVars
<1> QED BY <1>t, <1>1, <1>2, <1>3, <1>4, <1>5, QuietKeeps DEF Inv

\* A bound call gets the handle of its own generation or none.
LEMMA DispatchKeeps ==
    ASSUME Inv, NEW a \in Actors,
           NEW op \in {"call", "start", "stop"}, NEW e \in Gens \cup {NoGen}, Dispatch(a, op, e)
    PROVE  Inv'
<1>t. TypeOK /\ ActorInv(a) /\ LeaseInv /\ NoOrphanLease
  BY DEF Inv
<1>m. /\ actor' \in [Actors -> ActorRec]
      /\ \A b \in Actors : b # a => actor'[b] = actor[b]
      /\ actor'[a].guard = actor[a].guard
      /\ \/ actor'[a].pc = "ready" /\ actor'[a].expect = actor[a].expect
         \/ /\ actor'[a].pc = "queue" /\ actor'[a].gen = handle.gen /\ handle.gen \in Gens
            /\ actor'[a].expect \in {NoGen, handle.gen}
  <2>1. /\ actor \in [Actors -> ActorRec] /\ actor[a] \in ActorRec /\ handle.gen \in Gens \cup {NoGen}
    BY <1>t DEF TypeOK, HandleRec
  <2>2. CASE RequiredHandle(e)
    BY <2>1, <2>2 DEF Dispatch, RequiredHandle, ActorRec
  <2>3. CASE ~RequiredHandle(e)
    BY <2>1, <2>3 DEF Dispatch, ActorRec, At
  <2> QED BY <2>2, <2>3
<1>1. TypeOK'
  BY <1>t, <1>m DEF TypeOK, Dispatch, entryVars, leaseVars, workerVars
<1>2. \A b \in Actors : b # a => Quiet(b)
  BY <1>t, <1>m DEF TypeOK, ActorInv, Quiet, At, Dispatch, entryVars, leaseVars, workerVars
<1>3. ActorInv(a)'
  BY <1>t, <1>m DEF TypeOK, ActorInv, LeaseInv, At, Dispatch, Gens, NoGen, entryVars, leaseVars,
     workerVars
<1>4. LeaseInv'
  BY <1>t, <1>m DEF TypeOK, LeaseInv, Dispatch, entryVars, leaseVars, workerVars
<1>5. NoOrphanLease'
  BY <1>t, <1>m DEF TypeOK, NoOrphanLease, Owned, ActorInv, At, Dispatch, entryVars, leaseVars,
     workerVars
<1> QED BY <1>t, <1>1, <1>2, <1>3, <1>4, <1>5, QuietKeeps DEF Inv

\* The lease is looked at again with the call lock.
LEMMA AdmitKeeps ==
    ASSUME Inv, NEW a \in Actors, Admit(a)
    PROVE  Inv'
<1>t. TypeOK /\ ActorInv(a) /\ LeaseInv /\ NoOrphanLease
  BY DEF Inv
<1>m. PICK pc \in Pcs : /\ Moved(a, pc)
                        /\ worker[actor[a].gen] \in {"leased", "lost"} => pc = "exec"
                        /\ worker[actor[a].gen] \notin {"leased", "lost"} =>
                             pc \in {"clear", "closegen", "ready"}
  <2>1. PICK pc \in {"exec", "clear", "closegen", "ready"} :
           /\ Goto(a, pc)
           /\ worker[actor[a].gen] \in {"leased", "lost"} => pc = "exec"
           /\ worker[actor[a].gen] \notin {"leased", "lost"} => pc # "exec"
    BY DEF Admit, AfterLoss
  <2> QED BY <1>t, <2>1, GotoMoves DEF TypeOK, Pcs
<1>u. UNCHANGED <<mode, entryVars, leaseVars, workerVars, reaper, detached>> /\ At(a, "queue")
         /\ CallLockFree(actor[a].gen)
  BY DEF Admit
<1>1. TypeOK'
  BY <1>t, <1>m, <1>u DEF TypeOK, Moved, entryVars, leaseVars, workerVars
<1>2. \A b \in Actors : b # a => Quiet(b)
  BY <1>t, <1>m, <1>u DEF TypeOK, Quiet, Moved, entryVars, leaseVars, workerVars
<1>3. ActorInv(a)'
  BY <1>t, <1>m, <1>u DEF TypeOK, ActorInv, At, Moved, entryVars, leaseVars, workerVars
<1>4. LeaseInv'
  BY <1>t, <1>m, <1>u DEF TypeOK, LeaseInv, Admit, entryVars, leaseVars, workerVars
<1>5. NoOrphanLease'
  BY <1>t, <1>m, <1>u DEF NoOrphanLease, Owned, At, Moved, entryVars, leaseVars, workerVars
<1> QED BY <1>t, <1>1, <1>2, <1>3, <1>4, <1>5, QuietKeeps DEF Inv

\* Nothing was sent.
LEMMA NeverDispatchedKeeps ==
    ASSUME Inv, NEW a \in Actors, NeverDispatched(a)
    PROVE  Inv'
<1>t. TypeOK /\ ActorInv(a) /\ LeaseInv /\ NoOrphanLease
  BY DEF Inv
<1>m. Moved(a, "ready")
  BY <1>t, GotoMoves DEF TypeOK, Pcs, NeverDispatched
<1>1. TypeOK'
  BY <1>t, <1>m DEF TypeOK, NeverDispatched, Moved, entryVars, leaseVars, workerVars
<1>2. \A b \in Actors : b # a => Quiet(b)
  BY <1>t, <1>m DEF TypeOK, ActorInv, Quiet, At, NeverDispatched, Moved, entryVars, leaseVars,
     workerVars
<1>3. ActorInv(a)'
  BY <1>t, <1>m DEF TypeOK, ActorInv, At, NeverDispatched, Moved, entryVars, leaseVars, workerVars
<1>4. LeaseInv'
  BY <1>t, <1>m DEF TypeOK, LeaseInv, NeverDispatched, Moved, entryVars, leaseVars, workerVars
<1>5. NoOrphanLease'
  BY <1>t, <1>m DEF TypeOK, NoOrphanLease, Owned, ActorInv, At, NeverDispatched, Moved, entryVars,
     leaseVars, workerVars
<1> QED BY <1>t, <1>1, <1>2, <1>3, <1>4, <1>5, QuietKeeps DEF Inv

\* The child answered; the lease is kept.
LEMMA CallSettlesKeeps ==
    ASSUME Inv, NEW a \in Actors, CallSettles(a)
    PROVE  Inv'
<1>t. TypeOK /\ ActorInv(a) /\ LeaseInv /\ NoOrphanLease
  BY DEF Inv
<1>m. /\ actor' \in [Actors -> ActorRec]
      /\ \A b \in Actors : b # a => actor'[b] = actor[b]
      /\ actor'[a].guard = actor[a].guard /\ actor'[a].pc = "ready" /\ actor'[a].expect = NoGen
  <2>1. actor \in [Actors -> ActorRec] /\ actor[a] \in ActorRec
    BY <1>t DEF TypeOK
  <2> DEFINE r == [actor[a] EXCEPT !.pc = "ready", !.gen = NoGen, !.expect = NoGen, !.fresh = FALSE,
                                   !.bound = IF actor[a].op = "open" THEN actor[a].gen ELSE actor[a].bound]
  <2>2. r \in ActorRec /\ r.guard = actor[a].guard /\ r.pc = "ready" /\ r.expect = NoGen
    BY <2>1 DEF ActorRec
  <2>3. actor' = [actor EXCEPT ![a] =
                    [@ EXCEPT !.pc = "ready", !.gen = NoGen, !.expect = NoGen, !.fresh = FALSE,
                              !.bound = IF actor[a].op = "open" THEN actor[a].gen ELSE actor[a].bound]]
    BY DEF CallSettles
  <2>4. actor' = [actor EXCEPT ![a] = r]
    BY <2>1, <2>3
  <2> HIDE DEF r
  <2> QED BY <2>1, <2>2, <2>4
<1>1. TypeOK'
  BY <1>t, <1>m DEF TypeOK, CallSettles, entryVars, leaseVars, workerVars
<1>2. \A b \in Actors : b # a => Quiet(b)
  BY <1>t, <1>m DEF TypeOK, ActorInv, Quiet, At, CallSettles, entryVars, leaseVars, workerVars
<1>3. ActorInv(a)'
  BY <1>t, <1>m DEF TypeOK, ActorInv, At, CallSettles, entryVars, leaseVars, workerVars
<1>4. LeaseInv'
  BY <1>t, <1>m DEF TypeOK, LeaseInv, CallSettles, entryVars, leaseVars, workerVars
<1>5. NoOrphanLease'
  BY <1>t, <1>m DEF TypeOK, NoOrphanLease, Owned, ActorInv, At, CallSettles, entryVars, leaseVars,
     workerVars
<1> QED BY <1>t, <1>1, <1>2, <1>3, <1>4, <1>5, QuietKeeps DEF Inv

\* The child refused; a fresh lease is about to be given back.
LEMMA CallRefusedKeeps ==
    ASSUME Inv, NEW a \in Actors, CallRefused(a)
    PROVE  Inv'
<1>t. TypeOK /\ ActorInv(a) /\ LeaseInv /\ NoOrphanLease
  BY DEF Inv
<1>m. PICK pc \in {"ready", "closegen"} : Moved(a, pc)
  BY <1>t, GotoMoves DEF TypeOK, Pcs, CallRefused
<1>1. TypeOK'
  BY <1>t, <1>m DEF TypeOK, CallRefused, Moved, entryVars, leaseVars, workerVars
<1>2. \A b \in Actors : b # a => Quiet(b)
  BY <1>t, <1>m DEF TypeOK, ActorInv, Quiet, At, CallRefused, Moved, entryVars, leaseVars,
     workerVars
<1>3. ActorInv(a)'
  BY <1>t, <1>m DEF TypeOK, ActorInv, At, CallRefused, Moved, entryVars, leaseVars, workerVars
<1>4. LeaseInv'
  BY <1>t, <1>m DEF TypeOK, LeaseInv, CallRefused, Moved, entryVars, leaseVars, workerVars
<1>5. NoOrphanLease'
  BY <1>t, <1>m DEF TypeOK, NoOrphanLease, Owned, ActorInv, At, CallRefused, Moved, entryVars,
     leaseVars, workerVars
<1> QED BY <1>t, <1>1, <1>2, <1>3, <1>4, <1>5, QuietKeeps DEF Inv

\* The worker is retired, and the call goes on without it.
LEMMA CallRetiresKeeps ==
    ASSUME Inv, NEW a \in Actors, CallRetires(a)
    PROVE  Inv'
<1>t. TypeOK /\ ActorInv(a) /\ LeaseInv /\ NoOrphanLease
  BY DEF Inv
<1>w. /\ actor[a].gen \in Gens \cup {NoGen}
      /\ worker' \in [Gens -> WorkerStates] /\ child' \in [Gens -> {"empty", "open", "debug"}]
      /\ \A h \in Gens : /\ h # actor[a].gen => worker'[h] = worker[h]
                         /\ worker'[h] = "none" <=> worker[h] = "none"
                         /\ worker'[h] = "free" <=> worker[h] = "free"
                         /\ h = actor[a].gen => worker'[h] \notin {"leased", "lost"}
  BY <1>t, RetiredEffect DEF TypeOK, HandleRec, ActorRec, ReaperRec, CallRetires
<1>m. PICK pc \in {"clear", "closegen", "ready"} : Moved(a, pc)
  BY <1>t, GotoMoves DEF TypeOK, Pcs, CallRetires, AfterLoss
<1>1. TypeOK'
  BY <1>t, <1>w, <1>m DEF TypeOK, CallRetires, Moved, entryVars, leaseVars, workerVars,
     WorkerStates
<1>2. \A b \in Actors : b # a => Quiet(b)
  BY <1>t, <1>w, <1>m DEF TypeOK, Quiet, CallRetires, Moved, entryVars, leaseVars
<1>3. ActorInv(a)'
  BY <1>t, <1>w, <1>m DEF TypeOK, ActorInv, At, CallRetires, Moved, entryVars, leaseVars
<1>4. LeaseInv'
  BY <1>t, <1>w DEF TypeOK, LeaseInv, HandleRec, CallRetires, leaseVars
<1>5. NoOrphanLease'
  BY <1>t, <1>w, <1>m DEF NoOrphanLease, Owned, At, CallRetires, Moved, entryVars, leaseVars
<1> QED BY <1>t, <1>1, <1>2, <1>3, <1>4, <1>5, QuietKeeps DEF Inv

\* The lease that is cleared has lost its worker.
LEMMA ClearHandleKeeps ==
    ASSUME Inv, NEW a \in Actors, ClearHandle(a)
    PROVE  Inv'
<1>t. TypeOK /\ ActorInv(a) /\ LeaseInv /\ NoOrphanLease
  BY DEF Inv
<1>m. Moved(a, "ready")
  BY <1>t, GotoMoves DEF TypeOK, Pcs, ClearHandle
<1>1. TypeOK'
  BY <1>t, <1>m DEF TypeOK, ClearHandle, Moved, NoHandle, HandleRec, entryVars, leaseVars,
     workerVars
<1>2. \A b \in Actors : b # a => Quiet(b)
  BY <1>t, <1>m DEF TypeOK, ActorInv, Quiet, At, ClearHandle, Moved, NoHandle, HandleRec,
     entryVars, leaseVars, workerVars
<1>3. ActorInv(a)'
  BY <1>t, <1>m DEF TypeOK, ActorInv, At, ClearHandle, Moved, NoHandle, HandleRec, entryVars,
     leaseVars, workerVars
<1>4. LeaseInv'
  BY <1>t, <1>m DEF TypeOK, LeaseInv, ClearHandle, Moved, NoHandle, HandleRec, entryVars,
     leaseVars, workerVars
<1>5. NoOrphanLease'
  BY <1>t, <1>m DEF TypeOK, NoOrphanLease, Owned, ActorInv, At, ClearHandle, Moved, NoHandle, HandleRec,
     entryVars, leaseVars, workerVars
<1> QED BY <1>t, <1>1, <1>2, <1>3, <1>4, <1>5, QuietKeeps DEF Inv

\* The child owns a process.
LEMMA DebugStartsKeeps ==
    ASSUME Inv, NEW a \in Actors, DebugStarts(a)
    PROVE  Inv'
<1>t. TypeOK /\ ActorInv(a) /\ LeaseInv /\ NoOrphanLease
  BY DEF Inv
<1>m. Moved(a, "pin")
  BY <1>t, GotoMoves DEF TypeOK, Pcs, DebugStarts
<1>1. TypeOK'
  BY <1>t, <1>m DEF TypeOK, DebugStarts, Moved, entryVars, leaseVars, workerVars
<1>2. \A b \in Actors : b # a => Quiet(b)
  BY <1>t, <1>m DEF TypeOK, ActorInv, Quiet, At, DebugStarts, Moved, entryVars, leaseVars,
     workerVars
<1>3. ActorInv(a)'
  BY <1>t, <1>m DEF TypeOK, ActorInv, At, DebugStarts, Moved, entryVars, leaseVars, workerVars
<1>4. LeaseInv'
  BY <1>t, <1>m DEF TypeOK, LeaseInv, DebugStarts, Moved, entryVars, leaseVars, workerVars
<1>5. NoOrphanLease'
  BY <1>t, <1>m DEF TypeOK, NoOrphanLease, Owned, ActorInv, At, DebugStarts, Moved, entryVars,
     leaseVars, workerVars
<1> QED BY <1>t, <1>1, <1>2, <1>3, <1>4, <1>5, QuietKeeps DEF Inv

\* The child gave its process up.
LEMMA DebugStopsKeeps ==
    ASSUME Inv, NEW a \in Actors, DebugStops(a)
    PROVE  Inv'
<1>t. TypeOK /\ ActorInv(a) /\ LeaseInv /\ NoOrphanLease
  BY DEF Inv
<1>m. Moved(a, "unpin")
  BY <1>t, GotoMoves DEF TypeOK, Pcs, DebugStops
<1>1. TypeOK'
  BY <1>t, <1>m DEF TypeOK, DebugStops, Moved, entryVars, leaseVars, workerVars
<1>2. \A b \in Actors : b # a => Quiet(b)
  BY <1>t, <1>m DEF TypeOK, ActorInv, Quiet, At, DebugStops, Moved, entryVars, leaseVars,
     workerVars
<1>3. ActorInv(a)'
  BY <1>t, <1>m DEF TypeOK, ActorInv, At, DebugStops, Moved, entryVars, leaseVars, workerVars
<1>4. LeaseInv'
  BY <1>t, <1>m DEF TypeOK, LeaseInv, DebugStops, Moved, entryVars, leaseVars, workerVars
<1>5. NoOrphanLease'
  BY <1>t, <1>m DEF TypeOK, NoOrphanLease, Owned, ActorInv, At, DebugStops, Moved, entryVars, leaseVars,
     workerVars
<1> QED BY <1>t, <1>1, <1>2, <1>3, <1>4, <1>5, QuietKeeps DEF Inv

\* The pin changes only on the lease that was called.
LEMMA SetDebugPinKeeps ==
    ASSUME Inv, NEW a \in Actors, SetDebugPin(a)
    PROVE  Inv'
<1>t. TypeOK /\ ActorInv(a) /\ LeaseInv /\ NoOrphanLease
  BY DEF Inv
<1>m. Moved(a, "ready")
  BY <1>t, GotoMoves DEF TypeOK, Pcs, SetDebugPin
<1>h. handle' \in HandleRec /\ handle'.gen = handle.gen
  <2>1. handle \in HandleRec
    BY <1>t DEF TypeOK
  <2>2. \A p \in BOOLEAN : /\ [handle EXCEPT !.pinned = p] \in HandleRec
                           /\ [handle EXCEPT !.pinned = p].gen = handle.gen
    BY <2>1 DEF HandleRec
  <2>3. At(a, "pin") \in BOOLEAN
    BY DEF At
  <2> QED BY <2>1, <2>2, <2>3 DEF SetDebugPin
<1>1. TypeOK'
  BY <1>t, <1>m, <1>h DEF TypeOK, SetDebugPin, Moved, entryVars, leaseVars, workerVars
<1>2. \A b \in Actors : b # a => Quiet(b)
  BY <1>t, <1>m, <1>h DEF TypeOK, ActorInv, Quiet, At, SetDebugPin, Moved, entryVars, leaseVars,
     workerVars
<1>3. ActorInv(a)'
  BY <1>t, <1>m, <1>h DEF TypeOK, ActorInv, At, SetDebugPin, Moved, entryVars, leaseVars,
     workerVars
<1>4. LeaseInv'
  BY <1>t, <1>m, <1>h DEF TypeOK, LeaseInv, SetDebugPin, Moved, entryVars, leaseVars, workerVars
<1>5. NoOrphanLease'
  BY <1>t, <1>m, <1>h DEF TypeOK, NoOrphanLease, Owned, ActorInv, At, SetDebugPin, Moved, entryVars,
     leaseVars, workerVars
<1> QED BY <1>t, <1>1, <1>2, <1>3, <1>4, <1>5, QuietKeeps DEF Inv

\* The lease moves from the handle to the close.
LEMMA CloseIdbKeeps ==
    ASSUME Inv, NEW a \in Actors, CloseIdb(a)
    PROVE  Inv'
<1>t. TypeOK /\ ActorInv(a) /\ LeaseInv /\ NoOrphanLease
  BY DEF Inv
<1>m. /\ actor' \in [Actors -> ActorRec]
      /\ \A b \in Actors : b # a => actor'[b] = actor[b]
      /\ actor'[a].guard = actor[a].guard /\ actor[a].pc = "ready"
      /\ \/ actor'[a].pc = "nodb" /\ handle.gen = NoGen
         \/ actor'[a].pc = "releasing" /\ actor'[a].gen = handle.gen
      /\ handle' = NoHandle /\ NoHandle \in HandleRec /\ NoHandle.gen = NoGen
  <2>1. /\ actor \in [Actors -> ActorRec] /\ actor[a] \in ActorRec /\ handle.gen \in Gens \cup {NoGen}
    BY <1>t DEF TypeOK, HandleRec
  <2> QED BY <2>1 DEF CloseIdb, ActorRec, At, NoHandle, HandleRec
<1>1. TypeOK'
  BY <1>t, <1>m DEF TypeOK, CloseIdb, entryVars, leaseVars, workerVars
<1>2. \A b \in Actors : b # a => Quiet(b)
  BY <1>t, <1>m DEF TypeOK, ActorInv, Quiet, At, CloseIdb, entryVars, leaseVars, workerVars
<1>3. ActorInv(a)'
  BY <1>t, <1>m DEF TypeOK, ActorInv, At, CloseIdb, entryVars, leaseVars, workerVars
<1>4. LeaseInv'
  BY <1>t, <1>m DEF TypeOK, LeaseInv, CloseIdb, entryVars, leaseVars, workerVars
<1>5. NoOrphanLease'
  BY <1>t, <1>m DEF TypeOK, NoOrphanLease, Owned, ActorInv, At, CloseIdb, entryVars, leaseVars,
     workerVars
<1> QED BY <1>t, <1>1, <1>2, <1>3, <1>4, <1>5, QuietKeeps DEF Inv

\* Only the lease of the given generation moves from the handle to the close.
LEMMA CloseIfGenerationKeeps ==
    ASSUME Inv, NEW a \in Actors, CloseIfGeneration(a)
    PROVE  Inv'
<1>t. TypeOK /\ ActorInv(a) /\ LeaseInv /\ NoOrphanLease
  BY DEF Inv
<1>m. /\ actor' \in [Actors -> ActorRec]
      /\ \A b \in Actors : b # a => actor'[b] = actor[b]
      /\ actor'[a].guard = actor[a].guard /\ actor[a].pc \in {"closegen", "ready"}
      /\ \/ actor'[a].pc = "ready" /\ actor'[a].expect = NoGen /\ handle' = handle
         \/ actor'[a].pc = "releasing" /\ actor'[a].gen = handle.gen /\ handle' = NoHandle
      /\ NoHandle \in HandleRec /\ NoHandle.gen = NoGen
  <2> DEFINE g == IF At(a, "closegen") THEN actor[a].gen ELSE actor[a].bound
  <2>1. /\ actor \in [Actors -> ActorRec] /\ actor[a] \in ActorRec /\ g \in Gens \cup {NoGen}
        /\ actor[a].pc \in {"closegen", "ready"}
    BY <1>t DEF TypeOK, ActorRec, CloseIfGeneration, At
  <2>2. CASE handle.gen = g
    <3>1. [actor[a] EXCEPT !.op = "closegen", !.gen = g, !.pc = "releasing"] \in ActorRec
      BY <2>1 DEF ActorRec
    <3>2. /\ actor' = [actor EXCEPT ![a] = [@ EXCEPT !.op = "closegen", !.gen = g, !.pc = "releasing"]]
          /\ handle' = NoHandle
      BY <2>2 DEF CloseIfGeneration
    <3> HIDE DEF g
    <3> QED BY <2>1, <2>2, <3>1, <3>2 DEF ActorRec, NoHandle, HandleRec
  <2>3. CASE handle.gen # g
    <3>1. [actor[a] EXCEPT !.op = "closegen", !.gen = NoGen, !.expect = NoGen, !.fresh = FALSE,
                           !.pc = "ready"] \in ActorRec
      BY <2>1 DEF ActorRec
    <3>2. /\ actor' = [actor EXCEPT ![a] = [@ EXCEPT !.op = "closegen", !.gen = NoGen, !.expect = NoGen,
                                                     !.fresh = FALSE, !.pc = "ready"]]
          /\ handle' = handle
      BY <2>3 DEF CloseIfGeneration
    <3> QED BY <2>1, <3>1, <3>2 DEF ActorRec, NoHandle, HandleRec
  <2> QED BY <2>2, <2>3
<1>1. TypeOK'
  BY <1>t, <1>m DEF TypeOK, CloseIfGeneration, entryVars, workerVars
<1>2. \A b \in Actors : b # a => Quiet(b)
  BY <1>t, <1>m DEF TypeOK, Quiet, CloseIfGeneration, entryVars, workerVars
<1>3. ActorInv(a)'
  BY <1>t, <1>m DEF ActorInv, At, CloseIfGeneration, entryVars, workerVars
<1>4. LeaseInv'
  BY <1>t, <1>m DEF LeaseInv, CloseIfGeneration, entryVars, workerVars
<1>5. NoOrphanLease'
  BY <1>t, <1>m DEF NoOrphanLease, Owned, At, CloseIfGeneration, entryVars, workerVars
<1> QED BY <1>t, <1>1, <1>2, <1>3, <1>4, <1>5, QuietKeeps DEF Inv

\* The lease is over when the release ends.
LEMMA ReleaseEndsKeeps ==
    ASSUME Inv, NEW a \in Actors, ReleaseEnds(a)
    PROVE  Inv'
<1>t. TypeOK /\ ActorInv(a) /\ LeaseInv /\ NoOrphanLease
  BY DEF Inv
<1>w. /\ actor[a].gen \in Gens \cup {NoGen}
      /\ worker' \in [Gens -> WorkerStates] /\ child' \in [Gens -> {"empty", "open", "debug"}]
      /\ \A h \in Gens : /\ h # actor[a].gen => worker'[h] = worker[h]
                         /\ worker'[h] = "none" <=> worker[h] = "none"
                         /\ h = actor[a].gen => worker'[h] \notin {"leased", "lost"} /\ CallLockFree(h)
  BY <1>t, ReleasedEffect DEF TypeOK, HandleRec, ActorRec, ReaperRec, ReleaseEnds
<1>m. PICK pc \in {"remove", "ready"} : Moved(a, pc)
  BY <1>t, GotoMoves DEF TypeOK, Pcs, ReleaseEnds
<1>u. UNCHANGED <<mode, entryVars, leaseVars, reaper, detached>>
         /\ At(a, "releasing")
  BY DEF ReleaseEnds
<1>1. TypeOK'
  BY <1>t, <1>w, <1>m, <1>u DEF TypeOK, WorkerStates, Moved, entryVars, leaseVars
<1>2. \A b \in Actors : b # a => Quiet(b)
  BY <1>t, <1>w, <1>m, <1>u DEF TypeOK, Quiet, Moved, entryVars, leaseVars
<1>3. ActorInv(a)'
  BY <1>t, <1>w, <1>m, <1>u DEF TypeOK, ActorInv, At, Moved, entryVars, leaseVars
<1>4. LeaseInv'
  BY <1>t, <1>w, <1>u DEF TypeOK, LeaseInv, HandleRec, leaseVars
<1>5. NoOrphanLease'
  BY <1>t, <1>w, <1>m, <1>u DEF NoOrphanLease, Owned, At, Moved, entryVars, leaseVars
<1> QED BY <1>t, <1>1, <1>2, <1>3, <1>4, <1>5, QuietKeeps DEF Inv

\* The entry is removed, not dropped.
LEMMA CloseRemovesKeeps ==
    ASSUME Inv, NEW a \in Actors, CloseRemoves(a)
    PROVE  Inv'
<1>t. TypeOK /\ ActorInv(a) /\ LeaseInv /\ NoOrphanLease
  BY DEF Inv
<1>m. Moved(a, "ready")
  BY <1>t, GotoMoves DEF TypeOK, Pcs, CloseRemoves
<1>1. TypeOK'
  BY <1>t, <1>m DEF TypeOK, CloseRemoves, Moved, Remove, entryVars, leaseVars, workerVars
<1>2. \A b \in Actors : b # a => Quiet(b)
  BY <1>t, <1>m DEF TypeOK, ActorInv, Quiet, At, CloseRemoves, Moved, Remove, entryVars,
     leaseVars, workerVars
<1>3. ActorInv(a)'
  BY <1>t, <1>m DEF TypeOK, ActorInv, At, CloseRemoves, Moved, Remove, entryVars, leaseVars,
     workerVars
<1>4. LeaseInv'
  BY <1>t, <1>m DEF TypeOK, LeaseInv, CloseRemoves, Moved, Remove, entryVars, leaseVars,
     workerVars
<1>5. NoOrphanLease'
  BY <1>t, <1>m DEF TypeOK, NoOrphanLease, Owned, ActorInv, At, CloseRemoves, Moved, Remove, entryVars,
     leaseVars, workerVars
<1> QED BY <1>t, <1>1, <1>2, <1>3, <1>4, <1>5, QuietKeeps DEF Inv

\* What a dropped call leaves behind is in the handle or with its retire guard.
LEMMA DropCallKeeps ==
    ASSUME Inv, NEW a \in Actors, DropCall(a)
    PROVE  Inv'
<1>t. TypeOK /\ ActorInv(a) /\ LeaseInv /\ NoOrphanLease
  BY DEF Inv
<1>m. /\ actor' \in [Actors -> ActorRec]
      /\ \A b \in Actors : b # a => actor'[b] = actor[b]
      /\ actor'[a].pc = "leaving" /\ actor'[a].guard = actor[a].guard
      /\ mutex' = mutex \/ (mutex = a /\ mutex' = NoActor)
      /\ detached' \in {detached, detached \cup {[op |-> "retire", gen |-> actor[a].gen]}}
      /\ actor[a].pc = "releasing" => \E d \in detached' : d.gen = actor[a].gen
      /\ detached \subseteq detached'
      /\ actor[a].pc \notin {"away", "discard"}
      /\ actor[a].pc = "retiring" /\ actor[a].gen # NoGen => worker[actor[a].gen] # "leased"
      /\ \A g \in Gens : g # NoGen
  <2>0. /\ actor[a].pc = "retiring" /\ actor[a].gen # NoGen => worker[actor[a].gen] # "leased"
        /\ \A g \in Gens : g # NoGen
    BY <1>t DEF ActorInv, At, Gens, NoGen
  <2>1. actor \in [Actors -> ActorRec] /\ actor[a] \in ActorRec
    BY <1>t DEF TypeOK
  <2>2. [Away EXCEPT !.pc = "leaving", !.guard = actor[a].guard] \in ActorRec
    BY <2>1 DEF Away, ActorRec
  <2>3. actor' = [actor EXCEPT ![a] = [Away EXCEPT !.pc = "leaving", !.guard = actor[a].guard]]
    BY DEF DropCall
  <2>4. \/ detached' = detached /\ actor[a].pc # "releasing"
        \/ detached' = detached \cup {[op |-> "retire", gen |-> actor[a].gen]}
    BY DEF DropCall, RetireGuard
  <2>5. actor[a].pc \notin {"away", "discard"}
    BY DEF DropCall
  <2>7. mutex' = IF mutex = a THEN NoActor ELSE mutex
    BY DEF DropCall
  <2>6. mutex' = mutex \/ (mutex = a /\ mutex' = NoActor)
    BY <2>7
  <2>8. actor[a].pc = "releasing" => \E d \in detached' : d.gen = actor[a].gen
    <3> DEFINE d == [op |-> "retire", gen |-> actor[a].gen]
    <3>1. d.gen = actor[a].gen /\ (actor[a].pc = "releasing" => d \in detached')
      BY <2>4
    <3> QED BY <3>1
  <2>9. /\ detached' \in {detached, detached \cup {[op |-> "retire", gen |-> actor[a].gen]}}
        /\ detached \subseteq detached'
    BY <2>4
  <2> QED BY <2>0, <2>1, <2>2, <2>3, <2>5, <2>6, <2>8, <2>9 DEF Away
<1>u. UNCHANGED <<mode, entry, unused, handle, nextGen, workerVars, reaper>>
         /\ expired' \in {expired, FALSE}
  BY DEF DropCall, TouchBeforeLeave, Touch
<1>1. TypeOK'
  <2>1. [op |-> "retire", gen |-> actor[a].gen] \in Detached
    BY <1>t DEF TypeOK, ActorRec, Detached
  <2> QED BY <1>t, <1>m, <1>u, <2>1, WorkspaceAssumption DEF TypeOK, workerVars
<1>2. \A b \in Actors : b # a => Quiet(b)
  BY <1>t, <1>m, <1>u DEF TypeOK, Quiet, workerVars
<1>3. ActorInv(a)'
  BY <1>t, <1>m, <1>u DEF ActorInv, At
<1>4. LeaseInv'
  BY <1>t, <1>u DEF LeaseInv, workerVars
<1>5. NoOrphanLease'
  BY <1>t, <1>m, <1>u DEF NoOrphanLease, Owned, At, workerVars
<1> QED BY <1>t, <1>1, <1>2, <1>3, <1>4, <1>5, QuietKeeps DEF Inv

\* A call the pool owns goes on.
LEMMA DropSharedKeeps ==
    ASSUME Inv, NEW a \in Actors, DropShared(a)
    PROVE  Inv'
<1>t. TypeOK /\ ActorInv(a) /\ LeaseInv /\ NoOrphanLease
  BY DEF Inv
<1>m. Moved(a, "unheard")
  BY <1>t, GotoMoves DEF TypeOK, Pcs, DropShared
<1>1. TypeOK'
  BY <1>t, <1>m DEF TypeOK, DropShared, Moved, entryVars, leaseVars, workerVars
<1>2. \A b \in Actors : b # a => Quiet(b)
  BY <1>t, <1>m DEF TypeOK, ActorInv, Quiet, At, DropShared, Moved, entryVars, leaseVars,
     workerVars
<1>3. ActorInv(a)'
  BY <1>t, <1>m DEF TypeOK, ActorInv, At, DropShared, Moved, entryVars, leaseVars, workerVars
<1>4. LeaseInv'
  BY <1>t, <1>m DEF TypeOK, LeaseInv, DropShared, Moved, entryVars, leaseVars, workerVars
<1>5. NoOrphanLease'
  BY <1>t, <1>m DEF TypeOK, NoOrphanLease, Owned, ActorInv, At, DropShared, Moved, entryVars, leaseVars,
     workerVars
<1> QED BY <1>t, <1>1, <1>2, <1>3, <1>4, <1>5, QuietKeeps DEF Inv

\* The call nobody waits for ends, with or without its worker.
LEMMA UnheardEndsKeeps ==
    ASSUME Inv, NEW a \in Actors, UnheardEnds(a)
    PROVE  Inv'
<1>t. TypeOK /\ ActorInv(a) /\ LeaseInv /\ NoOrphanLease
  BY DEF Inv
<1>w. /\ worker' \in [Gens -> WorkerStates] /\ child' \in [Gens -> {"empty", "open", "debug"}]
      /\ \A h \in Gens : /\ worker'[h] = "none" <=> worker[h] = "none"
                         /\ worker'[h] = "free" <=> worker[h] = "free"
                         /\ worker'[h] \in {"leased", "lost"} => worker'[h] = worker[h]
  <2>1. CASE worker' = worker /\ child' = [child EXCEPT ![actor[a].gen] =
                           IF @ = "empty" /\ actor[a].op = "open" THEN "open" ELSE @]
    BY <1>t, <2>1 DEF TypeOK, WorkerStates
  <2>2. CASE worker' = Retired(actor[a].gen) /\ child' = Closed(actor[a].gen)
    BY <1>t, <2>2, RetiredEffect DEF TypeOK, ActorRec
  <2> QED BY <2>1, <2>2 DEF UnheardEnds
<1>m. Moved(a, "leaving")
  BY <1>t, GotoMoves DEF TypeOK, Pcs, UnheardEnds
<1>u. UNCHANGED <<mode, entryVars, leaseVars, reaper, detached>>
         /\ At(a, "unheard")
  BY DEF UnheardEnds
<1>1. TypeOK'
  BY <1>t, <1>w, <1>m, <1>u DEF TypeOK, WorkerStates, Moved, entryVars, leaseVars
<1>2. \A b \in Actors : b # a => Quiet(b)
  BY <1>t, <1>w, <1>m, <1>u DEF TypeOK, Quiet, Moved, entryVars, leaseVars
<1>3. ActorInv(a)'
  BY <1>t, <1>w, <1>m, <1>u DEF TypeOK, ActorInv, At, Moved, entryVars, leaseVars
<1>4. LeaseInv'
  BY <1>t, <1>w, <1>u DEF TypeOK, LeaseInv, HandleRec, leaseVars
<1>5. NoOrphanLease'
  BY <1>t, <1>w, <1>m, <1>u DEF NoOrphanLease, Owned, At, Moved, entryVars, leaseVars
<1> QED BY <1>t, <1>1, <1>2, <1>3, <1>4, <1>5, QuietKeeps DEF Inv

-----------------------------------------------------------------------------
(* Steps of the environment, the reaper and the spawned tasks. *)

\* A lease taken out of the handle is passed to one spawned release.
LEMMA HandedOn ==
    ASSUME NEW h \in Gens \cup {NoGen}
    PROVE  LET R == {[op |-> "release", gen |-> g] : g \in {h} \ {NoGen}}
           IN  R \subseteq Detached /\ (h # NoGen => \E y \in R : y.gen = h)
<1> DEFINE y == [op |-> "release", gen |-> h]
           R == {[op |-> "release", gen |-> g] : g \in {h} \ {NoGen}}
<1>1. y \in Detached /\ y.gen = h
  BY DEF Detached
<1>2. \A x \in R : x = y
  OBVIOUS
<1>3. h # NoGen => y \in R
  OBVIOUS
<1> HIDE DEF y, R
<1>4. R \subseteq Detached /\ (h # NoGen => \E x \in R : x.gen = h)
  BY <1>1, <1>2, <1>3
<1> QED BY <1>4 DEF R

\* Time passes.
LEMMA ExpireKeeps ==
    ASSUME Inv, Expire
    PROVE  Inv'
<1>t. TypeOK /\ LeaseInv /\ NoOrphanLease
  BY DEF Inv
<1>b. expired' \in BOOLEAN /\ unused' \in BOOLEAN
  BY <1>t, Zenon DEF TypeOK, Expire
<1>1. TypeOK'
  BY <1>t, <1>b DEF TypeOK, Expire, entryVars, leaseVars, workerVars
<1>2. \A b \in Actors : Quiet(b)
  BY <1>t, <1>b DEF TypeOK, ActorInv, Quiet, At, Expire, entryVars, leaseVars, workerVars
<1>4. LeaseInv'
  BY <1>t, <1>b DEF TypeOK, LeaseInv, Expire, entryVars, leaseVars, workerVars
<1>5. NoOrphanLease'
  BY <1>t, <1>b DEF TypeOK, NoOrphanLease, Owned, ActorInv, At, Expire, entryVars, leaseVars, workerVars
<1> QED BY <1>t, <1>1, <1>2, <1>4, <1>5, QuietKeeps DEF Inv

\* A spawned task passes the lease on or ends it.
LEMMA DetachedRunsKeeps ==
    ASSUME Inv, NEW d \in detached, DetachedRuns(d)
    PROVE  Inv'
<1>t. TypeOK /\ LeaseInv /\ NoOrphanLease
  BY DEF Inv
<1>c. d.op = "close" => d.gen = NoGen
  BY <1>t DEF TypeOK, Detached
<1>w. /\ worker' \in [Gens -> WorkerStates] /\ child' \in [Gens -> {"empty", "open", "debug"}]
      /\ \A h \in Gens : /\ worker'[h] = "none" <=> worker[h] = "none"
                         /\ worker'[h] \in {"leased", "lost"} => worker'[h] = worker[h]
                         /\ worker'[h] = "free" => worker[h] = "free" \/ CallLockFree(h)
                         /\ worker'[h] \in {"leased", "lost"} =>
                              \A x \in detached : x.gen = h => \E y \in detached' : y.gen = h
                         /\ worker'[h] \in {"leased", "lost"} /\ handle.gen = h =>
                              handle'.gen = h \/ \E y \in detached' : y.gen = h
      /\ handle' \in HandleRec /\ handle'.gen \in {handle.gen, NoGen} /\ detached' \subseteq Detached
  <2>1. /\ d \in Detached /\ d.gen \in Gens \cup {NoGen} /\ handle \in HandleRec
        /\ handle.gen \in Gens \cup {NoGen} /\ detached \subseteq Detached
        /\ worker \in [Gens -> WorkerStates] /\ child \in [Gens -> {"empty", "open", "debug"}]
    BY <1>t DEF TypeOK, Detached, HandleRec, WorkerStates
  <2>2. CASE d.op = "retire"
    <3>1. worker' = Retired(d.gen) /\ child' = Closed(d.gen) /\ detached' = detached \ {d} /\ handle' = handle
      BY <2>2 DEF DetachedRuns
    <3> QED BY <1>t, <2>1, <3>1, RetiredEffect
  <2>3. CASE d.op = "release"
    <3>1. Released(d.gen) /\ detached' = detached \ {d} /\ handle' = handle
      BY <2>3 DEF DetachedRuns
    <3> QED BY <1>t, <2>1, <3>1, ReleasedEffect
  <2>4. CASE d.op = "close"
    <3> DEFINE R == {[op |-> "release", gen |-> g] : g \in {handle.gen} \ {NoGen}}
    <3>1. /\ handle' = NoHandle /\ detached' = (detached \ {d}) \cup R
          /\ worker' = worker /\ child' = child
      BY <2>4 DEF DetachedRuns
    <3>2. R \subseteq Detached /\ (handle.gen # NoGen => \E y \in R : y.gen = handle.gen)
      BY <2>1, HandedOn
    <3>3. NoHandle \in HandleRec /\ NoHandle.gen = NoGen
      BY DEF NoHandle, HandleRec
    <3>4. d.gen = NoGen
      BY <1>c, <2>4
    <3>5. NoGen \notin Gens
      BY DEF Gens, NoGen
    <3> HIDE DEF R
    <3> QED BY <2>1, <3>1, <3>2, <3>3, <3>4, <3>5
  <2> QED BY <2>1, <2>2, <2>3, <2>4 DEF Detached
<1>u. UNCHANGED <<mode, entryVars, mutex, nextGen, actor, reaper>>
  BY DEF DetachedRuns
<1>1. TypeOK'
  BY <1>t, <1>w, <1>u DEF TypeOK, WorkerStates, entryVars
<1>2. \A b \in Actors : Quiet(b)
  BY <1>t, <1>w, <1>u DEF TypeOK, Quiet, entryVars
<1>4. LeaseInv'
  BY <1>t, <1>w, <1>u DEF TypeOK, LeaseInv, HandleRec
<1>5. NoOrphanLease'
  BY <1>t, <1>w, <1>u DEF NoOrphanLease, Owned, At, entryVars
<1> QED BY <1>t, <1>1, <1>2, <1>4, <1>5, QuietKeeps DEF Inv

\* A process dies with its lease.
LEMMA ProcessDiesKeeps ==
    ASSUME Inv, NEW g \in Gens, ProcessDies(g)
    PROVE  Inv'
<1>t. TypeOK /\ LeaseInv /\ NoOrphanLease
  BY DEF Inv
<1>1. TypeOK'
  BY <1>t DEF TypeOK, ProcessDies, Closed, entryVars, leaseVars, workerVars
<1>2. \A b \in Actors : Quiet(b)
  BY <1>t DEF TypeOK, ActorInv, Quiet, At, ProcessDies, Closed, entryVars, leaseVars, workerVars
<1>4. LeaseInv'
  BY <1>t DEF TypeOK, LeaseInv, ProcessDies, Closed, entryVars, leaseVars, workerVars
<1>5. NoOrphanLease'
  BY <1>t DEF TypeOK, NoOrphanLease, Owned, ActorInv, At, ProcessDies, Closed, entryVars, leaseVars,
     workerVars
<1> QED BY <1>t, <1>1, <1>2, <1>4, <1>5, QuietKeeps DEF Inv

\* The registry is drained.
LEMMA ShutdownRegistryKeeps ==
    ASSUME Inv, ShutdownRegistry
    PROVE  Inv'
<1>t. TypeOK /\ LeaseInv /\ NoOrphanLease
  BY DEF Inv
<1>1. TypeOK'
  BY <1>t DEF TypeOK, ShutdownRegistry, entryVars, leaseVars, workerVars, Detached
<1>2. \A b \in Actors : Quiet(b)
  BY <1>t DEF TypeOK, ActorInv, Quiet, At, ShutdownRegistry, entryVars, leaseVars, workerVars
<1>4. LeaseInv'
  BY <1>t DEF TypeOK, LeaseInv, ShutdownRegistry, entryVars, leaseVars, workerVars
<1>5. NoOrphanLease'
  BY <1>t DEF TypeOK, NoOrphanLease, Owned, ActorInv, At, ShutdownRegistry, entryVars, leaseVars,
     workerVars
<1> QED BY <1>t, <1>1, <1>2, <1>4, <1>5, QuietKeeps DEF Inv

\* A session's binding ends.
LEMMA LegacyEndsKeeps ==
    ASSUME Inv, LegacyEnds
    PROVE  Inv'
<1>t. TypeOK /\ LeaseInv /\ NoOrphanLease
  BY DEF Inv
<1>1. TypeOK'
  BY <1>t DEF TypeOK, LegacyEnds, entryVars, leaseVars, workerVars
<1>2. \A b \in Actors : Quiet(b)
  BY <1>t DEF TypeOK, ActorInv, Quiet, At, LegacyEnds, entryVars, leaseVars, workerVars
<1>4. LeaseInv'
  BY <1>t DEF TypeOK, LeaseInv, LegacyEnds, entryVars, leaseVars, workerVars
<1>5. NoOrphanLease'
  BY <1>t DEF TypeOK, NoOrphanLease, Owned, ActorInv, At, LegacyEnds, entryVars, leaseVars, workerVars
<1> QED BY <1>t, <1>1, <1>2, <1>4, <1>5, QuietKeeps DEF Inv

\* What is left in the handle is released by a spawned task.
LEMMA DropDatabaseKeeps ==
    ASSUME Inv, DropDatabase
    PROVE  Inv'
<1>t. TypeOK /\ LeaseInv /\ NoOrphanLease
  BY DEF Inv
<1>m. /\ detached' \subseteq Detached /\ detached \subseteq detached'
      /\ handle.gen # NoGen => \E y \in detached' : y.gen = handle.gen
      /\ handle' = NoHandle /\ NoHandle \in HandleRec /\ NoHandle.gen = NoGen
  <2>1. handle.gen \in Gens \cup {NoGen} /\ detached \subseteq Detached
    BY <1>t DEF TypeOK, HandleRec
  <2> DEFINE R == {[op |-> "release", gen |-> g] : g \in {handle.gen} \ {NoGen}}
  <2>2. R \subseteq Detached /\ (handle.gen # NoGen => \E y \in R : y.gen = handle.gen)
    BY <2>1, HandedOn
  <2>3. detached' = detached \cup R /\ handle' = NoHandle
    BY DEF DropDatabase, HandleAtDrop
  <2>4. NoHandle \in HandleRec /\ NoHandle.gen = NoGen
    BY DEF NoHandle, HandleRec
  <2> HIDE DEF R
  <2> QED BY <2>1, <2>2, <2>3, <2>4
<1>1. TypeOK'
  BY <1>t, <1>m DEF TypeOK, DropDatabase, workerVars
<1>2. \A b \in Actors : Quiet(b)
  BY <1>t, <1>m DEF TypeOK, Quiet, DropDatabase, workerVars
<1>4. LeaseInv'
  BY <1>t, <1>m DEF LeaseInv, DropDatabase, workerVars
<1>5. NoOrphanLease'
  BY <1>t, <1>m DEF NoOrphanLease, Owned, DropDatabase, At, workerVars, Gens, NoGen
<1> QED BY <1>t, <1>1, <1>2, <1>4, <1>5, QuietKeeps DEF Inv

\* The reaper looks at the entry.
LEMMA ReaperCollectsKeeps ==
    ASSUME Inv, ReaperCollects
    PROVE  Inv'
<1>t. TypeOK /\ LeaseInv /\ NoOrphanLease
  BY DEF Inv
<1>1. TypeOK'
  BY <1>t DEF TypeOK, ReaperCollects, ReaperRec, entryVars, leaseVars, workerVars
<1>2. \A b \in Actors : Quiet(b)
  BY <1>t DEF TypeOK, ActorInv, Quiet, At, ReaperCollects, ReaperRec, entryVars, leaseVars,
     workerVars
<1>4. LeaseInv'
  BY <1>t DEF TypeOK, LeaseInv, ReaperCollects, ReaperRec, entryVars, leaseVars, workerVars
<1>5. NoOrphanLease'
  BY <1>t DEF TypeOK, NoOrphanLease, Owned, ActorInv, At, ReaperCollects, ReaperRec, entryVars,
     leaseVars, workerVars
<1> QED BY <1>t, <1>1, <1>2, <1>4, <1>5, QuietKeeps DEF Inv

\* Only a lease that is not served is taken out of the handle.
LEMMA ReaperProbesKeeps ==
    ASSUME Inv, ReaperProbes
    PROVE  Inv'
<1>t. TypeOK /\ LeaseInv /\ NoOrphanLease
  BY DEF Inv
<1>m. /\ handle' \in HandleRec /\ reaper' \in ReaperRec /\ reaper.pc = "probe"
      /\ handle'.gen = handle.gen \/ (handle'.gen = NoGen /\ ~Serving(handle.gen))
  <2>1. handle \in HandleRec /\ handle.gen \in Gens \cup {NoGen} /\ reaper \in ReaperRec
    BY <1>t DEF TypeOK, HandleRec
  <2>2. NoHandle \in HandleRec /\ NoHandle.gen = NoGen /\ Asleep \in ReaperRec
    BY DEF NoHandle, HandleRec, Asleep, ReaperRec
  <2>0. reaper.pc = "probe"
    BY DEF ReaperProbes
  <2>3. CASE UNCHANGED handle /\ (reaper' = Asleep \/ \E r \in {"idle", "terminal"} : Reapable(r))
    BY <2>0, <2>1, <2>2, <2>3 DEF Reapable, ReaperRec
  <2>4. CASE /\ handle' = NoHandle /\ ~Serving(handle.gen)
             /\ reaper' = [reaper EXCEPT !.pc = "retire", !.gen = handle.gen]
    BY <2>0, <2>1, <2>2, <2>4 DEF ReaperRec
  <2> QED BY <2>3, <2>4 DEF ReaperProbes, WorkerUnavailable
<1>u. UNCHANGED <<mode, entryVars, mutex, nextGen, workerVars, actor, detached>>
  BY DEF ReaperProbes
<1>1. TypeOK'
  BY <1>t, <1>m, <1>u DEF TypeOK, entryVars, workerVars
<1>2. \A b \in Actors : Quiet(b)
  BY <1>t, <1>m, <1>u DEF TypeOK, Quiet, entryVars, workerVars
<1>4. LeaseInv'
  BY <1>t, <1>m, <1>u DEF LeaseInv, workerVars
<1>5. NoOrphanLease'
  BY <1>t, <1>m, <1>u DEF NoOrphanLease, Owned, Serving, entryVars, workerVars, Gens, NoGen
<1> QED BY <1>t, <1>1, <1>2, <1>4, <1>5, QuietKeeps DEF Inv

\* The lost worker is retired.
LEMMA ReaperRetiresKeeps ==
    ASSUME Inv, ReaperRetires
    PROVE  Inv'
<1>t. TypeOK /\ LeaseInv /\ NoOrphanLease
  BY DEF Inv
<1>w. /\ worker' \in [Gens -> WorkerStates] /\ child' \in [Gens -> {"empty", "open", "debug"}]
      /\ \A h \in Gens : /\ h # reaper.gen => worker'[h] = worker[h]
                         /\ worker'[h] = "none" <=> worker[h] = "none"
                         /\ worker'[h] = "free" <=> worker[h] = "free"
                         /\ h = reaper.gen => worker'[h] \notin {"leased", "lost"}
  BY <1>t, RetiredEffect DEF TypeOK, ReaperRec, ReaperRetires
<1>u. /\ UNCHANGED <<mode, entryVars, leaseVars, actor, detached>> /\ reaper' \in ReaperRec
      /\ reaper.pc = "retire"
  BY DEF ReaperRetires, Reapable, ReaperRec
<1>1. TypeOK'
  BY <1>t, <1>w, <1>u DEF TypeOK, WorkerStates, entryVars, leaseVars
<1>2. \A b \in Actors : Quiet(b)
  BY <1>t, <1>w, <1>u DEF TypeOK, Quiet, entryVars, leaseVars
<1>4. LeaseInv'
  BY <1>t, <1>w, <1>u DEF TypeOK, LeaseInv, HandleRec, leaseVars
<1>5. NoOrphanLease'
  BY <1>t, <1>w, <1>u DEF TypeOK, NoOrphanLease, Owned, entryVars, leaseVars
<1> QED BY <1>t, <1>1, <1>2, <1>4, <1>5, QuietKeeps DEF Inv

\* The entry is removed, not dropped.
LEMMA ReaperTakesKeeps ==
    ASSUME Inv, ReaperTakes
    PROVE  Inv'
<1>t. TypeOK /\ LeaseInv /\ NoOrphanLease
  BY DEF Inv
<1>1. TypeOK'
  BY <1>t DEF TypeOK, ReaperTakes, ReaperRec, Asleep, NoGen, entryVars, leaseVars, workerVars
<1>2. \A b \in Actors : Quiet(b)
  BY <1>t DEF TypeOK, ActorInv, Quiet, At, ReaperTakes, ReaperRec, Asleep, NoGen, entryVars,
     leaseVars, workerVars
<1>4. LeaseInv'
  BY <1>t DEF TypeOK, LeaseInv, ReaperTakes, ReaperRec, Asleep, NoGen, entryVars, leaseVars,
     workerVars
<1>5. NoOrphanLease'
  BY <1>t DEF TypeOK, NoOrphanLease, Owned, ActorInv, At, ReaperTakes, ReaperRec, Asleep, NoGen,
     entryVars, leaseVars, workerVars
<1> QED BY <1>t, <1>1, <1>2, <1>4, <1>5, QuietKeeps DEF Inv

\* The lease moves from the handle to the reaper.
LEMMA ReaperClosesKeeps ==
    ASSUME Inv, ReaperCloses
    PROVE  Inv'
<1>t. TypeOK /\ LeaseInv /\ NoOrphanLease
  BY DEF Inv
<1>m. /\ handle' = NoHandle /\ NoHandle \in HandleRec /\ NoHandle.gen = NoGen
      /\ reaper' \in ReaperRec /\ reaper.pc = "close"
      /\ handle.gen # NoGen => reaper'.pc = "releasing" /\ reaper'.gen = handle.gen
  <2>1. handle.gen \in Gens \cup {NoGen}
    BY <1>t DEF TypeOK, HandleRec
  <2> QED BY <2>1 DEF ReaperCloses, NoHandle, HandleRec, Asleep, ReaperRec
<1>1. TypeOK'
  BY <1>t, <1>m DEF TypeOK, ReaperCloses, entryVars, leaseVars, workerVars
<1>2. \A b \in Actors : Quiet(b)
  BY <1>t, <1>m DEF TypeOK, ActorInv, Quiet, At, ReaperCloses, entryVars, leaseVars, workerVars
<1>4. LeaseInv'
  BY <1>t, <1>m DEF TypeOK, LeaseInv, ReaperCloses, entryVars, leaseVars, workerVars
<1>5. NoOrphanLease'
  BY <1>t, <1>m DEF TypeOK, NoOrphanLease, Owned, ActorInv, At, ReaperCloses, entryVars, leaseVars,
     workerVars, Gens, NoGen
<1> QED BY <1>t, <1>1, <1>2, <1>4, <1>5, QuietKeeps DEF Inv

\* The lease is over when the release ends.
LEMMA ReaperReleasesKeeps ==
    ASSUME Inv, ReaperReleases
    PROVE  Inv'
<1>t. TypeOK /\ LeaseInv /\ NoOrphanLease
  BY DEF Inv
<1>w. /\ reaper.gen \in Gens \cup {NoGen}
      /\ worker' \in [Gens -> WorkerStates] /\ child' \in [Gens -> {"empty", "open", "debug"}]
      /\ \A h \in Gens : /\ h # reaper.gen => worker'[h] = worker[h]
                         /\ worker'[h] = "none" <=> worker[h] = "none"
                         /\ h = reaper.gen => worker'[h] \notin {"leased", "lost"} /\ CallLockFree(h)
  BY <1>t, ReleasedEffect DEF TypeOK, HandleRec, ActorRec, ReaperRec, ReaperReleases
<1>u. UNCHANGED <<mode, entryVars, leaseVars, actor, detached>> /\ reaper' = Asleep /\ Asleep \in ReaperRec
  BY DEF ReaperReleases, Asleep, ReaperRec
<1>1. TypeOK'
  BY <1>t, <1>w, <1>u DEF TypeOK, WorkerStates, entryVars, leaseVars
<1>2. \A b \in Actors : Quiet(b)
  BY <1>t, <1>w, <1>u DEF TypeOK, Quiet, entryVars, leaseVars
<1>4. LeaseInv'
  BY <1>t, <1>w, <1>u DEF TypeOK, LeaseInv, HandleRec, leaseVars
<1>5. NoOrphanLease'
  BY <1>t, <1>w, <1>u DEF NoOrphanLease, Owned, At, entryVars, leaseVars
<1> QED BY <1>t, <1>1, <1>2, <1>4, <1>5, QuietKeeps DEF Inv

-----------------------------------------------------------------------------
\* Every step keeps Inv.
LEMMA InvStep == Inv /\ [Next]_vars => Inv'
<1> SUFFICES ASSUME Inv, [Next]_vars PROVE Inv'
  OBVIOUS
<1>1. ASSUME NEW a \in Actors, Guards(a) PROVE Inv'
  BY <1>1, AllocateDatabaseKeeps, AcquireKeeps, StartBackgroundKeeps, EndCallKeeps, LeaveKeeps,
     DiscardKeeps DEF Guards
<1>2. ASSUME NEW a \in Actors, Opens(a) PROVE Inv'
  BY <1>2, LeaseForOpenKeeps, StaleSettlesKeeps, StaleRetiresKeeps, LeaseGrantedKeeps,
     LeaseFailsKeeps DEF Opens
<1>3. ASSUME NEW a \in Actors, Calls(a) PROVE Inv'
  BY <1>3, DispatchKeeps, AdmitKeeps, NeverDispatchedKeeps, CallSettlesKeeps, CallRefusedKeeps,
     CallRetiresKeeps, ClearHandleKeeps, DebugStartsKeeps, DebugStopsKeeps,
     SetDebugPinKeeps DEF Calls
<1>4. ASSUME NEW a \in Actors, Closes(a) PROVE Inv'
  BY <1>4, CloseIdbKeeps, CloseIfGenerationKeeps, ReleaseEndsKeeps, CloseRemovesKeeps DEF Closes
<1>5. ASSUME NEW a \in Actors, Drops(a) PROVE Inv'
  BY <1>5, DropCallKeeps, DropSharedKeeps, UnheardEndsKeeps DEF Drops
<1>6. CASE Reaper
  BY <1>6, ReaperCollectsKeeps, ReaperProbesKeeps, ReaperRetiresKeeps, ReaperTakesKeeps,
     ReaperClosesKeeps, ReaperReleasesKeeps DEF Reaper
<1>7. CASE UNCHANGED vars
  <2>1. UNCHANGED <<mode, entry, expired, unused, handle, mutex, nextGen, worker, child, actor, reaper, detached>>
    BY <1>7 DEF vars, entryVars, leaseVars, workerVars
  <2>2. TypeOK' /\ LeaseInv' /\ NoOrphanLease'
    BY <2>1 DEF Inv, TypeOK, LeaseInv, NoOrphanLease, Owned, At
  <2>3. \A a \in Actors : ActorInv(a)'
    BY <2>1 DEF Inv, ActorInv, At
  <2> QED BY <2>2, <2>3 DEF Inv
<1> QED BY <1>1, <1>2, <1>3, <1>4, <1>5, <1>6, <1>7, DetachedRunsKeeps, ProcessDiesKeeps,
     ExpireKeeps, ShutdownRegistryKeeps, LegacyEndsKeeps, DropDatabaseKeeps DEF Next

\* Inv holds always.
THEOREM InvHolds == Spec => []Inv
BY InvInit, InvStep, PTL DEF Spec

\* Every variable of the workspace model keeps its type: in particular no
\* generation beyond the checked counter is given out.
THEOREM WorkspaceTypeCorrect == Spec => []TypeOK
<1>1. Inv => TypeOK
  BY DEF Inv
<1> QED BY <1>1, InvHolds, PTL

\* Whatever call is dropped, whichever of close, reaper, shutdown and drop of
\* the database comes first: a worker that serves a lease of the database is in
\* its handle or with somebody who will release or retire it.  A leased worker
\* whose transport closed can lose its owner, when an open is dropped between
\* StaleSettles and StaleRetires: LostIsRetired, which the code does not keep.
THEOREM NoLeaseIsOrphaned == Spec => []NoOrphanLease
<1>1. Inv => NoOrphanLease
  BY DEF Inv
<1> QED BY <1>1, InvHolds, PTL

\* I8: a call bound to a generation is executed by the worker of that
\* generation only, and not after the database was closed.
THEOREM GenerationsAreGated == Spec => []GenerationGate
<1>1. Inv => GenerationGate
  BY DEF Inv, ActorInv, GenerationGate
<1> QED BY <1>1, InvHolds, PTL

-----------------------------------------------------------------------------
(* Eviction.  Whoever stops to use the database touches it first, so an     *)
(* entry that is out of time and not in use has been unused for a whole     *)
(* idle timeout; and a pin that appears between the probe and the removal   *)
(* was set by a call that is still in use, or has touched the entry since.  *)

\* A guard that has not published its last use.
Uses(a) == actor[a].guard \in {"call", "pin"} /\ ~At(a, "leaving")

\* Guards belong to a workspace, where every tool call has one, and only such
\* calls use the debugger; calls that nobody hears belong to a shared database.
UserInv(a) ==
    /\ actor[a].guard \in {"call", "pin"} => Listed
    /\ actor[a].pc \in {"away", "discard"} => actor[a].guard = "none"
    /\ At(a, "unheard") => mode = "shared"
    /\ a \in Sessions /\ Listed /\ actor[a].pc \notin {"away", "leaving", "discard"} =>
         actor[a].guard = "call"
    /\ actor[a].op \in {"start", "stop"} => a \in Sessions /\ Listed
    /\ At(a, "pin") => a \in Sessions /\ Listed

\* What a step may do to the users.
UserStep ==
    /\ \A b \in Actors : UserInv(b)'
    /\ \A b \in Actors : Uses(b) /\ expired' => Uses(b)'

UsersInv == \A b \in Actors : UserInv(b)

\* Nobody moves.
LEMMA UsersRest == ASSUME UsersInv, UNCHANGED <<mode, actor>> PROVE UserStep
  BY DEF UsersInv, UserInv, UserStep, Uses, At, Listed

\* One actor moves, and keeps its guard or touches.
LEMMA UserMoves ==
    ASSUME UsersInv, UNCHANGED mode, NEW a \in Actors,
           \A b \in Actors : b # a => actor'[b] = actor[b],
           UserInv(a)', Uses(a) /\ expired' => Uses(a)'
    PROVE  UserStep
<1>1. \A b \in Actors : b # a => UserInv(b)' /\ (Uses(b) /\ expired' => Uses(b)')
  BY DEF UsersInv, UserInv, Uses, At, Listed
<1> QED BY <1>1 DEF UserStep

\* A user goes on with its call, which is no debugger call it was not before.
LEMMA UserGoesOn ==
    ASSUME UsersInv, UNCHANGED mode, NEW a \in Actors,
           \A b \in Actors : b # a => actor'[b] = actor[b],
           actor'[a].guard = actor[a].guard,
           actor[a].pc \notin {"away", "leaving", "discard"},
           actor'[a].pc \notin {"away", "discard", "leaving", "pin", "unheard"},
           actor'[a].op \in {"start", "stop"} => actor[a].op = actor'[a].op
    PROVE  UserStep
<1>1. UserInv(a)'
  BY DEF UsersInv, UserInv, At, Listed
<1>2. Uses(a) /\ expired' => Uses(a)'
  BY DEF Uses, At
<1> QED BY <1>1, <1>2, UserMoves

\* Goto keeps the guard, and the operation until the call leaves.
LEMMA GotoKeepsGuard ==
    ASSUME TypeOK, NEW a \in Actors, NEW pc \in Pcs, Goto(a, pc)
    PROVE  /\ \A b \in Actors : b # a => actor'[b] = actor[b]
           /\ actor'[a].guard = actor[a].guard /\ actor'[a].pc = pc
           /\ pc # "leaving" => actor'[a].op = actor[a].op
           /\ pc = "leaving" => actor'[a].op = "none"
<1>0. actor \in [Actors -> ActorRec] /\ actor[a] \in ActorRec
  BY DEF TypeOK
<1>1. CASE pc = "ready"
  BY <1>0, <1>1 DEF Goto, ActorRec, Pcs
<1>2. CASE pc = "leaving"
  BY <1>0, <1>2 DEF Goto, ActorRec, Pcs, Away
<1>3. CASE pc \notin {"ready", "leaving"}
  BY <1>0, <1>3 DEF Goto, ActorRec, Pcs
<1> QED BY <1>1, <1>2, <1>3

\* A user moves on by Goto.
LEMMA UserGoes ==
    ASSUME TypeOK, UsersInv, UNCHANGED mode, NEW a \in Actors, NEW pc \in Pcs, Goto(a, pc),
           actor[a].pc \notin {"away", "leaving", "discard"},
           pc \notin {"away", "discard", "leaving", "pin", "unheard"}
    PROVE  UserStep
  BY GotoKeepsGuard, UserGoesOn

\* A user leaves, and touches the entry if it has a guard.
LEMMA UserLeaves ==
    ASSUME TypeOK, UsersInv, UNCHANGED mode, NEW a \in Actors,
           \A b \in Actors : b # a => actor'[b] = actor[b],
           actor'[a].guard = actor[a].guard, actor'[a].pc = "leaving", actor'[a].op = "none",
           TouchBeforeLeave(a) \/ ~Listed
    PROVE  UserStep
<1>1. UserInv(a)'
  BY DEF UsersInv, UserInv, At, Listed
<1>2. ~(Uses(a) /\ expired')
  BY DEF Uses, TouchBeforeLeave, Touch, UsersInv, UserInv
<1> QED BY <1>1, <1>2, UserMoves

LEMMA GuardsUser ==
    ASSUME TypeOK, UsersInv, NEW a \in Actors, Guards(a)
    PROVE  UserStep
<1>0. actor \in [Actors -> ActorRec]
  BY DEF TypeOK
<1>1. CASE EndCall(a)
  <2>1. Goto(a, "leaving") /\ TouchBeforeLeave(a) /\ UNCHANGED mode
    BY <1>1 DEF EndCall
  <2>2. "leaving" \in Pcs
    BY DEF Pcs
  <2> QED BY <2>1, <2>2, GotoKeepsGuard, UserLeaves
<1>2. CASE Leave(a) \/ Discard(a)
  <2>1. /\ UNCHANGED mode
        /\ \A b \in Actors : b # a => actor'[b] = actor[b]
        /\ actor'[a].guard = "none" /\ actor'[a].pc \in {"away", "discard"} /\ actor'[a].op = "none"
    BY <1>0, <1>2 DEF Leave, Discard, Away
  <2>2. UserInv(a)'
    BY <2>1 DEF UserInv, At
  <2>3. ~Uses(a)
    <3>1. CASE Leave(a)
      BY <3>1 DEF Leave, Uses
    <3>2. CASE Discard(a)
      BY <3>2 DEF Discard, Uses, At, UsersInv, UserInv
    <3> QED BY <1>2, <3>1, <3>2
  <2> QED BY <2>1, <2>2, <2>3, UserMoves
<1>3. CASE a \in Sessions /\ (AllocateDatabase(a) \/ Acquire(a))
  <2>1. /\ UNCHANGED mode /\ expired' = FALSE
        /\ \A b \in Actors : b # a => actor'[b] = actor[b]
        /\ actor'[a].guard = IF Listed THEN "call" ELSE "arc"
        /\ actor'[a].pc = "ready" /\ actor'[a].op = "none"
    BY <1>0, <1>3 DEF AllocateDatabase, Acquire, Touch, Away
  <2>2. UserInv(a)'
    BY <2>1 DEF UserInv, At, Listed
  <2> QED BY <2>1, <2>2, UserMoves
<1>4. ASSUME NEW t \in Tasks, a \in Sessions, StartBackground(a, t) PROVE UserStep
  <2>0. t \in Actors /\ t # a /\ t \notin Sessions
    BY <1>4, WorkspaceAssumption DEF Actors
  <2>1. /\ UNCHANGED mode
        /\ \A b \in Actors : b # a /\ b # t => actor'[b] = actor[b]
        /\ actor'[a].guard = actor[a].guard /\ actor'[a].pc = "ready" /\ actor'[a].op = "call"
        /\ actor'[t].guard \in {"pin", "arc"} /\ (actor'[t].guard = "pin" => Listed)
        /\ actor'[t].pc = "ready" /\ actor'[t].op = "none"
    BY <1>0, <1>4, <2>0 DEF StartBackground, Away, ActorRec, At
  <2>2. UserInv(a)'
    BY <1>4, <2>1 DEF UsersInv, UserInv, StartBackground, At, Listed
  <2>5. UserInv(t)'
    BY <2>0, <2>1 DEF UserInv, At, Listed
  <2>3. (Uses(a) => Uses(a)') /\ ~Uses(t)
    BY <1>4, <2>0, <2>1 DEF Uses, At, StartBackground, UsersInv, UserInv
  <2>4. \A b \in Actors : b # a /\ b # t => UserInv(b)' /\ (Uses(b) => Uses(b)')
    BY <2>1 DEF UsersInv, UserInv, Uses, At, Listed
  <2> QED BY <2>2, <2>3, <2>4, <2>5 DEF UserStep
<1> QED BY <1>1, <1>2, <1>3, <1>4 DEF Guards

LEMMA OpensUser ==
    ASSUME TypeOK, UsersInv, NEW a \in Actors, Opens(a)
    PROVE  UserStep
<1>0. actor \in [Actors -> ActorRec]
  BY DEF TypeOK
<1>1. CASE LeaseFails(a)
  BY <1>1, UserGoes DEF LeaseFails, At, Pcs
<1>2. CASE LeaseForOpen(a) \/ StaleSettles(a) \/ StaleRetires(a) \/ LeaseGranted(a)
  <2>1. /\ UNCHANGED mode
        /\ \A b \in Actors : b # a => actor'[b] = actor[b]
        /\ actor'[a].guard = actor[a].guard
    BY <1>0, <1>2 DEF LeaseForOpen, StaleSettles, StaleRetires, LeaseGranted, NextGeneration, ActorRec
  <2>2. /\ actor'[a].pc \in {"ready", "settle", "retiring", "leasing", "queue"}
        /\ actor'[a].op \in {"open", actor[a].op}
    BY <1>0, <1>2 DEF LeaseForOpen, StaleSettles, StaleRetires, LeaseGranted, NextGeneration, ActorRec
  <2>3. actor[a].pc \in {"ready", "settle", "retiring", "leasing"}
    BY <1>2 DEF LeaseForOpen, StaleSettles, StaleRetires, LeaseGranted, At
  <2> QED BY <2>1, <2>2, <2>3, UserGoesOn
<1> QED BY <1>1, <1>2 DEF Opens

LEMMA CallsUser ==
    ASSUME TypeOK, UsersInv, NEW a \in Actors, Calls(a)
    PROVE  UserStep
<1>0. actor \in [Actors -> ActorRec]
  BY DEF TypeOK
<1>1. ASSUME NEW op \in {"call", "start", "stop"}, NEW e \in Gens \cup {NoGen}, Dispatch(a, op, e)
      PROVE  UserStep
  <2>1. /\ UNCHANGED mode
        /\ \A b \in Actors : b # a => actor'[b] = actor[b]
        /\ actor'[a].guard = actor[a].guard /\ actor'[a].op = op
        /\ actor'[a].pc \in {"ready", "queue"} /\ actor[a].pc = "ready"
    BY <1>0, <1>1 DEF Dispatch, ActorRec, At
  <2>2. op \in {"start", "stop"} => a \in Sessions /\ Listed
    BY <1>1 DEF Dispatch
  <2>3. UserInv(a)'
    BY <2>1, <2>2 DEF UsersInv, UserInv, At, Listed
  <2>4. Uses(a) => Uses(a)'
    BY <2>1 DEF Uses, At
  <2> QED BY <2>1, <2>3, <2>4, UserMoves
<1>2. CASE Admit(a)
  <2>1. PICK pc \in {"exec", "clear", "closegen", "ready"} : Goto(a, pc)
    BY <1>2 DEF Admit, AfterLoss
  <2> QED BY <1>2, <2>1, UserGoes DEF Admit, At, Pcs
<1>3. CASE NeverDispatched(a)
  BY <1>3, UserGoes DEF NeverDispatched, At, Pcs
<1>4. CASE CallSettles(a)
  <2>1. /\ UNCHANGED mode
        /\ \A b \in Actors : b # a => actor'[b] = actor[b]
        /\ actor'[a].guard = actor[a].guard /\ actor'[a].op = actor[a].op
        /\ actor'[a].pc = "ready" /\ actor[a].pc = "exec"
    BY <1>0, <1>4 DEF CallSettles, ActorRec, At
  <2> QED BY <2>1, UserGoesOn
<1>5. CASE CallRefused(a)
  BY <1>5, UserGoes DEF CallRefused, At, Pcs
<1>6. CASE CallRetires(a)
  <2>1. PICK pc \in {"clear", "closegen", "ready"} : Goto(a, pc)
    BY <1>6 DEF CallRetires, AfterLoss
  <2> QED BY <1>6, <2>1, UserGoes DEF CallRetires, At, Pcs
<1>7. CASE ClearHandle(a)
  BY <1>7, UserGoes DEF ClearHandle, At, Pcs
<1>8. CASE DebugStarts(a)
  <2>1. Goto(a, "pin") /\ UNCHANGED mode /\ At(a, "exec") /\ actor[a].op = "start" /\ "pin" \in Pcs
    BY <1>8 DEF DebugStarts, Pcs
  <2>2. /\ \A b \in Actors : b # a => actor'[b] = actor[b]
        /\ actor'[a].guard = actor[a].guard /\ actor'[a].pc = "pin" /\ actor'[a].op = "start"
    BY <2>1, GotoKeepsGuard
  <2>3. UserInv(a)'
    BY <2>1, <2>2 DEF UsersInv, UserInv, At, Listed
  <2>4. Uses(a) => Uses(a)'
    BY <2>2 DEF Uses, At
  <2> QED BY <2>1, <2>2, <2>3, <2>4, UserMoves
<1>9. CASE DebugStops(a)
  BY <1>9, UserGoes DEF DebugStops, At, Pcs
<1>10. CASE SetDebugPin(a)
  BY <1>10, UserGoes DEF SetDebugPin, At, Pcs
<1> QED BY <1>1, <1>2, <1>3, <1>4, <1>5, <1>6, <1>7, <1>8, <1>9, <1>10 DEF Calls

LEMMA ClosesUser ==
    ASSUME TypeOK, UsersInv, NEW a \in Actors, Closes(a)
    PROVE  UserStep
<1>0. actor \in [Actors -> ActorRec]
  BY DEF TypeOK
<1>1. CASE CloseIdb(a) \/ CloseIfGeneration(a)
  <2>1. /\ UNCHANGED mode
        /\ \A b \in Actors : b # a => actor'[b] = actor[b]
        /\ actor'[a].guard = actor[a].guard /\ actor'[a].op \in {"close", "closegen"}
        /\ actor'[a].pc \in {"nodb", "releasing", "ready"} /\ actor[a].pc \in {"ready", "closegen"}
    <3>1. CASE CloseIdb(a)
      BY <1>0, <3>1 DEF CloseIdb, ActorRec, At
    <3>2. CASE CloseIfGeneration(a)
      BY <1>0, <3>2 DEF CloseIfGeneration, ActorRec, At
    <3> QED BY <1>1, <3>1, <3>2
  <2> QED BY <2>1, UserGoesOn
<1>2. CASE ReleaseEnds(a)
  BY <1>2, UserGoes DEF ReleaseEnds, At, Pcs
<1>3. CASE CloseRemoves(a)
  BY <1>3, UserGoes DEF CloseRemoves, At, Pcs
<1> QED BY <1>1, <1>2, <1>3 DEF Closes

LEMMA DropsUser ==
    ASSUME TypeOK, UsersInv, NEW a \in Actors, Drops(a)
    PROVE  UserStep
<1>0. actor \in [Actors -> ActorRec]
  BY DEF TypeOK
<1>1. CASE DropCall(a)
  <2>1. /\ UNCHANGED mode /\ TouchBeforeLeave(a)
        /\ \A b \in Actors : b # a => actor'[b] = actor[b]
        /\ actor'[a].guard = actor[a].guard /\ actor'[a].pc = "leaving" /\ actor'[a].op = "none"
    BY <1>0, <1>1 DEF DropCall, Away
  <2> QED BY <2>1, UserLeaves
<1>2. CASE DropShared(a)
  <2>1. Goto(a, "unheard") /\ UNCHANGED mode /\ At(a, "exec") /\ mode = "shared" /\ "unheard" \in Pcs
    BY <1>2 DEF DropShared, Pcs
  <2>2. /\ \A b \in Actors : b # a => actor'[b] = actor[b]
        /\ actor'[a].guard = actor[a].guard /\ actor'[a].pc = "unheard" /\ actor'[a].op = actor[a].op
    BY <2>1, GotoKeepsGuard
  <2>3. UserInv(a)'
    BY <2>1, <2>2 DEF UsersInv, UserInv, At, Listed
  <2>4. Uses(a) => Uses(a)'
    BY <2>2 DEF Uses, At
  <2> QED BY <2>1, <2>2, <2>3, <2>4, UserMoves
<1>3. CASE UnheardEnds(a)
  <2>1. Goto(a, "leaving") /\ UNCHANGED mode /\ At(a, "unheard") /\ "leaving" \in Pcs
    BY <1>3 DEF UnheardEnds, Pcs
  <2>2. ~Listed
    BY <2>1 DEF UsersInv, UserInv, Listed
  <2> QED BY <2>1, <2>2, GotoKeepsGuard, UserLeaves
<1> QED BY <1>1, <1>2, <1>3 DEF Drops

\* Every step keeps the users, or touches.
LEMMA UsersStep == TypeOK /\ UsersInv /\ [Next]_vars => UserStep
<1> SUFFICES ASSUME TypeOK, UsersInv, [Next]_vars PROVE UserStep
  OBVIOUS
<1>1. ASSUME NEW a \in Actors, Guards(a) \/ Opens(a) \/ Calls(a) \/ Closes(a) \/ Drops(a)
      PROVE  UserStep
  BY <1>1, GuardsUser, OpensUser, CallsUser, ClosesUser, DropsUser
<1>2. CASE Reaper
  BY <1>2, UsersRest DEF Reaper, ReaperCollects, ReaperProbes, ReaperRetires, ReaperTakes,
     ReaperCloses, ReaperReleases
<1>3. CASE \/ \E d \in detached : DetachedRuns(d)
           \/ \E g \in Gens : ProcessDies(g)
           \/ Expire \/ ShutdownRegistry \/ LegacyEnds \/ DropDatabase
  BY <1>3, UsersRest
     DEF DetachedRuns, ProcessDies, Expire, ShutdownRegistry, LegacyEnds, DropDatabase
<1>4. CASE UNCHANGED vars
  BY <1>4, UsersRest DEF vars
<1> QED BY <1>1, <1>2, <1>3, <1>4 DEF Next

LEMMA UsersHold == Spec => []UsersInv
<1>1. Init => UsersInv
  <2> SUFFICES ASSUME Init, NEW b \in Actors PROVE UserInv(b)
    BY DEF UsersInv
  <2> QED BY DEF Init, UserInv, Away, At
<1>2. TypeOK /\ UsersInv /\ [Next]_vars => UsersInv'
  BY UsersStep DEF UserStep, UsersInv
<1> QED BY <1>1, <1>2, WorkspaceTypeCorrect, PTL DEF Spec

\* InUse is read through Uses.
LEMMA InUseIsUses == InUse <=> \E b \in Actors : Uses(b)
  BY DEF InUse, Uses

\* While the time stays up, the users stay.
LEMMA InUseStays == ASSUME UserStep, InUse, expired' PROVE InUse'
<1>1. PICK b \in Actors : Uses(b)
  BY InUseIsUses
<1>2. Uses(b)'
  BY <1>1 DEF UserStep
<1> QED BY <1>2 DEF InUse, Uses

\* Only a whole idle timeout makes the entry expire, and a use that resets
\* `unused` touches as well.
TimeStep ==
    \/ UNCHANGED <<expired, unused>>
    \/ ~expired'
    \/ Expire

LEMMA TimeMoves == [Next]_vars => TimeStep
<1> SUFFICES ASSUME [Next]_vars PROVE TimeStep
  OBVIOUS
<1>1. ASSUME NEW a \in Actors, Guards(a) PROVE TimeStep
  BY <1>1 DEF Guards, EndCall, Leave, Discard, AllocateDatabase, Acquire, StartBackground,
              TouchBeforeLeave, Touch, TimeStep, entryVars
<1>2. ASSUME NEW a \in Actors, Opens(a) PROVE TimeStep
  BY <1>2 DEF Opens, LeaseForOpen, StaleSettles, StaleRetires, LeaseGranted, LeaseFails,
              NextGeneration, TimeStep, entryVars
<1>3. ASSUME NEW a \in Actors, Calls(a) PROVE TimeStep
  BY <1>3 DEF Calls, Dispatch, Admit, NeverDispatched, CallSettles, CallRefused, CallRetires,
              ClearHandle, DebugStarts, DebugStops, SetDebugPin, TimeStep, entryVars
<1>4. ASSUME NEW a \in Actors, Closes(a) \/ Drops(a) PROVE TimeStep
  BY <1>4 DEF Closes, CloseIdb, CloseIfGeneration, ReleaseEnds, CloseRemoves, Drops, DropCall,
              DropShared, UnheardEnds, TouchBeforeLeave, Touch, TimeStep, entryVars
<1>5. CASE Reaper
  BY <1>5 DEF Reaper, ReaperCollects, ReaperProbes, ReaperRetires, ReaperTakes, ReaperCloses,
     ReaperReleases,
              TimeStep, entryVars
<1>6. CASE \/ \E d \in detached : DetachedRuns(d)
           \/ \E g \in Gens : ProcessDies(g)
           \/ Expire \/ ShutdownRegistry \/ LegacyEnds \/ DropDatabase
  BY <1>6 DEF DetachedRuns, ProcessDies, ShutdownRegistry, LegacyEnds, DropDatabase,
              TimeStep, entryVars
<1>7. CASE UNCHANGED vars
  BY <1>7 DEF vars, entryVars, TimeStep
<1> QED BY <1>1, <1>2, <1>3, <1>4, <1>5, <1>6, <1>7 DEF Next

\* An entry that is out of time and not in use was unused for the whole time.
UseInv == expired /\ ~InUse => unused

LEMMA UseHolds == Spec => []UseInv
<1>1. Init => UseInv
  BY DEF Init, UseInv
<1>2. TypeOK /\ UsersInv /\ UseInv /\ [Next]_vars => UseInv'
  <2> SUFFICES ASSUME TypeOK, UsersInv, UseInv, [Next]_vars, expired', ~InUse' PROVE unused'
    BY DEF UseInv
  <2>1. ~InUse
    BY UsersStep, InUseStays
  <2>2. CASE UNCHANGED <<expired, unused>>
    BY <2>1, <2>2 DEF UseInv
  <2>3. CASE Expire
    BY <2>1, <2>3 DEF Expire
  <2> QED BY <2>2, <2>3, TimeMoves DEF TimeStep
<1> QED BY <1>1, <1>2, WorkspaceTypeCorrect, UsersHold, PTL DEF Spec

\* An eviction is the reaper's second look at the entry.
LEMMA EvictionIsTaken == ASSUME TypeOK, [Next]_vars, Evicts PROVE ReaperTakes /\ StillReapable
<1>1. ~UNCHANGED reaper /\ reaper.pc = "take" /\ reaper'.pc = "close"
  BY DEF Evicts
<1>2. ASSUME NEW a \in Actors, Guards(a) \/ Opens(a) PROVE UNCHANGED reaper
  BY <1>2 DEF Guards, EndCall, Leave, Discard, AllocateDatabase, Acquire, StartBackground,
              Opens, LeaseForOpen, StaleSettles, StaleRetires, LeaseGranted, LeaseFails,
              NextGeneration
<1>3. ASSUME NEW a \in Actors, Calls(a) PROVE UNCHANGED reaper
  BY <1>3 DEF Calls, Dispatch, Admit, NeverDispatched, CallSettles, CallRefused, CallRetires,
              ClearHandle, DebugStarts, DebugStops, SetDebugPin
<1>4. ASSUME NEW a \in Actors, Closes(a) \/ Drops(a) PROVE UNCHANGED reaper
  BY <1>4 DEF Closes, CloseIdb, CloseIfGeneration, ReleaseEnds, CloseRemoves, Drops, DropCall,
              DropShared, UnheardEnds
<1>5. CASE Reaper
  <2>1. ReaperTakes
    BY <1>1, <1>5 DEF Reaper, ReaperCollects, ReaperProbes, ReaperRetires, Reapable, ReaperCloses,
       ReaperReleases
  <2> QED BY <1>1, <2>1 DEF ReaperTakes, Asleep
<1>6. CASE \/ \E d \in detached : DetachedRuns(d)
           \/ \E g \in Gens : ProcessDies(g)
           \/ Expire \/ ShutdownRegistry \/ LegacyEnds \/ DropDatabase
  BY <1>1, <1>6 DEF DetachedRuns, ProcessDies, Expire, ShutdownRegistry, LegacyEnds, DropDatabase
<1>7. CASE UNCHANGED vars
  BY <1>1, <1>7 DEF vars
<1> QED BY <1>1, <1>2, <1>3, <1>4, <1>5, <1>6, <1>7 DEF Next

LEMMA UnguardedIsNotInUse == ~Guarded => ~InUse
  BY DEF Guarded, InUse

\* I2: take_expired_entries removes an idle entry only when nothing has used it
\* for a whole idle timeout, although guards and times change in steps of their
\* own: the drop of a guard publishes the time first.
THEOREM EvictionNeedsIdleness == Spec => EvictedIsUnused
<1>1. TypeOK /\ UseInv /\ [Next]_vars => [Evicts => unused /\ ~Guarded]_vars
  <2> SUFFICES ASSUME TypeOK, UseInv, [Next]_vars, Evicts PROVE unused /\ ~Guarded
    OBVIOUS
  <2>1. StillReapable /\ reaper.reason = "idle"
    BY EvictionIsTaken DEF Evicts
  <2> QED BY <2>1, UnguardedIsNotInUse DEF StillReapable, UseInv
<1> QED BY <1>1, WorkspaceTypeCorrect, UseHolds, PTL DEF Spec, EvictedIsUnused

\* A pin is there already, or a debugger call sets it.
PinStep == handle'.pinned => UNCHANGED handle \/ \E a \in Actors : SetDebugPin(a) /\ At(a, "pin")

LEMMA PinMoves == TypeOK /\ [Next]_vars => PinStep
<1> SUFFICES ASSUME TypeOK, [Next]_vars PROVE PinStep
  OBVIOUS
<1>0. ~NoHandle.pinned /\ handle \in HandleRec
  BY DEF TypeOK, NoHandle
<1>1. ASSUME NEW a \in Actors, Guards(a) \/ Opens(a) PROVE PinStep
  BY <1>0, <1>1 DEF Guards, EndCall, Leave, Discard, AllocateDatabase, Acquire, StartBackground,
                    Opens, LeaseForOpen, StaleSettles, StaleRetires, LeaseGranted, LeaseFails,
              NextGeneration, leaseVars, PinStep
<1>2. ASSUME NEW a \in Actors, Calls(a) PROVE PinStep
  <2>1. CASE SetDebugPin(a)
    BY <1>0, <2>1 DEF SetDebugPin, HandleRec, PinStep
  <2>2. CASE ClearHandle(a)
    BY <1>0, <2>2 DEF ClearHandle, PinStep
  <2> QED BY <1>2, <2>1, <2>2 DEF Calls, Dispatch, Admit, NeverDispatched, CallSettles, CallRefused,
                                  CallRetires, DebugStarts, DebugStops, leaseVars, PinStep
<1>3. ASSUME NEW a \in Actors, Closes(a) \/ Drops(a) PROVE PinStep
  BY <1>0, <1>3 DEF Closes, CloseIdb, CloseIfGeneration, ReleaseEnds, CloseRemoves, Drops, DropCall,
                    DropShared, UnheardEnds, leaseVars, PinStep
<1>4. CASE Reaper
  BY <1>0, <1>4 DEF Reaper, ReaperCollects, ReaperProbes, ReaperRetires, ReaperTakes,
     ReaperCloses, ReaperReleases,
                    leaseVars, PinStep
<1>5. CASE \/ \E d \in detached : DetachedRuns(d)
           \/ \E g \in Gens : ProcessDies(g)
           \/ Expire \/ ShutdownRegistry \/ LegacyEnds \/ DropDatabase
  BY <1>0, <1>5 DEF DetachedRuns, ProcessDies, Expire, ShutdownRegistry, LegacyEnds, DropDatabase,
                    leaseVars, PinStep
<1>6. CASE UNCHANGED vars
  BY <1>6 DEF vars, leaseVars, PinStep
<1> QED BY <1>1, <1>2, <1>3, <1>4, <1>5, <1>6 DEF Next

\* The reaper is about to remove the entry for idleness.
Taking == reaper.pc = "take" /\ reaper.reason = "idle"

\* It was already, or the probe has just seen no pin.
TakeStep == Taking' => Taking \/ (UNCHANGED handle /\ ~handle.pinned)

LEMMA TakeMoves == TypeOK /\ [Next]_vars => TakeStep
<1> SUFFICES ASSUME TypeOK, [Next]_vars PROVE TakeStep
  OBVIOUS
<1>0. reaper \in ReaperRec
  BY DEF TypeOK
<1>1. ASSUME NEW a \in Actors, Guards(a) \/ Opens(a) PROVE UNCHANGED reaper
  BY <1>1 DEF Guards, EndCall, Leave, Discard, AllocateDatabase, Acquire, StartBackground,
              Opens, LeaseForOpen, StaleSettles, StaleRetires, LeaseGranted, LeaseFails,
              NextGeneration
<1>2. ASSUME NEW a \in Actors, Calls(a) PROVE UNCHANGED reaper
  BY <1>2 DEF Calls, Dispatch, Admit, NeverDispatched, CallSettles, CallRefused, CallRetires,
              ClearHandle, DebugStarts, DebugStops, SetDebugPin
<1>3. ASSUME NEW a \in Actors, Closes(a) \/ Drops(a) PROVE UNCHANGED reaper
  BY <1>3 DEF Closes, CloseIdb, CloseIfGeneration, ReleaseEnds, CloseRemoves, Drops, DropCall,
              DropShared, UnheardEnds
<1>4. CASE ReaperProbes
  <2>1. CASE reaper' = Asleep
    BY <2>1 DEF Asleep, Taking, TakeStep
  <2>2. CASE Reapable("terminal")
    BY <1>0, <2>2 DEF Reapable, ReaperRec, Taking, TakeStep
  <2>3. CASE ~handle.pinned /\ UNCHANGED handle
    BY <2>3 DEF TakeStep
  <2>4. CASE reaper' = [reaper EXCEPT !.pc = "retire", !.gen = handle.gen]
    BY <1>0, <2>4 DEF ReaperRec, Taking, TakeStep
  <2> QED BY <1>4, <2>1, <2>2, <2>3, <2>4 DEF ReaperProbes
<1>5. CASE ReaperCollects \/ ReaperRetires \/ ReaperTakes \/ ReaperCloses \/ ReaperReleases
  BY <1>0, <1>5 DEF ReaperCollects, ReaperRetires, Reapable, ReaperTakes, ReaperCloses,
     ReaperReleases, ReaperRec, Asleep,
                    Taking, TakeStep
<1>6. CASE \/ \E d \in detached : DetachedRuns(d)
           \/ \E g \in Gens : ProcessDies(g)
           \/ Expire \/ ShutdownRegistry \/ LegacyEnds \/ DropDatabase \/ UNCHANGED vars
  <2>1. UNCHANGED reaper
    BY <1>6 DEF DetachedRuns, ProcessDies, Expire, ShutdownRegistry, LegacyEnds, DropDatabase, vars
  <2> QED BY <2>1 DEF Taking, TakeStep
<1>7. UNCHANGED reaper => TakeStep
  BY DEF Taking, TakeStep
<1> QED BY <1>1, <1>2, <1>3, <1>4, <1>5, <1>6, <1>7 DEF Next, Reaper

\* A pin that the probe did not see belongs to a call that is still at work.
EvictionInv == Taking /\ expired /\ handle.pinned => InUse

\* I2: an entry with a debug pin is not evicted, although lease_reap_decision
\* reads the pin in an earlier step than take_expired_entries removes the entry,
\* as long as no idle timeout passes between the two.
THEOREM PinsAreRespected == SlowPass = FALSE /\ Spec => PinBlocksEviction
<1>0. SUFFICES ASSUME SlowPass = FALSE PROVE Spec => PinBlocksEviction
  OBVIOUS
<1>1. Init => EvictionInv
  BY DEF Init, EvictionInv
<1>2. TypeOK /\ UsersInv /\ EvictionInv /\ [Next]_vars => EvictionInv'
  <2> SUFFICES ASSUME TypeOK, UsersInv, EvictionInv, [Next]_vars,
                      Taking', expired', handle'.pinned
               PROVE  InUse'
    BY DEF EvictionInv
  <2>1. UserStep /\ TimeStep /\ PinStep /\ TakeStep
    BY UsersStep, TimeMoves, PinMoves, TakeMoves
  <2>2. CASE \E a \in Actors : SetDebugPin(a) /\ At(a, "pin")
    <3>1. PICK a \in Actors : At(a, "pin")
      BY <2>2
    <3>2. Uses(a)
      BY <3>1 DEF Uses, At, UsersInv, UserInv
    <3> QED BY <2>1, <3>2, InUseIsUses, InUseStays
  <2>3. CASE UNCHANGED handle
    <3>1. Taking
      BY <2>1, <2>3 DEF TakeStep
    <3>2. expired
      BY <1>0, <2>1, <3>1 DEF TimeStep, Expire, Taking
    <3> QED BY <2>1, <2>3, <3>1, <3>2, InUseStays DEF EvictionInv
  <2> QED BY <2>1, <2>2, <2>3 DEF PinStep
<1>3. TypeOK /\ EvictionInv /\ [Next]_vars => [Evicts => ~handle.pinned]_vars
  <2> SUFFICES ASSUME TypeOK, EvictionInv, [Next]_vars, Evicts PROVE ~handle.pinned
    OBVIOUS
  <2>1. StillReapable /\ Taking
    BY EvictionIsTaken DEF Evicts, Taking
  <2> QED BY <2>1, UnguardedIsNotInUse DEF StillReapable, EvictionInv, Taking
<1> QED BY <1>1, <1>2, <1>3, WorkspaceTypeCorrect, UsersHold, PTL DEF Spec, PinBlocksEviction

=============================================================================
