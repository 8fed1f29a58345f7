-------------------------- MODULE WorkerPoolProofs --------------------------
(* Theorems about WorkerPool, for every value of its constants: invariants,*)
(* and that it implements LeaseService.                                    *)
EXTENDS WorkerPool, FiniteSetTheorems, TLAPS

\* A running future works on a handle that was handed out; a lease request
\* that was not answered yet carries a lease id.
HandleBound ==
    /\ \A f \in Futures : future[f].pc # "none" =>
          [worker |-> future[f].worker, lease |-> future[f].lease] \in handles
    /\ \A c \in Clients : request[c].pc # "none" => request[c].lease \in Leases
    /\ \A c \in Clients : request[c].pc = "start" => request[c].worker \in Ids
    /\ guards \subseteq handles

TypeInv == TypeOK /\ HandleBound

\* Three abbreviations every proof below may expand.
USE DEF LeaseId, SpawnGuard, Unreserve

\* The initial records, and what a slot may become, have their types.
LEMMA RecordTypes ==
  /\ NoStartup \in StartupRec /\ NoStartup.pc = "none"
  /\ NoRequest \in RequestRec /\ NoRequest.pc = "none"
  /\ NoFuture \in FutureRec /\ NoFuture.pc = "none"
  /\ NoRetire \in RetireRec
  /\ Child("absent", NoLease) \in ChildRec
  /\ Child("idle", NoLease) \in ChildRec
  /\ Child("dead", NoLease) \in ChildRec
  /\ \A l \in Leases : Child("leased", l) \in ChildRec /\ Child("closing", l) \in ChildRec
  BY DEF NoStartup, NoRequest, NoFuture, NoRetire, StartupRec, RequestRec, FutureRec, RetireRec,
         Carriers, Child, ChildRec

\* The wake-up of waiting lease requests keeps their type and their lease.
LEMMA NotifiedType ==
  ASSUME NEW req \in [Clients -> RequestRec]
  PROVE  /\ Notified(req) \in [Clients -> RequestRec]
         /\ \A c \in Clients : /\ Notified(req)[c].lease = req[c].lease
                               /\ Notified(req)[c].worker = req[c].worker
                               /\ Notified(req)[c].pc = "none" <=> req[c].pc = "none"
                               /\ Notified(req)[c].pc # "wait"
                               /\ Notified(req)[c].pc = "start" <=> req[c].pc = "start"
  BY DEF Notified, RequestRec

LEMMA AfterStartupType ==
  ASSUME TypeOK, NEW id \in Ids
  PROVE  /\ RequestsAfterStartup(id) \in [Clients -> RequestRec]
         /\ \A c \in Clients :
              \/ request[c].worker = id /\ RequestsAfterStartup(id)[c] = NoRequest
              \/ request[c].worker # id /\ RequestsAfterStartup(id)[c] = request[c]
  BY RecordTypes DEF TypeOK, RequestsAfterStartup

LEMMA TypeInit == Init => TypeInv
<1> SUFFICES ASSUME Init PROVE TypeInv
  OBVIOUS
<1>1. HandleBound
  BY DEF Init, HandleBound, NoRequest, NoFuture
<1>2. draining \in BOOLEAN /\ shuttingDown \in BOOLEAN /\ reapTimer \in [Ids -> BOOLEAN]
  BY Zenon DEF Init
<1>3. /\ startup \in [Ids -> StartupRec]
      /\ request \in [Clients -> RequestRec]
      /\ future \in [Futures -> FutureRec]
      /\ retire \in [Ids -> RetireRec]
      /\ child \in [Ids -> ChildRec]
      /\ process \in [Ids -> {"none", "up", "gone"}]
      /\ sweep \in [phase : {"none", "marking", "done"}, slots : SUBSET Ids]
      /\ abandoned \in [Ids -> SUBSET Leases]
  BY RecordTypes DEF Init
<1>4. /\ nextId \in 0..MaxIds /\ nextLease \in 0..MaxLeases /\ warm \in 0..MinWorkers
      /\ children \subseteq Ids /\ spawning \subseteq Ids
      /\ handles \subseteq Handle /\ guards \subseteq Handle
  BY PoolAssumption DEF Init
<1> QED BY <1>1, <1>2, <1>3, <1>4 DEF TypeInv, TypeOK

\* What a reservation does to the variables it changes.
LEMMA ReserveType ==
  ASSUME TypeOK, NEW l \in Leases \cup {NoLease}, ReserveSpawnSlot(l)
  PROVE  /\ nextId \in Ids
         /\ nextId' \in 0..MaxIds
         /\ spawning' \subseteq Ids
         /\ startup' \in [Ids -> StartupRec]
<1>1. nextId \in Ids /\ nextId' \in 0..MaxIds
  BY PoolAssumption DEF ReserveSpawnSlot, TypeOK, Ids
<1>2. [pc |-> "spawn", lease |-> l] \in StartupRec
  BY DEF StartupRec
<1> QED BY <1>1, <1>2 DEF ReserveSpawnSlot, TypeOK

\* The ids schedule_replenishment reserves are the next ones, and they fill
\* the pool to its minimum at most.
LEMMA ReplacementIds ==
  ASSUME TypeOK
  PROVE  /\ IsFiniteSet(Replacements)
         /\ Cardinality(Replacements) \in Nat
         /\ nextId + Cardinality(Replacements) \in 0..MaxIds
         /\ \A id \in Ids : id \in Replacements <=>
               nextId <= id /\ id < nextId + Cardinality(Replacements)
         /\ Cardinality(Replacements) = 0 \/ Cardinality(Replacements) <= Missing
<1>0. IsFiniteSet(children) /\ IsFiniteSet(spawning)
  <2>1. IsFiniteSet(Ids)
    BY FS_Interval, PoolAssumption DEF Ids
  <2> QED BY <2>1, FS_Subset DEF TypeOK
<1>1. Missing \in Int /\ nextId \in Nat /\ nextId <= MaxIds /\ MaxIds \in Nat
  BY <1>0, FS_CardinalityType, PoolAssumption DEF Missing, TypeOK
<1>2. CASE shuttingDown \/ Missing <= 0
  <2>1. Replacements = {}
    BY <1>1, <1>2 DEF Replacements, Ids
  <2>2. Cardinality(Replacements) = 0 /\ IsFiniteSet(Replacements)
    BY <2>1, FS_EmptySet
  <2> QED BY <1>1, <2>1, <2>2 DEF Ids
<1>3. CASE ~shuttingDown /\ Missing > 0
  <2> DEFINE last == IF nextId + Missing <= MaxIds THEN nextId + Missing - 1 ELSE MaxIds - 1
  <2>1. Replacements = nextId .. last
    BY <1>1, <1>3 DEF Replacements, Ids
  <2>2. last \in Int /\ nextId <= last + 1 /\ last < MaxIds /\ last - nextId + 1 <= Missing
    BY <1>1, <1>3
  <2> HIDE DEF last
  <2>3. IsFiniteSet(nextId .. last) /\ Cardinality(nextId .. last) = last - nextId + 1
    BY <1>1, <2>2, FS_Interval
  <2>4. nextId + Cardinality(Replacements) = last + 1
    BY <1>1, <2>1, <2>2, <2>3
  <2> QED BY <1>1, <2>1, <2>2, <2>3, <2>4 DEF Ids
<1> QED BY <1>1, <1>2, <1>3

\* The handle a running future works on.
LEMMA FutureHandle ==
  ASSUME TypeInv, NEW f \in Futures, future[f].pc # "none"
  PROVE  future[f].worker \in Ids /\ future[f].lease \in Leases
  BY DEF TypeInv, TypeOK, HandleBound, Handle

LEMMA TakeType ==
  ASSUME TypeOK, NEW w \in Ids, NEW by \in Futures \cup Carriers, TakeDeadWorker(w, by)
  PROVE  child' \in [Ids -> ChildRec] /\ retire' \in [Ids -> RetireRec]
<1>1. [pc |-> "taken", by |-> by] \in RetireRec
  BY DEF RetireRec
<1> QED BY <1>1, RecordTypes DEF TakeDeadWorker, TypeOK

LEMMA RetireInlineType ==
  ASSUME TypeInv, NEW f \in Futures, future[f].pc # "none", RetireInline(f),
         UNCHANGED <<poolVars, process, reapTimer, abandoned, startup, request, handles, guards>>
  PROVE  TypeInv'
<1>1. future[f].worker \in Ids
  BY FutureHandle
<1>2. child' \in [Ids -> ChildRec] /\ retire' \in [Ids -> RetireRec]
  BY <1>1, TakeType DEF RetireInline, TypeInv, TypeOK
<1>3. future' \in [Futures -> FutureRec]
  BY RecordTypes DEF RetireInline, End, TypeInv, TypeOK, FutureRec
<1>4. TypeOK'
  BY <1>2, <1>3 DEF TypeInv, TypeOK, poolVars
<1>5. \A g \in Futures : future'[g].pc # "none" =>
         future[g].pc # "none" /\ future'[g].worker = future[g].worker
           /\ future'[g].lease = future[g].lease
  BY RecordTypes DEF RetireInline, End, TypeInv, TypeOK, FutureRec
<1> QED BY <1>4, <1>5 DEF TypeInv, HandleBound

LEMMA UpdateType ==
  ASSUME TypeOK, NEW id \in Ids
  PROVE  /\ [startup EXCEPT ![id].pc = "cleanup"] \in [Ids -> StartupRec]
         /\ [startup EXCEPT ![id].pc = "discard"] \in [Ids -> StartupRec]
         /\ [retire EXCEPT ![id].pc = "done"] \in [Ids -> RetireRec]
         /\ [retire EXCEPT ![id] = [pc |-> "taken", by |-> "startup"]] \in [Ids -> RetireRec]
<1>1. [startup EXCEPT ![id].pc = "cleanup"] \in [Ids -> StartupRec]
  BY DEF TypeOK, StartupRec
<1>2. [startup EXCEPT ![id].pc = "discard"] \in [Ids -> StartupRec]
  BY DEF TypeOK, StartupRec
<1>3. [retire EXCEPT ![id].pc = "done"] \in [Ids -> RetireRec]
  BY DEF TypeOK, RetireRec
<1>4. [pc |-> "taken", by |-> "startup"] \in RetireRec
  BY DEF RetireRec, Carriers
<1> QED BY <1>1, <1>2, <1>3, <1>4 DEF TypeOK

LEMMA StartupsType == ASSUME TypeInv, Startups PROVE TypeInv'
<1> USE DEF TypeInv
<1>1. ASSUME WarmMin PROVE TypeInv'
  <2>1. TypeOK'
    BY <1>1, ReserveType DEF WarmMin, TypeOK, slotVars
  <2> QED BY <1>1, <2>1 DEF WarmMin, HandleBound
<1>2. ASSUME NEW id \in Ids, SpawnSlot(id) PROVE TypeInv'
  <2>1. startup' \in [Ids -> StartupRec]
    BY <1>2 DEF SpawnSlot, TypeOK, StartupRec
  <2>2. startup[id].lease \in Leases \cup {NoLease}
    BY DEF TypeOK, StartupRec
  <2>3. child' \in [Ids -> ChildRec]
    BY <1>2, <2>2, RecordTypes DEF SpawnSlot, TypeOK
  <2>4. TypeOK'
    BY <1>2, <2>1, <2>3 DEF SpawnSlot, TypeOK, poolVars
  <2> QED BY <1>2, <2>4 DEF SpawnSlot, HandleBound
<1>3. ASSUME NEW id \in Ids, SpawnFails(id) PROVE TypeInv'
  <2>1. startup' \in [Ids -> StartupRec]
    BY <1>3 DEF SpawnFails, TypeOK, StartupRec
  <2>2. TypeOK'
    BY <1>3, <2>1 DEF SpawnFails, TypeOK, poolVars, slotVars
  <2> QED BY <1>3, <2>2 DEF SpawnFails, HandleBound
<1>4. ASSUME NEW id \in Ids, InstallSlot(id) PROVE TypeInv'
  <2>1. request' = Notified(RequestsAfterStartup(id))
    BY <1>4 DEF InstallSlot
  <2>2. startup' \in [Ids -> StartupRec]
    BY <1>4, RecordTypes DEF InstallSlot, TypeOK
  <2>3. handles' \subseteq Handle /\ handles \subseteq handles'
    BY <1>4 DEF InstallSlot, TypeOK, StartupRec, Handle
  <2>4. warm' \in 0..MinWorkers
    BY <1>4, PoolAssumption DEF InstallSlot, TypeOK
  <2>5. TypeOK'
    BY <1>4, <2>1, <2>2, <2>3, <2>4, AfterStartupType, NotifiedType
    DEF InstallSlot, TypeOK, slotVars
  <2>6. \A c \in Clients : request'[c].pc # "none" => request'[c].lease \in Leases
    BY <2>1, AfterStartupType, NotifiedType, RecordTypes DEF HandleBound
  <2>7. \A c \in Clients : request'[c].pc = "start" => request'[c].worker \in Ids
    BY <2>1, AfterStartupType, NotifiedType, RecordTypes DEF HandleBound
  <2> QED BY <1>4, <2>3, <2>5, <2>6, <2>7 DEF InstallSlot, HandleBound
<1>5. ASSUME NEW id \in Ids, DiscardAtShutdown(id) PROVE TypeInv'
  <2>1. startup' \in [Ids -> StartupRec] /\ retire' \in [Ids -> RetireRec]
    BY <1>5 DEF DiscardAtShutdown, DiscardUninstalledSlot, TypeOK, StartupRec, RetireRec, Carriers
  <2>2. TypeOK'
    BY <1>5, <2>1, RecordTypes DEF DiscardAtShutdown, DiscardUninstalledSlot, TypeOK, poolVars
  <2> QED BY <1>5, <2>2 DEF DiscardAtShutdown, HandleBound
<1>6. ASSUME NEW id \in Ids, ReleaseReservation(id) PROVE TypeInv'
  <2>1. request' = Notified(RequestsAfterStartup(id))
    BY <1>6 DEF ReleaseReservation
  <2>2. startup' \in [Ids -> StartupRec]
    BY <1>6, RecordTypes DEF ReleaseReservation, TypeOK
  <2>3. draining' \in BOOLEAN /\ shuttingDown' \in BOOLEAN
    BY <1>6, Zenon DEF ReleaseReservation
  <2>4. TypeOK'
    BY <1>6, <2>1, <2>2, <2>3, AfterStartupType, NotifiedType
    DEF ReleaseReservation, TypeOK, slotVars
  <2>5. \A c \in Clients : request'[c].pc # "none" => request'[c].lease \in Leases
    BY <2>1, AfterStartupType, NotifiedType, RecordTypes DEF HandleBound
  <2>6. \A c \in Clients : request'[c].pc = "start" => request'[c].worker \in Ids
    BY <2>1, AfterStartupType, NotifiedType, RecordTypes DEF HandleBound
  <2> QED BY <1>6, <2>4, <2>5, <2>6 DEF ReleaseReservation, HandleBound
<1> QED BY <1>1, <1>2, <1>3, <1>4, <1>5, <1>6 DEF Startups

LEMMA LeaseRequestsType == ASSUME TypeInv, LeaseRequests PROVE TypeInv'
<1> USE DEF TypeInv
<1>1. ASSUME NEW c \in Clients, RequestLease(c) PROVE TypeInv'
  <2>1. nextLease' \in 0..MaxLeases /\ nextLease' \in Leases
    BY <1>1, PoolAssumption DEF RequestLease, TypeOK, Leases
  <2>2. request' \in [Clients -> RequestRec]
    BY <1>1, <2>1 DEF RequestLease, TypeOK, RequestRec
  <2>3. TypeOK'
    BY <1>1, <2>1, <2>2 DEF RequestLease, TypeOK, slotVars
  <2> QED BY <1>1, <2>1, <2>3 DEF RequestLease, HandleBound, TypeOK
<1>2. ASSUME NEW c \in Clients, NEW w \in Ids, LeaseIdle(c, w) PROVE TypeInv'
  <2>1. request[c].lease \in Leases
    BY <1>2 DEF LeaseIdle, HandleBound
  <2>2. handles' \subseteq Handle /\ handles \subseteq handles'
    BY <1>2, <2>1 DEF LeaseIdle, TypeOK, Handle
  <2>3. reapTimer' \in [Ids -> BOOLEAN]
    BY <1>2 DEF LeaseIdle, TypeOK
  <2>4. TypeOK'
    BY <1>2, <2>1, <2>2, <2>3, RecordTypes DEF LeaseIdle, TypeOK, poolVars
  <2> QED BY <1>2, <2>2, <2>4, RecordTypes DEF LeaseIdle, HandleBound, TypeOK
<1>3. ASSUME NEW c \in Clients, LeaseNew(c) PROVE TypeInv'
  <2>1. request[c].lease \in Leases
    BY <1>3 DEF LeaseNew, HandleBound
  <2>2. nextId \in Ids /\ nextId' \in 0..MaxIds /\ spawning' \subseteq Ids
        /\ startup' \in [Ids -> StartupRec]
    BY <1>3, <2>1, ReserveType DEF LeaseNew
  <2>3. request' \in [Clients -> RequestRec]
    BY <1>3, <2>2 DEF LeaseNew, TypeOK, RequestRec
  <2>4. TypeOK'
    BY <1>3, <2>2, <2>3 DEF LeaseNew, Live, TypeOK, slotVars
  <2>5. /\ \A d \in Clients : request'[d].pc # "none" => request'[d].lease \in Leases
        /\ \A d \in Clients : request'[d].pc = "start" => request'[d].worker \in Ids
    BY <1>3, <2>1, <2>2 DEF LeaseNew, HandleBound, TypeOK, RequestRec
  <2> QED BY <1>3, <2>4, <2>5 DEF LeaseNew, HandleBound
<1>4. ASSUME NEW c \in Clients, LeaseWaitsOrFails(c) PROVE TypeInv'
  <2>1. request' \in [Clients -> RequestRec]
    BY <1>4, RecordTypes DEF LeaseWaitsOrFails, TypeOK, RequestRec
  <2>2. TypeOK'
    BY <1>4, <2>1 DEF LeaseWaitsOrFails, Live, TypeOK, slotVars
  <2>3. /\ \A d \in Clients : request'[d].pc # "none" => request'[d].lease \in Leases
        /\ \A d \in Clients : request'[d].pc = "start" => request'[d].worker \in Ids
    BY <1>4, RecordTypes DEF LeaseWaitsOrFails, HandleBound, TypeOK, RequestRec
  <2> QED BY <1>4, <2>2, <2>3 DEF LeaseWaitsOrFails, HandleBound
<1>5. ASSUME NEW c \in Clients, LeaseRefused(c) \/ LeaseEnds(c) PROVE TypeInv'
  <2>1. TypeOK'
    BY <1>5, RecordTypes DEF LeaseRefused, LeaseEnds, TypeOK, poolVars, slotVars
  <2> QED BY <1>5, <2>1, RecordTypes DEF LeaseRefused, LeaseEnds, HandleBound, TypeOK
<1>6. ASSUME NEW c \in Clients, LeaseEndsInStartup(c) PROVE TypeInv'
  <2>1. request[c].worker \in Ids
    BY <1>6 DEF LeaseEndsInStartup, HandleBound
  <2>2. startup' \in [Ids -> StartupRec] /\ retire' \in [Ids -> RetireRec]
    <3> DEFINE id == request[c].worker
    <3>1. CASE startup' = [startup EXCEPT ![id].pc = "cleanup"] /\ UNCHANGED retire
      BY <2>1, <3>1, UpdateType DEF TypeOK
    <3>2. CASE DiscardUninstalledSlot(id)
      BY <2>1, <3>2, UpdateType DEF DiscardUninstalledSlot
    <3>3. CASE startup' = [startup EXCEPT ![id].pc = "cleanup"]
               /\ retire' = [retire EXCEPT ![id].pc = "done"]
      BY <2>1, <3>3, UpdateType
    <3>4. CASE UNCHANGED <<startup, retire>>
      BY <3>4 DEF TypeOK
    <3> QED BY <1>6, <3>1, <3>2, <3>3, <3>4 DEF LeaseEndsInStartup, AbandonStartup
  <2>3. child' \in [Ids -> ChildRec] /\ process' \in [Ids -> {"none", "up", "gone"}]
    BY <1>6, <2>1, RecordTypes DEF LeaseEndsInStartup, AbandonStartup, DiscardUninstalledSlot, TypeOK
  <2>4. TypeOK'
    BY <1>6, <2>2, <2>3, RecordTypes DEF LeaseEndsInStartup, TypeOK, poolVars
  <2> QED BY <1>6, <2>4, RecordTypes DEF LeaseEndsInStartup, HandleBound, TypeOK
<1> QED BY <1>1, <1>2, <1>3, <1>4, <1>5, <1>6 DEF LeaseRequests

LEMMA CallsType == ASSUME TypeInv, Calls PROVE TypeInv'
<1> USE DEF TypeInv
<1>1. ASSUME NEW f \in Futures, NEW h \in handles, CallTool(f, h) \/ Reopen(f, h) PROVE TypeInv'
  <2>1. future' \in [Futures -> FutureRec]
    BY <1>1 DEF CallTool, Reopen, Begin, TypeOK, FutureRec, Handle
  <2>2. TypeOK'
    BY <1>1, <2>1 DEF CallTool, Reopen, TypeOK, poolVars, slotVars
  <2>3. h = [worker |-> h.worker, lease |-> h.lease]
    BY DEF TypeOK, Handle
  <2> QED BY <1>1, <2>2, <2>3 DEF CallTool, Reopen, Begin, HandleBound, TypeOK
<1>2. ASSUME NEW f \in Futures, AdmitCall(f) PROVE TypeInv'
  <2>1. future' \in [Futures -> FutureRec]
    BY <1>2, RecordTypes DEF AdmitCall, End, TypeOK, FutureRec
  <2>2. TypeOK'
    BY <1>2, <2>1 DEF AdmitCall, TypeOK, poolVars, slotVars
  <2>3. \A g \in Futures : future'[g].pc # "none" =>
           future[g].pc # "none" /\ future'[g].worker = future[g].worker
             /\ future'[g].lease = future[g].lease
    BY <1>2, RecordTypes DEF AdmitCall, End, TypeOK, FutureRec
  <2> QED BY <1>2, <2>2, <2>3 DEF AdmitCall, HandleBound
<1>3. ASSUME NEW f \in Futures, CallNeverDispatched(f) \/ CallSettles(f) PROVE TypeInv'
  <2>1. TypeOK'
    BY <1>3, RecordTypes DEF CallNeverDispatched, CallSettles, End, TypeOK, poolVars, slotVars
  <2> QED BY <1>3, <2>1, RecordTypes DEF CallNeverDispatched, CallSettles, End, HandleBound, TypeOK
<1>4. ASSUME NEW f \in Futures, CallRetires(f) \/ ReopenRetires(f) PROVE TypeInv'
  BY <1>4, RetireInlineType DEF CallRetires, ReopenRetires
<1>5. ASSUME NEW f \in Futures, ReopenTakes(f) PROVE TypeInv'
  <2>1. future' \in [Futures -> FutureRec]
    BY <1>5 DEF ReopenTakes, TypeOK, FutureRec
  <2>2. TypeOK'
    BY <1>5, <2>1 DEF ReopenTakes, TypeOK, poolVars, slotVars
  <2>3. \A g \in Futures : future'[g].pc # "none" =>
           future[g].pc # "none" /\ future'[g].worker = future[g].worker
             /\ future'[g].lease = future[g].lease
    BY <1>5 DEF ReopenTakes, TypeOK, FutureRec
  <2> QED BY <1>5, <2>2, <2>3 DEF ReopenTakes, HandleBound
<1> QED BY <1>1, <1>2, <1>3, <1>4, <1>5 DEF Calls

LEMMA ReleasesType == ASSUME TypeInv, Releases PROVE TypeInv'
<1> USE DEF TypeInv
<1>1. ASSUME NEW f \in Futures, NEW h \in handles, Release(f, h) PROVE TypeInv'
  <2>1. future' \in [Futures -> FutureRec]
    BY <1>1 DEF Release, Begin, TypeOK, FutureRec, Handle
  <2>2. TypeOK'
    BY <1>1, <2>1 DEF Release, TypeOK, poolVars, slotVars
  <2>3. h = [worker |-> h.worker, lease |-> h.lease]
    BY DEF TypeOK, Handle
  <2> QED BY <1>1, <2>2, <2>3 DEF Release, Begin, HandleBound, TypeOK
<1>2. ASSUME NEW f \in Futures, ReleaseLocks(f) PROVE TypeInv'
  <2>1. future[f].worker \in Ids /\ future[f].lease \in Leases
    BY <1>2, FutureHandle DEF ReleaseLocks
  <2>2. future' \in [Futures -> FutureRec]
    BY <1>2 DEF ReleaseLocks, TypeOK, FutureRec
  <2>3. child' \in [Ids -> ChildRec]
    BY <1>2, <2>1, RecordTypes DEF ReleaseLocks, TypeOK
  <2>4. TypeOK'
    BY <1>2, <2>2, <2>3 DEF ReleaseLocks, TypeOK, poolVars
  <2>5. \A g \in Futures : future'[g].pc # "none" =>
           future[g].pc # "none" /\ future'[g].worker = future[g].worker
             /\ future'[g].lease = future[g].lease
    BY <1>2 DEF ReleaseLocks, TypeOK, FutureRec
  <2> QED BY <1>2, <2>4, <2>5 DEF ReleaseLocks, HandleBound
<1>3. ASSUME NEW f \in Futures, ReleaseCloses(f) PROVE TypeInv'
  <2>1. future[f].worker \in Ids /\ future[f].lease \in Leases
    BY <1>3, FutureHandle DEF ReleaseCloses
  <2>2. future' \in [Futures -> FutureRec]
    <3>1. future' = [future EXCEPT ![f].pc = "released"]
      BY <1>3 DEF ReleaseCloses
    <3> QED BY <3>1 DEF TypeOK, FutureRec
  <2>3. child' \in [Ids -> ChildRec]
    BY <1>3, <2>1, RecordTypes DEF ReleaseCloses, TypeOK
  <2>4. request' \in [Clients -> RequestRec]
    BY <1>3, NotifiedType DEF ReleaseCloses, TypeOK
  <2>5. TypeOK'
    BY <1>3, <2>2, <2>3, <2>4 DEF ReleaseCloses, TypeOK, poolVars
  <2>6. /\ \A d \in Clients : request'[d].pc # "none" => request'[d].lease \in Leases
        /\ \A d \in Clients : request'[d].pc = "start" => request'[d].worker \in Ids
    BY <1>3, NotifiedType DEF ReleaseCloses, HandleBound, TypeOK
  <2> QED BY <1>3, <2>5, <2>6 DEF ReleaseCloses, HandleBound, TypeOK, FutureRec
<1>4. ASSUME NEW f \in Futures, ReleaseRetires(f) PROVE TypeInv'
  BY <1>4, RetireInlineType DEF ReleaseRetires
<1>5. ASSUME NEW f \in Futures, ScheduleIdleReap(f) PROVE TypeInv'
  <2>1. reapTimer' \in [Ids -> BOOLEAN]
    BY <1>5 DEF ScheduleIdleReap, TypeOK
  <2>2. TypeOK'
    BY <1>5, <2>1, RecordTypes DEF ScheduleIdleReap, End, TypeOK, poolVars
  <2> QED BY <1>5, <2>2, RecordTypes DEF ScheduleIdleReap, End, HandleBound, TypeOK
<1> QED BY <1>1, <1>2, <1>3, <1>4, <1>5 DEF Releases

LEMMA DropsType == ASSUME TypeInv, Drops PROVE TypeInv'
<1> USE DEF TypeInv
<1>1. ASSUME NEW f \in Futures, DropUnarmed(f) PROVE TypeInv'
  <2>1. TypeOK'
    BY <1>1, RecordTypes DEF DropUnarmed, End, TypeOK, poolVars, slotVars
  <2> QED BY <1>1, <2>1, RecordTypes DEF DropUnarmed, End, HandleBound, TypeOK
<1>2. ASSUME NEW f \in Futures, DropArmed(f) PROVE TypeInv'
  <2>1. future[f].worker \in Ids /\ future[f].lease \in Leases
    BY <1>2, FutureHandle DEF DropArmed
  <2>2. guards' \subseteq Handle /\ abandoned' \in [Ids -> SUBSET Leases]
    BY <1>2, <2>1 DEF DropArmed, TypeOK, Handle
  <2>3. TypeOK'
    BY <1>2, <2>2, RecordTypes DEF DropArmed, End, TypeOK, poolVars
  <2>4. guards' \subseteq handles'
    BY <1>2 DEF DropArmed, HandleBound
  <2> QED BY <1>2, <2>3, <2>4, RecordTypes DEF DropArmed, End, HandleBound, TypeOK
<1>3. ASSUME NEW f \in Futures, DropRetiring(f) PROVE TypeInv'
  <2>1. future[f].worker \in Ids /\ future[f].lease \in Leases
    BY <1>3, FutureHandle DEF DropRetiring
  <2>2. guards' \subseteq Handle /\ abandoned' \in [Ids -> SUBSET Leases]
    BY <1>3, <2>1 DEF DropRetiring, TypeOK, Handle
  <2>3. retire' \in [Ids -> RetireRec]
    BY <1>3, <2>1 DEF DropRetiring, TypeOK, RetireRec
  <2>4. TypeOK'
    BY <1>3, <2>2, <2>3, RecordTypes DEF DropRetiring, End, TypeOK, poolVars
  <2>5. guards' \subseteq handles'
    BY <1>3 DEF DropRetiring, HandleBound
  <2> QED BY <1>3, <2>4, <2>5, RecordTypes DEF DropRetiring, End, HandleBound, TypeOK
<1> QED BY <1>1, <1>2, <1>3 DEF Drops

LEMMA RetirementsType == ASSUME TypeInv, Retirements PROVE TypeInv'
<1> USE DEF TypeInv
<1>1. ASSUME NEW w \in Ids, ForgetSlot(w) PROVE TypeInv'
  <2>1. retire' \in [Ids -> RetireRec]
    BY <1>1 DEF ForgetSlot, TypeOK, RetireRec
  <2>2. TypeOK'
    BY <1>1, <2>1, NotifiedType DEF ForgetSlot, TypeOK
  <2>3. /\ \A d \in Clients : request'[d].pc # "none" => request'[d].lease \in Leases
        /\ \A d \in Clients : request'[d].pc = "start" => request'[d].worker \in Ids
    BY <1>1, NotifiedType DEF ForgetSlot, HandleBound, TypeOK
  <2> QED BY <1>1, <2>2, <2>3 DEF ForgetSlot, HandleBound
<1>2. ASSUME NEW w \in Ids, FinishDeadWorker(w) PROVE TypeInv'
  <2>1. retire' \in [Ids -> RetireRec]
    BY <1>2 DEF FinishDeadWorker, TypeOK, RetireRec
  <2>2. TypeOK'
    BY <1>2, <2>1 DEF FinishDeadWorker, TypeOK, poolVars, taskVars
  <2> QED BY <1>2, <2>2 DEF FinishDeadWorker, HandleBound, taskVars
<1>4. ASSUME NEW w \in Ids, Replenish(w) PROVE TypeInv'
  <2>1. retire' \in [Ids -> RetireRec]
    BY <1>4 DEF Replenish, TypeOK, RetireRec
  <2>2. future' \in [Futures -> FutureRec]
    BY <1>4, RecordTypes DEF Replenish, FuturesAfterRetire, TypeOK
  <2>3. nextId' \in 0..MaxIds
    BY <1>4, ReplacementIds DEF Replenish
  <2>4. [pc |-> "spawn", lease |-> NoLease] \in StartupRec
    BY DEF StartupRec
  <2>5. startup' \in [Ids -> StartupRec]
    BY <1>4, <2>4 DEF Replenish, TypeOK
  <2>6. spawning' \subseteq Ids
    BY <1>4 DEF Replenish, Replacements, TypeOK
  <2>7. TypeOK'
    BY <1>4, <2>1, <2>2, <2>3, <2>5, <2>6 DEF Replenish, TypeOK
  <2> QED BY <1>4, <2>7, RecordTypes DEF Replenish, FuturesAfterRetire, HandleBound
<1>5. ASSUME NEW w \in Ids, NEW by \in Futures \cup Carriers, TakeDeadWorker(w, by)
      PROVE  child' \in [Ids -> ChildRec] /\ retire' \in [Ids -> RetireRec]
  BY <1>5, TakeType
<1>6. ASSUME NEW w \in Ids, IdleReap(w) PROVE TypeInv'
  <2>1. child' \in [Ids -> ChildRec] /\ retire' \in [Ids -> RetireRec]
    BY <1>6, <1>5 DEF IdleReap, TypeOK, Carriers
  <2>2. reapTimer' \in [Ids -> BOOLEAN]
    BY <1>6 DEF IdleReap, TypeOK
  <2>3. TypeOK'
    BY <1>6, <2>1, <2>2 DEF IdleReap, TypeOK, poolVars, taskVars
  <2> QED BY <1>6, <2>3 DEF IdleReap, HandleBound, taskVars
<1>7. ASSUME NEW w \in Ids, ProbeMarksDead(w) PROVE TypeInv'
  <2>1. child' \in [Ids -> ChildRec] /\ retire' \in [Ids -> RetireRec]
    BY <1>7, <1>5 DEF ProbeMarksDead, Carriers
  <2>2. TypeOK'
    BY <1>7, <2>1 DEF ProbeMarksDead, TypeOK, poolVars, taskVars
  <2> QED BY <1>7, <2>2 DEF ProbeMarksDead, HandleBound, taskVars
<1>7a. ASSUME NEW w \in Ids, ProbeForgetsDead(w) PROVE TypeInv'
  <2>1. request' \in [Clients -> RequestRec] /\ children' \subseteq Ids
    BY <1>7a, NotifiedType DEF ProbeForgetsDead, TypeOK
  <2>2. TypeOK'
    BY <1>7a, <2>1 DEF ProbeForgetsDead, TypeOK, slotVars
  <2>3. /\ \A d \in Clients : request'[d].pc # "none" => request'[d].lease \in Leases
        /\ \A d \in Clients : request'[d].pc = "start" => request'[d].worker \in Ids
    BY <1>7a, NotifiedType DEF ProbeForgetsDead, HandleBound, TypeOK
  <2> QED BY <1>7a, <2>2, <2>3 DEF ProbeForgetsDead, HandleBound
<1>8. ASSUME NEW w \in Ids, ProcessDies(w) PROVE TypeInv'
  <2>1. TypeOK'
    BY <1>8 DEF ProcessDies, TypeOK, poolVars, taskVars
  <2> QED BY <1>8, <2>1 DEF ProcessDies, HandleBound, taskVars
<1>9. ASSUME NEW w \in Ids, NEW l \in Leases, AbandonedCallEnds(w, l) PROVE TypeInv'
  <2>1. TypeOK'
    BY <1>9 DEF AbandonedCallEnds, TypeOK, poolVars, taskVars
  <2> QED BY <1>9, <2>1 DEF AbandonedCallEnds, HandleBound, taskVars
<1>10. ASSUME NEW h \in guards, GuardRetires(h) PROVE TypeInv'
  <2>1. h.worker \in Ids
    BY DEF TypeOK, Handle
  <2>2. child' \in [Ids -> ChildRec] /\ retire' \in [Ids -> RetireRec]
    BY <1>10, <1>5, <2>1 DEF GuardRetires, TypeOK, Carriers
  <2>3. TypeOK'
    BY <1>10, <2>2 DEF GuardRetires, TypeOK, poolVars
  <2> QED BY <1>10, <2>3 DEF GuardRetires, HandleBound
<1> QED BY <1>1, <1>2, <1>4, <1>6, <1>7, <1>7a, <1>8, <1>9, <1>10 DEF Retirements

LEMMA ShutdownType == ASSUME TypeInv, Shutdown PROVE TypeInv'
<1> USE DEF TypeInv
<1>1. ASSUME BeginDrain \/ BeginShutdown PROVE TypeInv'
  <2>1. draining' \in BOOLEAN /\ shuttingDown' \in BOOLEAN
    BY <1>1, Zenon DEF BeginDrain, BeginShutdown, TypeOK
  <2>2. TypeOK'
    BY <1>1, <2>1 DEF BeginDrain, BeginShutdown, TypeOK, slotVars, taskVars
  <2> QED BY <1>1, <2>2 DEF BeginDrain, BeginShutdown, HandleBound, taskVars
<1>2. ASSUME SweepBegins \/ SweepEnds PROVE TypeInv'
  <2>1. sweep' \in [phase : {"none", "marking", "done"}, slots : SUBSET Ids]
    BY <1>2 DEF SweepBegins, SweepEnds, TypeOK
  <2>2. TypeOK'
    BY <1>2, <2>1 DEF SweepBegins, SweepEnds, TypeOK, slotVars, taskVars
  <2> QED BY <1>2, <2>2 DEF SweepBegins, SweepEnds, HandleBound, taskVars
<1>3. ASSUME NEW w \in Ids, SweepMarks(w) PROVE TypeInv'
  <2>1. sweep' \in [phase : {"none", "marking", "done"}, slots : SUBSET Ids]
    BY <1>3 DEF SweepMarks, TypeOK
  <2>2. child' \in [Ids -> ChildRec] /\ retire' \in [Ids -> RetireRec]
    BY <1>3, TakeType DEF SweepMarks, TypeOK, Carriers
  <2>3. request' \in [Clients -> RequestRec] /\ children' \subseteq Ids
    BY <1>3, NotifiedType DEF SweepMarks, TypeOK
  <2>4. TypeOK'
    BY <1>3, <2>1, <2>2, <2>3 DEF SweepMarks, TypeOK
  <2>5. /\ \A d \in Clients : request'[d].pc # "none" => request'[d].lease \in Leases
        /\ \A d \in Clients : request'[d].pc = "start" => request'[d].worker \in Ids
    BY <1>3, NotifiedType DEF SweepMarks, HandleBound, TypeOK
  <2> QED BY <1>3, <2>4, <2>5 DEF SweepMarks, HandleBound
<1> QED BY <1>1, <1>2, <1>3 DEF Shutdown

LEMMA TypeNext == TypeInv /\ [Next]_vars => TypeInv'
<1> SUFFICES ASSUME TypeInv, [Next]_vars PROVE TypeInv'
  OBVIOUS
<1>1. CASE UNCHANGED vars
  <2>1. TypeOK'
    BY <1>1 DEF TypeInv, TypeOK, vars, poolVars, slotVars, taskVars
  <2> QED BY <1>1, <2>1 DEF TypeInv, HandleBound, vars, taskVars
<1> QED BY <1>1, StartupsType, LeaseRequestsType, CallsType, ReleasesType, DropsType,
           RetirementsType, ShutdownType DEF Next

\* Every variable keeps its type, for any pool size, any number of clients
\* and any number of concurrent futures.
THEOREM TypeCorrect == Spec => []TypeOK
<1>1. Spec => []TypeInv
  BY TypeInit, TypeNext, PTL DEF Spec
<1>2. TypeInv => TypeOK
  BY DEF TypeInv
<1> QED BY <1>1, <1>2, PTL

-----------------------------------------------------------------------------
(* The inductive invariant.  SlotInv ties the reservation, the slot and its *)
(* state together; CallInv says what a future that holds a call lock may    *)
(* rely on.                                                                 *)

SlotOK(w) ==
    /\ w >= nextId => w \notin spawning \cup children /\ child[w].state = "absent"
    /\ ~(w \in spawning /\ w \in children)
    /\ w \in spawning <=> startup[w].pc # "none"
    /\ startup[w].pc = "spawn" => child[w].state = "absent"
    /\ startup[w].pc = "ready" =>
          child[w] = IF startup[w].lease = NoLease THEN Child("idle", NoLease)
                     ELSE Child("leased", startup[w].lease)
    /\ startup[w].pc = "discard" => child[w].state = "dead"
    /\ startup[w].pc = "cleanup" => child[w].state \in {"absent", "dead"}
    /\ w \notin spawning \cup children => child[w].state \in {"absent", "dead"}
    /\ w \in children => child[w].state # "absent"
    /\ retire[w].pc # "none" => child[w].state = "dead"
    /\ reapTimer[w] => w < nextId /\ w \notin spawning

SlotInv ==
    /\ \A w \in Ids : SlotOK(w)
    /\ \A h \in handles : h.worker < nextId /\ h.worker \notin spawning

\* What shutdown_all still has to mark was installed, or has been taken since.
SweepInv == \A w \in sweep.slots : w \in children \/ child[w].state = "dead"

\* Slots installed while warm_min runs are the ones it started.
WarmInv == warm > 0 => Cardinality(children) + warm <= MinWorkers

CallInv ==
    /\ \A f \in Futures : future[f].pc = "exec" =>
          \/ child[future[f].worker] = Child("leased", future[f].lease)
          \/ child[future[f].worker].state = "dead"
    /\ \A f \in Futures : future[f].pc = "closing" =>
          \/ child[future[f].worker] = Child("closing", future[f].lease)
          \/ child[future[f].worker].state = "dead"
    /\ \A f \in Futures : future[f].pc = "retiring" => child[future[f].worker].state = "dead"
    /\ \A f, g \in Futures :
          HoldsCallLock(f) /\ HoldsCallLock(g) /\ future[f].worker = future[g].worker => f = g
    /\ \A w \in Ids : \A l \in abandoned[w] : BelongsToLease(w, l) \/ child[w].state = "dead"


LEMMA SlotInit == Init => SlotInv
  BY PoolAssumption DEF Init, SlotInv, SlotOK, Child, NoStartup, NoRetire, Ids

\* A worker that is leased, and is not being started, is installed.
LEMMA InstalledWorker ==
  ASSUME TypeInv, SlotInv, NEW w \in Ids, w \notin spawning,
         child[w].state \in {"idle", "leased", "closing"}
  PROVE  w \in children /\ startup[w].pc = "none"
  BY DEF SlotInv, SlotOK, TypeInv, TypeOK

\* Marking an installed worker dead.
LEMMA TakeSlot ==
  ASSUME TypeInv, SlotInv, NEW w \in children, NEW by, TakeDeadWorker(w, by),
         UNCHANGED <<children, spawning, nextId, startup, handles>>,
         \A v \in Ids : reapTimer'[v] => reapTimer[v]
  PROVE  SlotInv'
  BY DEF TypeInv, TypeOK, SlotInv, SlotOK, TakeDeadWorker, Child, ChildRec, StartupRec

\* Steps that touch no slot.
LEMMA IdleSlot ==
  ASSUME TypeInv, SlotInv,
         UNCHANGED <<children, spawning, nextId, startup, handles, child, retire, reapTimer>>
  PROVE  SlotInv'
  BY DEF SlotInv, SlotOK, SlotOK

LEMMA ReserveSlot ==
  ASSUME TypeInv, SlotInv, NEW l \in Leases \cup {NoLease}, ReserveSpawnSlot(l),
         children' \subseteq children, \A w \in children \ children' : child[w].state = "dead",
         UNCHANGED <<handles, child, retire, reapTimer>>
  PROVE  SlotInv'
  BY ReserveType DEF ReserveSpawnSlot, TypeInv, TypeOK, SlotInv, SlotOK, Ids, StartupRec, Handle

LEMMA StartupsSlot == ASSUME TypeInv, SlotInv, Startups PROVE SlotInv'
<1> USE DEF TypeInv
<1>1. ASSUME WarmMin PROVE SlotInv'
  BY <1>1, ReserveSlot DEF WarmMin, slotVars
<1>2. ASSUME NEW id \in Ids, SpawnSlot(id) PROVE SlotInv'
  BY <1>2 DEF SpawnSlot, TypeOK, SlotInv, SlotOK, StartupRec, poolVars, Child
<1>3. ASSUME NEW id \in Ids, SpawnFails(id) PROVE SlotInv'
  BY <1>3 DEF SpawnFails, TypeOK, SlotInv, SlotOK, StartupRec, poolVars, slotVars
<1>4. ASSUME NEW id \in Ids, InstallSlot(id) PROVE SlotInv'
  <2>1. id \in spawning /\ id < nextId /\ id \notin children
    BY <1>4 DEF InstallSlot, SlotInv, SlotOK, TypeOK, Ids
  <2>2. \A v \in Ids : v # id => SlotOK(v)'
    BY <1>4 DEF InstallSlot, TypeOK, SlotInv, SlotOK, slotVars
  <2>3. SlotOK(id)'
    BY <1>4, <2>1 DEF InstallSlot, TypeOK, SlotInv, SlotOK, slotVars, NoStartup, Child
  <2>4. \A h \in handles' : h \in handles \/ h.worker = id
    BY <1>4 DEF InstallSlot
  <2>5. \A h \in handles' : h.worker < nextId' /\ h.worker \notin spawning'
    BY <1>4, <2>1, <2>4 DEF InstallSlot, SlotInv
  <2> QED BY <2>2, <2>3, <2>5 DEF SlotInv
<1>5. ASSUME NEW id \in Ids, DiscardAtShutdown(id) PROVE SlotInv'
  BY <1>5 DEF DiscardAtShutdown, DiscardUninstalledSlot, TypeOK, SlotInv, SlotOK, StartupRec, poolVars, Child
<1>6. ASSUME NEW id \in Ids, ReleaseReservation(id) PROVE SlotInv'
  BY <1>6 DEF ReleaseReservation, TypeOK, SlotInv, SlotOK, StartupRec, NoStartup, slotVars
<1> QED BY <1>1, <1>2, <1>3, <1>4, <1>5, <1>6 DEF Startups

LEMMA LeaseRequestsSlot == ASSUME TypeInv, SlotInv, LeaseRequests PROVE SlotInv'
<1> USE DEF TypeInv
<1>1. ASSUME NEW c \in Clients, NEW w \in Ids, LeaseIdle(c, w) PROVE SlotInv'
  <2>1. w \in children /\ w \notin spawning /\ w < nextId /\ child[w].state = "idle"
    BY <1>1 DEF LeaseIdle, IdleChildren, SlotInv, SlotOK, TypeOK, Ids
  <2>2. \A v \in Ids : v # w => SlotOK(v)'
    BY <1>1 DEF LeaseIdle, TypeOK, SlotInv, SlotOK, poolVars
  <2>3. SlotOK(w)'
    BY <1>1, <2>1 DEF LeaseIdle, TypeOK, SlotInv, SlotOK, poolVars, Child
  <2>4. \A h \in handles' : h \in handles \/ h.worker = w
    BY <1>1 DEF LeaseIdle
  <2>5. \A h \in handles' : h.worker < nextId' /\ h.worker \notin spawning'
    BY <1>1, <2>1, <2>4 DEF LeaseIdle, SlotInv, poolVars
  <2> QED BY <2>2, <2>3, <2>5 DEF SlotInv
<1>2. ASSUME NEW c \in Clients, LeaseNew(c) PROVE SlotInv'
  <2>1. request[c].lease \in Leases
    BY <1>2 DEF LeaseNew, HandleBound
  <2> QED BY <1>2, <2>1, ReserveSlot DEF LeaseNew, Live, slotVars
<1>3. ASSUME NEW c \in Clients, LeaseWaitsOrFails(c) PROVE SlotInv'
  BY <1>3 DEF LeaseWaitsOrFails, Live, TypeOK, SlotInv, SlotOK, slotVars
<1>4. ASSUME NEW c \in Clients, LeaseEndsInStartup(c) PROVE SlotInv'
  <2>1. request[c].worker \in Ids
    BY <1>4 DEF LeaseEndsInStartup, HandleBound
  <2>0. PICK id \in Ids : id = request[c].worker
    BY <2>1
  <2>2. \A v \in Ids : v # id => SlotOK(v)'
    BY <1>4, <2>0 DEF LeaseEndsInStartup, AbandonStartup, DiscardUninstalledSlot, TypeOK,
                      SlotInv, SlotOK, poolVars
  <2>3. SlotOK(id)'
    <3>1. CASE startup[id].pc = "ready"
      BY <1>4, <2>0, <3>1 DEF LeaseEndsInStartup, AbandonStartup, DiscardUninstalledSlot, TypeOK,
                              SlotInv, SlotOK, StartupRec, Child, poolVars
    <3>2. CASE startup[id].pc = "discard"
      BY <1>4, <2>0, <3>2 DEF LeaseEndsInStartup, AbandonStartup, TypeOK, SlotInv, SlotOK,
                              StartupRec, RetireRec, poolVars
    <3>3. CASE startup[id].pc \notin {"ready", "discard"}
      BY <1>4, <2>0, <3>3 DEF LeaseEndsInStartup, AbandonStartup, TypeOK, SlotInv, SlotOK,
                              StartupRec, poolVars
    <3> QED BY <3>1, <3>2, <3>3
  <2> QED BY <1>4, <2>2, <2>3 DEF LeaseEndsInStartup, SlotInv, poolVars
<1>5. ASSUME NEW c \in Clients, RequestLease(c) \/ LeaseRefused(c) \/ LeaseEnds(c) PROVE SlotInv'
  BY <1>5, IdleSlot DEF RequestLease, LeaseRefused, LeaseEnds, poolVars, slotVars
<1> QED BY <1>1, <1>2, <1>3, <1>4, <1>5 DEF LeaseRequests

\* A future or a guard that finds its lease on the worker finds it installed.
LEMMA OwnedWorker ==
  ASSUME TypeInv, SlotInv, NEW h \in handles, BelongsToLease(h.worker, h.lease)
  PROVE  h.worker \in children
  BY InstalledWorker DEF BelongsToLease, SlotInv, SlotOK, TypeInv, TypeOK, Handle

LEMMA FutureInHandles ==
  ASSUME TypeInv, NEW f \in Futures, future[f].pc # "none"
  PROVE  \E h \in handles : h.worker = future[f].worker /\ h.lease = future[f].lease
  BY DEF TypeInv, HandleBound

LEMMA RetireInlineSlot ==
  ASSUME TypeInv, SlotInv, NEW f \in Futures, future[f].pc # "none", RetireInline(f),
         UNCHANGED <<poolVars, process, reapTimer, abandoned, startup, request, handles, guards>>
  PROVE  SlotInv'
<1>1. CASE BelongsToLease(future[f].worker, future[f].lease)
  <2>1. future[f].worker \in children
    BY <1>1, OwnedWorker, FutureInHandles
  <2> QED BY <1>1, <2>1, TakeSlot DEF RetireInline, poolVars
<1>2. CASE ~BelongsToLease(future[f].worker, future[f].lease)
  BY <1>2, IdleSlot DEF RetireInline, poolVars
<1> QED BY <1>1, <1>2

LEMMA CallsSlot == ASSUME TypeInv, SlotInv, Calls PROVE SlotInv'
<1>1. ASSUME NEW f \in Futures, CallRetires(f) \/ ReopenRetires(f) PROVE SlotInv'
  BY <1>1, RetireInlineSlot DEF CallRetires, ReopenRetires
<1>2. ASSUME NEW f \in Futures, AdmitCall(f) PROVE SlotInv'
  <2>1. UNCHANGED <<poolVars, slotVars, startup, handles>>
    BY <1>2 DEF AdmitCall
  <2> QED BY <2>1, IdleSlot DEF poolVars, slotVars
<1>3. ASSUME NEW f \in Futures, CallNeverDispatched(f) \/ CallSettles(f) \/ ReopenTakes(f)
      PROVE  SlotInv'
  <2>1. UNCHANGED <<poolVars, slotVars, startup, handles>>
    BY <1>3 DEF CallNeverDispatched, CallSettles, ReopenTakes
  <2> QED BY <2>1, IdleSlot DEF poolVars, slotVars
<1>4. ASSUME NEW f \in Futures, NEW h \in handles, CallTool(f, h) \/ Reopen(f, h) PROVE SlotInv'
  <2>1. UNCHANGED <<poolVars, slotVars, startup, handles>>
    BY <1>4 DEF CallTool, Reopen
  <2> QED BY <2>1, IdleSlot DEF poolVars, slotVars
<1> QED BY <1>1, <1>2, <1>3, <1>4 DEF Calls

\* An installed worker that is leased starts to close, or becomes idle.
LEMMA ReleaseSlot ==
  ASSUME TypeInv, SlotInv, NEW w \in children, NEW rec \in ChildRec,
         rec.state \in {"idle", "closing"}, child[w].state \in {"leased", "closing"},
         child' = [child EXCEPT ![w] = rec],
         UNCHANGED <<children, spawning, nextId, startup, handles, retire, reapTimer>>
  PROVE  SlotInv'
<1>1. w \in Ids /\ startup[w].pc = "none" /\ w \notin spawning /\ retire[w].pc = "none"
  BY DEF TypeInv, TypeOK, SlotInv, SlotOK
<1>2. child'[w] = rec /\ \A v \in Ids : v # w => child'[v] = child[v]
  BY <1>1 DEF TypeInv, TypeOK
<1>3. w < nextId
  BY <1>1 DEF SlotInv, SlotOK, TypeInv, TypeOK, Ids
<1> QED BY <1>1, <1>2, <1>3 DEF SlotInv, SlotOK, TypeInv, TypeOK, Ids

LEMMA ReleasesSlot == ASSUME TypeInv, SlotInv, CallInv, Releases PROVE SlotInv'
<1>1. ASSUME NEW f \in Futures, ReleaseRetires(f) PROVE SlotInv'
  BY <1>1, RetireInlineSlot DEF ReleaseRetires
<1>2. ASSUME NEW f \in Futures, NEW h \in handles, Release(f, h) PROVE SlotInv'
  BY <1>2, IdleSlot DEF Release, poolVars, slotVars
<1>3. ASSUME NEW f \in Futures, ReleaseLocks(f) PROVE SlotInv'
  <2> DEFINE w == future[f].worker
             l == future[f].lease
  <2>1. w \in Ids /\ l \in Leases
    BY <1>3, FutureHandle DEF ReleaseLocks
  <2>2. CASE BelongsToLease(w, l)
    <3>1. w \in children
      BY <1>3, <2>2, OwnedWorker, FutureInHandles DEF ReleaseLocks
    <3>2. Child("closing", l) \in ChildRec /\ Child("closing", l).state = "closing"
      BY <2>1 DEF Child, ChildRec
    <3>3. child[w].state \in {"leased", "closing"}
      BY <2>2 DEF BelongsToLease
    <3>4. child' = [child EXCEPT ![w] = Child("closing", l)]
      BY <1>3, <2>2 DEF ReleaseLocks
    <3> QED BY <1>3, <3>1, <3>2, <3>3, <3>4, ReleaseSlot DEF ReleaseLocks, poolVars
  <2>3. CASE ~BelongsToLease(w, l)
    BY <1>3, <2>3, IdleSlot DEF ReleaseLocks, poolVars
  <2> QED BY <2>2, <2>3
<1>4. ASSUME NEW f \in Futures, ReleaseCloses(f) PROVE SlotInv'
  <2> DEFINE w == future[f].worker
  <2>1. CASE child[w].state = "dead"
    BY <1>4, <2>1, IdleSlot DEF ReleaseCloses, poolVars
  <2>2. CASE child[w].state # "dead"
    <3>1. BelongsToLease(w, future[f].lease)
      <4>1. child[w] = Child("closing", future[f].lease)
        BY <1>4, <2>2 DEF ReleaseCloses, CallInv
      <4> QED BY <4>1 DEF BelongsToLease, Child
    <3>2. w \in children
      BY <1>4, <3>1, OwnedWorker, FutureInHandles DEF ReleaseCloses
    <3>3. Child("idle", NoLease) \in ChildRec /\ Child("idle", NoLease).state = "idle"
      BY DEF Child, ChildRec
    <3>4. child' = [child EXCEPT ![w] = Child("idle", NoLease)]
      BY <1>4, <2>2 DEF ReleaseCloses
    <3> QED BY <1>4, <3>1, <3>2, <3>3, <3>4, ReleaseSlot DEF ReleaseCloses, BelongsToLease, poolVars
  <2> QED BY <2>1, <2>2
<1>5. ASSUME NEW f \in Futures, ScheduleIdleReap(f) PROVE SlotInv'
  <2>1. \A v \in Ids : reapTimer'[v] => reapTimer[v] \/ v = future[f].worker
    BY <1>5 DEF ScheduleIdleReap, TypeInv, TypeOK
  <2>2. future[f].worker < nextId /\ future[f].worker \notin spawning
    BY <1>5, FutureInHandles DEF ScheduleIdleReap, SlotInv
  <2> QED BY <1>5, <2>1, <2>2 DEF ScheduleIdleReap, SlotInv, SlotOK, poolVars
<1> QED BY <1>1, <1>2, <1>3, <1>4, <1>5 DEF Releases

LEMMA DropsSlot == ASSUME TypeInv, SlotInv, CallInv, Drops PROVE SlotInv'
<1>1. ASSUME NEW f \in Futures, DropUnarmed(f) \/ DropArmed(f) PROVE SlotInv'
  BY <1>1, IdleSlot DEF DropUnarmed, DropArmed, poolVars, slotVars
<1>2. ASSUME NEW f \in Futures, DropRetiring(f) PROVE SlotInv'
  <2>1. \A v \in Ids : retire'[v].pc # "none" => retire[v].pc # "none" \/ v = future[f].worker
    BY <1>2 DEF DropRetiring, TypeInv, TypeOK, RetireRec
  <2>2. child[future[f].worker].state = "dead"
    BY <1>2 DEF DropRetiring, CallInv
  <2> QED BY <1>2, <2>1, <2>2 DEF DropRetiring, SlotInv, SlotOK, poolVars
<1> QED BY <1>1, <1>2 DEF Drops

LEMMA RetirementsSlot == ASSUME TypeInv, SlotInv, Retirements PROVE SlotInv'
<1> USE DEF TypeInv
<1>1. ASSUME NEW w \in Ids, ForgetSlot(w) PROVE SlotInv'
  <2>1. child[w].state = "dead" /\ w < nextId
    BY <1>1 DEF ForgetSlot, SlotInv, SlotOK, TypeOK, Ids
  <2>2. \A v \in Ids : v # w => SlotOK(v)'
    BY <1>1 DEF ForgetSlot, TypeOK, SlotInv, SlotOK
  <2>3. SlotOK(w)'
    BY <1>1, <2>1 DEF ForgetSlot, TypeOK, SlotInv, SlotOK, RetireRec
  <2> QED BY <1>1, <2>2, <2>3 DEF ForgetSlot, SlotInv
<1>2. ASSUME NEW w \in Ids, retire[w].pc # "none",
             \A v \in Ids : retire'[v].pc # "none" => retire[v].pc # "none",
             UNCHANGED <<children, spawning, nextId, startup, handles, child, reapTimer>>
      PROVE  SlotInv'
  BY <1>2 DEF SlotInv, SlotOK
<1>3. ASSUME NEW w \in Ids, FinishDeadWorker(w) PROVE SlotInv'
  <2>1. retire[w].pc # "none" /\ \A v \in Ids : retire'[v].pc # "none" => retire[v].pc # "none"
    BY <1>3 DEF FinishDeadWorker, TypeOK, RetireRec
  <2> QED BY <1>2, <1>3, <2>1 DEF FinishDeadWorker, poolVars, taskVars
<1>5. ASSUME NEW w \in Ids, Replenish(w) PROVE SlotInv'
  <2>1. retire[w].pc # "none" /\ \A v \in Ids : retire'[v].pc # "none" => retire[v].pc # "none"
    BY <1>5 DEF Replenish, TypeOK, RetireRec
  <2>2. \A v \in Replacements : v \in Ids /\ v >= nextId /\ v < nextId'
    BY <1>5, ReplacementIds DEF Replenish, Replacements, Ids
  <2>3. nextId <= nextId' /\ \A v \in Ids : v < nextId' => v < nextId \/ v \in Replacements
    BY <1>5, ReplacementIds DEF Replenish, TypeOK, Ids
  <2>4. ASSUME NEW v \in Replacements PROVE SlotOK(v)'
    <3>1. v \in Ids /\ v \notin children /\ child[v].state = "absent" /\ retire[v].pc = "none"
          /\ ~reapTimer[v]
      BY <2>2, <2>4 DEF SlotInv, SlotOK, TypeOK, Ids
    <3>2. startup'[v] = [pc |-> "spawn", lease |-> NoLease] /\ v \in spawning'
      BY <1>5, <2>4, <3>1 DEF Replenish
    <3>3. nextId' \in Int /\ ~(v >= nextId')
      BY <1>5, <2>2, <2>4, ReplacementIds DEF Replenish, Ids
    <3> QED BY <1>5, <2>1, <3>1, <3>2, <3>3 DEF Replenish, SlotOK
  <2>5. ASSUME NEW v \in Ids, v \notin Replacements PROVE SlotOK(v)'
    <3>1. startup'[v] = startup[v] /\ (v \in spawning' <=> v \in spawning)
      BY <1>5, <2>5 DEF Replenish
    <3>2. (v >= nextId' => v >= nextId) /\ (v < nextId => v < nextId')
      BY <2>3, ReplacementIds, <1>5 DEF Replenish, TypeOK, Ids
    <3> QED BY <1>5, <2>1, <3>1, <3>2 DEF Replenish, SlotInv, SlotOK
  <2>6. \A h \in handles' : h.worker < nextId' /\ h.worker \notin spawning'
    <3>1. \A h \in handles : h.worker \in Ids /\ h.worker < nextId /\ h.worker \notin spawning
      BY DEF SlotInv, TypeOK, Handle
    <3> QED BY <1>5, <2>2, <2>3, <3>1, ReplacementIds DEF Replenish, TypeOK, Ids
  <2> QED BY <2>4, <2>5, <2>6 DEF SlotInv
<1>6. ASSUME NEW w \in Ids, IdleReap(w) PROVE SlotInv'
  <2>1. \A v \in Ids : reapTimer'[v] => reapTimer[v]
    BY <1>6 DEF IdleReap, TypeOK
  <2>2. CASE child[w].state = "idle" /\ UNCHANGED <<child, retire>>
    BY <1>6, <2>1, <2>2 DEF IdleReap, SlotInv, SlotOK, poolVars, taskVars
  <2>3. CASE child[w].state = "idle" /\ TakeDeadWorker(w, "reaper")
    <3>1. w \in children
      BY <1>6, <2>3, InstalledWorker DEF IdleReap, SlotInv, SlotOK
    <3> QED BY <1>6, <2>1, <2>3, <3>1, TakeSlot DEF IdleReap, poolVars, taskVars
  <2>4. CASE child[w].state # "idle"
    BY <1>6, <2>1, <2>4 DEF IdleReap, SlotInv, SlotOK, poolVars, taskVars
  <2> QED BY <1>6, <2>2, <2>3, <2>4 DEF IdleReap
<1>7. ASSUME NEW w \in Ids, ProbeMarksDead(w) PROVE SlotInv'
  BY <1>7, TakeSlot DEF ProbeMarksDead, poolVars, taskVars
<1>7a. ASSUME NEW w \in Ids, ProbeForgetsDead(w) PROVE SlotInv'
  BY <1>7a DEF ProbeForgetsDead, SlotInv, SlotOK, slotVars
<1>8. ASSUME NEW w \in Ids, NEW l \in Leases, ProcessDies(w) \/ AbandonedCallEnds(w, l)
      PROVE  SlotInv'
  <2>1. UNCHANGED <<poolVars, child, retire, reapTimer, taskVars>>
    BY <1>8 DEF ProcessDies, AbandonedCallEnds
  <2> QED BY <2>1, IdleSlot DEF poolVars, taskVars
<1>9. ASSUME NEW w \in Ids, ProcessDies(w) PROVE SlotInv'
  BY <1>9, IdleSlot DEF ProcessDies, poolVars, taskVars
<1>10. ASSUME NEW h \in guards, GuardRetires(h) PROVE SlotInv'
  <2>1. h \in handles
    BY DEF HandleBound
  <2>2. CASE BelongsToLease(h.worker, h.lease)
    <3>1. h.worker \in children
      BY <2>1, <2>2, OwnedWorker
    <3> QED BY <1>10, <2>2, <3>1, TakeSlot DEF GuardRetires, poolVars
  <2>3. CASE ~BelongsToLease(h.worker, h.lease)
    BY <1>10, <2>3, IdleSlot DEF GuardRetires, poolVars
  <2> QED BY <2>2, <2>3
<1> QED BY <1>1, <1>3, <1>5, <1>6, <1>7, <1>7a, <1>8, <1>9, <1>10 DEF Retirements

LEMMA ShutdownSlot == ASSUME TypeInv, SlotInv, SweepInv, Shutdown PROVE SlotInv'
<1>1. ASSUME BeginDrain \/ BeginShutdown \/ SweepBegins \/ SweepEnds PROVE SlotInv'
  <2>1. UNCHANGED <<children, spawning, nextId, slotVars, taskVars>>
    BY <1>1 DEF BeginDrain, BeginShutdown, SweepBegins, SweepEnds
  <2> QED BY <2>1, IdleSlot DEF slotVars, taskVars
<1>2. ASSUME NEW w \in Ids, SweepMarks(w) PROVE SlotInv'
  <2>1. CASE child[w].state # "dead"
    BY <1>2, <2>1, TakeSlot DEF SweepMarks, SweepInv
  <2>2. CASE child[w].state = "dead"
    BY <1>2, <2>2 DEF SweepMarks, SlotInv, SlotOK
  <2> QED BY <2>1, <2>2
<1> QED BY <1>1, <1>2 DEF Shutdown

-----------------------------------------------------------------------------
(* What a call lock protects.                                              *)

LEMMA CallInit == Init => CallInv
  BY DEF Init, CallInv, NoFuture, HoldsCallLock

\* A step that changes slots only towards dead, keeps abandoned and moves
\* futures only out of the call lock.
LEMMA CallStep ==
  ASSUME TypeInv, CallInv,
         \A w \in Ids : child'[w] = child[w] \/ child'[w].state = "dead",
         \A w \in Ids : abandoned'[w] \subseteq abandoned[w],
         \A f \in Futures : HoldsCallLock(f)' => future'[f] = future[f]
  PROVE  CallInv'
<1>1. \A f \in Futures : HoldsCallLock(f)' =>
         HoldsCallLock(f) /\ future[f].worker \in Ids
  BY FutureHandle DEF HoldsCallLock
<1>2. \A f \in Futures : future'[f].pc \in {"exec", "closing", "retiring"} =>
         HoldsCallLock(f)' /\ future'[f] = future[f]
  BY DEF HoldsCallLock
<1>3. /\ \A f \in Futures : future'[f].pc = "exec" =>
            \/ child'[future'[f].worker] = Child("leased", future'[f].lease)
            \/ child'[future'[f].worker].state = "dead"
      /\ \A f \in Futures : future'[f].pc = "closing" =>
            \/ child'[future'[f].worker] = Child("closing", future'[f].lease)
            \/ child'[future'[f].worker].state = "dead"
      /\ \A f \in Futures : future'[f].pc = "retiring" => child'[future'[f].worker].state = "dead"
  BY <1>1, <1>2 DEF CallInv
<1>4. \A f, g \in Futures :
         HoldsCallLock(f)' /\ HoldsCallLock(g)' /\ future'[f].worker = future'[g].worker => f = g
  BY <1>1 DEF CallInv
<1>5. \A w \in Ids : \A l \in abandoned'[w] : BelongsToLease(w, l)' \/ child'[w].state = "dead"
  BY DEF CallInv, BelongsToLease
<1> QED BY <1>3, <1>4, <1>5 DEF CallInv

\* A future whose request or retirement is under way works on a slot that is
\* leased or dead.
LEMMA LockedSlot ==
  ASSUME TypeInv, CallInv, NEW f \in Futures, future[f].pc \in {"exec", "closing", "retiring"}
  PROVE  child[future[f].worker].state \in {"leased", "closing", "dead"}
<1>1. CASE future[f].pc = "exec"
  <2>1. \/ child[future[f].worker] = Child("leased", future[f].lease)
        \/ child[future[f].worker].state = "dead"
    BY <1>1 DEF CallInv
  <2> QED BY <2>1 DEF Child
<1>2. CASE future[f].pc = "closing"
  <2>1. \/ child[future[f].worker] = Child("closing", future[f].lease)
        \/ child[future[f].worker].state = "dead"
    BY <1>2 DEF CallInv
  <2> QED BY <2>1 DEF Child
<1>3. CASE future[f].pc = "retiring"
  BY <1>3 DEF CallInv
<1> QED BY <1>1, <1>2, <1>3

\* A slot that is absent or idle becomes idle or leased: nothing runs there.
LEMMA FreshSlotCall ==
  ASSUME TypeInv, CallInv, NEW id \in Ids, child[id].state \in {"absent", "idle"},
         \A w \in Ids : w # id => child'[w] = child[w],
         UNCHANGED <<future, abandoned>>
  PROVE  CallInv'
<1>1. abandoned[id] = {}
  BY DEF CallInv, BelongsToLease
<1>2. \A f \in Futures : future[f].pc \in {"exec", "closing", "retiring"} =>
         future[f].worker \in Ids /\ future[f].worker # id
  BY LockedSlot, FutureHandle
<1>3. \A f \in Futures : future[f].pc \in {"exec", "closing", "retiring"} =>
         child'[future[f].worker] = child[future[f].worker]
  BY <1>2
<1>4. \A w \in Ids : \A l \in abandoned'[w] : BelongsToLease(w, l)' \/ child'[w].state = "dead"
  BY <1>1 DEF CallInv, BelongsToLease
<1>5. \A f, g \in Futures :
         HoldsCallLock(f)' /\ HoldsCallLock(g)' /\ future'[f].worker = future'[g].worker => f = g
  BY DEF CallInv, HoldsCallLock
<1> QED BY <1>3, <1>4, <1>5 DEF CallInv

LEMMA StartupsCall == ASSUME TypeInv, SlotInv, CallInv, Startups PROVE CallInv'
<1> USE DEF TypeInv
<1>1. ASSUME NEW id \in Ids, SpawnSlot(id) PROVE CallInv'
  <2>1. child[id].state = "absent" /\ \A w \in Ids : w # id => child'[w] = child[w]
    BY <1>1 DEF SpawnSlot, SlotInv, SlotOK, TypeOK
  <2> QED BY <1>1, <2>1, FreshSlotCall DEF SpawnSlot
<1>2. ASSUME WarmMin PROVE CallInv'
  BY <1>2, CallStep DEF WarmMin, slotVars
<1>3. ASSUME NEW id \in Ids, SpawnFails(id) \/ InstallSlot(id) \/ ReleaseReservation(id)
      PROVE CallInv'
  <2>1. UNCHANGED <<child, abandoned, future>>
    BY <1>3 DEF SpawnFails, InstallSlot, ReleaseReservation, slotVars
  <2> QED BY <2>1, CallStep
<1>4. ASSUME NEW id \in Ids, DiscardAtShutdown(id) PROVE CallInv'
  <2>1. \A w \in Ids : child'[w] = child[w] \/ child'[w].state = "dead"
    BY <1>4 DEF DiscardAtShutdown, DiscardUninstalledSlot, TypeOK, Child
  <2> QED BY <1>4, <2>1, CallStep DEF DiscardAtShutdown
<1> QED BY <1>1, <1>2, <1>3, <1>4 DEF Startups

LEMMA LeaseRequestsCall == ASSUME TypeInv, SlotInv, CallInv, LeaseRequests PROVE CallInv'
<1> USE DEF TypeInv
<1>1. ASSUME NEW c \in Clients, NEW w \in Ids, LeaseIdle(c, w) PROVE CallInv'
  <2>1. child[w].state = "idle" /\ \A v \in Ids : v # w => child'[v] = child[v]
    BY <1>1 DEF LeaseIdle, IdleChildren, TypeOK
  <2> QED BY <1>1, <2>1, FreshSlotCall DEF LeaseIdle
<1>2. ASSUME NEW c \in Clients, RequestLease(c) \/ LeaseNew(c) \/ LeaseWaitsOrFails(c)
               \/ LeaseRefused(c) \/ LeaseEnds(c)
      PROVE  CallInv'
  <2>1. UNCHANGED <<child, abandoned, future>>
    BY <1>2 DEF RequestLease, LeaseNew, LeaseWaitsOrFails, LeaseRefused, LeaseEnds, slotVars
  <2> QED BY <2>1, CallStep
<1>3. ASSUME NEW c \in Clients, LeaseEndsInStartup(c) PROVE CallInv'
  <2>1. request[c].worker \in Ids
    BY <1>3 DEF LeaseEndsInStartup, HandleBound
  <2>2. \A w \in Ids : child'[w] = child[w] \/ child'[w].state = "dead"
    BY <1>3, <2>1 DEF LeaseEndsInStartup, AbandonStartup, DiscardUninstalledSlot, TypeOK, Child
  <2> QED BY <1>3, <2>2, CallStep DEF LeaseEndsInStartup
<1> QED BY <1>1, <1>2, <1>3 DEF LeaseRequests

\* One future takes the free call lock of its worker, or keeps it, and what
\* CallInv asks of that future holds after the step.
LEMMA LockStep ==
  ASSUME TypeInv, CallInv, NEW f \in Futures, future[f].pc # "none",
         HoldsCallLock(f) \/ CallLockFree(future[f].worker),
         future'[f].worker = future[f].worker,
         \A g \in Futures : g # f => future'[g] = future[g],
         \A w \in Ids : w # future[f].worker => child'[w] = child[w],
         \A w \in Ids : \A l \in abandoned'[w] : BelongsToLease(w, l)' \/ child'[w].state = "dead",
         future'[f].pc = "exec" => \/ child'[future[f].worker] = Child("leased", future'[f].lease)
                                  \/ child'[future[f].worker].state = "dead",
         future'[f].pc = "closing" => \/ child'[future[f].worker] = Child("closing", future'[f].lease)
                                     \/ child'[future[f].worker].state = "dead",
         future'[f].pc = "retiring" => child'[future[f].worker].state = "dead"
  PROVE  CallInv'
<1>1. \A g \in Futures : g # f /\ HoldsCallLock(g) =>
         future[g].worker \in Ids /\ future[g].worker # future[f].worker
  BY FutureHandle DEF CallInv, CallLockFree, HoldsCallLock
<1>2. \A g \in Futures : g # f => (HoldsCallLock(g)' <=> HoldsCallLock(g))
  BY DEF HoldsCallLock
<1>3. \A g \in Futures : g # f /\ future'[g].pc \in {"exec", "closing", "retiring"} =>
         child'[future'[g].worker] = child[future[g].worker] /\ future'[g] = future[g]
  BY <1>1 DEF HoldsCallLock
<1>4. \A g, h \in Futures :
         HoldsCallLock(g)' /\ HoldsCallLock(h)' /\ future'[g].worker = future'[h].worker => g = h
  BY <1>1, <1>2 DEF CallInv
<1>5. \A g \in Futures : future'[g].pc = "exec" =>
         \/ child'[future'[g].worker] = Child("leased", future'[g].lease)
         \/ child'[future'[g].worker].state = "dead"
  BY <1>3 DEF CallInv
<1>6. \A g \in Futures : future'[g].pc = "closing" =>
         \/ child'[future'[g].worker] = Child("closing", future'[g].lease)
         \/ child'[future'[g].worker].state = "dead"
  BY <1>3 DEF CallInv
<1>7. \A g \in Futures : future'[g].pc = "retiring" => child'[future'[g].worker].state = "dead"
  BY <1>3 DEF CallInv
<1> QED BY <1>4, <1>5, <1>6, <1>7 DEF CallInv

LEMMA RetireInlineCall ==
  ASSUME TypeInv, CallInv, NEW f \in Futures, future[f].pc # "none", RetireInline(f),
         HoldsCallLock(f) \/ CallLockFree(future[f].worker), UNCHANGED abandoned
  PROVE  CallInv'
<1> USE DEF TypeInv
<1>0. future[f].worker \in Ids
  BY FutureHandle
<1>1. CASE BelongsToLease(future[f].worker, future[f].lease)
  <2>1. /\ future'[f].pc = "retiring" /\ future'[f].worker = future[f].worker
        /\ \A g \in Futures : g # f => future'[g] = future[g]
    BY <1>1 DEF RetireInline, TypeOK, FutureRec
  <2>2. /\ child'[future[f].worker].state = "dead"
        /\ \A w \in Ids : w # future[f].worker => child'[w] = child[w]
    BY <1>0, <1>1 DEF RetireInline, TakeDeadWorker, TypeOK, Child
  <2>3. \A w \in Ids : \A l \in abandoned'[w] : BelongsToLease(w, l)' \/ child'[w].state = "dead"
    BY <2>2 DEF CallInv, BelongsToLease
  <2> QED BY <2>1, <2>2, <2>3, LockStep
<1>2. CASE ~BelongsToLease(future[f].worker, future[f].lease)
  <2>1. UNCHANGED child /\ \A g \in Futures : HoldsCallLock(g)' => future'[g] = future[g]
    BY <1>2, RecordTypes DEF RetireInline, End, HoldsCallLock, TypeOK
  <2> QED BY <2>1, CallStep
<1> QED BY <1>1, <1>2

LEMMA CallsCall == ASSUME TypeInv, CallInv, Calls PROVE CallInv'
<1> USE DEF TypeInv
<1>1. ASSUME NEW f \in Futures, CallRetires(f) PROVE CallInv'
  BY <1>1, RetireInlineCall DEF CallRetires, HoldsCallLock
<1>2. ASSUME NEW f \in Futures, ReopenRetires(f) PROVE CallInv'
  BY <1>2, RetireInlineCall DEF ReopenRetires, HoldsCallLock
<1>3. ASSUME NEW f \in Futures, CallNeverDispatched(f) \/ CallSettles(f) PROVE CallInv'
  <2>1. /\ UNCHANGED <<child, abandoned>>
        /\ \A g \in Futures : HoldsCallLock(g)' => future'[g] = future[g]
    BY <1>3, RecordTypes DEF CallNeverDispatched, CallSettles, End, HoldsCallLock, TypeOK, slotVars
  <2> QED BY <2>1, CallStep
<1>4. ASSUME NEW f \in Futures, NEW h \in handles, CallTool(f, h) \/ Reopen(f, h) PROVE CallInv'
  <2>1. /\ UNCHANGED <<child, abandoned>>
        /\ \A g \in Futures : HoldsCallLock(g)' => future'[g] = future[g]
    BY <1>4 DEF CallTool, Reopen, Begin, HoldsCallLock, TypeOK, slotVars
  <2> QED BY <2>1, CallStep
<1>5. ASSUME NEW f \in Futures, AdmitCall(f) PROVE CallInv'
  <2>0. UNCHANGED <<child, abandoned>>
    BY <1>5 DEF AdmitCall, slotVars
  <2>1. CASE child[future[f].worker] = Child("leased", future[f].lease)
    <3>1. /\ future'[f].pc = "exec" /\ future'[f].worker = future[f].worker
          /\ future'[f].lease = future[f].lease
          /\ \A g \in Futures : g # f => future'[g] = future[g]
      BY <1>5, <2>1 DEF AdmitCall, TypeOK, FutureRec
    <3>2. \A w \in Ids : \A l \in abandoned'[w] : BelongsToLease(w, l)' \/ child'[w].state = "dead"
      BY <2>0 DEF CallInv, BelongsToLease
    <3>3. future[f].pc # "none" /\ CallLockFree(future[f].worker)
      BY <1>5 DEF AdmitCall
    <3> QED BY <2>0, <2>1, <3>1, <3>2, <3>3, LockStep
  <2>2. CASE child[future[f].worker] # Child("leased", future[f].lease)
    <3>1. \A g \in Futures : HoldsCallLock(g)' => future'[g] = future[g]
      BY <1>5, <2>2, RecordTypes DEF AdmitCall, End, HoldsCallLock, TypeOK
    <3> QED BY <2>0, <3>1, CallStep
  <2> QED BY <2>1, <2>2
<1>6. ASSUME NEW f \in Futures, ReopenTakes(f) PROVE CallInv'
  <2>1. /\ future[f].pc # "none" /\ CallLockFree(future[f].worker) /\ UNCHANGED <<child, abandoned>>
        /\ future'[f].pc = "stale" /\ future'[f].worker = future[f].worker
        /\ \A g \in Futures : g # f => future'[g] = future[g]
    BY <1>6 DEF ReopenTakes, slotVars, TypeOK, FutureRec
  <2>2. \A w \in Ids : \A l \in abandoned'[w] : BelongsToLease(w, l)' \/ child'[w].state = "dead"
    BY <2>1 DEF CallInv, BelongsToLease
  <2> QED BY <2>1, <2>2, LockStep
<1> QED BY <1>1, <1>2, <1>3, <1>4, <1>5, <1>6 DEF Calls

LEMMA ReleasesCall == ASSUME TypeInv, CallInv, Releases PROVE CallInv'
<1> USE DEF TypeInv
<1>1. ASSUME NEW f \in Futures, ReleaseRetires(f) PROVE CallInv'
  BY <1>1, RetireInlineCall DEF ReleaseRetires, HoldsCallLock
<1>2. ASSUME NEW f \in Futures, NEW h \in handles, Release(f, h) PROVE CallInv'
  <2>1. /\ UNCHANGED <<child, abandoned>>
        /\ \A g \in Futures : HoldsCallLock(g)' => future'[g] = future[g]
    BY <1>2 DEF Release, Begin, HoldsCallLock, TypeOK, slotVars
  <2> QED BY <2>1, CallStep
<1>3. ASSUME NEW f \in Futures, ScheduleIdleReap(f) PROVE CallInv'
  <2>1. /\ UNCHANGED <<child, abandoned>>
        /\ \A g \in Futures : HoldsCallLock(g)' => future'[g] = future[g]
    BY <1>3, RecordTypes DEF ScheduleIdleReap, End, HoldsCallLock, TypeOK
  <2> QED BY <2>1, CallStep
<1>4. ASSUME NEW f \in Futures, ReleaseLocks(f) PROVE CallInv'
  <2>0. UNCHANGED abandoned /\ future[f].worker \in Ids /\ future[f].pc # "none"
    BY <1>4, FutureHandle DEF ReleaseLocks
  <2>1. CASE BelongsToLease(future[f].worker, future[f].lease)
    <3>1. /\ future'[f].pc = "closing" /\ future'[f].worker = future[f].worker
          /\ future'[f].lease = future[f].lease
          /\ \A g \in Futures : g # f => future'[g] = future[g]
      BY <1>4, <2>1 DEF ReleaseLocks, TypeOK, FutureRec
    <3>2. /\ child'[future[f].worker] = Child("closing", future[f].lease)
          /\ \A w \in Ids : w # future[f].worker => child'[w] = child[w]
      BY <1>4, <2>0, <2>1 DEF ReleaseLocks, TypeOK
    <3>3. \A w \in Ids : \A l \in abandoned'[w] : BelongsToLease(w, l)' \/ child'[w].state = "dead"
      BY <2>0, <2>1, <3>2 DEF CallInv, BelongsToLease, Child
    <3>4. CallLockFree(future[f].worker)
      BY <1>4 DEF ReleaseLocks
    <3> QED BY <2>0, <3>1, <3>2, <3>3, <3>4, LockStep
  <2>2. CASE ~BelongsToLease(future[f].worker, future[f].lease)
    <3>1. UNCHANGED child /\ \A g \in Futures : HoldsCallLock(g)' => future'[g] = future[g]
      BY <1>4, <2>2 DEF ReleaseLocks, HoldsCallLock, TypeOK, FutureRec
    <3> QED BY <2>0, <3>1, CallStep
  <2> QED BY <2>1, <2>2
<1>5. ASSUME NEW f \in Futures, ReleaseCloses(f) PROVE CallInv'
  <2>0. /\ abandoned[future[f].worker] = {} /\ UNCHANGED abandoned
        /\ future[f].worker \in Ids /\ future[f].pc # "none" /\ HoldsCallLock(f)
    BY <1>5, FutureHandle DEF ReleaseCloses, HoldsCallLock
  <2>1. /\ future'[f].pc = "released" /\ future'[f].worker = future[f].worker
        /\ \A g \in Futures : g # f => future'[g] = future[g]
    BY <1>5 DEF ReleaseCloses, TypeOK, FutureRec
  <2>2. \A w \in Ids : w # future[f].worker => child'[w] = child[w]
    BY <1>5 DEF ReleaseCloses, TypeOK
  <2>3. \A w \in Ids : \A l \in abandoned'[w] : BelongsToLease(w, l)' \/ child'[w].state = "dead"
    BY <2>0, <2>2 DEF CallInv, BelongsToLease
  <2> QED BY <2>0, <2>1, <2>2, <2>3, LockStep
<1> QED BY <1>1, <1>2, <1>3, <1>4, <1>5 DEF Releases

LEMMA DropsCall == ASSUME TypeInv, CallInv, Drops PROVE CallInv'
<1> USE DEF TypeInv
<1>0. ASSUME NEW f \in Futures, End(f)
      PROVE  \A g \in Futures : HoldsCallLock(g)' => future'[g] = future[g]
  BY <1>0, RecordTypes DEF End, HoldsCallLock, TypeOK
<1>1. ASSUME NEW f \in Futures, DropUnarmed(f) PROVE CallInv'
  BY <1>0, <1>1, CallStep DEF DropUnarmed, slotVars
<1>2. ASSUME NEW f \in Futures, DropRetiring(f) PROVE CallInv'
  <2>1. \A w \in Ids : abandoned'[w] \subseteq abandoned[w]
    BY <1>2 DEF DropRetiring, TypeOK
  <2> QED BY <1>0, <1>2, <2>1, CallStep DEF DropRetiring
<1>3. ASSUME NEW f \in Futures, DropArmed(f) PROVE CallInv'
  <2>1. future[f].worker \in Ids
    BY <1>3, FutureHandle DEF DropArmed
  <2>2. \A w \in Ids : \A l \in abandoned'[w] :
           \/ l \in abandoned[w]
           \/ future[f].pc = "exec" /\ w = future[f].worker /\ l = future[f].lease
    BY <1>3, <2>1 DEF DropArmed, TypeOK
  <2>3. future[f].pc = "exec" => \/ BelongsToLease(future[f].worker, future[f].lease)
                                \/ child[future[f].worker].state = "dead"
    <3>1. future[f].pc = "exec" => \/ child[future[f].worker] = Child("leased", future[f].lease)
                                  \/ child[future[f].worker].state = "dead"
      BY DEF CallInv
    <3> QED BY <3>1 DEF BelongsToLease, Child
  <2>4. \A w \in Ids : \A l \in abandoned'[w] : BelongsToLease(w, l) \/ child[w].state = "dead"
    BY <2>2, <2>3 DEF CallInv
  <2>5. UNCHANGED child /\ \A g \in Futures : HoldsCallLock(g)' => future'[g] = future[g]
    BY <1>0, <1>3 DEF DropArmed
  <2>6. \A g \in Futures : HoldsCallLock(g)' => HoldsCallLock(g)
    BY <2>5 DEF HoldsCallLock
  <2>7. \A g \in Futures : future'[g].pc \in {"exec", "closing", "retiring"} => future'[g] = future[g]
    BY <2>5 DEF HoldsCallLock
  <2>8. \A g, h \in Futures :
           HoldsCallLock(g)' /\ HoldsCallLock(h)' /\ future'[g].worker = future'[h].worker => g = h
    BY <2>5, <2>6 DEF CallInv
  <2>9. \A w \in Ids : \A l \in abandoned'[w] : BelongsToLease(w, l)' \/ child'[w].state = "dead"
    BY <2>4, <2>5 DEF BelongsToLease
  <2> QED BY <2>5, <2>7, <2>8, <2>9 DEF CallInv
<1> QED BY <1>1, <1>2, <1>3 DEF Drops

LEMMA RetirementsCall == ASSUME TypeInv, CallInv, Retirements PROVE CallInv'
<1> USE DEF TypeInv
<1>0. ASSUME NEW w \in Ids, NEW by, TakeDeadWorker(w, by)
      PROVE  \A v \in Ids : child'[v] = child[v] \/ child'[v].state = "dead"
  BY <1>0 DEF TakeDeadWorker, TypeOK, Child
<1>1. ASSUME NEW w \in Ids, ForgetSlot(w) PROVE CallInv'
  <2>1. UNCHANGED <<child, abandoned, future>>
    BY <1>1 DEF ForgetSlot
  <2> QED BY <2>1, CallStep
<1>2. ASSUME NEW w \in Ids, NEW l \in Leases,
             FinishDeadWorker(w) \/ ProcessDies(w) \/ AbandonedCallEnds(w, l)
      PROVE  CallInv'
  <2>1. UNCHANGED <<child, future>>
    BY <1>2 DEF FinishDeadWorker, ProcessDies, AbandonedCallEnds, taskVars
  <2>2. \A v \in Ids : abandoned'[v] \subseteq abandoned[v]
    BY <1>2 DEF FinishDeadWorker, ProcessDies, AbandonedCallEnds, TypeOK
  <2> QED BY <2>1, <2>2, CallStep
<1>3. ASSUME NEW w \in Ids, FinishDeadWorker(w) \/ ProcessDies(w) PROVE CallInv'
  <2>1. UNCHANGED <<child, future>>
    BY <1>3 DEF FinishDeadWorker, ProcessDies, taskVars
  <2>2. \A v \in Ids : abandoned'[v] \subseteq abandoned[v]
    BY <1>3 DEF FinishDeadWorker, ProcessDies, TypeOK
  <2> QED BY <2>1, <2>2, CallStep
<1>4. ASSUME NEW w \in Ids, Replenish(w) PROVE CallInv'
  <2>1. \A g \in Futures : HoldsCallLock(g)' => future'[g] = future[g]
    BY <1>4, RecordTypes DEF Replenish, FuturesAfterRetire, HoldsCallLock
  <2> QED BY <1>4, <2>1, CallStep DEF Replenish
<1>5. ASSUME NEW w \in Ids, IdleReap(w) PROVE CallInv'
  <2>1. \A v \in Ids : child'[v] = child[v] \/ child'[v].state = "dead"
    BY <1>0, <1>5 DEF IdleReap
  <2> QED BY <1>5, <2>1, CallStep DEF IdleReap, taskVars
<1>6. ASSUME NEW w \in Ids, ProbeMarksDead(w) PROVE CallInv'
  BY <1>0, <1>6, CallStep DEF ProbeMarksDead, taskVars
<1>6a. ASSUME NEW w \in Ids, ProbeForgetsDead(w) PROVE CallInv'
  BY <1>6a, CallStep DEF ProbeForgetsDead, slotVars
<1>7. ASSUME NEW h \in guards, GuardRetires(h) PROVE CallInv'
  <2>1. h.worker \in Ids
    BY DEF TypeOK, Handle
  <2>2. \A v \in Ids : child'[v] = child[v] \/ child'[v].state = "dead"
    BY <1>0, <1>7, <2>1 DEF GuardRetires
  <2> QED BY <1>7, <2>2, CallStep DEF GuardRetires
<1> QED BY <1>1, <1>2, <1>3, <1>4, <1>5, <1>6, <1>6a, <1>7 DEF Retirements

LEMMA ShutdownCall == ASSUME TypeInv, CallInv, Shutdown PROVE CallInv'
<1>1. ASSUME BeginDrain \/ BeginShutdown \/ SweepBegins \/ SweepEnds PROVE CallInv'
  <2>1. UNCHANGED <<child, abandoned, future>>
    BY <1>1 DEF BeginDrain, BeginShutdown, SweepBegins, SweepEnds, slotVars, taskVars
  <2> QED BY <2>1, CallStep
<1>2. ASSUME NEW w \in Ids, SweepMarks(w) PROVE CallInv'
  <2>1. \A v \in Ids : child'[v] = child[v] \/ child'[v].state = "dead"
    BY <1>2 DEF SweepMarks, TakeDeadWorker, TypeInv, TypeOK, Child
  <2> QED BY <1>2, <2>1, CallStep DEF SweepMarks
<1> QED BY <1>1, <1>2 DEF Shutdown

-----------------------------------------------------------------------------
(* Slots are monotone: dead is final, and the lease of a slot never changes *)
(* under its holder.                                                        *)

MonotoneStep ==
    \A w \in Ids :
      /\ child[w].state = "dead" => child'[w].state = "dead"
      /\ child[w].state \in {"leased", "closing"} /\ child'[w].state \in {"leased", "closing"}
           => child'[w].lease = child[w].lease
      /\ w \in children => w \in children' \/ child[w].state = "dead"

\* A step that leaves every slot alone or marks it dead.
LEMMA MarkMonotone ==
  ASSUME TypeInv, SlotInv,
         \A w \in Ids : child'[w] = child[w] \/ child'[w].state = "dead",
         \A w \in children : w \in children' \/ child[w].state = "dead"
  PROVE  MonotoneStep
<1>1. children \subseteq Ids
  BY DEF TypeInv, TypeOK
<1>2. \A w \in Ids : child'[w].state = "dead" => child'[w].state \notin {"leased", "closing"}
  OBVIOUS
<1> QED BY <1>1, <1>2 DEF MonotoneStep

\* A step that changes one slot, which is not dead, and not its lease.
LEMMA OneSlotMonotone ==
  ASSUME TypeInv, NEW id \in Ids, child[id].state # "dead",
         \A w \in Ids : w # id => child'[w] = child[w],
         child[id].state \in {"leased", "closing"} /\ child'[id].state \in {"leased", "closing"}
           => child'[id].lease = child[id].lease,
         UNCHANGED children
  PROVE  MonotoneStep
  BY DEF MonotoneStep, TypeInv, TypeOK

LEMMA Monotone == ASSUME TypeInv, SlotInv, [Next]_vars PROVE MonotoneStep
<1> USE DEF TypeInv
<1>1. CASE Startups
  <2>1. ASSUME WarmMin PROVE MonotoneStep
    BY <2>1, MarkMonotone DEF WarmMin, slotVars
  <2>2. ASSUME NEW id \in Ids, SpawnSlot(id) PROVE MonotoneStep
    <3>1. child[id].state = "absent" /\ \A w \in Ids : w # id => child'[w] = child[w]
      BY <2>2 DEF SpawnSlot, SlotInv, SlotOK, TypeOK
    <3> QED BY <2>2, <3>1, OneSlotMonotone DEF SpawnSlot, poolVars
  <2>3. ASSUME NEW id \in Ids, SpawnFails(id) PROVE MonotoneStep
    BY <2>3, MarkMonotone DEF SpawnFails, poolVars, slotVars
  <2>4. ASSUME NEW id \in Ids, InstallSlot(id) PROVE MonotoneStep
    BY <2>4, MarkMonotone DEF InstallSlot, slotVars
  <2>5. ASSUME NEW id \in Ids, DiscardAtShutdown(id) PROVE MonotoneStep
    <3>1. \A w \in Ids : child'[w] = child[w] \/ child'[w].state = "dead"
      BY <2>5 DEF DiscardAtShutdown, DiscardUninstalledSlot, TypeOK, Child
    <3> QED BY <2>5, <3>1, MarkMonotone DEF DiscardAtShutdown, poolVars
  <2>6. ASSUME NEW id \in Ids, ReleaseReservation(id) PROVE MonotoneStep
    BY <2>6, MarkMonotone DEF ReleaseReservation, slotVars
  <2> QED BY <1>1, <2>1, <2>2, <2>3, <2>4, <2>5, <2>6 DEF Startups
<1>2. CASE LeaseRequests
  <2>1. ASSUME NEW c \in Clients, NEW w \in Ids, LeaseIdle(c, w) PROVE MonotoneStep
    <3>1. child[w].state = "idle" /\ \A v \in Ids : v # w => child'[v] = child[v]
      BY <2>1 DEF LeaseIdle, IdleChildren, TypeOK
    <3> QED BY <2>1, <3>1, OneSlotMonotone DEF LeaseIdle, poolVars
  <2>2. ASSUME NEW c \in Clients, LeaseNew(c) \/ LeaseWaitsOrFails(c) PROVE MonotoneStep
    <3>1. UNCHANGED child /\ children' = Live
      BY <2>2 DEF LeaseNew, LeaseWaitsOrFails, slotVars
    <3> QED BY <3>1, MarkMonotone DEF Live
  <2>3. ASSUME NEW c \in Clients, RequestLease(c) \/ LeaseRefused(c) \/ LeaseEnds(c)
        PROVE  MonotoneStep
    <3>1. UNCHANGED <<child, children>>
      BY <2>3 DEF RequestLease, LeaseRefused, LeaseEnds, poolVars, slotVars
    <3> QED BY <3>1, MarkMonotone
  <2>4. ASSUME NEW c \in Clients, LeaseEndsInStartup(c) PROVE MonotoneStep
    <3>1. request[c].worker \in Ids
      BY <2>4 DEF LeaseEndsInStartup, HandleBound
    <3>2. \A w \in Ids : child'[w] = child[w] \/ child'[w].state = "dead"
      BY <2>4, <3>1 DEF LeaseEndsInStartup, AbandonStartup, DiscardUninstalledSlot, TypeOK, Child
    <3> QED BY <2>4, <3>2, MarkMonotone DEF LeaseEndsInStartup, poolVars
  <2> QED BY <1>2, <2>1, <2>2, <2>3, <2>4 DEF LeaseRequests
<1>3. ASSUME NEW f \in Futures, future[f].pc # "none", RetireInline(f), UNCHANGED children
      PROVE  MonotoneStep
  <2>1. future[f].worker \in Ids
    BY <1>3, FutureHandle
  <2>2. \A w \in Ids : child'[w] = child[w] \/ child'[w].state = "dead"
    BY <1>3, <2>1 DEF RetireInline, TakeDeadWorker, TypeOK, Child
  <2> QED BY <1>3, <2>2, MarkMonotone
<1>4. CASE Calls
  <2>1. ASSUME NEW f \in Futures, CallRetires(f) \/ ReopenRetires(f) PROVE MonotoneStep
    BY <1>3, <2>1 DEF CallRetires, ReopenRetires, poolVars
  <2>2. ASSUME NEW f \in Futures,
               AdmitCall(f) \/ CallNeverDispatched(f) \/ CallSettles(f) \/ ReopenTakes(f)
        PROVE  MonotoneStep
    <3>1. UNCHANGED <<poolVars, slotVars>>
      BY <2>2 DEF AdmitCall, CallNeverDispatched, CallSettles, ReopenTakes
    <3> QED BY <3>1, MarkMonotone DEF poolVars, slotVars
  <2>3. ASSUME NEW f \in Futures, NEW h \in handles, CallTool(f, h) \/ Reopen(f, h)
        PROVE  MonotoneStep
    <3>1. UNCHANGED <<poolVars, slotVars>>
      BY <2>3 DEF CallTool, Reopen
    <3> QED BY <3>1, MarkMonotone DEF poolVars, slotVars
  <2> QED BY <1>4, <2>1, <2>2, <2>3 DEF Calls
<1>5. CASE Releases
  <2>1. ASSUME NEW f \in Futures, ReleaseRetires(f) PROVE MonotoneStep
    BY <1>3, <2>1 DEF ReleaseRetires, poolVars
  <2>2. ASSUME NEW f \in Futures, NEW h \in handles, Release(f, h) PROVE MonotoneStep
    BY <2>2, MarkMonotone DEF Release, poolVars, slotVars
  <2>3. ASSUME NEW f \in Futures, ScheduleIdleReap(f) PROVE MonotoneStep
    BY <2>3, MarkMonotone DEF ScheduleIdleReap, poolVars
  <2>4. ASSUME NEW f \in Futures, ReleaseLocks(f) PROVE MonotoneStep
    <3>0. PICK w \in Ids : w = future[f].worker
      BY <2>4, FutureHandle DEF ReleaseLocks
    <3>1. CASE BelongsToLease(w, future[f].lease)
      <4>1. /\ child'[w] = Child("closing", future[f].lease)
            /\ \A v \in Ids : v # w => child'[v] = child[v]
        BY <2>4, <3>0, <3>1 DEF ReleaseLocks, TypeOK
      <4>2. child[w].state \in {"leased", "closing"} /\ child'[w].lease = child[w].lease
        BY <3>1, <4>1 DEF BelongsToLease, Child
      <4>3. UNCHANGED children
        BY <2>4 DEF ReleaseLocks, poolVars
      <4> QED BY <4>1, <4>2, <4>3, OneSlotMonotone
    <3>2. CASE ~BelongsToLease(w, future[f].lease)
      BY <2>4, <3>0, <3>2, MarkMonotone DEF ReleaseLocks, poolVars
    <3> QED BY <3>1, <3>2
  <2>5. ASSUME NEW f \in Futures, ReleaseCloses(f) PROVE MonotoneStep
    <3>0. PICK w \in Ids : w = future[f].worker
      BY <2>5, FutureHandle DEF ReleaseCloses
    <3>1. CASE child[w].state # "dead"
      <4>1. child'[w].state = "idle" /\ \A v \in Ids : v # w => child'[v] = child[v]
        BY <2>5, <3>0, <3>1 DEF ReleaseCloses, TypeOK, Child
      <4>2. UNCHANGED children
        BY <2>5 DEF ReleaseCloses, poolVars
      <4> QED BY <3>1, <4>1, <4>2, OneSlotMonotone
    <3>2. CASE child[w].state = "dead"
      BY <2>5, <3>0, <3>2, MarkMonotone DEF ReleaseCloses, poolVars
    <3> QED BY <3>1, <3>2
  <2> QED BY <1>5, <2>1, <2>2, <2>3, <2>4, <2>5 DEF Releases
<1>6. CASE Drops
  <2>1. UNCHANGED <<child, children>>
    BY <1>6 DEF Drops, DropUnarmed, DropArmed, DropRetiring, poolVars, slotVars
  <2> QED BY <2>1, MarkMonotone
<1>7. ASSUME NEW w \in Ids, NEW by, TakeDeadWorker(w, by)
      PROVE  \A v \in Ids : child'[v] = child[v] \/ child'[v].state = "dead"
  BY <1>7 DEF TakeDeadWorker, TypeOK, Child
<1>8. CASE Retirements
  <2>1. ASSUME NEW w \in Ids, ForgetSlot(w) PROVE MonotoneStep
    BY <2>1, MarkMonotone DEF ForgetSlot, SlotInv, SlotOK
  <2>2. ASSUME NEW w \in Ids, IdleReap(w) PROVE MonotoneStep
    BY <1>7, <2>2, MarkMonotone DEF IdleReap, poolVars
  <2>3. ASSUME NEW w \in Ids, ProbeMarksDead(w) PROVE MonotoneStep
    BY <1>7, <2>3, MarkMonotone DEF ProbeMarksDead, poolVars
  <2>3a. ASSUME NEW w \in Ids, ProbeForgetsDead(w) PROVE MonotoneStep
    BY <2>3a, MarkMonotone DEF ProbeForgetsDead, slotVars
  <2>4. ASSUME NEW h \in guards, GuardRetires(h) PROVE MonotoneStep
    <3>1. h.worker \in Ids
      BY DEF TypeOK, Handle
    <3> QED BY <1>7, <2>4, <3>1, MarkMonotone DEF GuardRetires, poolVars
  <2>5. ASSUME NEW w \in Ids, FinishDeadWorker(w) \/ Replenish(w)
                                \/ ProcessDies(w) \/ \E l \in Leases : AbandonedCallEnds(w, l)
        PROVE  MonotoneStep
    <3>1. UNCHANGED <<child, children>>
      BY <2>5 DEF FinishDeadWorker, Replenish, ProcessDies, AbandonedCallEnds,
                  poolVars, slotVars
    <3> QED BY <3>1, MarkMonotone
  <2> QED BY <1>8, <2>1, <2>2, <2>3, <2>3a, <2>4, <2>5 DEF Retirements
<1>9. CASE Shutdown
  <2>1. ASSUME NEW w \in Ids, SweepMarks(w) PROVE MonotoneStep
    BY <1>7, <2>1, MarkMonotone DEF SweepMarks
  <2>2. ASSUME BeginDrain \/ BeginShutdown \/ SweepBegins \/ SweepEnds PROVE MonotoneStep
    <3>1. UNCHANGED <<child, children>>
      BY <2>2 DEF BeginDrain, BeginShutdown, SweepBegins, SweepEnds, slotVars
    <3> QED BY <3>1, MarkMonotone
  <2> QED BY <1>9, <2>1, <2>2 DEF Shutdown
<1>10. CASE UNCHANGED vars
  BY <1>10, MarkMonotone DEF vars, poolVars, slotVars
<1> QED BY <1>1, <1>2, <1>4, <1>5, <1>6, <1>8, <1>9, <1>10 DEF Next

\* shutdown_all marks the children of the moment it began.
LEMMA SweepNext == ASSUME TypeInv, SlotInv, SweepInv, [Next]_vars PROVE SweepInv'
<1>1. \A w \in Ids : w \in sweep'.slots => w \in sweep.slots \cup children
  <2>1. CASE SweepBegins
    BY <2>1 DEF SweepBegins
  <2>2. ASSUME NEW w \in Ids, SweepMarks(w) PROVE sweep'.slots \subseteq sweep.slots
    BY <2>2 DEF SweepMarks, TypeInv, TypeOK
  <2>3. CASE SweepEnds
    BY <2>3 DEF SweepEnds, TypeInv, TypeOK
  <2>4. CASE UNCHANGED sweep
    BY <2>4
  <2>5. Startups \/ LeaseRequests => UNCHANGED sweep
    BY DEF Startups, LeaseRequests, WarmMin, SpawnSlot, SpawnFails, InstallSlot, DiscardAtShutdown,
           ReleaseReservation, RequestLease, LeaseIdle, LeaseNew, LeaseWaitsOrFails, LeaseRefused,
           LeaseEnds, LeaseEndsInStartup, poolVars
  <2>6. Calls \/ Releases \/ Drops => UNCHANGED sweep
    BY DEF Calls, Releases, Drops, AdmitCall, CallNeverDispatched, CallSettles, CallRetires,
           ReopenTakes, ReopenRetires, CallTool, Reopen, ReleaseLocks, ReleaseCloses, ReleaseRetires,
           ScheduleIdleReap, Release, DropUnarmed, DropArmed, DropRetiring, poolVars
  <2>7. Retirements => UNCHANGED sweep
    BY DEF Retirements, ForgetSlot, FinishDeadWorker, Replenish, IdleReap,
           ProbeMarksDead, ProbeForgetsDead, ProcessDies, AbandonedCallEnds, GuardRetires, poolVars
  <2>8. BeginDrain \/ BeginShutdown \/ UNCHANGED vars => UNCHANGED sweep
    BY DEF BeginDrain, BeginShutdown, vars, poolVars
  <2> QED BY <2>1, <2>2, <2>3, <2>4, <2>5, <2>6, <2>7, <2>8 DEF Next, Shutdown
<1>2. MonotoneStep
  BY Monotone
<1>3. sweep'.slots \subseteq Ids
  BY TypeNext DEF TypeInv, TypeOK
<1> QED BY <1>1, <1>2, <1>3 DEF SweepInv, MonotoneStep

-----------------------------------------------------------------------------
PoolInv == TypeInv /\ SlotInv /\ SweepInv /\ CallInv

LEMMA PoolInvInit == Init => PoolInv
<1>1. Init => SweepInv
  BY DEF Init, SweepInv
<1> QED BY <1>1, TypeInit, SlotInit, CallInit DEF PoolInv

LEMMA PoolInvNext == PoolInv /\ [Next]_vars => PoolInv'
<1> SUFFICES ASSUME PoolInv, [Next]_vars PROVE PoolInv'
  OBVIOUS
<1> USE DEF PoolInv
<1>1. TypeInv' /\ SweepInv'
  BY TypeNext, SweepNext
<1>2. SlotInv'
  <2>1. CASE UNCHANGED vars
    BY <2>1, IdleSlot DEF vars, poolVars, slotVars, taskVars
  <2> QED BY <2>1, StartupsSlot, LeaseRequestsSlot, CallsSlot, ReleasesSlot, DropsSlot,
             RetirementsSlot, ShutdownSlot DEF Next
<1>3. CallInv'
  <2>1. CASE UNCHANGED vars
    BY <2>1, CallStep DEF vars, slotVars, taskVars
  <2> QED BY <2>1, StartupsCall, LeaseRequestsCall, CallsCall, ReleasesCall, DropsCall,
             RetirementsCall, ShutdownCall DEF Next
<1> QED BY <1>1, <1>2, <1>3

LEMMA PoolInvariant == Spec => []PoolInv
  BY PoolInvInit, PoolInvNext, PTL DEF Spec

\* Nobody else is given a worker in which a request, watched or abandoned,
\* still runs.
THEOREM Isolation == Spec => []WorkIsolation
<1>1. PoolInv => WorkIsolation
  <2> SUFFICES ASSUME PoolInv PROVE WorkIsolation
    OBVIOUS
  <2>1. ASSUME NEW f \in Futures, future[f].pc \in {"exec", "closing"}
        PROVE  \/ BelongsToLease(future[f].worker, future[f].lease)
               \/ child[future[f].worker].state = "dead"
    <3>1. \/ child[future[f].worker] = Child("leased", future[f].lease)
          \/ child[future[f].worker] = Child("closing", future[f].lease)
          \/ child[future[f].worker].state = "dead"
      BY <2>1 DEF PoolInv, CallInv
    <3> QED BY <3>1 DEF BelongsToLease, Child
  <2> QED BY <2>1 DEF PoolInv, CallInv, WorkIsolation
<1> QED BY <1>1, PoolInvariant, PTL

\* A dead slot stays dead, and no step gives a leased worker another lease.
THEOREM LeaseIsStable == Spec => LeaseStable
<1>1. PoolInv /\ [Next]_vars =>
        [\A w \in Ids :
           /\ child[w].state = "dead" => child'[w].state = "dead"
           /\ child[w].state \in {"leased", "closing"} /\ child'[w].state \in {"leased", "closing"}
                => child'[w].lease = child[w].lease]_vars
  BY Monotone DEF PoolInv, MonotoneStep
<1> QED BY <1>1, PoolInvariant, PTL DEF Spec, LeaseStable

\* A lease enters abandoned only together with its guard.
LEMMA AbandonedNext == ASSUME TypeInv, [Next]_vars
  PROVE  \A w \in Ids : \A l \in abandoned'[w] :
            l \in abandoned[w] \/ [worker |-> w, lease |-> l] \in guards'
<1> USE DEF TypeInv
<1>1. CASE \A w \in Ids : abandoned'[w] \subseteq abandoned[w]
  BY <1>1
<1>2. ASSUME NEW f \in Futures, DropArmed(f)
      PROVE  \A w \in Ids : \A l \in abandoned'[w] :
                l \in abandoned[w] \/ [worker |-> w, lease |-> l] \in guards'
  <2>1. future[f].worker \in Ids
    BY <1>2, FutureHandle DEF DropArmed
  <2> QED BY <1>2, <2>1 DEF DropArmed, TypeOK
<1>3. CASE Startups \/ LeaseRequests \/ Shutdown
  <2>1. UNCHANGED abandoned
    BY <1>3 DEF Startups, LeaseRequests, Shutdown, WarmMin, SpawnSlot, SpawnFails, InstallSlot,
           DiscardAtShutdown, ReleaseReservation, RequestLease, LeaseIdle, LeaseNew,
           LeaseWaitsOrFails, LeaseRefused, LeaseEnds, LeaseEndsInStartup, BeginDrain, BeginShutdown,
           SweepBegins, SweepEnds, SweepMarks, slotVars
  <2> QED BY <2>1
<1>4. CASE Calls \/ Releases
  <2>1. UNCHANGED abandoned
    BY <1>4 DEF Calls, Releases, AdmitCall, CallNeverDispatched, CallSettles, CallRetires,
           ReopenTakes, ReopenRetires, CallTool, Reopen, ReleaseLocks, ReleaseCloses, ReleaseRetires,
           ScheduleIdleReap, Release, slotVars
  <2> QED BY <2>1
<1>5. ASSUME NEW f \in Futures, DropUnarmed(f) \/ DropRetiring(f)
      PROVE  \A w \in Ids : abandoned'[w] \subseteq abandoned[w]
  BY <1>5 DEF DropUnarmed, DropRetiring, TypeOK, slotVars
<1>6. CASE Retirements
  <2>1. \A w \in Ids : abandoned'[w] \subseteq abandoned[w]
    BY <1>6 DEF Retirements, ForgetSlot, FinishDeadWorker, Replenish, IdleReap,
           ProbeMarksDead, ProbeForgetsDead, ProcessDies, AbandonedCallEnds, GuardRetires, slotVars, TypeOK
  <2> QED BY <2>1
<1>7. CASE UNCHANGED vars
  BY <1>7 DEF vars, slotVars
<1> QED BY <1>2, <1>3, <1>4, <1>5, <1>6, <1>7 DEF Next, Drops

\* A guard goes away only by retiring its worker, or when its lease is over.
LEMMA GuardsNext == ASSUME TypeInv, [Next]_vars
  PROVE  \A h \in guards : h \in guards' \/ ~BelongsToLease(h.worker, h.lease)'
<1>1. ASSUME NEW h \in guards, GuardRetires(h) PROVE ~BelongsToLease(h.worker, h.lease)'
  <2>1. h.worker \in Ids
    BY DEF TypeInv, TypeOK, Handle
  <2>2. CASE BelongsToLease(h.worker, h.lease)
    BY <1>1, <2>1, <2>2 DEF GuardRetires, TakeDeadWorker, BelongsToLease, TypeInv, TypeOK, Child
  <2>3. CASE ~BelongsToLease(h.worker, h.lease)
    BY <1>1, <2>3 DEF GuardRetires, BelongsToLease
  <2> QED BY <2>2, <2>3
<1>2. ASSUME NEW h \in guards, GuardRetires(h), NEW g \in guards, g # h PROVE g \in guards'
  BY <1>2 DEF GuardRetires
<1>3. CASE guards \subseteq guards'
  BY <1>3
<1>4. Startups \/ LeaseRequests \/ Shutdown => guards \subseteq guards'
  BY DEF Startups, LeaseRequests, Shutdown, WarmMin, SpawnSlot, SpawnFails, InstallSlot,
         DiscardAtShutdown, ReleaseReservation, RequestLease, LeaseIdle, LeaseNew,
         LeaseWaitsOrFails, LeaseRefused, LeaseEnds, LeaseEndsInStartup, BeginDrain, BeginShutdown,
         SweepBegins, SweepEnds, SweepMarks, taskVars
<1>5. Calls \/ Releases => guards \subseteq guards'
  BY DEF Calls, Releases, AdmitCall, CallNeverDispatched, CallSettles, CallRetires,
         ReopenTakes, ReopenRetires, CallTool, Reopen, ReleaseLocks, ReleaseCloses, ReleaseRetires,
         ScheduleIdleReap, Release
<1>6. Drops => guards \subseteq guards'
  BY DEF Drops, DropUnarmed, DropArmed, DropRetiring
<1>7. ASSUME NEW w \in Ids, ForgetSlot(w) \/ FinishDeadWorker(w) \/ Replenish(w)
               \/ IdleReap(w) \/ ProbeMarksDead(w) \/ ProbeForgetsDead(w) \/ ProcessDies(w)
               \/ \E l \in Leases : AbandonedCallEnds(w, l)
      PROVE  guards \subseteq guards'
  BY <1>7 DEF ForgetSlot, FinishDeadWorker, Replenish, IdleReap,
         ProbeMarksDead, ProbeForgetsDead, ProcessDies, AbandonedCallEnds, taskVars
<1>8. UNCHANGED vars => guards \subseteq guards'
  BY DEF vars, taskVars
<1> QED BY <1>1, <1>2, <1>3, <1>4, <1>5, <1>6, <1>7, <1>8 DEF Next, Retirements

\* I6: the worker of a dropped call is retired, or its lease is over.
THEOREM AbandonedIsRetired == Spec => []AbandonedCallIsRetired
<1>1. Init => AbandonedCallIsRetired
  BY DEF Init, AbandonedCallIsRetired
<1>2. PoolInv /\ AbandonedCallIsRetired /\ [Next]_vars => AbandonedCallIsRetired'
  <2> SUFFICES ASSUME PoolInv, AbandonedCallIsRetired, [Next]_vars,
                      NEW w \in Ids, NEW l \in abandoned'[w], BelongsToLease(w, l)'
               PROVE  [worker |-> w, lease |-> l] \in guards'
    BY DEF AbandonedCallIsRetired
  <2>1. CASE l \in abandoned[w]
    <3>1. BelongsToLease(w, l)
      <4>1. BelongsToLease(w, l) \/ child[w].state = "dead"
        BY <2>1 DEF PoolInv, CallInv
      <4>2. child[w].state = "dead" => child'[w].state = "dead"
        BY Monotone DEF PoolInv, MonotoneStep
      <4> QED BY <4>1, <4>2 DEF BelongsToLease
    <3>2. [worker |-> w, lease |-> l] \in guards
      BY <2>1, <3>1 DEF AbandonedCallIsRetired
    <3> QED BY <3>2, GuardsNext DEF PoolInv
  <2>2. CASE l \notin abandoned[w]
    BY <2>2, AbandonedNext DEF PoolInv
  <2> QED BY <2>1, <2>2
<1> QED BY <1>1, <1>2, PoolInvariant, PTL DEF Spec

-----------------------------------------------------------------------------
(* The capacity of the pool.                                               *)

LEMMA FiniteSlots ==
  ASSUME TypeInv
  PROVE  /\ IsFiniteSet(children) /\ IsFiniteSet(spawning) /\ IsFiniteSet(Live)
         /\ Cardinality(children) \in Nat /\ Cardinality(spawning) \in Nat
         /\ Cardinality(Live) \in Nat /\ Cardinality(Live) <= Cardinality(children)
<1>1. IsFiniteSet(Ids)
  BY FS_Interval, PoolAssumption DEF Ids
<1>2. children \in SUBSET Ids /\ spawning \in SUBSET Ids /\ Live \in SUBSET children
  BY DEF TypeInv, TypeOK, Live
<1>3. IsFiniteSet(children) /\ IsFiniteSet(spawning)
  BY <1>1, <1>2, FS_Subset
<1>4. IsFiniteSet(Live) /\ Cardinality(Live) <= Cardinality(children)
  BY <1>2, <1>3, FS_Subset
<1> QED BY <1>3, <1>4, FS_CardinalityType

\* Which steps add a reservation, and which install a slot.
LEMMA PoolGrowth ==
  ASSUME TypeInv, [Next]_vars
  PROVE  \/ children' \subseteq children /\ spawning' \subseteq spawning
         \/ /\ children' \subseteq children /\ spawning' = spawning \cup {nextId}
            /\ \/ warm > 0 /\ spawning = {}
               \/ ActiveCount < MaxWorkers
         \/ children' = children /\ spawning' = spawning \cup Replacements
         \/ \E id \in Ids : InstallSlot(id)
<1>1. CASE Startups
  BY <1>1 DEF Startups, WarmMin, ReserveSpawnSlot, SpawnSlot, SpawnFails, DiscardAtShutdown,
              ReleaseReservation, poolVars
<1>2. ASSUME NEW c \in Clients, LeaseNew(c)
      PROVE  /\ children' \subseteq children /\ spawning' = spawning \cup {nextId}
             /\ ActiveCount < MaxWorkers
  BY <1>2 DEF LeaseNew, ReserveSpawnSlot, Live
<1>3. ASSUME NEW c \in Clients, RequestLease(c) \/ LeaseWaitsOrFails(c) \/ LeaseRefused(c)
               \/ LeaseEnds(c) \/ LeaseEndsInStartup(c) \/ \E w \in Ids : LeaseIdle(c, w)
      PROVE  children' \subseteq children /\ spawning' \subseteq spawning
  BY <1>3 DEF RequestLease, LeaseWaitsOrFails, LeaseRefused, LeaseEnds, LeaseEndsInStartup,
              LeaseIdle, Live, poolVars
<1>4. CASE Calls \/ Releases \/ Drops
  BY <1>4 DEF Calls, Releases, Drops, AdmitCall, CallNeverDispatched, CallSettles, CallRetires,
         ReopenTakes, ReopenRetires, CallTool, Reopen, ReleaseLocks, ReleaseCloses, ReleaseRetires,
         ScheduleIdleReap, Release, DropUnarmed, DropArmed, DropRetiring, poolVars
<1>5. CASE Retirements
  BY <1>5 DEF Retirements, ForgetSlot, FinishDeadWorker, Replenish,
         IdleReap, ProbeMarksDead, ProbeForgetsDead, ProcessDies, AbandonedCallEnds, GuardRetires,
         poolVars
<1>6. CASE Shutdown \/ UNCHANGED vars
  BY <1>6 DEF Shutdown, BeginDrain, BeginShutdown, SweepBegins, SweepEnds, SweepMarks, vars, poolVars
<1> QED BY <1>1, <1>2, <1>3, <1>4, <1>5, <1>6 DEF Next, LeaseRequests

\* Only InstallSlot changes what is left of warm_min.
LEMMA WarmNext == ASSUME TypeInv, SlotInv, WarmInv, [Next]_vars PROVE WarmInv'
<1>0. TypeInv'
  BY TypeNext
<1>1. ASSUME NEW id \in Ids, InstallSlot(id) PROVE WarmInv'
  <2>1. id \notin children /\ children' = children \cup {id}
    BY <1>1 DEF InstallSlot, SlotInv, SlotOK
  <2>2. Cardinality(children') = Cardinality(children) + 1
    BY <2>1, FiniteSlots, FS_AddElement
  <2> QED BY <1>1, <2>2, FiniteSlots, PoolAssumption DEF WarmInv, InstallSlot, TypeInv, TypeOK
<1>2. CASE UNCHANGED warm /\ children' \subseteq children
  <2>1. Cardinality(children') <= Cardinality(children) /\ Cardinality(children') \in Nat
    BY <1>2, FiniteSlots, FS_Subset, FS_CardinalityType
  <2> QED BY <1>2, <2>1, FiniteSlots, PoolAssumption DEF WarmInv, TypeInv, TypeOK
<1>3. Startups => UNCHANGED warm \/ \E id \in Ids : InstallSlot(id)
  BY DEF Startups, WarmMin, SpawnSlot, SpawnFails, DiscardAtShutdown, ReleaseReservation, poolVars
<1>4. LeaseRequests \/ Shutdown \/ UNCHANGED vars => UNCHANGED warm
  BY DEF LeaseRequests, Shutdown, RequestLease, LeaseIdle, LeaseNew, LeaseWaitsOrFails, LeaseRefused,
         LeaseEnds, LeaseEndsInStartup, BeginDrain, BeginShutdown, SweepBegins, SweepEnds, SweepMarks,
         vars, poolVars
<1>5. Calls \/ Releases \/ Drops => UNCHANGED warm
  BY DEF Calls, Releases, Drops, AdmitCall, CallNeverDispatched, CallSettles, CallRetires,
         ReopenTakes, ReopenRetires, CallTool, Reopen, ReleaseLocks, ReleaseCloses, ReleaseRetires,
         ScheduleIdleReap, Release, DropUnarmed, DropArmed, DropRetiring, poolVars
<1>6. Retirements => UNCHANGED warm
  BY DEF Retirements, ForgetSlot, FinishDeadWorker, Replenish, IdleReap,
         ProbeMarksDead, ProbeForgetsDead, ProcessDies, AbandonedCallEnds, GuardRetires, poolVars
<1>7. UNCHANGED warm \/ \E id \in Ids : InstallSlot(id)
  BY <1>3, <1>4, <1>5, <1>6 DEF Next
<1> QED BY <1>1, <1>2, <1>7, PoolGrowth

\* Reserved and live workers never exceed max_workers, whatever sessions,
\* retirements and replenishments interleave.
THEOREM CapacityBound == Spec => []Capacity
<1>1. Init => WarmInv /\ Capacity
  <2> SUFFICES ASSUME Init PROVE WarmInv /\ Capacity
    OBVIOUS
  <2>1. children = {} /\ spawning = {} /\ Live = {} /\ warm = MinWorkers
    BY DEF Init, Live
  <2>2. Cardinality({}) = 0
    BY FS_EmptySet
  <2> QED BY <2>1, <2>2, PoolAssumption DEF WarmInv, Capacity, ActiveCount
<1>2. PoolInv /\ WarmInv /\ Capacity /\ [Next]_vars => WarmInv' /\ Capacity'
  <2> SUFFICES ASSUME PoolInv, WarmInv, Capacity, [Next]_vars PROVE WarmInv' /\ Capacity'
    OBVIOUS
  <2> USE DEF PoolInv
  <2>1. WarmInv'
    BY WarmNext
  <2>2. TypeInv' /\ MonotoneStep
    BY TypeNext, Monotone
  <2>3. children' \subseteq children => Live' \subseteq Live
    BY <2>2 DEF Live, MonotoneStep, TypeInv, TypeOK
  <2>4. /\ Cardinality(spawning') \in Nat /\ Cardinality(Live') \in Nat
        /\ Cardinality(spawning) \in Nat /\ Cardinality(Live) \in Nat
    <3>1. IsFiniteSet(Ids)
      BY FS_Interval, PoolAssumption DEF Ids
    <3>2. Live' \in SUBSET Ids /\ spawning' \in SUBSET Ids
      BY <2>2 DEF Live, TypeInv, TypeOK
    <3>3. IsFiniteSet(Live') /\ IsFiniteSet(spawning')
      BY <3>1, <3>2, FS_Subset
    <3> QED BY <3>3, FiniteSlots, FS_CardinalityType
  <2>5. CASE children' \subseteq children /\ spawning' \subseteq spawning
    <3>1. Cardinality(Live') <= Cardinality(Live) /\ Cardinality(spawning') <= Cardinality(spawning)
      BY <2>3, <2>5, FiniteSlots, FS_Subset
    <3> QED BY <2>1, <2>4, <3>1, PoolAssumption DEF Capacity, ActiveCount
  <2>6. CASE /\ children' \subseteq children /\ spawning' = spawning \cup {nextId}
             /\ \/ warm > 0 /\ spawning = {}
                \/ ActiveCount < MaxWorkers
    <3>1. Cardinality(Live') <= Cardinality(Live)
      BY <2>3, <2>6, FiniteSlots, FS_Subset
    <3>2. Cardinality(spawning') <= Cardinality(spawning) + 1
      <4>1. Cardinality(spawning') =
              IF nextId \in spawning THEN Cardinality(spawning) ELSE Cardinality(spawning) + 1
        BY <2>6, FiniteSlots, FS_AddElement
      <4> QED BY <2>4, <4>1
    <3>3. ActiveCount < MaxWorkers
      <4>1. CASE warm > 0 /\ spawning = {}
        BY <4>1, <2>4, FiniteSlots, FS_EmptySet, PoolAssumption
        DEF WarmInv, ActiveCount, TypeInv, TypeOK
      <4> QED BY <2>6, <4>1
    <3> QED BY <2>1, <2>4, <3>1, <3>2, <3>3, PoolAssumption DEF Capacity, ActiveCount
  <2>7. ASSUME NEW id \in Ids, InstallSlot(id) PROVE Capacity'
    <3>1. id \in spawning /\ id \notin children
      BY <2>7 DEF InstallSlot, SlotInv, SlotOK
    <3>2. Live' \subseteq Live \cup {id}
      BY <2>7 DEF InstallSlot, Live, slotVars
    <3>3. Cardinality(Live') <= Cardinality(Live) + 1
      <4>1. /\ IsFiniteSet(Live \cup {id})
            /\ Cardinality(Live \cup {id}) <= Cardinality(Live) + 1
        <5>1. /\ IsFiniteSet(Live \cup {id})
              /\ Cardinality(Live \cup {id}) =
                   IF id \in Live THEN Cardinality(Live) ELSE Cardinality(Live) + 1
          BY FiniteSlots, FS_AddElement
        <5> QED BY <2>4, <5>1
      <4>2. Cardinality(Live') <= Cardinality(Live \cup {id})
        BY <3>2, <4>1, FS_Subset
      <4> QED BY <2>4, <4>1, <4>2, FS_CardinalityType
    <3>4. Cardinality(spawning') = Cardinality(spawning) - 1
      BY <2>7, <3>1, FiniteSlots, FS_RemoveElement DEF InstallSlot
    <3> QED BY <2>4, <3>3, <3>4, PoolAssumption DEF Capacity, ActiveCount
  <2>8. CASE children' = children /\ spawning' = spawning \cup Replacements
    <3>1. Cardinality(Live') <= Cardinality(Live)
      BY <2>3, <2>8, FiniteSlots, FS_Subset
    <3>2. /\ IsFiniteSet(Replacements) /\ Cardinality(Replacements) \in Nat
          /\ Cardinality(Replacements) = 0 \/ Cardinality(Replacements) <= Missing
      BY ReplacementIds DEF TypeInv
    <3>3. Cardinality(spawning') <= Cardinality(spawning) + Cardinality(Replacements)
      <4>1. /\ IsFiniteSet(spawning \cap Replacements)
            /\ Cardinality(spawning \cup Replacements) =
                 Cardinality(spawning) + Cardinality(Replacements)
                   - Cardinality(spawning \cap Replacements)
        BY <3>2, FiniteSlots, FS_Union, FS_Intersection
      <4>2. Cardinality(spawning \cap Replacements) \in Nat
        BY <4>1, FS_CardinalityType
      <4> QED BY <2>4, <2>8, <3>2, <4>1, <4>2
    <3> QED BY <2>1, <2>4, <3>1, <3>2, <3>3, FiniteSlots, PoolAssumption
            DEF Capacity, ActiveCount, Missing
  <2> QED BY <2>1, <2>5, <2>6, <2>7, <2>8, PoolGrowth
<1> QED BY <1>1, <1>2, PoolInvariant, PTL DEF Spec

-----------------------------------------------------------------------------
(* Lease ids.  A lease id belongs to one unanswered request or to one       *)
(* handle; the startup of a leased worker knows the request it serves.      *)

Asks(c) == request[c].pc # "none"

StartsFor(w) == startup[w].pc \in {"spawn", "ready"} /\ startup[w].lease # NoLease

Serves(w, c) ==
    request[c].pc = "start" /\ request[c].worker = w /\ request[c].lease = startup[w].lease

LeaseInv ==
    /\ \A h \in handles : h.lease <= nextLease
    /\ \A c \in Clients : Asks(c) => request[c].lease <= nextLease
    /\ \A c \in Clients : \A h \in handles : Asks(c) => request[c].lease # h.lease
    /\ \A c, d \in Clients : Asks(c) /\ Asks(d) /\ request[c].lease = request[d].lease => c = d
    /\ LeaseNamesOneWorker

ServedInv == \A w \in Ids : StartsFor(w) => \E c \in Clients : Serves(w, c)

\* Requests that only end, or scan again.
LEMMA LeaseQuiet ==
  ASSUME TypeInv, LeaseInv, UNCHANGED <<handles, nextLease>>,
         \A c \in Clients : Asks(c)' => Asks(c) /\ request'[c].lease = request[c].lease
  PROVE  LeaseInv'
  BY DEF LeaseInv, LeaseNamesOneWorker

\* A request is answered with a handle of its own lease id.
LEMMA LeaseAnswered ==
  ASSUME TypeInv, LeaseInv, NEW c \in Clients, NEW w \in Ids, Asks(c), ~Asks(c)',
         UNCHANGED nextLease,
         \A d \in Clients : Asks(d)' => Asks(d) /\ request'[d].lease = request[d].lease,
         handles' = handles \cup {[worker |-> w, lease |-> request[c].lease]}
  PROVE  LeaseInv'
<1>1. \A h \in handles' : h \in handles \/ h = [worker |-> w, lease |-> request[c].lease]
  OBVIOUS
<1>2. \A h \in handles' : h.lease <= nextLease'
  BY <1>1 DEF LeaseInv
<1>3. \A d \in Clients : \A h \in handles' : Asks(d)' => request'[d].lease # h.lease
  BY <1>1 DEF LeaseInv
<1>4. LeaseNamesOneWorker'
  BY <1>1 DEF LeaseInv, LeaseNamesOneWorker
<1> QED BY <1>2, <1>3, <1>4 DEF LeaseInv

LEMMA NotifiedQuiet ==
  ASSUME TypeInv, request' = request \/ request' = Notified(request)
  PROVE  /\ \A c \in Clients : Asks(c)' => Asks(c) /\ request'[c].lease = request[c].lease
         /\ \A w \in Ids, c \in Clients : Serves(w, c) /\ startup'[w].lease = startup[w].lease
               => Serves(w, c)'
<1>1. CASE request' = request
  BY <1>1 DEF Asks, Serves
<1>2. CASE request' = Notified(request)
  BY <1>2, NotifiedType DEF Asks, Serves, TypeInv, TypeOK
<1> QED BY <1>1, <1>2

LEMMA StartupQuiet ==
  ASSUME TypeInv, NEW id \in Ids, request' = Notified(RequestsAfterStartup(id))
  PROVE  /\ \A c \in Clients : Asks(c)' =>
               Asks(c) /\ request'[c].lease = request[c].lease /\ request[c].worker # id
         /\ \A w \in Ids, c \in Clients :
               Serves(w, c) /\ w # id /\ startup'[w].lease = startup[w].lease => Serves(w, c)'
<1>1. RequestsAfterStartup(id) \in [Clients -> RequestRec]
  BY AfterStartupType DEF TypeInv
<1>2. \A c \in Clients : /\ request'[c].lease = RequestsAfterStartup(id)[c].lease
                         /\ request'[c].worker = RequestsAfterStartup(id)[c].worker
                         /\ request'[c].pc = "none" <=> RequestsAfterStartup(id)[c].pc = "none"
                         /\ request'[c].pc = "start" <=> RequestsAfterStartup(id)[c].pc = "start"
  BY <1>1, NotifiedType
<1>3. \A c \in Clients :
         \/ request[c].worker = id /\ RequestsAfterStartup(id)[c] = NoRequest
         \/ request[c].worker # id /\ RequestsAfterStartup(id)[c] = request[c]
  BY AfterStartupType DEF TypeInv
<1> QED BY <1>2, <1>3, RecordTypes DEF Asks, Serves

LEMMA StartupsLease == ASSUME TypeInv, LeaseInv, ServedInv, Startups PROVE LeaseInv' /\ ServedInv'
<1> USE DEF TypeInv
<1>1. ASSUME WarmMin PROVE LeaseInv' /\ ServedInv'
  <2>1. UNCHANGED <<handles, nextLease, request>>
    BY <1>1 DEF WarmMin
  <2>2. LeaseInv'
    BY <2>1, LeaseQuiet DEF Asks
  <2>3. \A w \in Ids : StartsFor(w)' => StartsFor(w) /\ startup'[w].lease = startup[w].lease
    BY <1>1, ReserveType DEF WarmMin, ReserveSpawnSlot, StartsFor, TypeOK
  <2> QED BY <2>1, <2>2, <2>3 DEF ServedInv, Serves
<1>2. ASSUME NEW id \in Ids, SpawnSlot(id) \/ SpawnFails(id) \/ DiscardAtShutdown(id)
      PROVE  LeaseInv' /\ ServedInv'
  <2>1. UNCHANGED <<handles, nextLease, request>>
    BY <1>2 DEF SpawnSlot, SpawnFails, DiscardAtShutdown, poolVars
  <2>2. LeaseInv'
    BY <2>1, LeaseQuiet DEF Asks
  <2>3. \A w \in Ids : StartsFor(w)' => StartsFor(w) /\ startup'[w].lease = startup[w].lease
    BY <1>2 DEF SpawnSlot, SpawnFails, DiscardAtShutdown, DiscardUninstalledSlot, StartsFor, TypeOK,
                StartupRec
  <2> QED BY <2>1, <2>2, <2>3 DEF ServedInv, Serves
<1>3. ASSUME NEW id \in Ids, InstallSlot(id) \/ ReleaseReservation(id) PROVE ServedInv'
  <2>1. request' = Notified(RequestsAfterStartup(id))
    BY <1>3 DEF InstallSlot, ReleaseReservation
  <2>2. startup' = [startup EXCEPT ![id] = NoStartup]
    BY <1>3 DEF InstallSlot, ReleaseReservation
  <2>3. \A w \in Ids : StartsFor(w)' =>
           StartsFor(w) /\ w # id /\ startup'[w].lease = startup[w].lease
    BY <2>2, RecordTypes DEF StartsFor, TypeOK
  <2> QED BY <2>1, <2>3, StartupQuiet DEF ServedInv
<1>4. ASSUME NEW id \in Ids, ReleaseReservation(id) PROVE LeaseInv'
  <2>1. request' = Notified(RequestsAfterStartup(id)) /\ UNCHANGED <<handles, nextLease>>
    BY <1>4 DEF ReleaseReservation
  <2> QED BY <2>1, StartupQuiet, LeaseQuiet
<1>5. ASSUME NEW id \in Ids, InstallSlot(id) PROVE LeaseInv'
  <2>1. request' = Notified(RequestsAfterStartup(id)) /\ UNCHANGED nextLease
    BY <1>5 DEF InstallSlot
  <2>2. CASE startup[id].lease = NoLease
    BY <1>5, <2>1, <2>2, StartupQuiet, LeaseQuiet DEF InstallSlot
  <2>3. CASE startup[id].lease # NoLease
    <3>1. PICK c \in Clients : Serves(id, c)
      BY <1>5, <2>3 DEF InstallSlot, StartsFor, ServedInv
    <3>2. Asks(c) /\ ~Asks(c)'
      BY <2>1, <3>1, StartupQuiet DEF Asks, Serves
    <3>3. handles' = handles \cup {[worker |-> id, lease |-> request[c].lease]}
      BY <1>5, <2>3, <3>1 DEF InstallSlot, Serves
    <3> QED BY <2>1, <3>2, <3>3, StartupQuiet, LeaseAnswered
  <2> QED BY <2>2, <2>3
<1> QED BY <1>1, <1>2, <1>3, <1>4, <1>5 DEF Startups

LEMMA LeaseRequestsLease ==
  ASSUME TypeInv, LeaseInv, ServedInv, LeaseRequests PROVE LeaseInv' /\ ServedInv'
<1> USE DEF TypeInv
<1>1. ASSUME NEW c \in Clients, RequestLease(c) PROVE LeaseInv' /\ ServedInv'
  <2>1. /\ ~Asks(c) /\ request'[c].lease = nextLease + 1 /\ nextLease' = nextLease + 1
        /\ \A d \in Clients : d # c => request'[d] = request[d]
        /\ UNCHANGED <<handles, startup>>
    BY <1>1 DEF RequestLease, Asks, TypeOK
  <2>2. nextLease \in Nat /\ \A h \in handles : h.lease \in Nat
    BY PoolAssumption DEF TypeOK, Handle, Leases
  <2>3. \A d \in Clients : request[d].lease \in Nat
    BY PoolAssumption DEF TypeOK, RequestRec, Leases, NoLease
  <2>4. LeaseInv'
    BY <2>1, <2>2, <2>3 DEF LeaseInv, Asks, LeaseNamesOneWorker
  <2>5. ServedInv'
    BY <2>1 DEF ServedInv, StartsFor, Serves, Asks
  <2> QED BY <2>4, <2>5
<1>2. ASSUME NEW c \in Clients, request[c].pc \in {"scan", "wait"},
             \A d \in Clients : d # c => request'[d] = request[d],
             UNCHANGED startup
      PROVE  ServedInv'
  BY <1>2 DEF ServedInv, StartsFor, Serves
<1>3. ASSUME NEW c \in Clients, NEW w \in Ids, LeaseIdle(c, w) PROVE LeaseInv' /\ ServedInv'
  <2>1. /\ Asks(c) /\ ~Asks(c)'
        /\ \A d \in Clients : d # c => request'[d] = request[d]
    BY <1>3, RecordTypes DEF LeaseIdle, Asks, TypeOK
  <2>2. \A d \in Clients : Asks(d)' => Asks(d) /\ request'[d].lease = request[d].lease
    BY <2>1 DEF Asks
  <2>3. LeaseInv'
    BY <1>3, <2>1, <2>2, LeaseAnswered DEF LeaseIdle, poolVars
  <2>4. ServedInv'
    BY <1>2, <1>3, <2>1 DEF LeaseIdle
  <2> QED BY <2>3, <2>4
<1>4. ASSUME NEW c \in Clients, LeaseWaitsOrFails(c) \/ LeaseRefused(c) \/ LeaseEnds(c)
      PROVE  LeaseInv' /\ ServedInv'
  <2>1. /\ request[c].pc \in {"scan", "wait"}
        /\ \A d \in Clients : d # c => request'[d] = request[d]
        /\ UNCHANGED <<handles, nextLease, startup>>
    BY <1>4 DEF LeaseWaitsOrFails, LeaseRefused, LeaseEnds, TypeOK, poolVars
  <2>2. Asks(c) /\ (Asks(c)' => request'[c].lease = request[c].lease)
    BY <1>4, RecordTypes DEF LeaseWaitsOrFails, LeaseRefused, LeaseEnds, Asks, TypeOK, RequestRec
  <2>3. \A d \in Clients : Asks(d)' => Asks(d) /\ request'[d].lease = request[d].lease
    BY <2>1, <2>2 DEF Asks
  <2> QED BY <1>2, <2>1, <2>3, LeaseQuiet
<1>5. ASSUME NEW c \in Clients, LeaseNew(c) PROVE LeaseInv' /\ ServedInv'
  <2>1. /\ request[c].pc = "scan" /\ request[c].lease \in Leases
        /\ \A d \in Clients : d # c => request'[d] = request[d]
        /\ request'[c] = [pc |-> "start", lease |-> request[c].lease, worker |-> nextId]
        /\ UNCHANGED <<handles, nextLease>>
    BY <1>5 DEF LeaseNew, TypeOK, HandleBound
  <2>2. PICK id \in Ids : id = nextId
    BY <1>5, <2>1, ReserveType DEF LeaseNew
  <2>3. /\ startup'[id] = [pc |-> "spawn", lease |-> request[c].lease]
        /\ \A w \in Ids : w # id => startup'[w] = startup[w]
    BY <1>5, <2>2 DEF LeaseNew, ReserveSpawnSlot, TypeOK
  <2>4. \A d \in Clients : Asks(d)' => Asks(d) /\ request'[d].lease = request[d].lease
    BY <2>1 DEF Asks
  <2>5. LeaseInv'
    BY <2>1, <2>4, LeaseQuiet
  <2>6. Serves(id, c)'
    BY <2>1, <2>2, <2>3 DEF Serves
  <2>7. \A w \in Ids : w # id /\ StartsFor(w)' => \E d \in Clients : Serves(w, d)'
    <3>1. \A w \in Ids : w # id /\ StartsFor(w)' => StartsFor(w)
      BY <2>3 DEF StartsFor
    <3>2. \A w \in Ids, d \in Clients : w # id /\ Serves(w, d) => Serves(w, d)'
      BY <2>1, <2>2, <2>3 DEF Serves
    <3> QED BY <3>1, <3>2 DEF ServedInv
  <2>8. ServedInv'
    BY <2>6, <2>7 DEF ServedInv
  <2> QED BY <2>5, <2>8
<1>6. ASSUME NEW c \in Clients, LeaseEndsInStartup(c) PROVE LeaseInv' /\ ServedInv'
  <2>0. PICK id \in Ids : id = request[c].worker
    BY <1>6 DEF LeaseEndsInStartup, HandleBound
  <2>1. /\ Asks(c) /\ ~Asks(c)'
        /\ \A d \in Clients : d # c => request'[d] = request[d]
        /\ UNCHANGED <<handles, nextLease>>
    BY <1>6, RecordTypes DEF LeaseEndsInStartup, Asks, TypeOK, poolVars
  <2>2. \A d \in Clients : Asks(d)' => Asks(d) /\ request'[d].lease = request[d].lease
    BY <2>1 DEF Asks
  <2>3. LeaseInv'
    BY <2>1, <2>2, LeaseQuiet
  <2>4. /\ startup'[id].pc \notin {"spawn", "ready"}
        /\ \A w \in Ids : w # id => startup'[w] = startup[w]
    BY <1>6, <2>0 DEF LeaseEndsInStartup, AbandonStartup, DiscardUninstalledSlot, TypeOK, StartupRec
  <2>5. \A w \in Ids : StartsFor(w)' => StartsFor(w) /\ w # id
    BY <2>4 DEF StartsFor
  <2>6. \A w \in Ids, d \in Clients : w # id /\ Serves(w, d) => Serves(w, d)'
    BY <2>0, <2>1, <2>4 DEF Serves
  <2>7. ServedInv'
    BY <2>5, <2>6 DEF ServedInv
  <2> QED BY <2>3, <2>7
<1> QED BY <1>1, <1>3, <1>4, <1>5, <1>6 DEF LeaseRequests

\* Calls, releases, drops, retirements and shutdown wake requests at most.
LEMMA OthersLease ==
  ASSUME TypeInv, LeaseInv, ServedInv,
         Calls \/ Releases \/ Drops \/ Retirements \/ Shutdown \/ UNCHANGED vars
  PROVE  LeaseInv' /\ ServedInv'
<1>1. UNCHANGED <<handles, nextLease>> /\ (request' = request \/ request' = Notified(request))
  <2>1. CASE Calls \/ Drops
    BY <2>1 DEF Calls, Drops, AdmitCall, CallNeverDispatched, CallSettles, CallRetires,
         ReopenTakes, ReopenRetires, CallTool, Reopen, DropUnarmed, DropArmed, DropRetiring, poolVars
  <2>2. CASE Releases
    BY <2>2 DEF Releases, ReleaseLocks, ReleaseCloses, ReleaseRetires, ScheduleIdleReap, Release,
         poolVars
  <2>3. CASE Retirements
    BY <2>3 DEF Retirements, ForgetSlot, FinishDeadWorker, Replenish, IdleReap,
         ProbeMarksDead, ProbeForgetsDead, ProcessDies, AbandonedCallEnds, GuardRetires, poolVars, taskVars
  <2>4. CASE Shutdown \/ UNCHANGED vars
    BY <2>4 DEF Shutdown, BeginDrain, BeginShutdown, SweepBegins, SweepEnds, SweepMarks, vars,
         poolVars, taskVars
  <2> QED BY <2>1, <2>2, <2>3, <2>4
<1>2. \A w \in Ids : StartsFor(w)' => StartsFor(w) /\ startup'[w].lease = startup[w].lease
  <2>1. ASSUME NEW v \in Ids, Replenish(v)
        PROVE  \A w \in Ids : StartsFor(w)' => StartsFor(w) /\ startup'[w].lease = startup[w].lease
    BY <2>1 DEF Replenish, StartsFor, TypeInv, TypeOK
  <2>2. CASE UNCHANGED startup
    BY <2>2 DEF StartsFor
  <2>3. Calls \/ Drops => UNCHANGED startup
    BY DEF Calls, Drops, AdmitCall, CallNeverDispatched, CallSettles, CallRetires,
         ReopenTakes, ReopenRetires, CallTool, Reopen, DropUnarmed, DropArmed, DropRetiring
  <2>4. Releases => UNCHANGED startup
    BY DEF Releases, ReleaseLocks, ReleaseCloses, ReleaseRetires, ScheduleIdleReap, Release
  <2>5. Retirements => UNCHANGED startup \/ \E v \in Ids : Replenish(v)
    BY DEF Retirements, ForgetSlot, FinishDeadWorker, IdleReap,
         ProbeMarksDead, ProbeForgetsDead, ProcessDies, AbandonedCallEnds, GuardRetires, taskVars
  <2>6. Shutdown \/ UNCHANGED vars => UNCHANGED startup
    BY DEF Shutdown, BeginDrain, BeginShutdown, SweepBegins, SweepEnds, SweepMarks, vars, taskVars
  <2> QED BY <2>1, <2>2, <2>3, <2>4, <2>5, <2>6
<1>3. LeaseInv'
  BY <1>1, NotifiedQuiet, LeaseQuiet
<1>4. ServedInv'
  BY <1>1, <1>2, NotifiedQuiet DEF ServedInv
<1> QED BY <1>3, <1>4

LEMMA LeaseInvariant == Spec => [](LeaseInv /\ ServedInv)
<1>1. Init => LeaseInv /\ ServedInv
  BY DEF Init, LeaseInv, ServedInv, LeaseNamesOneWorker, Asks, StartsFor, NoRequest, NoStartup
<1>2. TypeInv /\ LeaseInv /\ ServedInv /\ [Next]_vars => LeaseInv' /\ ServedInv'
  BY StartupsLease, LeaseRequestsLease, OthersLease DEF Next
<1>3. Spec => []TypeInv
  BY TypeInit, TypeNext, PTL DEF Spec
<1> QED BY <1>1, <1>2, <1>3, PTL DEF Spec

\* A lease id is never handed out for two workers, whichever requests are
\* answered by an idle worker, by a startup, or given up.
THEOREM LeaseIdsAreUnique == Spec => []LeaseNamesOneWorker
<1>1. LeaseInv => LeaseNamesOneWorker
  BY DEF LeaseInv
<1> QED BY <1>1, LeaseInvariant, PTL

-----------------------------------------------------------------------------
(* The pool implements LeaseService.                                       *)

\* What runs in the workers, now and after a step.
LEMMA RunningMembers ==
  /\ \A h : h \in RunningCalls <=> \/ \E f \in Futures : future[f].pc = "exec" /\ h = HandleOf(f)
                                   \/ h \in Handle /\ h.lease \in abandoned[h.worker]
  /\ \A h : h \in RunningCalls' <=> \/ \E f \in Futures : future'[f].pc = "exec" /\ h = HandleOf(f)'
                                    \/ h \in Handle /\ h.lease \in abandoned'[h.worker]
  /\ \A h : h \in RunningCloses <=> \E f \in Futures : future[f].pc = "closing" /\ h = HandleOf(f)
  /\ \A h : h \in RunningCloses' <=> \E f \in Futures : future'[f].pc = "closing" /\ h = HandleOf(f)'
  BY DEF RunningCalls, RunningCloses

\* The handle of a future that runs a request.
LEMMA RunningHandle ==
  ASSUME TypeInv, NEW f \in Futures, future[f].pc # "none"
  PROVE  /\ HandleOf(f) \in handles /\ HandleOf(f) \in Handle
         /\ HandleOf(f).worker = future[f].worker /\ HandleOf(f).lease = future[f].lease
  BY DEF TypeInv, TypeOK, HandleBound, HandleOf

\* A step in which requests to the worker w end, or are abandoned, and none
\* begins.
LEMMA RequestsEnd ==
  ASSUME TypeInv, NEW w \in Ids,
         \A f \in Futures : future'[f].pc \in {"exec", "closing"} => future'[f] = future[f],
         \A f \in Futures : future[f].pc \in {"exec", "closing"} /\ future[f].worker # w
            => future'[f] = future[f],
         \A v \in Ids : v # w => abandoned'[v] = abandoned[v],
         \A l \in abandoned'[w] : l \in abandoned[w] \/
            \E f \in Futures : future[f].pc = "exec" /\ future[f].worker = w /\ future[f].lease = l
  PROVE  Service!EndRequests(w)
<1>1. \A f \in Futures : future'[f] = future[f] => HandleOf(f)' = HandleOf(f)
  BY DEF HandleOf
<1>2. \A h \in RunningCalls' : h \in RunningCalls
  <2> SUFFICES ASSUME NEW h \in RunningCalls' PROVE h \in RunningCalls
    OBVIOUS
  <2>1. CASE \E f \in Futures : future'[f].pc = "exec" /\ h = HandleOf(f)'
    BY <1>1, <2>1, RunningMembers
  <2>2. CASE h \in Handle /\ h.lease \in abandoned'[h.worker]
    <3>1. h.worker \in Ids /\ h = [worker |-> h.worker, lease |-> h.lease]
      BY <2>2 DEF Handle
    <3>2. CASE h.lease \in abandoned[h.worker]
      BY <2>2, <3>2, RunningMembers
    <3>3. CASE h.lease \notin abandoned[h.worker]
      <4>1. h.worker = w
        BY <2>2, <3>1, <3>3
      <4>2. PICK f \in Futures : future[f].pc = "exec" /\ future[f].worker = w /\ future[f].lease = h.lease
        BY <2>2, <3>3, <4>1
      <4>3. h = HandleOf(f)
        BY <3>1, <4>1, <4>2 DEF HandleOf
      <4> QED BY <4>2, <4>3, RunningMembers
    <3> QED BY <3>2, <3>3
  <2> QED BY <2>1, <2>2, RunningMembers
<1>3. \A h \in RunningCloses' : h \in RunningCloses
  BY <1>1, RunningMembers
<1>4. \A h \in RunningCalls : h.worker = w \/ h \in RunningCalls'
  <2> SUFFICES ASSUME NEW h \in RunningCalls, h.worker # w PROVE h \in RunningCalls'
    OBVIOUS
  <2>1. ASSUME NEW f \in Futures, future[f].pc = "exec", h = HandleOf(f) PROVE h \in RunningCalls'
    <3>1. future[f].worker # w
      BY <2>1 DEF HandleOf
    <3> QED BY <1>1, <2>1, <3>1, RunningMembers
  <2>2. CASE h \in Handle /\ h.lease \in abandoned[h.worker]
    <3>1. h.worker \in Ids
      BY <2>2 DEF Handle
    <3> QED BY <2>2, <3>1, RunningMembers
  <2> QED BY <2>1, <2>2, RunningMembers
<1>5. \A h \in RunningCloses : h.worker = w \/ h \in RunningCloses'
  <2> SUFFICES ASSUME NEW h \in RunningCloses, h.worker # w PROVE h \in RunningCloses'
    OBVIOUS
  <2>1. PICK f \in Futures : future[f].pc = "closing" /\ h = HandleOf(f)
    BY RunningMembers
  <2>2. future[f].worker # w
    BY <2>1 DEF HandleOf
  <2> QED BY <1>1, <2>1, <2>2, RunningMembers
<1> QED BY <1>2, <1>3, <1>4, <1>5 DEF Service!EndRequests

\* Nothing begins or ends.
LEMMA NothingRuns ==
  ASSUME UNCHANGED <<future, abandoned>>
  PROVE  RunningCalls' = RunningCalls /\ RunningCloses' = RunningCloses
  BY DEF RunningCalls, RunningCloses, HandleOf

\* No slot appears, dies or changes hands for the service.
LEMMA NothingMoves ==
  ASSUME UNCHANGED <<child, handles>>
  PROVE  Started' = Started /\ Retired' = Retired /\ Holder' = Holder
  BY DEF Started, Retired, Holder

\* A step that sessions do not see.
LEMMA QuietMaps ==
  ASSUME UNCHANGED <<child, handles, shuttingDown, future, abandoned>>
  PROVE  UNCHANGED Service!vars
  BY NothingRuns, NothingMoves DEF Service!vars

\* A step that ends requests to one worker and leaves the slots alone.
LEMMA FinishMaps ==
  ASSUME NEW w \in Ids, Service!EndRequests(w), UNCHANGED <<child, handles, shuttingDown>>
  PROVE  Service!Next
<1>1. Service!Finish(w)
  BY NothingMoves DEF Service!Finish
<1> QED BY <1>1 DEF Service!Next

\* A worker is marked dead.
LEMMA RetireMaps ==
  ASSUME TypeInv, NEW w \in Ids, child[w].state \notin {"absent", "dead"}, NEW by, TakeDeadWorker(w, by),
         Service!EndRequests(w), UNCHANGED <<handles, shuttingDown>>
  PROVE  Service!Next
<1>1. child'[w] = Child("dead", NoLease) /\ \A v \in Ids : v # w => child'[v] = child[v]
  BY DEF TakeDeadWorker, TypeInv, TypeOK
<1>2. child'[w].state = "dead"
  BY <1>1 DEF Child
<1>3. Started' = Started /\ Retired' = Retired \cup {w} /\ w \in Started \ Retired
  BY <1>1, <1>2 DEF Started, Retired
<1>4. Holder' = [Holder EXCEPT ![w] = NoLease]
  <2>1. Holder'[w] = NoLease /\ \A v \in Ids : v # w => Holder'[v] = Holder[v]
    BY <1>1, <1>2 DEF Holder
  <2>2. DOMAIN Holder = Ids /\ DOMAIN Holder' = Ids
    BY DEF Holder
  <2>3. Holder = [v \in Ids |-> Holder[v]] /\ Holder' = [v \in Ids |-> Holder'[v]]
    BY DEF Holder
  <2> HIDE DEF Holder
  <2> QED BY <2>1, <2>2, <2>3
<1>5. Service!Retire(w)
  BY <1>3, <1>4 DEF Service!Retire, Service!Serving
<1> QED BY <1>5 DEF Service!Next

\* A handle holds its worker exactly if the slot is leased to it.
LEMMA HoldersHold ==
  ASSUME TypeInv, NEW h \in handles
  PROVE  BelongsToLease(h.worker, h.lease) => Service!Holds(h)
<1>1. h.worker \in Ids /\ h = [worker |-> h.worker, lease |-> h.lease]
  BY DEF TypeInv, TypeOK, Handle
<1> SUFFICES ASSUME BelongsToLease(h.worker, h.lease) PROVE Service!Holds(h)
  OBVIOUS
<1>2. child[h.worker].state \in {"leased", "closing"} /\ child[h.worker].lease = h.lease
  BY DEF BelongsToLease
<1>3. Holder[h.worker] = h.lease
  BY <1>1, <1>2 DEF Holder
<1>4. h.worker \in Started \ Retired
  BY <1>1, <1>2 DEF Started, Retired
<1> QED BY <1>3, <1>4 DEF Service!Holds, Service!Serving

\* A slot goes to a lease of its own.
LEMMA GrantMaps ==
  ASSUME TypeInv, NEW w \in Ids, NEW l \in Leases, ~shuttingDown,
         child[w].state \notin {"absent", "dead"}, Holder[w] = NoLease,
         \A h \in RunningCalls \cup RunningCloses : h.worker # w,
         \A h \in handles : h.lease # l,
         child'[w] = Child("leased", l), \A v \in Ids : v # w => child'[v] = child[v],
         handles' = handles \cup {[worker |-> w, lease |-> l]},
         UNCHANGED <<shuttingDown, future, abandoned>>
  PROVE  Service!Next
<1> DEFINE h == [worker |-> w, lease |-> l]
<1>1. child'[w].state = "leased" /\ child'[w].lease = l
  BY DEF Child
<1>2. Started' = Started /\ Retired' = Retired /\ w \in Started \ Retired
  BY <1>1 DEF Started, Retired
<1>3. Holder' = [Holder EXCEPT ![w] = l]
  <2>1. Holder'[w] = l
    BY <1>1 DEF Holder
  <2>2. \A v \in Ids : v # w => Holder'[v] = Holder[v]
    <3> SUFFICES ASSUME NEW v \in Ids, v # w PROVE Holder'[v] = Holder[v]
      OBVIOUS
    <3>1. [worker |-> v, lease |-> child[v].lease] # h
      OBVIOUS
    <3>2. [worker |-> v, lease |-> child[v].lease] \in handles' <=>
            [worker |-> v, lease |-> child[v].lease] \in handles
      BY <3>1
    <3> QED BY <3>2 DEF Holder
  <2>3. Holder = [v \in Ids |-> Holder[v]] /\ Holder' = [v \in Ids |-> Holder'[v]]
    BY DEF Holder
  <2> HIDE DEF Holder
  <2> QED BY <2>1, <2>2, <2>3
<1>4. ~Service!Busy(w)
  BY DEF Service!Busy
<1>5. Service!Grant(w, l)
  BY <1>2, <1>3, <1>4, NothingRuns DEF Service!Grant, Service!Serving
<1> QED BY <1>5 DEF Service!Next

\* What the steps of LeaseService rely on.
ServiceInv == PoolInv /\ LeaseInv /\ ServedInv /\ AbandonedCallIsRetired /\ Capacity

\* Nothing runs in an idle worker.
LEMMA IdleIsQuiet ==
  ASSUME PoolInv, NEW w \in Ids, child[w].state = "idle"
  PROVE  \A h \in RunningCalls \cup RunningCloses : h.worker # w
<1> SUFFICES ASSUME NEW h \in RunningCalls \cup RunningCloses, h.worker = w PROVE FALSE
  OBVIOUS
<1>1. ASSUME NEW f \in Futures, future[f].pc \in {"exec", "closing"}, h = HandleOf(f) PROVE FALSE
  <2>1. future[f].worker = w
    BY <1>1 DEF HandleOf
  <2>2. \/ child[w] = Child("leased", future[f].lease)
        \/ child[w] = Child("closing", future[f].lease)
        \/ child[w].state = "dead"
    BY <1>1, <2>1 DEF PoolInv, CallInv
  <2> QED BY <2>2 DEF Child
<1>2. CASE h \in Handle /\ h.lease \in abandoned[h.worker]
  BY <1>2 DEF PoolInv, CallInv, BelongsToLease
<1> QED BY <1>1, <1>2, RunningMembers

\* Nothing runs in a worker that is not installed yet.
LEMMA StartingIsQuiet ==
  ASSUME ServiceInv, NEW w \in spawning, child[w].state # "dead"
  PROVE  \A h \in RunningCalls \cup RunningCloses : h.worker # w
<1> USE DEF ServiceInv, PoolInv
<1> SUFFICES ASSUME NEW h \in RunningCalls \cup RunningCloses, h.worker = w PROVE FALSE
  OBVIOUS
<1>1. h \in handles
  <2>1. ASSUME NEW f \in Futures, future[f].pc \in {"exec", "closing"}, h = HandleOf(f)
        PROVE  h \in handles
    BY <2>1, RunningHandle
  <2>2. CASE h \in Handle /\ h.lease \in abandoned[h.worker]
    <3>1. h.worker \in Ids /\ h = [worker |-> h.worker, lease |-> h.lease]
      BY <2>2 DEF Handle
    <3>2. BelongsToLease(h.worker, h.lease)
      BY <2>2, <3>1 DEF CallInv
    <3> QED BY <2>2, <3>1, <3>2 DEF AbandonedCallIsRetired, TypeInv, HandleBound
  <2> QED BY <2>1, <2>2, RunningMembers
<1> QED BY <1>1 DEF SlotInv

\* A worker that is started is one of those that the pool counts.
LEMMA RoomToStart ==
  ASSUME ServiceInv, NEW w \in spawning, child[w].state = "absent"
  PROVE  Service!Cardinality(Service!Serving) < MaxWorkers
<1> USE DEF ServiceInv, PoolInv
<1> DEFINE S == Started \ Retired
<1>1. S \cup {w} \subseteq spawning \cup Live /\ w \notin S
  BY DEF Started, Retired, SlotInv, SlotOK, Live
<1> HIDE DEF S
<1>2. IsFiniteSet(spawning) /\ IsFiniteSet(Live) /\ Cardinality(spawning) \in Nat /\ Cardinality(Live) \in Nat
  BY FiniteSlots
<1>3. /\ IsFiniteSet(spawning \cup Live) /\ IsFiniteSet(spawning \cap Live)
      /\ Cardinality(spawning \cup Live) =
           Cardinality(spawning) + Cardinality(Live) - Cardinality(spawning \cap Live)
  BY <1>2, FS_Union, FS_Intersection
<1>4. Cardinality(spawning \cap Live) \in Nat
  BY <1>3, FS_CardinalityType
<1>5. IsFiniteSet(S \cup {w}) /\ Cardinality(S \cup {w}) <= Cardinality(spawning \cup Live)
  BY <1>1, <1>3, FS_Subset
<1>6. IsFiniteSet(S)
  BY <1>5, FS_Subset
<1>7. Cardinality(S \cup {w}) = Cardinality(S) + 1 /\ Cardinality(S) \in Nat
  BY <1>1, <1>6, FS_AddElement, FS_CardinalityType
<1>8. Cardinality(S) < MaxWorkers
  BY <1>2, <1>3, <1>4, <1>5, <1>7, PoolAssumption DEF Capacity, ActiveCount
<1> QED BY <1>8, Zenon DEF S, Service!Serving, Service!Cardinality, Cardinality

\* The steps of a startup.
LEMMA StartupsMap == ASSUME ServiceInv, Startups PROVE [Service!Next]_(Service!vars)
<1> USE DEF ServiceInv, PoolInv, TypeInv
<1>1. CASE WarmMin
  BY <1>1, QuietMaps DEF WarmMin, slotVars
<1>2. ASSUME NEW id \in Ids, SpawnSlot(id) PROVE Service!Next
  <2> DEFINE new == IF startup[id].lease = NoLease THEN Child("idle", NoLease)
                    ELSE Child("leased", startup[id].lease)
  <2>1. /\ child[id].state = "absent" /\ id \in spawning /\ ~shuttingDown
        /\ UNCHANGED <<handles, shuttingDown, future, abandoned>>
    BY <1>2 DEF SpawnSlot, SlotInv, SlotOK, poolVars
  <2>2. child'[id] = new /\ \A v \in Ids : v # id => child'[v] = child[v]
    BY <1>2 DEF SpawnSlot, TypeOK
  <2>3. new.state \in {"idle", "leased"}
    BY DEF Child
  <2> HIDE DEF new
  <2>4. \A h \in handles : h.worker # id
    BY <2>1 DEF SlotInv
  <2>5. Holder' = Holder
    <3>1. \A v \in Ids : Holder'[v] = Holder[v]
      <4>1. Holder'[id] = NoLease
        <5>1. [worker |-> id, lease |-> child'[id].lease] \notin handles'
          BY <2>1, <2>4
        <5> QED BY <5>1 DEF Holder
      <4>2. Holder[id] = NoLease
        BY <2>1 DEF Holder
      <4>3. \A v \in Ids : v # id => Holder'[v] = Holder[v]
        BY <2>1, <2>2 DEF Holder
      <4> QED BY <4>1, <4>2, <4>3
    <3>2. Holder = [v \in Ids |-> Holder[v]] /\ Holder' = [v \in Ids |-> Holder'[v]]
      BY DEF Holder
    <3> HIDE DEF Holder
    <3> QED BY <3>1, <3>2
  <2>6. Started' = Started \cup {id} /\ Retired' = Retired /\ id \notin Started
    BY <2>1, <2>2, <2>3 DEF Started, Retired
  <2>7. Service!Start(id)
    BY <2>1, <2>5, <2>6, RoomToStart, NothingRuns DEF Service!Start
  <2> QED BY <2>7 DEF Service!Next
<1>3. ASSUME NEW id \in Ids, SpawnFails(id) PROVE UNCHANGED Service!vars
  BY <1>3, QuietMaps DEF SpawnFails, slotVars, poolVars
<1>4. ASSUME NEW id \in Ids, InstallSlot(id) PROVE [Service!Next]_(Service!vars)
  <2>1. /\ startup[id].pc = "ready" /\ ~shuttingDown /\ id \in spawning
        /\ UNCHANGED <<child, shuttingDown, future, abandoned>>
    BY <1>4 DEF InstallSlot, slotVars, SlotInv, SlotOK
  <2>2. CASE handles' = handles
    BY <2>1, <2>2, QuietMaps
  <2>3. CASE handles' # handles
    <3> DEFINE l == startup[id].lease
    <3>1. l # NoLease /\ handles' = handles \cup {[worker |-> id, lease |-> l]}
      BY <1>4, <2>3 DEF InstallSlot
    <3>2. child[id] = Child("leased", l) /\ l \in Leases
      BY <2>1, <3>1 DEF SlotInv, SlotOK, TypeOK, StartupRec
    <3>3. \A h \in handles : h.worker # id /\ h.lease # l
      <4>1. PICK c \in Clients : Serves(id, c)
        BY <2>1, <3>1 DEF ServedInv, StartsFor
      <4>2. request[c].lease = l /\ Asks(c)
        BY <4>1 DEF Serves, Asks
      <4>3. \A h \in handles : h.worker # id
        BY <2>1 DEF SlotInv
      <4> QED BY <4>2, <4>3 DEF LeaseInv
    <3>4. child[id].state = "leased" /\ child[id].lease = l
      BY <3>2 DEF Child
    <3>5. Holder[id] = NoLease
      <4>1. [worker |-> id, lease |-> child[id].lease] \notin handles
        BY <3>3
      <4> QED BY <4>1 DEF Holder
    <3>6. \A h \in RunningCalls \cup RunningCloses : h.worker # id
      BY <2>1, <3>4, StartingIsQuiet
    <3>7. child'[id] = Child("leased", l) /\ \A v \in Ids : v # id => child'[v] = child[v]
      BY <2>1, <3>2
    <3> HIDE DEF l
    <3> QED BY <2>1, <3>1, <3>2, <3>3, <3>4, <3>5, <3>6, <3>7, GrantMaps
  <2> QED BY <2>2, <2>3
<1>5. ASSUME NEW id \in Ids, DiscardAtShutdown(id) PROVE Service!Next
  <2>1. child[id].state \in {"idle", "leased"}
    <3>1. child[id] = Child("idle", NoLease) \/ child[id] = Child("leased", startup[id].lease)
      BY <1>5 DEF DiscardAtShutdown, SlotInv, SlotOK
    <3> QED BY <3>1 DEF Child
  <2>2. UNCHANGED <<handles, shuttingDown, future, abandoned>> /\ TakeDeadWorker(id, "startup")
    BY <1>5 DEF DiscardAtShutdown, DiscardUninstalledSlot, TakeDeadWorker, poolVars
  <2>3. Service!EndRequests(id)
    BY <2>2, RequestsEnd
  <2> QED BY <2>1, <2>2, <2>3, RetireMaps
<1>6. ASSUME NEW id \in Ids, ReleaseReservation(id) PROVE [Service!Next]_(Service!vars)
  <2>1. UNCHANGED <<child, handles, future, abandoned>> /\ shuttingDown' \in {shuttingDown, TRUE}
    BY <1>6 DEF ReleaseReservation, slotVars, TypeOK
  <2>2. CASE shuttingDown' = shuttingDown
    BY <2>1, <2>2, QuietMaps
  <2>3. CASE shuttingDown' = TRUE
    <3>1. Service!Shut
      BY <2>1, <2>3, NothingRuns, NothingMoves DEF Service!Shut
    <3> QED BY <3>1 DEF Service!Next
  <2> QED BY <2>1, <2>2, <2>3
<1> QED BY <1>1, <1>2, <1>3, <1>4, <1>5, <1>6 DEF Startups

\* The steps of a lease request.
LEMMA LeaseRequestsMap == ASSUME ServiceInv, LeaseRequests PROVE [Service!Next]_(Service!vars)
<1> USE DEF ServiceInv, PoolInv, TypeInv
<1>1. ASSUME NEW c \in Clients, RequestLease(c) \/ LeaseNew(c) \/ LeaseWaitsOrFails(c)
                                  \/ LeaseRefused(c) \/ LeaseEnds(c)
      PROVE  UNCHANGED Service!vars
  <2>1. UNCHANGED <<child, handles, shuttingDown, future, abandoned>>
    BY <1>1 DEF RequestLease, LeaseNew, LeaseWaitsOrFails, LeaseRefused, LeaseEnds, poolVars, slotVars
  <2> QED BY <2>1, QuietMaps
<1>2. ASSUME NEW c \in Clients, NEW w \in Ids, LeaseIdle(c, w) PROVE Service!Next
  <2> DEFINE l == request[c].lease
  <2>1. /\ child[w].state = "idle" /\ ~shuttingDown /\ Asks(c)
        /\ handles' = handles \cup {[worker |-> w, lease |-> l]}
        /\ UNCHANGED <<shuttingDown, future, abandoned>>
    BY <1>2 DEF LeaseIdle, IdleChildren, Asks, poolVars
  <2>2. child'[w] = Child("leased", l) /\ \A v \in Ids : v # w => child'[v] = child[v]
    BY <1>2 DEF LeaseIdle, TypeOK
  <2>3. l \in Leases /\ \A h \in handles : h.lease # l
    BY <2>1 DEF LeaseInv, HandleBound, Asks
  <2>4. Holder[w] = NoLease
    BY <2>1 DEF Holder
  <2>5. \A h \in RunningCalls \cup RunningCloses : h.worker # w
    BY <2>1, IdleIsQuiet
  <2> HIDE DEF l
  <2> QED BY <2>1, <2>2, <2>3, <2>4, <2>5, GrantMaps
<1>3. ASSUME NEW c \in Clients, LeaseEndsInStartup(c) PROVE [Service!Next]_(Service!vars)
  <2> DEFINE id == request[c].worker
  <2>1. id \in Ids /\ AbandonStartup(id) /\ UNCHANGED <<handles, shuttingDown, future, abandoned>>
    BY <1>3 DEF LeaseEndsInStartup, HandleBound, poolVars
  <2> HIDE DEF id
  <2>2. CASE UNCHANGED child
    BY <2>1, <2>2, QuietMaps
  <2>3. CASE startup[id].pc = "ready" /\ DiscardUninstalledSlot(id)
    <3>1. child[id] = Child("idle", NoLease) \/ child[id] = Child("leased", startup[id].lease)
      BY <2>1, <2>3 DEF SlotInv, SlotOK
    <3>2. child[id].state \in {"idle", "leased"}
      BY <3>1 DEF Child
    <3>3. TakeDeadWorker(id, "startup")
      BY <2>3 DEF DiscardUninstalledSlot, TakeDeadWorker
    <3>4. Service!EndRequests(id)
      BY <2>1, RequestsEnd
    <3> QED BY <2>1, <3>2, <3>3, <3>4, RetireMaps
  <2> QED BY <2>1, <2>2, <2>3 DEF AbandonStartup
<1> QED BY <1>1, <1>2, <1>3 DEF LeaseRequests

\* A future stops, or waits: at most its request ends.
LEMMA FutureEnds ==
  ASSUME TypeInv, NEW f \in Futures, future[f].pc # "none",
         \A g \in Futures : g # f => future'[g] = future[g],
         future'[f].pc \notin {"exec", "closing"}, UNCHANGED abandoned
  PROVE  Service!EndRequests(future[f].worker)
<1> DEFINE w == future[f].worker
<1>1. w \in Ids
  BY FutureHandle
<1>2. \A g \in Futures : future'[g].pc \in {"exec", "closing"} => future'[g] = future[g]
  OBVIOUS
<1>3. \A g \in Futures : future[g].pc \in {"exec", "closing"} /\ future[g].worker # w
         => future'[g] = future[g]
  OBVIOUS
<1> HIDE DEF w
<1>4. Service!EndRequests(w)
  BY <1>1, <1>2, <1>3, RequestsEnd
<1> QED BY <1>4 DEF w

\* Retirement by a future: the worker is retired, or only the future ends.
LEMMA RetireInlineMaps ==
  ASSUME TypeInv, NEW f \in Futures, future[f].pc \in {"exec", "closing", "stale"},
         RetireInline(f), UNCHANGED <<handles, shuttingDown, abandoned>>
  PROVE  Service!Next
<1> DEFINE w == future[f].worker
<1>1. w \in Ids
  BY FutureHandle
<1>2. /\ \A g \in Futures : g # f => future'[g] = future[g]
      /\ future'[f].pc \in {"retiring", "none"}
  BY RecordTypes DEF RetireInline, End, TypeInv, TypeOK, FutureRec
<1>3. Service!EndRequests(w)
  BY <1>2, FutureEnds
<1>4. CASE BelongsToLease(w, future[f].lease)
  <2>1. child[w].state \in {"leased", "closing"} /\ TakeDeadWorker(w, f)
    BY <1>4 DEF RetireInline, BelongsToLease
  <2> QED BY <1>1, <1>3, <2>1, RetireMaps
<1>5. CASE ~BelongsToLease(w, future[f].lease)
  <2>1. UNCHANGED child
    BY <1>5 DEF RetireInline
  <2> QED BY <1>1, <1>3, <2>1, FinishMaps
<1> QED BY <1>4, <1>5

\* A future of another kind: none of its steps is a request.
LEMMA FutureWaits ==
  ASSUME TypeInv, NEW f \in Futures, future[f].pc \notin {"exec", "closing"},
         \A g \in Futures : g # f => future'[g] = future[g],
         future'[f].pc \notin {"exec", "closing"},
         UNCHANGED <<child, handles, shuttingDown, abandoned>>
  PROVE  UNCHANGED Service!vars
<1>1. /\ \A g \in Futures : future'[g].pc \in {"exec", "closing"} <=> future[g].pc \in {"exec", "closing"}
      /\ \A g \in Futures : future[g].pc \in {"exec", "closing"} => future'[g] = future[g]
  OBVIOUS
<1>2. \A g \in Futures : future[g].pc \in {"exec", "closing"} => HandleOf(g)' = HandleOf(g)
  BY <1>1 DEF HandleOf
<1>3. \A h : h \in RunningCalls' <=> h \in RunningCalls
  BY <1>1, <1>2, RunningMembers
<1>4. \A h : h \in RunningCloses' <=> h \in RunningCloses
  BY <1>1, <1>2, RunningMembers
<1> QED BY <1>3, <1>4, NothingMoves DEF Service!vars

\* A future enters the worker.
LEMMA RequestBegins ==
  ASSUME TypeInv, NEW f \in Futures, future[f].pc \notin {"none", "exec", "closing"},
         NEW p \in {"exec", "closing"}, future' = [future EXCEPT ![f].pc = p], UNCHANGED abandoned
  PROVE  /\ RunningCalls' = IF p = "exec" THEN RunningCalls \cup {HandleOf(f)} ELSE RunningCalls
         /\ RunningCloses' = IF p = "closing" THEN RunningCloses \cup {HandleOf(f)} ELSE RunningCloses
<1>1. /\ future'[f].pc = p /\ \A g \in Futures : g # f => future'[g] = future[g]
      /\ future'[f].worker = future[f].worker /\ future'[f].lease = future[f].lease
  BY DEF TypeInv, TypeOK, FutureRec
<1>2. \A g \in Futures : HandleOf(g)' = HandleOf(g)
  BY <1>1 DEF HandleOf
<1>3. /\ \A g \in Futures : future'[g].pc = "exec" <=> future[g].pc = "exec" \/ (g = f /\ p = "exec")
      /\ \A g \in Futures : future'[g].pc = "closing" <=>
                             future[g].pc = "closing" \/ (g = f /\ p = "closing")
  BY <1>1
<1>4. \A h : h \in RunningCalls' <=> h \in RunningCalls \/ (p = "exec" /\ h = HandleOf(f))
  BY <1>2, <1>3, RunningMembers
<1>5. \A h : h \in RunningCloses' <=> h \in RunningCloses \/ (p = "closing" /\ h = HandleOf(f))
  BY <1>2, <1>3, RunningMembers
<1> QED BY <1>4, <1>5

\* The call lock keeps calls and closes of one worker apart.
LEMMA NoneCloses ==
  ASSUME TypeInv, NEW w, CallLockFree(w)
  PROVE  \A h \in RunningCloses : h.worker # w
<1> SUFFICES ASSUME NEW h \in RunningCloses PROVE h.worker # w
  OBVIOUS
<1>1. PICK f \in Futures : future[f].pc = "closing" /\ h = HandleOf(f)
  BY RunningMembers
<1> QED BY <1>1 DEF CallLockFree, HoldsCallLock, HandleOf

\* The steps of a call.
LEMMA CallsMap == ASSUME ServiceInv, Calls PROVE [Service!Next]_(Service!vars)
<1> USE DEF ServiceInv, PoolInv
<1>1. ASSUME NEW f \in Futures, AdmitCall(f) PROVE [Service!Next]_(Service!vars)
  <2>1. /\ future[f].pc = "queue" /\ ~shuttingDown /\ CallLockFree(future[f].worker)
        /\ UNCHANGED <<child, handles, shuttingDown, abandoned>>
    BY <1>1 DEF AdmitCall, poolVars, slotVars
  <2>2. CASE child[future[f].worker] = Child("leased", future[f].lease)
    <3> DEFINE h == HandleOf(f)
    <3>1. h \in handles /\ h.worker = future[f].worker /\ h.lease = future[f].lease
      BY <2>1, RunningHandle
    <3>2. BelongsToLease(h.worker, h.lease)
      BY <2>2, <3>1 DEF BelongsToLease, Child
    <3>3. Service!Holds(h)
      BY <3>1, <3>2, HoldersHold
    <3>4. \A g \in RunningCloses : g.worker # h.worker
      BY <2>1, <3>1, NoneCloses
    <3>5. future' = [future EXCEPT ![f].pc = "exec"]
      BY <1>1, <2>2 DEF AdmitCall
    <3>6. RunningCalls' = RunningCalls \cup {h} /\ RunningCloses' = RunningCloses
      BY <2>1, <3>5, RequestBegins
    <3> HIDE DEF h
    <3>7. Service!Call(h)
      BY <2>1, <3>3, <3>4, <3>6, NothingMoves DEF Service!Call
    <3> QED BY <3>1, <3>7 DEF Service!Next
  <2>3. CASE child[future[f].worker] # Child("leased", future[f].lease)
    <3>1. End(f)
      BY <1>1, <2>3 DEF AdmitCall
    <3>2. (\A g \in Futures : g # f => future'[g] = future[g]) /\ future'[f].pc = "none"
      BY <3>1, RecordTypes DEF End, TypeInv, TypeOK
    <3> QED BY <2>1, <3>2, FutureWaits
  <2> QED BY <2>2, <2>3
<1>2. ASSUME NEW f \in Futures, CallNeverDispatched(f) PROVE [Service!Next]_(Service!vars)
  <2>1. future[f].pc = "queue" /\ UNCHANGED <<child, handles, shuttingDown, abandoned>>
    BY <1>2 DEF CallNeverDispatched, poolVars, slotVars
  <2>2. (\A g \in Futures : g # f => future'[g] = future[g]) /\ future'[f].pc = "none"
    BY <1>2, RecordTypes DEF CallNeverDispatched, End, TypeInv, TypeOK
  <2> QED BY <2>1, <2>2, FutureWaits
<1>3. ASSUME NEW f \in Futures, CallSettles(f) PROVE Service!Next
  <2>1. future[f].pc = "exec" /\ UNCHANGED <<child, handles, shuttingDown, abandoned>>
    BY <1>3 DEF CallSettles, poolVars, slotVars
  <2>2. (\A g \in Futures : g # f => future'[g] = future[g]) /\ future'[f].pc = "none"
    BY <1>3, RecordTypes DEF CallSettles, End, TypeInv, TypeOK
  <2>3. future[f].worker \in Ids /\ Service!EndRequests(future[f].worker)
    BY <2>1, <2>2, FutureEnds, FutureHandle
  <2> QED BY <2>1, <2>3, FinishMaps
<1>4. ASSUME NEW f \in Futures, CallRetires(f) \/ ReopenRetires(f) PROVE Service!Next
  <2>1. /\ future[f].pc \in {"exec", "closing", "stale"} /\ RetireInline(f)
        /\ UNCHANGED <<handles, shuttingDown, abandoned>>
    BY <1>4 DEF CallRetires, ReopenRetires, poolVars
  <2> QED BY <2>1, RetireInlineMaps
<1>5. ASSUME NEW f \in Futures, NEW h \in handles, CallTool(f, h) \/ Reopen(f, h)
      PROVE  [Service!Next]_(Service!vars)
  <2>1. future[f].pc = "none" /\ UNCHANGED <<child, handles, shuttingDown, abandoned>>
    BY <1>5 DEF CallTool, Reopen, poolVars, slotVars
  <2>2. (\A g \in Futures : g # f => future'[g] = future[g])
        /\ future'[f].pc \in {"queue", "reopenwait"}
    BY <1>5 DEF CallTool, Reopen, Begin, TypeInv, TypeOK
  <2> QED BY <2>1, <2>2, FutureWaits
<1>6. ASSUME NEW f \in Futures, ReopenTakes(f) PROVE [Service!Next]_(Service!vars)
  <2>1. future[f].pc = "reopenwait" /\ UNCHANGED <<child, handles, shuttingDown, abandoned>>
    BY <1>6 DEF ReopenTakes, poolVars, slotVars
  <2>2. (\A g \in Futures : g # f => future'[g] = future[g]) /\ future'[f].pc = "stale"
    BY <1>6 DEF ReopenTakes, TypeInv, TypeOK, FutureRec
  <2> QED BY <2>1, <2>2, FutureWaits
<1> QED BY <1>1, <1>2, <1>3, <1>4, <1>5, <1>6 DEF Calls

\* The close is answered: the slot becomes free.
LEMMA ReleaseMaps ==
  ASSUME ServiceInv, NEW f \in Futures, ReleaseCloses(f), child[future[f].worker].state # "dead"
  PROVE  Service!Next
<1> USE DEF ServiceInv, PoolInv
<1> DEFINE h == HandleOf(f)
           w == future[f].worker
<1>1. /\ future[f].pc = "closing" /\ abandoned[w] = {}
      /\ UNCHANGED <<handles, shuttingDown, abandoned>>
  BY DEF ReleaseCloses, poolVars
<1>2. h \in handles /\ h.worker = w /\ h.lease = future[f].lease /\ w \in Ids
  BY <1>1, RunningHandle, FutureHandle
<1>3. child[w] = Child("closing", future[f].lease)
  BY <1>1 DEF CallInv
<1>4. Service!Holds(h)
  <2>1. BelongsToLease(h.worker, h.lease)
    BY <1>2, <1>3 DEF BelongsToLease, Child
  <2> QED BY <1>2, <2>1, HoldersHold
<1>5. child'[w] = Child("idle", NoLease) /\ \A v \in Ids : v # w => child'[v] = child[v]
  BY <1>2 DEF ReleaseCloses, TypeInv, TypeOK
<1>6. child'[w].state = "idle" /\ child[w].state = "closing"
  BY <1>3, <1>5 DEF Child
<1>7. /\ \A g \in Futures : g # f => future'[g] = future[g]
      /\ future'[f].pc = "released"
  BY DEF ReleaseCloses, TypeInv, TypeOK, FutureRec
<1>8. \A g \in Futures : g # f /\ future[g].pc \in {"exec", "closing"} => future[g].worker # w
  BY <1>1 DEF CallInv, HoldsCallLock
<1>9. \A g \in Futures : g # f => HandleOf(g)' = HandleOf(g)
  BY <1>7 DEF HandleOf
<1>10. \A g \in Futures : g # f /\ future[g].pc \in {"exec", "closing"} => HandleOf(g).worker # w
  BY <1>8 DEF HandleOf
<1> HIDE DEF h, w
<1>11. RunningCalls' = RunningCalls
  <2>1. \A x : x \in RunningCalls' <=> x \in RunningCalls
    BY <1>1, <1>7, <1>9, RunningMembers
  <2> QED BY <2>1
<1>12. RunningCloses' = RunningCloses \ {h} /\ h \in RunningCloses
  <2>1. \A x : x \in RunningCloses' <=> x \in RunningCloses /\ x # h
    BY <1>1, <1>2, <1>7, <1>9, <1>10, RunningMembers DEF h
  <2>2. h \in RunningCloses
    BY <1>1, RunningMembers DEF h
  <2> QED BY <2>1, <2>2
<1>13. \A x \in RunningCalls' \cup RunningCloses' : x.worker # w
  <2> SUFFICES ASSUME NEW x \in RunningCalls' \cup RunningCloses' PROVE x.worker # w
    OBVIOUS
  <2>1. ASSUME NEW g \in Futures, future'[g].pc \in {"exec", "closing"}, x = HandleOf(g)'
        PROVE  x.worker # w
    <3>1. g # f /\ x = HandleOf(g) /\ future[g].pc \in {"exec", "closing"}
      BY <1>7, <1>9, <2>1
    <3> QED BY <1>10, <3>1
  <2>2. CASE x.lease \in abandoned'[x.worker]
    BY <1>1, <2>2
  <2> QED BY <2>1, <2>2, RunningMembers
<1>14. Started' = Started /\ Retired' = Retired
  BY <1>5, <1>6 DEF Started, Retired
<1>15. Holder' = [Holder EXCEPT ![w] = NoLease]
  <2>1. Holder'[w] = NoLease /\ \A v \in Ids : v # w => Holder'[v] = Holder[v]
    BY <1>1, <1>2, <1>5, <1>6 DEF Holder
  <2>2. Holder = [v \in Ids |-> Holder[v]] /\ Holder' = [v \in Ids |-> Holder'[v]]
    BY DEF Holder
  <2> HIDE DEF Holder
  <2> QED BY <2>1, <2>2
<1>16. \A x \in RunningCalls \cup (RunningCloses \ {h}) : x.worker # h.worker
  BY <1>2, <1>11, <1>12, <1>13
<1>17. Service!Release(h)
  BY <1>1, <1>2, <1>4, <1>11, <1>12, <1>14, <1>15, <1>16 DEF Service!Release
<1> QED BY <1>2, <1>17 DEF Service!Next

\* The steps of a release.
LEMMA ReleasesMap == ASSUME ServiceInv, Releases PROVE [Service!Next]_(Service!vars)
<1> USE DEF ServiceInv, PoolInv
<1>1. ASSUME NEW f \in Futures, ReleaseLocks(f) PROVE [Service!Next]_(Service!vars)
  <2> DEFINE w == future[f].worker
             l == future[f].lease
             h == HandleOf(f)
  <2>1. /\ future[f].pc = "lockwait" /\ CallLockFree(w)
        /\ UNCHANGED <<handles, shuttingDown, abandoned>>
    BY <1>1 DEF ReleaseLocks, poolVars
  <2>2. h \in handles /\ h.worker = w /\ h.lease = l /\ w \in Ids
    BY <2>1, RunningHandle, FutureHandle
  <2>3. CASE BelongsToLease(w, l)
    <3>1. Service!Holds(h)
      BY <2>2, <2>3, HoldersHold
    <3>2. \A g \in RunningCloses : g.worker # h.worker
      BY <2>1, <2>2, NoneCloses
    <3>3. future' = [future EXCEPT ![f].pc = "closing"]
      BY <1>1, <2>3 DEF ReleaseLocks
    <3>4. RunningCalls' = RunningCalls /\ RunningCloses' = RunningCloses \cup {h}
      BY <2>1, <3>3, RequestBegins
    <3>5. child'[w] = Child("closing", l) /\ \A v \in Ids : v # w => child'[v] = child[v]
      BY <1>1, <2>2, <2>3 DEF ReleaseLocks, TypeInv, TypeOK
    <3>6. /\ child'[w].state = "closing" /\ child'[w].lease = l
          /\ child[w].state \in {"leased", "closing"} /\ child[w].lease = l
      BY <2>3, <3>5 DEF Child, BelongsToLease
    <3>7. Started' = Started /\ Retired' = Retired
      BY <3>5, <3>6 DEF Started, Retired
    <3>8. Holder' = Holder
      <4>1. \A v \in Ids : Holder'[v] = Holder[v]
        BY <2>1, <3>5, <3>6 DEF Holder
      <4>2. Holder = [v \in Ids |-> Holder[v]] /\ Holder' = [v \in Ids |-> Holder'[v]]
        BY DEF Holder
      <4> HIDE DEF Holder
      <4> QED BY <4>1, <4>2
    <3> HIDE DEF h
    <3>9. Service!Close(h)
      BY <2>1, <3>1, <3>2, <3>4, <3>7, <3>8 DEF Service!Close
    <3> QED BY <2>2, <3>9 DEF Service!Next
  <2>4. CASE ~BelongsToLease(w, l)
    <3>1. UNCHANGED child /\ future' = [future EXCEPT ![f].pc = "released"]
      BY <1>1, <2>4 DEF ReleaseLocks
    <3>2. (\A g \in Futures : g # f => future'[g] = future[g]) /\ future'[f].pc = "released"
      BY <3>1 DEF TypeInv, TypeOK, FutureRec
    <3> QED BY <2>1, <3>1, <3>2, FutureWaits
  <2> QED BY <2>3, <2>4
<1>2. ASSUME NEW f \in Futures, ReleaseCloses(f) PROVE Service!Next
  <2>1. CASE child[future[f].worker].state = "dead"
    <3>1. future[f].pc = "closing" /\ UNCHANGED <<child, handles, shuttingDown, abandoned>>
      BY <1>2, <2>1 DEF ReleaseCloses, poolVars
    <3>2. (\A g \in Futures : g # f => future'[g] = future[g]) /\ future'[f].pc = "released"
      BY <1>2 DEF ReleaseCloses, TypeInv, TypeOK, FutureRec
    <3>3. future[f].worker \in Ids /\ Service!EndRequests(future[f].worker)
      BY <3>1, <3>2, FutureEnds, FutureHandle
    <3> QED BY <3>1, <3>3, FinishMaps
  <2>2. CASE child[future[f].worker].state # "dead"
    BY <1>2, <2>2, ReleaseMaps
  <2> QED BY <2>1, <2>2
<1>3. ASSUME NEW f \in Futures, ReleaseRetires(f) PROVE Service!Next
  <2>1. /\ future[f].pc = "closing" /\ RetireInline(f)
        /\ UNCHANGED <<handles, shuttingDown, abandoned>>
    BY <1>3 DEF ReleaseRetires, poolVars
  <2> QED BY <2>1, RetireInlineMaps
<1>4. ASSUME NEW f \in Futures, ScheduleIdleReap(f) PROVE [Service!Next]_(Service!vars)
  <2>1. future[f].pc = "released" /\ UNCHANGED <<child, handles, shuttingDown, abandoned>>
    BY <1>4 DEF ScheduleIdleReap, poolVars
  <2>2. (\A g \in Futures : g # f => future'[g] = future[g]) /\ future'[f].pc = "none"
    BY <1>4, RecordTypes DEF ScheduleIdleReap, End, TypeInv, TypeOK
  <2> QED BY <2>1, <2>2, FutureWaits
<1>5. ASSUME NEW f \in Futures, NEW h \in handles, Release(f, h) PROVE [Service!Next]_(Service!vars)
  <2>1. future[f].pc = "none" /\ UNCHANGED <<child, handles, shuttingDown, abandoned>>
    BY <1>5 DEF Release, poolVars, slotVars
  <2>2. (\A g \in Futures : g # f => future'[g] = future[g]) /\ future'[f].pc = "lockwait"
    BY <1>5 DEF Release, Begin, TypeInv, TypeOK
  <2> QED BY <2>1, <2>2, FutureWaits
<1> QED BY <1>1, <1>2, <1>3, <1>4, <1>5 DEF Releases

\* A future is dropped: its request goes on unwatched, or ends.
LEMMA DropsMap == ASSUME ServiceInv, Drops PROVE [Service!Next]_(Service!vars)
<1> USE DEF ServiceInv, PoolInv
<1> SUFFICES ASSUME NEW f \in Futures, DropUnarmed(f) \/ DropArmed(f) \/ DropRetiring(f)
             PROVE  Service!Next
  BY DEF Drops
<1> DEFINE w == future[f].worker
<1>1. future[f].pc # "none" /\ UNCHANGED <<child, handles, shuttingDown>>
  BY DEF DropUnarmed, DropArmed, DropRetiring, poolVars, slotVars
<1>2. w \in Ids
  BY <1>1, FutureHandle
<1>3. (\A g \in Futures : g # f => future'[g] = future[g]) /\ future'[f].pc = "none"
  BY RecordTypes DEF DropUnarmed, DropArmed, DropRetiring, End, TypeInv, TypeOK
<1>4. /\ \A v \in Ids : v # w => abandoned'[v] = abandoned[v]
      /\ \A l \in abandoned'[w] :
            l \in abandoned[w] \/ (future[f].pc = "exec" /\ l = future[f].lease)
  <2>1. CASE DropUnarmed(f)
    BY <2>1 DEF DropUnarmed, slotVars
  <2>2. CASE DropArmed(f)
    BY <1>2, <2>2 DEF DropArmed, TypeInv, TypeOK
  <2>3. CASE DropRetiring(f)
    BY <1>2, <2>3 DEF DropRetiring, TypeInv, TypeOK
  <2> QED BY <2>1, <2>2, <2>3
<1>5. Service!EndRequests(w)
  <2>1. \A g \in Futures : future'[g].pc \in {"exec", "closing"} => future'[g] = future[g]
    BY <1>3
  <2>2. \A g \in Futures : future[g].pc \in {"exec", "closing"} /\ future[g].worker # w
           => future'[g] = future[g]
    BY <1>3
  <2>3. \A l \in abandoned'[w] : l \in abandoned[w] \/
          \E g \in Futures : future[g].pc = "exec" /\ future[g].worker = w /\ future[g].lease = l
    BY <1>4
  <2> HIDE DEF w
  <2> QED BY <1>2, <1>4, <2>1, <2>2, <2>3, RequestsEnd
<1> QED BY <1>1, <1>2, <1>5, FinishMaps

\* A step of a retirement.
LEMMA RetirementsMap == ASSUME ServiceInv, Retirements PROVE [Service!Next]_(Service!vars)
<1> USE DEF ServiceInv, PoolInv
<1>1. ASSUME NEW w \in Ids, ForgetSlot(w) \/ ProbeForgetsDead(w) PROVE UNCHANGED Service!vars
  <2>1. UNCHANGED <<child, handles, shuttingDown, future, abandoned>>
    BY <1>1 DEF ForgetSlot, ProbeForgetsDead, slotVars
  <2> QED BY <2>1, QuietMaps
<1>2. ASSUME NEW w \in Ids, FinishDeadWorker(w) \/ ProcessDies(w) \/ \E l \in Leases : AbandonedCallEnds(w, l)
      PROVE  Service!Next
  <2>1. UNCHANGED <<child, handles, shuttingDown, future>>
    BY <1>2 DEF FinishDeadWorker, ProcessDies, AbandonedCallEnds, poolVars, taskVars
  <2>2. /\ \A v \in Ids : v # w => abandoned'[v] = abandoned[v]
        /\ \A l \in abandoned'[w] : l \in abandoned[w]
    BY <1>2 DEF FinishDeadWorker, ProcessDies, AbandonedCallEnds, TypeInv, TypeOK
  <2>3. Service!EndRequests(w)
    BY <2>1, <2>2, RequestsEnd
  <2> QED BY <2>1, <2>3, FinishMaps
<1>3. ASSUME NEW w \in Ids, Replenish(w) PROVE [Service!Next]_(Service!vars)
  <2>1. UNCHANGED <<child, handles, shuttingDown, abandoned>> /\ future' = FuturesAfterRetire(w)
    BY <1>3 DEF Replenish
  <2>2. \A f \in Futures : future'[f] = IF retire[w].by = f THEN NoFuture ELSE future[f]
    BY <2>1 DEF FuturesAfterRetire
  <2>3. CASE \E f \in Futures : retire[w].by = f /\ future[f].pc # "none"
    <3>1. PICK f \in Futures : retire[w].by = f /\ future[f].pc # "none"
      BY <2>3
    <3>2. (\A g \in Futures : g # f => future'[g] = future[g]) /\ future'[f].pc = "none"
      BY <2>2, <3>1, RecordTypes
    <3>3. future[f].worker \in Ids /\ Service!EndRequests(future[f].worker)
      BY <2>1, <3>1, <3>2, FutureEnds, FutureHandle
    <3> QED BY <2>1, <3>3, FinishMaps
  <2>4. CASE ~\E f \in Futures : retire[w].by = f /\ future[f].pc # "none"
    <3>1. \A f \in Futures : /\ future'[f].pc \in {"exec", "closing"} => future'[f] = future[f]
                             /\ future[f].pc \in {"exec", "closing"} => future'[f] = future[f]
      BY <2>2, <2>4, RecordTypes
    <3>2. Service!EndRequests(w)
      BY <2>1, <3>1, RequestsEnd
    <3> QED BY <2>1, <3>2, FinishMaps
  <2> QED BY <2>3, <2>4
<1>4. ASSUME NEW w \in Ids, NEW by, TakeDeadWorker(w, by), child[w].state \in {"idle", "leased", "closing"},
             UNCHANGED <<handles, shuttingDown, future, abandoned>>
      PROVE  Service!Next
  <2>1. Service!EndRequests(w)
    BY <1>4, RequestsEnd
  <2> QED BY <1>4, <2>1, RetireMaps
<1>5. ASSUME NEW w \in Ids, IdleReap(w) PROVE [Service!Next]_(Service!vars)
  <2>1. UNCHANGED <<handles, shuttingDown, future, abandoned>>
    BY <1>5 DEF IdleReap, poolVars, taskVars
  <2>2. CASE child[w].state = "idle" /\ TakeDeadWorker(w, "reaper")
    BY <1>4, <2>1, <2>2
  <2>3. CASE UNCHANGED child
    BY <2>1, <2>3, QuietMaps
  <2> QED BY <1>5, <2>2, <2>3 DEF IdleReap
<1>6. ASSUME NEW w \in Ids, ProbeMarksDead(w) PROVE Service!Next
  <2>1. /\ UNCHANGED <<handles, shuttingDown, future, abandoned>>
        /\ child[w].state \in {"leased", "closing"} /\ TakeDeadWorker(w, "detached")
    BY <1>6 DEF ProbeMarksDead, poolVars, taskVars
  <2> QED BY <1>4, <2>1
<1>7. ASSUME NEW h \in guards, GuardRetires(h) PROVE [Service!Next]_(Service!vars)
  <2>1. UNCHANGED <<handles, shuttingDown, future, abandoned>> /\ h.worker \in Ids
    BY <1>7 DEF GuardRetires, poolVars, TypeInv, TypeOK, Handle
  <2>2. CASE BelongsToLease(h.worker, h.lease)
    <3>1. child[h.worker].state \in {"leased", "closing"} /\ TakeDeadWorker(h.worker, "detached")
      BY <1>7, <2>2 DEF GuardRetires, BelongsToLease
    <3> QED BY <1>4, <2>1, <3>1
  <2>3. CASE ~BelongsToLease(h.worker, h.lease)
    <3>1. UNCHANGED child
      BY <1>7, <2>3 DEF GuardRetires
    <3> QED BY <2>1, <3>1, QuietMaps
  <2> QED BY <2>2, <2>3
<1> QED BY <1>1, <1>2, <1>3, <1>5, <1>6, <1>7 DEF Retirements

\* The steps of shutdown.
LEMMA ShutdownMap == ASSUME ServiceInv, Shutdown PROVE [Service!Next]_(Service!vars)
<1> USE DEF ServiceInv, PoolInv
<1>1. ASSUME BeginDrain \/ SweepBegins \/ SweepEnds PROVE UNCHANGED Service!vars
  <2>1. UNCHANGED <<child, handles, shuttingDown, future, abandoned>>
    BY <1>1 DEF BeginDrain, SweepBegins, SweepEnds, slotVars, taskVars
  <2> QED BY <2>1, QuietMaps
<1>2. ASSUME BeginShutdown PROVE Service!Next
  <2>1. UNCHANGED <<child, handles, future, abandoned>> /\ shuttingDown' = TRUE
    BY <1>2 DEF BeginShutdown, slotVars, taskVars
  <2>2. Service!Shut
    BY <2>1, NothingRuns, NothingMoves DEF Service!Shut
  <2> QED BY <2>2 DEF Service!Next
<1>3. ASSUME NEW w \in Ids, SweepMarks(w) PROVE [Service!Next]_(Service!vars)
  <2>1. UNCHANGED <<handles, shuttingDown, future, abandoned>> /\ w \in sweep.slots
    BY <1>3 DEF SweepMarks
  <2>2. CASE child[w].state = "dead"
    <3>1. UNCHANGED child
      BY <1>3, <2>2 DEF SweepMarks
    <3> QED BY <2>1, <3>1, QuietMaps
  <2>3. CASE child[w].state # "dead"
    <3>1. TakeDeadWorker(w, "shutdown")
      BY <1>3, <2>3 DEF SweepMarks
    <3>2. child[w].state \notin {"absent", "dead"}
      BY <2>1, <2>3 DEF SweepInv, SlotInv, SlotOK
    <3>3. Service!EndRequests(w)
      BY <2>1, RequestsEnd
    <3> QED BY <2>1, <3>1, <3>2, <3>3, RetireMaps
  <2> QED BY <2>2, <2>3
<1> QED BY <1>1, <1>2, <1>3 DEF Shutdown

\* The pool starts as the service does.
LEMMA InitMaps == Init => Service!Init
<1> SUFFICES ASSUME Init PROVE Service!Init
  OBVIOUS
<1>1. \A w \in Ids : child[w].state = "absent"
  BY DEF Init, Child
<1>2. Started = {} /\ Retired = {} /\ Holder = [w \in Ids |-> NoLease]
  BY <1>1 DEF Started, Retired, Holder
<1>3. RunningCalls = {} /\ RunningCloses = {}
  <2>1. \A f \in Futures : future[f].pc = "none"
    BY DEF Init, NoFuture
  <2>2. \A h \in Handle : h.lease \notin abandoned[h.worker]
    BY DEF Init, Handle
  <2>3. \A h : h \notin RunningCalls /\ h \notin RunningCloses
    BY <2>1, <2>2, RunningMembers
  <2> QED BY <2>3
<1> QED BY <1>2, <1>3 DEF Init, Service!Init

\* The pool implements LeaseService, for any number of sessions, futures and
\* workers (ImplementsLeaseService): every step of the pool is one of the
\* service's or changes nothing a session can see.
THEOREM PoolImplementsLeaseService == Spec => ImplementsLeaseService
<1>1. ServiceInv /\ [Next]_vars => [Service!Next]_(Service!vars)
  <2> SUFFICES ASSUME ServiceInv, [Next]_vars PROVE [Service!Next]_(Service!vars)
    OBVIOUS
  <2>1. CASE UNCHANGED vars
    BY <2>1, QuietMaps DEF vars, poolVars, slotVars, taskVars
  <2> QED BY <2>1, StartupsMap, LeaseRequestsMap, CallsMap, ReleasesMap, DropsMap, RetirementsMap,
             ShutdownMap DEF Next
<1>2. Spec => []ServiceInv
  BY PoolInvariant, LeaseInvariant, AbandonedIsRetired, CapacityBound, PTL DEF ServiceInv
<1> QED BY <1>1, <1>2, InitMaps, PTL DEF Spec, ImplementsLeaseService, Service!Spec
=============================================================================
