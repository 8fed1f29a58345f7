---------------------------- MODULE LeaseService ----------------------------
(***************************************************************************)
(* What the pool promises its sessions (docs/TRANSPORTS.md: it "binds one  *)
(* child worker to each stateful HTTP session"), without saying how it     *)
(* keeps the promise.  A session gets a worker of its own, in which        *)
(* nothing of an earlier session runs; calls reach it only under its       *)
(* lease; a lease is given back only when nothing of it runs any more; a   *)
(* worker in doubt is retired and never used again.  WorkerPool is shown   *)
(* to implement this module.                                               *)
(***************************************************************************)
EXTENDS Naturals, FiniteSets

CONSTANTS
    Workers,  \* worker ids, each started at most once
    Leases,   \* lease ids, each granted at most once
    NoLease,
    Limit     \* workers that may serve at a time

VARIABLES
    started,  \* workers that were started
    retired,  \* and those that are not used any more
    holder,   \* the lease every worker serves
    granted,  \* the handles sessions were given
    calls,    \* handles with a request in the worker, watched or not
    closes,   \* handles that are being given back
    open      \* the pool accepts sessions and calls

vars == <<started, retired, holder, granted, calls, closes, open>>

Serving == started \ retired

Busy(w) == \E h \in calls \cup closes : h.worker = w

Holds(h) == h \in granted /\ h.worker \in Serving /\ holder[h.worker] = h.lease

Init ==
    /\ started = {} /\ retired = {}
    /\ holder = [w \in Workers |-> NoLease]
    /\ granted = {} /\ calls = {} /\ closes = {}
    /\ open = TRUE

Start(w) ==
    /\ open
    /\ w \notin started
    /\ Cardinality(Serving) < Limit
    /\ started' = started \cup {w}
    /\ UNCHANGED <<retired, holder, granted, calls, closes, open>>

\* A free worker goes to a session of its own.
Grant(w, l) ==
    /\ open
    /\ w \in Serving /\ holder[w] = NoLease /\ ~Busy(w)
    /\ \A h \in granted : h.lease # l
    /\ holder' = [holder EXCEPT ![w] = l]
    /\ granted' = granted \cup {[worker |-> w, lease |-> l]}
    /\ UNCHANGED <<started, retired, calls, closes, open>>

\* No call reaches a worker under another lease, or once it is being given back.
Call(h) ==
    /\ open
    /\ Holds(h)
    /\ \A g \in closes : g.worker # h.worker
    /\ calls' = calls \cup {h}
    /\ UNCHANGED <<started, retired, holder, granted, closes, open>>

\* A session may be ended after the pool was closed, too.
Close(h) ==
    /\ Holds(h)
    /\ \A g \in closes : g.worker # h.worker
    /\ closes' = closes \cup {h}
    /\ UNCHANGED <<started, retired, holder, granted, calls, open>>

\* The lease ends when nothing else of it runs.
Release(h) ==
    /\ h \in closes /\ Holds(h)
    /\ \A g \in calls \cup (closes \ {h}) : g.worker # h.worker
    /\ holder' = [holder EXCEPT ![h.worker] = NoLease]
    /\ closes' = closes \ {h}
    /\ UNCHANGED <<started, retired, granted, calls, open>>

\* Requests to one worker end, answered or not.
EndRequests(w) ==
    /\ calls' \subseteq calls /\ closes' \subseteq closes
    /\ \A h \in (calls \ calls') \cup (closes \ closes') : h.worker = w

Finish(w) == EndRequests(w) /\ UNCHANGED <<started, retired, holder, granted, open>>

\* For good, whoever holds the worker.
Retire(w) ==
    /\ w \in Serving
    /\ retired' = retired \cup {w}
    /\ holder' = [holder EXCEPT ![w] = NoLease]
    /\ EndRequests(w)
    /\ UNCHANGED <<started, granted, open>>

Shut ==
    /\ open' = FALSE
    /\ UNCHANGED <<started, retired, holder, granted, calls, closes>>

Next ==
    \/ \E w \in Workers : Finish(w) \/ Retire(w) \/ Start(w) \/ \E l \in Leases : Grant(w, l)
    \/ \E h \in granted : Call(h) \/ Close(h) \/ Release(h)
    \/ Shut

Spec == Init /\ [][Next]_vars
=============================================================================
