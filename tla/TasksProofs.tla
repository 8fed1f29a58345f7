----------------------------- MODULE TasksProofs -----------------------------
(***************************************************************************)
(* Proofs about Tasks, for any number of tasks, clients, caches and        *)
(* database generations and any registry size.  Every action takes one of  *)
(* four kinds of step (Admitting, Asking, Serving, Settling); each kind    *)
(* keeps the invariant and is a step of TaskService.                       *)
(***************************************************************************)
EXTENDS Tasks, TLAPS

-----------------------------------------------------------------------------
(* The registry.                                                           *)

RegistryType == [entry : [Ids -> Entries], settled : Seq(Ids), old : Nat]

Settled(r, i) == r.entry[i].status \in Terminal

\* The settled tasks are listed once each, the expired ones first; only a
\* running task can have a request pending.
RegistryOK(r) ==
  /\ r \in RegistryType /\ r.old <= Len(r.settled)
  /\ \A m, n \in DOMAIN r.settled : r.settled[m] = r.settled[n] => m = n
  /\ \A i \in Ids : Settled(r, i) <=> \E n \in DOMAIN r.settled : r.settled[n] = i
  /\ \A i \in Ids : r.entry[i].requested => Running(r, i)

Gone == [Fresh EXCEPT !.status = "gone"]

\* Nothing but settled tasks is forgotten.
Forgets(r, q) ==
  \A i \in Ids : q.entry[i] = r.entry[i] \/ (Settled(r, i) /\ q.entry[i] = Gone)

\* Task i settles with status s, and some settled tasks are forgotten.
Ends(r, q, i, s) ==
  /\ q.entry[i] = Ended(r.entry[i], s)
  /\ \A j \in Ids \ {i} : q.entry[j] = r.entry[j] \/ (Settled(r, j) /\ q.entry[j] = Gone)

LEMMA FreshFields ==
  /\ Fresh \in Entries /\ Gone \in Entries
  /\ Fresh.status = "none" /\ ~Fresh.requested /\ Fresh.worst = "none"
  /\ Gone.status = "gone" /\ ~Gone.requested /\ Gone.worst = "none"
BY DEF Fresh, Gone, Entries, Terminal

LEMMA IdsAreNaturals == Ids \subseteq Nat \ {0} /\ 0 \notin Ids
BY BoundsAssumption DEF Ids

\* Forgetting the settled tasks that were updated longest ago.
LEMMA DropKeeps ==
  ASSUME NEW r, RegistryOK(r), NEW n \in 0 .. Len(r.settled)
  PROVE  RegistryOK(DropFirst(r, n)) /\ Forgets(r, DropFirst(r, n))
<1> DEFINE q == DropFirst(r, n)
           D == ToSet(SubSeq(r.settled, 1, n))
           L == Len(r.settled)
<1>1. r \in RegistryType /\ r.entry \in [Ids -> Entries] /\ r.settled \in Seq(Ids) /\ r.old \in Nat
  BY DEF RegistryOK, RegistryType
<1>2. /\ q.entry = [i \in Ids |-> IF i \in D THEN Gone ELSE r.entry[i]]
      /\ q.settled = SubSeq(r.settled, n + 1, L)
      /\ q.old = IF r.old > n THEN r.old - n ELSE 0
      /\ q = [entry |-> q.entry, settled |-> q.settled, old |-> q.old]
  <2> DEFINE E == [i \in Ids |-> IF i \in D THEN Gone ELSE r.entry[i]]
             S == SubSeq(r.settled, n + 1, L)
             O == IF r.old > n THEN r.old - n ELSE 0
  <2>1. q = [r EXCEPT !.entry = E, !.settled = S, !.old = O]
    BY DEF DropFirst, Gone
  <2> HIDE DEF E, S, O, q
  <2>2. q.entry = E /\ q.settled = S /\ q.old = O
    BY <1>1, <2>1 DEF RegistryType
  <2>3. q = [entry |-> E, settled |-> S, old |-> O]
    BY <1>1, <2>1 DEF RegistryType
  <2> QED BY <2>2, <2>3 DEF E, S, O
<1>3. L \in Nat /\ DOMAIN r.settled = 1 .. L
  BY <1>1
<1>4. \A i : i \in D <=> \E m \in 1 .. n : r.settled[m] = i
  <2>1. /\ Len(SubSeq(r.settled, 1, n)) = n
        /\ \A m \in 1 .. n : SubSeq(r.settled, 1, n)[m] = r.settled[m]
        /\ DOMAIN SubSeq(r.settled, 1, n) = 1 .. n
    BY <1>1, <1>3
  <2> QED BY <2>1 DEF ToSet
<1>5. /\ q.settled \in Seq(Ids) /\ Len(q.settled) = L - n /\ DOMAIN q.settled = 1 .. L - n
      /\ \A m \in 1 .. L - n : q.settled[m] = r.settled[m + n]
  <2> DEFINE S == SubSeq(r.settled, n + 1, L)
  <2>1. S \in Seq(Ids) /\ Len(S) = L - n
    <3>1. CASE n = L
      BY <1>1, <1>3, <3>1
    <3>2. CASE n # L
      BY <1>1, <1>3, <3>2
    <3> QED BY <3>1, <3>2
  <2>2. \A m \in 1 .. L - n : S[m] = r.settled[m + n]
    BY <1>1, <1>3
  <2> HIDE DEF S
  <2>3. DOMAIN S = 1 .. L - n
    BY <1>3, <2>1
  <2> QED BY <1>2, <2>1, <2>2, <2>3 DEF S
<1> HIDE DEF D, L, q
<1>6. q \in RegistryType
  <2>1. q.entry \in [Ids -> Entries]
    BY <1>1, <1>2, FreshFields
  <2>2. q.old \in Nat
    BY <1>1, <1>2
  <2> QED BY <1>2, <1>5, <2>1, <2>2 DEF RegistryType
<1>7. q.old <= Len(q.settled)
  BY <1>1, <1>2, <1>3, <1>5 DEF RegistryOK, L
<1>8. \A i \in D : Settled(r, i)
  BY <1>1, <1>3, <1>4 DEF RegistryOK
<1>9. Forgets(r, q)
  BY <1>2, <1>8 DEF Forgets
<1>10. \A m, k \in DOMAIN q.settled : q.settled[m] = q.settled[k] => m = k
  <2> SUFFICES ASSUME NEW m \in DOMAIN q.settled, NEW k \in DOMAIN q.settled,
                      q.settled[m] = q.settled[k]
               PROVE  m = k
    OBVIOUS
  <2>1. m + n \in DOMAIN r.settled /\ k + n \in DOMAIN r.settled /\ m \in Nat /\ k \in Nat
    BY <1>3, <1>5
  <2>2. m + n = k + n
    BY <1>5, <2>1 DEF RegistryOK
  <2> QED BY <2>1, <2>2
<1>11. \A i \in Ids : Settled(q, i) <=> \E m \in DOMAIN q.settled : q.settled[m] = i
  <2> SUFFICES ASSUME NEW i \in Ids
               PROVE  Settled(q, i) <=> \E m \in DOMAIN q.settled : q.settled[m] = i
    OBVIOUS
  <2>1. Settled(q, i) <=> Settled(r, i) /\ i \notin D
    BY <1>2, FreshFields DEF Settled, Terminal
  <2>2. ASSUME Settled(r, i), i \notin D
        PROVE  \E m \in DOMAIN q.settled : q.settled[m] = i
    <3>1. PICK k \in 1 .. L : r.settled[k] = i
      BY <1>3, <2>2 DEF RegistryOK
    <3>2. k \notin 1 .. n
      BY <1>4, <2>2, <3>1
    <3>3. k - n \in 1 .. L - n /\ (k - n) + n = k
      BY <1>3, <3>1, <3>2
    <3> QED BY <1>5, <3>1, <3>3
  <2>3. ASSUME NEW m \in DOMAIN q.settled, q.settled[m] = i
        PROVE  Settled(r, i) /\ i \notin D
    <3>1. m + n \in DOMAIN r.settled /\ r.settled[m + n] = i /\ m + n \notin 1 .. n
      BY <1>3, <1>5, <2>3
    <3>2. \A k \in 1 .. n : k \in DOMAIN r.settled
      BY <1>3
    <3> QED BY <1>4, <3>1, <3>2 DEF RegistryOK
  <2> QED BY <2>1, <2>2, <2>3
<1>12. \A i \in Ids : q.entry[i].requested => Running(q, i)
  BY <1>2, FreshFields DEF RegistryOK, Running
<1> QED BY <1>6, <1>7, <1>9, <1>10, <1>11, <1>12 DEF RegistryOK, q

LEMMA PruneKeeps ==
  ASSUME NEW r, RegistryOK(r)
  PROVE  RegistryOK(prune_terminal_tasks(r)) /\ Forgets(r, prune_terminal_tasks(r))
<1>1. r.old \in 0 .. Len(r.settled)
  BY DEF RegistryOK, RegistryType
<1> QED BY <1>1, DropKeeps DEF prune_terminal_tasks

LEMMA ReclaimKeeps ==
  ASSUME NEW r, RegistryOK(r)
  PROVE  /\ RegistryOK(reclaim_capacity_for_admission(r))
         /\ Forgets(r, reclaim_capacity_for_admission(r))
<1>1. r.settled # <<>> => 1 \in 0 .. Len(r.settled)
  BY DEF RegistryOK, RegistryType
<1> QED BY <1>1, DropKeeps DEF reclaim_capacity_for_admission, Forgets

\* Settling a running task forgets none but tasks settled before.
LEMMA TransitionEnds ==
  ASSUME NEW r, RegistryOK(r), NEW i \in Ids, Running(r, i), NEW s \in Terminal
  PROVE  RegistryOK(Transition(r, i, s)) /\ Ends(r, Transition(r, i, s), i, s)
<1> DEFINE e == Ended(r.entry[i], s)
           p == [r EXCEPT !.entry[i] = Ended(@, s), !.settled = Append(@, i)]
           q == prune_terminal_tasks(p)
           L == Len(r.settled)
<1>1. r \in RegistryType /\ r.entry \in [Ids -> Entries] /\ r.settled \in Seq(Ids) /\ r.old \in Nat
  BY DEF RegistryOK, RegistryType
<1>2. q = Transition(r, i, s)
  BY DEF Transition
<1>3. /\ p.entry = [r.entry EXCEPT ![i] = e] /\ p.settled = Append(r.settled, i)
      /\ p.old = r.old
      /\ p = [entry |-> p.entry, settled |-> p.settled, old |-> p.old]
  <2> DEFINE E == [r.entry EXCEPT ![i] = e]
             S == Append(r.settled, i)
  <2>1. p = [r EXCEPT !.entry = E, !.settled = S]
    BY <1>1 DEF RegistryType
  <2> HIDE DEF E, S, p
  <2>2. p.entry = E /\ p.settled = S /\ p.old = r.old
    BY <1>1, <2>1 DEF RegistryType
  <2>3. p = [entry |-> E, settled |-> S, old |-> r.old]
    BY <1>1, <2>1 DEF RegistryType
  <2> QED BY <2>2, <2>3 DEF E, S
<1>4. e \in Entries /\ e.status = s /\ ~e.requested
  <2>1. r.entry[i] \in Entries
    BY <1>1
  <2> QED BY <2>1 DEF Ended, Entries
<1>5. /\ L \in Nat /\ DOMAIN r.settled = 1 .. L
      /\ p.settled \in Seq(Ids) /\ Len(p.settled) = L + 1 /\ DOMAIN p.settled = 1 .. L + 1
      /\ \A m \in 1 .. L : p.settled[m] = r.settled[m]
      /\ p.settled[L + 1] = i
  BY <1>1, <1>3
<1> HIDE DEF e, p, L
<1>6. p \in RegistryType /\ p.old <= Len(p.settled)
  <2>1. p.entry \in [Ids -> Entries] /\ p.old \in Nat
    BY <1>1, <1>3, <1>4
  <2>2. r.old <= L
    BY DEF RegistryOK, L
  <2>3. p \in RegistryType
    BY <1>3, <1>5, <2>1 DEF RegistryType
  <2> QED BY <1>1, <1>3, <1>5, <2>2, <2>3
<1>7. \A m \in 1 .. L : r.settled[m] # i
  BY <1>5 DEF RegistryOK, Settled, Running, Terminal
<1>8. \A m, n \in DOMAIN p.settled : p.settled[m] = p.settled[n] => m = n
  BY <1>5, <1>7 DEF RegistryOK
<1>9. \A j \in Ids : Settled(p, j) <=> \E n \in DOMAIN p.settled : p.settled[n] = j
  <2>1. \A j \in Ids : p.entry[j] = IF j = i THEN e ELSE r.entry[j]
    BY <1>1, <1>3
  <2>2. \A j \in Ids : Settled(p, j) <=> j = i \/ Settled(r, j)
    BY <1>4, <2>1 DEF Settled
  <2>3. \A j \in Ids : (\E n \in DOMAIN p.settled : p.settled[n] = j)
                          <=> j = i \/ \E n \in DOMAIN r.settled : r.settled[n] = j
    <3>1. \A n \in DOMAIN p.settled : n \in 1 .. L \/ n = L + 1
      BY <1>5
    <3>2. L + 1 \in DOMAIN p.settled /\ \A n \in 1 .. L : n \in DOMAIN p.settled
      BY <1>5
    <3> QED BY <1>5, <3>1, <3>2
  <2> QED BY <2>2, <2>3 DEF RegistryOK
<1>10. \A j \in Ids : p.entry[j].requested => Running(p, j)
  BY <1>1, <1>3, <1>4 DEF RegistryOK, Running
<1>11. RegistryOK(p)
  BY <1>6, <1>8, <1>9, <1>10 DEF RegistryOK
<1>12. RegistryOK(q) /\ Forgets(p, q)
  BY <1>11, PruneKeeps
<1>13. q.entry[i] = e
  <2> DEFINE D == ToSet(SubSeq(p.settled, 1, p.old))
  <2>1. q.entry = [j \in Ids |-> IF j \in D THEN Gone ELSE p.entry[j]]
    BY <1>6 DEF prune_terminal_tasks, DropFirst, RegistryType, Gone
  <2>2. p.old \in 0 .. L
    BY <1>1, <1>3, <1>5 DEF RegistryOK, L
  <2>3. i \notin D
    <3>1. /\ \A m \in 1 .. p.old : SubSeq(p.settled, 1, p.old)[m] = r.settled[m] /\ m \in 1 .. L
          /\ DOMAIN SubSeq(p.settled, 1, p.old) = 1 .. p.old
      BY <1>5, <2>2
    <3> QED BY <1>7, <3>1 DEF ToSet
  <2> HIDE DEF D
  <2> QED BY <1>1, <1>3, <2>1, <2>3
<1>14. Ends(r, q, i, s)
  <2>1. \A j \in Ids \ {i} : p.entry[j] = r.entry[j]
    BY <1>1, <1>3
  <2> QED BY <1>12, <1>13, <2>1 DEF Ends, Forgets, Settled, e
<1> QED BY <1>2, <1>12, <1>14

\* A change of one entry that does not settle it.
LEMMA UpdateKeeps ==
  ASSUME NEW r, RegistryOK(r), NEW i \in Ids, NEW e \in Entries,
         e.status \in Terminal <=> r.entry[i].status \in Terminal,
         e.requested => e.status = "running"
  PROVE  LET q == [r EXCEPT !.entry[i] = e] IN
         RegistryOK(q) /\ \A j \in Ids : q.entry[j] = IF j = i THEN e ELSE r.entry[j]
<1> DEFINE q == [r EXCEPT !.entry[i] = e]
<1>1. r \in RegistryType /\ r.entry \in [Ids -> Entries]
  BY DEF RegistryOK, RegistryType
<1>2. q = [r EXCEPT !.entry = [r.entry EXCEPT ![i] = e]]
  OBVIOUS
<1> HIDE DEF q
<1>3. /\ q.entry = [r.entry EXCEPT ![i] = e]
      /\ q.settled = r.settled /\ q.old = r.old /\ q \in RegistryType
  <2>1. [r.entry EXCEPT ![i] = e] \in [Ids -> Entries]
    BY <1>1
  <2> QED BY <1>1, <1>2, <2>1 DEF RegistryType
<1>4. \A j \in Ids : q.entry[j] = IF j = i THEN e ELSE r.entry[j]
  BY <1>1, <1>3
<1>5. \A j \in Ids : /\ Settled(q, j) <=> Settled(r, j)
                     /\ j # i => q.entry[j] = r.entry[j]
  BY <1>4 DEF Settled, Running
<1>6. \A j \in Ids : q.entry[j].requested => Running(q, j)
  BY <1>4, <1>5 DEF RegistryOK, Running
<1>7. RegistryOK(q)
  BY <1>3, <1>5, <1>6 DEF RegistryOK
<1> QED BY <1>4, <1>7 DEF q

\* The ways a driver settles its task: only one that was asked to stop says so.
LEMMA SettlingOperators ==
  ASSUME NEW r, RegistryOK(r), NEW i \in Ids, Running(r, i)
  PROVE  LET Settles(q, S) == \E s \in S : RegistryOK(q) /\ Ends(r, q, i, s)
             asked == i \in cancelled \/ r.entry[i].requested
             Outcomes == IF asked THEN Terminal ELSE {"completed", "failed"}
         IN  /\ Settles(finish_cancelled(r, i), {"cancelled"})
             /\ Settles(complete(r, i), Outcomes)
             /\ Settles(fail(r, i), Outcomes)
             /\ Settles(complete_with_cancel_token(r, i), Outcomes)
             /\ \A v : Settles(complete_background_tool_error(r, i, v), Outcomes)
             /\ Settles(complete_background_tool_error(r, i, "fatal"), {"completed"})
             /\ Settles(fail_after_cleanup_error(r, i), {"failed"})
<1>1. \A s \in {"completed", "failed", "cancelled"} :
        RegistryOK(Transition(r, i, s)) /\ Ends(r, Transition(r, i, s), i, s)
  BY TransitionEnds DEF Terminal
<1>2. finish_cancelled(r, i) = Transition(r, i, "cancelled")
  BY DEF finish_cancelled
<1>3. complete(r, i) = Transition(r, i, IF r.entry[i].requested THEN "cancelled" ELSE "completed")
  BY <1>2 DEF complete
<1>4. fail(r, i) = Transition(r, i, IF r.entry[i].requested THEN "cancelled" ELSE "failed")
  BY <1>2 DEF fail
<1>5. /\ complete_after_fatal_error(r, i) = Transition(r, i, "completed")
      /\ fail_after_cleanup_error(r, i) = Transition(r, i, "failed")
  BY DEF complete_after_fatal_error, fail_after_cleanup_error
<1>6. complete_with_cancel_token(r, i)
        = IF i \in cancelled THEN Transition(r, i, "cancelled") ELSE complete(r, i)
  BY <1>2 DEF complete_with_cancel_token
<1>7. \A v : complete_background_tool_error(r, i, v)
               = IF v = "fatal" THEN Transition(r, i, "completed")
                 ELSE complete_with_cancel_token(r, i)
  BY <1>5 DEF complete_background_tool_error
<1> QED BY <1>1, <1>2, <1>3, <1>4, <1>5, <1>6, <1>7 DEF Terminal

-----------------------------------------------------------------------------
(* The inductive invariant.                                                *)

\* A driver at work has a running task to settle; the worker executes its call
\* only while it waits for one; it knows its generation once a database is
\* open, and it was asked to stop if it says so.
DriverOK(i) ==
  /\ Live(i) => Running(registry, i)
  /\ driver[i].idat = "running" => driver[i].pc = "idat"
  /\ driver[i].pc \in {"load", "status", "finish", "closeCancelled", "closeFailed"}
       => driver[i].gen # 0
  /\ native = i => driver[i].pc \in Calls /\ (driver[i].pc # "analyze" => driver[i].gen # 0)
  /\ driver[i].pc = "closeCancelled" => i \in Asked
  /\ driver[i].pc = "load" => driver[i].left # 0

\* Bad news of a fatal error or a failed cleanup settles the task at once.
NewsOK == \A i \in Ids : Running(registry, i) => registry.entry[i].worst \in {"none", "lost"}

\* Only a session is told of a task it did not create: the session that owns it.
ToldOK ==
  \A c \in Clients, i \in Ids : <<c, i>> \in told =>
    /\ registry.entry[i].status # "none"
    /\ i \in Retained(registry) => c \in Sessions /\ registry.entry[i].owner = c

ServingType ==
  driver \in [Ids -> Drivers] /\ cancelled \subseteq Ids /\ native \in Ids \cup {0}

ServerType ==
  /\ setup \in [sdk94 : BOOLEAN, preserve : BOOLEAN] /\ starting \subseteq Ids
  /\ lease \in 0 .. MaxGenerations /\ created \in 0 .. MaxGenerations
  /\ output \in [Caches -> {"none", "half", "whole"}]
  /\ told \subseteq Clients \X Ids /\ alive \subseteq Sessions
  /\ stage \in {"up", "closing", "cancelled", "down"}

IInv ==
  /\ RegistryOK(registry) /\ ServingType /\ ServerType
  /\ \A i \in Ids : DriverOK(i)
  /\ NewsOK /\ ToldOK

-----------------------------------------------------------------------------
(* The four kinds of step.                                                 *)

\* The same task, asked to stop perhaps.
Alike(e, f) ==
  /\ f.status = e.status /\ f.owner = e.owner /\ f.client = e.client /\ f.key = e.key
  /\ e.requested => f.requested

\* Requests to stop and old results that expire; the drivers do nothing.
Asking ==
  /\ RegistryOK(registry')
  /\ \A j \in Ids : \/ Alike(registry.entry[j], registry'.entry[j])
                       /\ registry'.entry[j].worst = registry.entry[j].worst
                    \/ Settled(registry, j) /\ registry'.entry[j] = Gone
  /\ cancelled \subseteq cancelled' /\ cancelled' \subseteq Ids
  /\ UNCHANGED <<driver, native>>

\* The driver of task i goes on.
Serving(i) ==
  /\ Live(i) /\ Live(i)' /\ DriverOK(i)'
  /\ RegistryOK(registry')
  /\ \A j \in Ids : /\ Alike(registry.entry[j], registry'.entry[j])
                    /\ registry'.entry[j].requested = registry.entry[j].requested
                    /\ registry'.entry[j].worst \in {registry.entry[j].worst, "lost"}
  /\ driver' \in [Ids -> Drivers] /\ \A j \in Ids \ {i} : driver'[j] = driver[j]
  /\ native' \in {native, 0, i}
  /\ UNCHANGED <<cancelled, told>>

\* The driver of task i settles it and ends.
Settling(i) ==
  /\ Live(i)
  /\ RegistryOK(registry')
  /\ \E s \in Terminal :
       /\ Alike([registry.entry[i] EXCEPT !.status = s, !.requested = FALSE], registry'.entry[i])
       /\ s = "cancelled" =>
            /\ i \in Asked
            /\ registry'.entry[i].worst \notin {"fatal", "cleanup"}
            /\ driver[i].pc \in {"finish", "closeCancelled", "closeFailed"} => lease' # driver[i].gen
  /\ \A j \in Ids \ {i} : \/ registry'.entry[j] = registry.entry[j]
                          \/ Settled(registry, j) /\ registry'.entry[j] = Gone
  /\ driver' = [driver EXCEPT ![i] = [Asleep EXCEPT !.pc = "done"]]
  /\ cancelled' = cancelled \ {i}
  /\ native' = IF native = i THEN 0 ELSE native
  /\ UNCHANGED told

\* Task i is created.
Admitting(i) ==
  /\ registry.entry[i].status = "none"
  /\ RegistryOK(registry')
  /\ Running(registry', i) /\ ~registry'.entry[i].requested /\ registry'.entry[i].worst = "none"
  /\ \A j \in Ids \ {i} : \/ registry'.entry[j] = registry.entry[j]
                          \/ Settled(registry, j) /\ registry'.entry[j] = Gone
  /\ registry'.entry[i].key \in Keys /\ Matching(registry, registry'.entry[i].key) = {}
  /\ Cardinality(Retained(registry') \ {i}) < MaxEntries
  /\ driver' = [driver EXCEPT ![i] = [Asleep EXCEPT !.pc = "start"]]
  /\ UNCHANGED <<cancelled, native, told>>

\* What every step keeps but those of ServerType.
Core ==
  /\ RegistryOK(registry) /\ ServingType
  /\ \A i \in Ids : DriverOK(i)
  /\ NewsOK /\ ToldOK

LEMMA AskingKeeps == ASSUME Core, Asking, ToldOK' PROVE Core'
<1>1. ServingType'
  BY DEF Core, Asking, ServingType
<1>2. \A j \in Ids : Running(registry, j) <=> Running(registry', j)
  BY FreshFields DEF Asking, Alike, Running, Settled, Terminal
<1>3. \A j \in Ids : Running(registry, j) =>
        Alike(registry.entry[j], registry'.entry[j])
          /\ registry'.entry[j].worst = registry.entry[j].worst
  BY DEF Asking, Running, Settled, Terminal
<1>4. \A j \in Ids : Live(j)' <=> Live(j)
  BY DEF Asking, Live
<1>5. NewsOK'
  BY <1>2, <1>3 DEF Core, NewsOK
<1>6. \A j \in Ids : Live(j) /\ j \in Asked => j \in Asked'
  BY <1>3 DEF Core, DriverOK, Asked, Asking, Alike
<1>7. ASSUME NEW j \in Ids PROVE DriverOK(j)'
  <2>1. DriverOK(j) /\ UNCHANGED <<driver, native>>
    BY DEF Core, Asking
  <2>2. driver[j].pc = "closeCancelled" => j \in Asked'
    BY <1>6, <2>1 DEF DriverOK, Live
  <2> QED BY <1>2, <1>4, <2>1, <2>2 DEF DriverOK
<1> QED BY <1>1, <1>5, <1>7 DEF Core, Asking

LEMMA ServingKeeps == ASSUME Core, NEW i \in Ids, Serving(i) PROVE Core'
<1>1. ServingType'
  BY DEF Core, Serving, ServingType
<1>2. \A j \in Ids : Running(registry, j) <=> Running(registry', j)
  BY DEF Serving, Alike, Running
<1>3. NewsOK'
  BY <1>2 DEF Core, NewsOK, Serving
<1>4. \A j \in Ids : j \in Asked <=> j \in Asked'
  BY DEF Asked, Serving
<1>5. ASSUME NEW j \in Ids PROVE DriverOK(j)'
  <2>1. CASE j = i
    BY <2>1 DEF Serving
  <2>2. CASE j # i
    <3>1. DriverOK(j) /\ driver'[j] = driver[j] /\ (native' = j => native = j)
      BY <2>2, IdsAreNaturals DEF Core, Serving
    <3> QED BY <1>2, <1>4, <3>1 DEF DriverOK, Live
  <2> QED BY <2>1, <2>2
<1>6. ToldOK'
  BY DEF Core, ToldOK, Serving, Alike, Retained
<1> QED BY <1>1, <1>3, <1>5, <1>6 DEF Core, Serving

LEMMA SettlingKeeps == ASSUME Core, NEW i \in Ids, Settling(i) PROVE Core'
<1>1. PICK s \in Terminal :
        Alike([registry.entry[i] EXCEPT !.status = s, !.requested = FALSE], registry'.entry[i])
  BY DEF Settling
<1>2. registry.entry[i] \in Entries
  BY DEF Core, RegistryOK, RegistryType
<1>3. /\ registry'.entry[i].status = s
      /\ registry'.entry[i].owner = registry.entry[i].owner
      /\ registry'.entry[i].client = registry.entry[i].client
      /\ registry'.entry[i].key = registry.entry[i].key
  BY <1>1, <1>2 DEF Alike, Entries
<1>4. Asleep.pc = "none" /\ Asleep.gen = 0 /\ Asleep.idat = "none" /\ Asleep.left = 0
      /\ Asleep \in Drivers
  BY BoundsAssumption DEF Asleep, Drivers, Calls
<1>5. [Asleep EXCEPT !.pc = "done"] \in Drivers
  BY <1>4 DEF Drivers
<1>6. ServingType'
  BY <1>5 DEF Core, Settling, ServingType
<1>7. \A j \in Ids \ {i} : /\ driver'[j] = driver[j]
                           /\ Running(registry, j) => registry'.entry[j] = registry.entry[j]
                           /\ Running(registry', j) => registry'.entry[j] = registry.entry[j]
  BY FreshFields DEF Core, ServingType, Settling, Running, Settled, Terminal
<1>8. ~Running(registry', i) /\ driver'[i].pc = "done" /\ driver'[i].idat = "none"
      /\ native' # i
  BY <1>3, <1>4, IdsAreNaturals DEF Core, ServingType, Settling, Running, Terminal, Drivers
<1>9. NewsOK'
  BY <1>7, <1>8 DEF Core, NewsOK, Running
<1>10. ASSUME NEW j \in Ids PROVE DriverOK(j)'
  <2>1. CASE j = i
    BY <1>8, <2>1 DEF DriverOK, Live, Calls
  <2>2. CASE j # i
    <3>1. DriverOK(j) /\ driver'[j] = driver[j] /\ (native' = j => native = j)
      BY <1>7, <2>2, IdsAreNaturals DEF Core, Settling
    <3>2. Live(j) /\ j \in Asked => j \in Asked'
      BY <1>7, <2>2, <3>1 DEF DriverOK, Asked, Settling
    <3>3. Running(registry, j) => Running(registry', j)
      BY <1>7, <2>2 DEF Running
    <3> QED BY <3>1, <3>2, <3>3 DEF DriverOK, Live
  <2> QED BY <2>1, <2>2
<1>11. ToldOK'
  <2>1. registry.entry[i].status = "running"
    BY DEF Core, DriverOK, Settling, Running
  <2>2. ASSUME NEW c \in Clients, NEW j \in Ids, <<c, j>> \in told
        PROVE  /\ registry'.entry[j].status # "none"
               /\ j \in Retained(registry') => c \in Sessions /\ registry'.entry[j].owner = c
    <3>1. CASE j = i
      BY <1>3, <2>1, <2>2, <3>1 DEF Core, ToldOK, Retained, Terminal
    <3>2. CASE j # i
      BY <2>2, <3>2, FreshFields DEF Core, ToldOK, Retained, Settling, Terminal
    <3> QED BY <3>1, <3>2
  <2> QED BY <2>2 DEF ToldOK, Settling
<1> QED BY <1>6, <1>9, <1>10, <1>11 DEF Core, Settling

LEMMA AdmittingKeeps == ASSUME Core, NEW i \in Ids, Admitting(i) PROVE Core'
<1>1. Asleep.pc = "none" /\ Asleep.gen = 0 /\ Asleep.idat = "none" /\ Asleep.left = 0
      /\ Asleep \in Drivers
  BY BoundsAssumption DEF Asleep, Drivers, Calls
<1>2. [Asleep EXCEPT !.pc = "start"] \in Drivers
  BY <1>1 DEF Drivers
<1>3. ServingType'
  BY <1>2 DEF Core, Admitting, ServingType
<1>4. \A j \in Ids \ {i} : /\ driver'[j] = driver[j]
                           /\ Running(registry, j) => registry'.entry[j] = registry.entry[j]
                           /\ Running(registry', j) => registry'.entry[j] = registry.entry[j]
  BY FreshFields DEF Core, ServingType, Admitting, Running, Settled, Terminal
<1>5. NewsOK'
  BY <1>4 DEF Core, NewsOK, Admitting, Running
<1>6. ASSUME NEW j \in Ids PROVE DriverOK(j)'
  <2>1. CASE j = i
    <3>1. driver'[i].pc = "start" /\ driver'[i].idat = "none"
      BY <1>1 DEF Core, ServingType, Admitting, Drivers
    <3>2. native' # i
      BY DEF Core, DriverOK, Live, Running, Admitting, Calls
    <3> QED BY <2>1, <3>1, <3>2 DEF DriverOK, Admitting
  <2>2. CASE j # i
    <3>1. DriverOK(j) /\ driver'[j] = driver[j] /\ native' = native
      BY <1>4, <2>2 DEF Core, Admitting
    <3>2. Live(j) /\ j \in Asked => j \in Asked'
      BY <1>4, <2>2, <3>1 DEF DriverOK, Asked, Admitting
    <3>3. Running(registry, j) => Running(registry', j)
      BY <1>4, <2>2 DEF Running
    <3> QED BY <3>1, <3>2, <3>3 DEF DriverOK, Live
  <2> QED BY <2>1, <2>2
<1>7. ToldOK'
  BY FreshFields DEF Core, ToldOK, Retained, Admitting, Terminal
<1> QED BY <1>3, <1>5, <1>6, <1>7 DEF Core, Admitting

-----------------------------------------------------------------------------
(* What a driver does at its awaits.                                       *)

\* The news a driver notes touch its own entry only.
LEMMA NotedKeeps ==
  ASSUME Core, NEW i \in Ids, NEW v
  PROVE  /\ RegistryOK(Noted(i, v))
         /\ \A j \in Ids \ {i} : Noted(i, v).entry[j] = registry.entry[j]
         /\ Alike(registry.entry[i], Noted(i, v).entry[i])
         /\ Noted(i, v).entry[i].requested = registry.entry[i].requested
         /\ Noted(i, v).entry[i].worst = IF v \in {"fatal", "lost", "cleanup"} THEN v
                                         ELSE registry.entry[i].worst
         /\ v \notin {"fatal", "lost", "cleanup"} => Noted(i, v) = registry
<1>1. CASE v \notin {"fatal", "lost", "cleanup"}
  BY <1>1 DEF Noted, Core, Alike
<1>2. CASE v \in {"fatal", "lost", "cleanup"}
  <2> DEFINE e == [registry.entry[i] EXCEPT !.worst = v]
  <2>1. Noted(i, v) = [registry EXCEPT !.entry[i] = e]
    BY <1>2 DEF Noted
  <2>2. /\ e \in Entries /\ e.status = registry.entry[i].status
        /\ e.owner = registry.entry[i].owner /\ e.client = registry.entry[i].client
        /\ e.key = registry.entry[i].key /\ e.requested = registry.entry[i].requested
        /\ e.worst = v
    <3>1. registry.entry[i] \in Entries
      BY DEF Core, RegistryOK, RegistryType
    <3> QED BY <1>2, <3>1 DEF Entries
  <2> HIDE DEF e
  <2>3. /\ RegistryOK(Noted(i, v))
        /\ \A j \in Ids : Noted(i, v).entry[j] = IF j = i THEN e ELSE registry.entry[j]
    <3>1. RegistryOK(registry) /\ (e.requested => e.status = "running")
      BY <2>2 DEF Core, RegistryOK, Running
    <3> QED BY <2>1, <2>2, <3>1, UpdateKeeps
  <2> QED BY <1>2, <2>2, <2>3 DEF Alike
<1> QED BY <1>1, <1>2

\* A driver that returns settles its task.
LEMMA ReturnSettles ==
  ASSUME Core, NEW i \in Ids, Live(i), NEW v, NEW r, r \in {registry, Noted(i, v)},
         NEW q, NEW s \in Terminal, RegistryOK(q), Ends(r, q, i, s), Return(i, q),
         s = "cancelled" =>
           /\ i \in Asked
           /\ r.entry[i].worst \notin {"fatal", "cleanup"}
           /\ driver[i].pc \in {"finish", "closeCancelled", "closeFailed"} => lease' # driver[i].gen,
         native' = IF native = i THEN 0 ELSE native, UNCHANGED told
  PROVE  Settling(i)
<1>1. /\ Alike(registry.entry[i], r.entry[i]) /\ r.entry[i] \in Entries
      /\ \A j \in Ids \ {i} : r.entry[j] = registry.entry[j]
  <2>1. CASE r = registry
    BY <2>1 DEF Alike, Core, RegistryOK, RegistryType
  <2>2. CASE r = Noted(i, v)
    BY <2>2, NotedKeeps DEF RegistryOK, RegistryType
  <2> QED BY <2>1, <2>2
<1>2. q.entry[i] = Ended(r.entry[i], s) /\ registry' = q
  BY DEF Ends, Return
<1>3. /\ q.entry[i].status = s /\ q.entry[i].owner = r.entry[i].owner
      /\ q.entry[i].client = r.entry[i].client /\ q.entry[i].key = r.entry[i].key
      /\ s = "cancelled" => q.entry[i].worst = r.entry[i].worst
  BY <1>1, <1>2 DEF Ended, Entries
<1>4. Alike([registry.entry[i] EXCEPT !.status = s, !.requested = FALSE], q.entry[i])
  <2>1. registry.entry[i] \in Entries
    BY DEF Core, RegistryOK, RegistryType
  <2> QED BY <1>1, <1>3, <2>1 DEF Alike, Entries
<1>5. \A j \in Ids \ {i} : \/ q.entry[j] = registry.entry[j]
                           \/ Settled(registry, j) /\ q.entry[j] = Gone
  BY <1>1 DEF Ends, Settled
<1> QED BY <1>2, <1>3, <1>4, <1>5 DEF Settling, Return

\* A driver that goes on to its next await serves its task.
LEMMA AdvanceServes ==
  ASSUME Core, NEW i \in Ids, Live(i), NEW d \in Drivers, driver' = [driver EXCEPT ![i] = d],
         d.pc \notin {"none", "done"}, d.idat = "running" => d.pc = "idat",
         d.pc \in {"load", "status", "finish", "closeCancelled", "closeFailed"} => d.gen # 0,
         d.pc = "closeCancelled" => i \in Asked, d.pc = "load" => d.left # 0,
         native' \in {native, 0, i},
         native' = i => d.pc \in Calls /\ (d.pc # "analyze" => d.gen # 0),
         NEW v, v \notin {"fatal", "cleanup"}, registry' = Noted(i, v),
         UNCHANGED <<cancelled, told>>
  PROVE  Serving(i)
<1>1. /\ driver' \in [Ids -> Drivers] /\ driver'[i] = d
      /\ \A j \in Ids \ {i} : driver'[j] = driver[j]
  BY DEF Core, ServingType
<1>2. /\ RegistryOK(registry')
      /\ \A j \in Ids : /\ Alike(registry.entry[j], registry'.entry[j])
                        /\ registry'.entry[j].requested = registry.entry[j].requested
                        /\ registry'.entry[j].worst \in {registry.entry[j].worst, "lost"}
  <2>1. RegistryOK(registry')
    BY NotedKeeps
  <2>2. ASSUME NEW j \in Ids
        PROVE  /\ Alike(registry.entry[j], registry'.entry[j])
               /\ registry'.entry[j].requested = registry.entry[j].requested
               /\ registry'.entry[j].worst \in {registry.entry[j].worst, "lost"}
    BY NotedKeeps DEF Alike
  <2> QED BY <2>1, <2>2
<1>3. Running(registry', i)
  BY <1>2 DEF Core, DriverOK, Running, Alike
<1>4. i \in Asked => i \in Asked'
  BY <1>2 DEF Asked
<1> QED BY <1>1, <1>2, <1>3, <1>4 DEF Serving, DriverOK, Live

\* The record of a driver that moves to await p.
LEMMA MoveFields ==
  ASSUME Core, NEW i \in Ids, NEW p,
         p \in {"idat", "finish", "closeCancelled", "closeFailed"} \cup Calls
  PROVE  LET d == [driver[i] EXCEPT !.pc = p, !.idat = "none"]
             e == [driver[i] EXCEPT !.pc = p]
         IN  /\ d \in Drivers /\ d.pc = p /\ d.idat = "none"
             /\ d.gen = driver[i].gen /\ d.left = driver[i].left
             /\ e \in Drivers /\ e.pc = p /\ e.idat = driver[i].idat
             /\ e.gen = driver[i].gen /\ e.left = driver[i].left
<1>1. driver[i] \in Drivers
  BY DEF Core, ServingType
<1> QED BY <1>1 DEF Drivers, Calls

\* Goto changes nothing else.
LEMMA GotoServes ==
  ASSUME Core, NEW i \in Ids, Live(i), NEW p,
         p \in {"idat", "finish", "closeCancelled", "closeFailed", "analyze", "open"}, Goto(i, p),
         p \in {"finish", "closeCancelled", "closeFailed"} => driver[i].gen # 0,
         p = "closeCancelled" => i \in Asked,
         native' \in {native, 0}, native' # i, UNCHANGED told
  PROVE  Serving(i)
<1> DEFINE d == [driver[i] EXCEPT !.pc = p, !.idat = "none"]
<1>1. /\ driver[i] \in Drivers /\ driver \in [Ids -> Drivers]
      /\ driver' = [driver EXCEPT ![i].pc = p, ![i].idat = "none"]
      /\ UNCHANGED <<registry, cancelled>>
  BY DEF Core, ServingType, Goto
<1>2. driver' = [driver EXCEPT ![i] = d]
  BY <1>1
<1>3. d \in Drivers /\ d.pc = p /\ d.idat = "none" /\ d.gen = driver[i].gen
  BY MoveFields DEF Calls
<1> HIDE DEF d
<1>4. registry' = Noted(i, "none")
  BY <1>1 DEF Noted
<1> QED BY <1>1, <1>2, <1>3, <1>4, AdvanceServes

\* A driver moves on after a call, with news that does not settle its task.
LEMMA MoveServes ==
  ASSUME Core, NEW i \in Ids, Live(i), driver[i].pc \in Calls, NEW p,
         p \in {"closeCancelled", "closeFailed", "finish"},
         driver' = [driver EXCEPT ![i].pc = p], driver[i].gen # 0,
         p = "closeCancelled" => i \in Asked,
         NEW v, v \notin {"fatal", "cleanup"}, registry' = Noted(i, v),
         native' \in {native, 0}, native' # i, UNCHANGED <<cancelled, told>>
  PROVE  Serving(i)
<1> DEFINE d == [driver[i] EXCEPT !.pc = p]
<1>1. driver[i] \in Drivers /\ driver \in [Ids -> Drivers]
  BY DEF Core, ServingType
<1>2. driver' = [driver EXCEPT ![i] = d]
  BY <1>1
<1>3. d \in Drivers /\ d.pc = p /\ d.idat = driver[i].idat /\ d.gen = driver[i].gen
  BY MoveFields
<1>4. d.idat # "running"
  BY <1>3 DEF Core, DriverOK, Calls
<1> HIDE DEF d
<1> QED BY <1>2, <1>3, <1>4, AdvanceServes

\* The result of a call, or of waiting for one in vain, lets the driver go on
\* or settle; after a fatal one it settles.
LEMMA ResumeSteps ==
  ASSUME Core, NEW i \in Ids, NEW v \in {"ok", "plain", "never", "fatal", "lost"},
         Resume(i, v), v = "ok" => native = i,
         native' = IF native = i THEN 0 ELSE native, UNCHANGED told
  PROVE  /\ Settling(i) \/ Serving(i)
         /\ v = "fatal" => Settling(i)
<1>1. /\ driver[i].pc \in Calls /\ Live(i) /\ native' # i /\ native' \in {native, 0}
      /\ Running(registry, i) /\ DriverOK(i) /\ RegistryOK(registry)
  BY IdsAreNaturals DEF Core, DriverOK, Live, Resume, Calls
<1>2. driver[i].pc \notin {"finish", "closeCancelled", "closeFailed"}
  BY <1>1 DEF Calls
<1>3. /\ RegistryOK(Noted(i, v)) /\ Running(Noted(i, v), i)
      /\ Noted(i, v).entry[i].requested = registry.entry[i].requested
      /\ v \notin {"fatal", "cleanup"} => Noted(i, v).entry[i].worst \notin {"fatal", "cleanup"}
  <2>1. registry.entry[i].worst \in {"none", "lost"}
    BY <1>1 DEF Core, NewsOK
  <2> QED BY <1>1, <2>1, NotedKeeps DEF Alike, Running
<1>4. i \in cancelled \/ registry.entry[i].requested => i \in Asked
  BY DEF Asked
<1>5. ASSUME Return(i, complete_background_tool_error(Noted(i, v), i, v))
      PROVE  Settling(i)
  <2> DEFINE q == complete_background_tool_error(Noted(i, v), i, v)
  <2>1. PICK s \in Terminal :
          /\ RegistryOK(q) /\ Ends(Noted(i, v), q, i, s)
          /\ s = "cancelled" => v # "fatal" /\ i \in Asked
    <3>1. CASE v = "fatal"
      BY <1>3, <3>1, SettlingOperators DEF Terminal
    <3>2. CASE v # "fatal"
      BY <1>3, <1>4, <3>2, SettlingOperators DEF Terminal
    <3> QED BY <3>1, <3>2
  <2> HIDE DEF q
  <2> QED BY <1>1, <1>2, <1>3, <1>5, <2>1, ReturnSettles DEF q
<1>6. ASSUME Return(i, complete_with_cancel_token(registry, i))
      PROVE  Settling(i)
  <2> DEFINE q == complete_with_cancel_token(registry, i)
  <2>1. PICK s \in Terminal :
          RegistryOK(q) /\ Ends(registry, q, i, s) /\ (s = "cancelled" => i \in Asked)
    BY <1>1, <1>4, SettlingOperators DEF Terminal
  <2>2. registry.entry[i].worst \notin {"fatal", "cleanup"}
    BY <1>1 DEF Core, NewsOK
  <2> HIDE DEF q
  <2> QED BY <1>1, <1>2, <1>6, <2>1, <2>2, ReturnSettles DEF q
<1>7. CASE driver[i].pc = "analyze" /\ Analyzed(i, v)
  BY <1>5, <1>6, <1>7 DEF Analyzed
<1>8. CASE driver[i].pc = "open" /\ Opened(i, v)
  <2>1. CASE v # "ok"
    BY <1>5, <1>8, <2>1 DEF Opened
  <2>2. CASE v = "ok"
    <3>1. driver[i].gen # 0
      BY <1>1, <1>8, <2>2 DEF DriverOK
    <3>2. CASE i \in cancelled /\ Goto(i, "closeCancelled")
      BY <1>1, <1>4, <2>2, <3>1, <3>2, GotoServes
    <3>3. CASE Goto(i, "finish")
      BY <1>1, <2>2, <3>1, <3>3, GotoServes
    <3>4. CASE /\ driver' = [driver EXCEPT ![i].pc = "load", ![i].left = Images]
               /\ UNCHANGED <<registry, cancelled>>
      <4> DEFINE d == [driver[i] EXCEPT !.pc = "load", !.left = Images]
      <4>1. driver[i] \in Drivers /\ driver \in [Ids -> Drivers] /\ Images \in 0 .. Images /\ Images # 0
        BY BoundsAssumption DEF Core, ServingType
      <4>2. driver' = [driver EXCEPT ![i] = d]
        BY <3>4, <4>1
      <4>3. /\ d \in Drivers /\ d.pc = "load" /\ d.idat = driver[i].idat
            /\ d.gen = driver[i].gen /\ d.left = Images
        BY <4>1 DEF Drivers, Calls
      <4>4. d.idat # "running"
        BY <1>1, <1>8, <4>3 DEF DriverOK
      <4>5. registry' = Noted(i, "none")
        BY <3>4 DEF Noted
      <4> HIDE DEF d
      <4> QED BY <1>1, <2>2, <3>1, <3>4, <4>1, <4>2, <4>3, <4>4, <4>5, AdvanceServes
    <3> QED BY <1>8, <2>2, <3>2, <3>3, <3>4 DEF Opened
  <2> QED BY <2>1, <2>2
<1>9. CASE driver[i].pc = "load" /\ Loaded(i, v)
  <2>1. driver[i].gen # 0 /\ driver[i].left # 0
    BY <1>1, <1>9 DEF DriverOK
  <2>2. CASE v = "fatal"
    BY <1>5, <1>9, <2>2 DEF Loaded
  <2>3. CASE /\ v # "fatal" /\ registry' = Noted(i, v) /\ UNCHANGED cancelled
             /\ driver' = [driver EXCEPT ![i].pc = IF i \in cancelled THEN "closeCancelled"
                                                   ELSE "closeFailed"]
    BY <1>1, <1>4, <2>1, <2>3, MoveServes
  <2>4. CASE /\ v = "ok" /\ UNCHANGED <<registry, cancelled>>
             /\ driver' = [driver EXCEPT ![i].left = @ - 1,
                             ![i].pc = IF driver[i].left = 1 THEN "status" ELSE "load"]
    <3> DEFINE p == IF driver[i].left = 1 THEN "status" ELSE "load"
               n == driver[i].left - 1
               d == [driver[i] EXCEPT !.left = n, !.pc = p]
    <3>1. driver[i] \in Drivers /\ driver \in [Ids -> Drivers]
      BY DEF Core, ServingType
    <3>2. driver' = [driver EXCEPT ![i] = d]
      BY <2>4, <3>1
    <3>3. n \in 0 .. Images /\ (p = "load" => n # 0) /\ p \in {"status", "load"}
      BY <2>1, <3>1, BoundsAssumption DEF Drivers
    <3> HIDE DEF n, p
    <3>4. d \in Drivers /\ d.pc = p /\ d.idat = driver[i].idat /\ d.gen = driver[i].gen /\ d.left = n
      BY <3>1, <3>3 DEF Drivers, Calls
    <3>5. d.idat # "running"
      BY <1>1, <1>9, <3>4 DEF DriverOK
    <3>6. registry' = Noted(i, "none")
      BY <2>4 DEF Noted
    <3> HIDE DEF d
    <3> QED BY <1>1, <2>1, <2>4, <3>2, <3>3, <3>4, <3>5, <3>6, AdvanceServes
  <2> QED BY <1>9, <2>2, <2>3, <2>4 DEF Loaded
<1>10. CASE driver[i].pc = "status" /\ StatusRead(i, v)
  <2>1. driver[i].gen # 0
    BY <1>1, <1>10 DEF DriverOK
  <2>2. CASE v = "fatal"
    BY <1>5, <1>10, <2>2 DEF StatusRead
  <2>3. CASE /\ v # "fatal" /\ registry' = Noted(i, v) /\ UNCHANGED cancelled
             /\ driver' = [driver EXCEPT ![i].pc = IF i \in cancelled THEN "closeCancelled"
                                                   ELSE "finish"]
    BY <1>1, <1>4, <2>1, <2>3, MoveServes
  <2> QED BY <1>10, <2>2, <2>3 DEF StatusRead
<1>11. v = "fatal" => Settling(i)
  BY <1>5 DEF Resume, Analyzed, Opened, Loaded, StatusRead
<1> QED BY <1>7, <1>8, <1>9, <1>10, <1>11 DEF Resume

-----------------------------------------------------------------------------
(* Every action is a step of one of the four kinds.                        *)

LEMMA AskingTold == ASSUME Core, Asking, UNCHANGED told PROVE ToldOK'
<1>1. \A j \in Ids : /\ registry.entry[j].status # "none" => registry'.entry[j].status # "none"
                     /\ j \in Retained(registry') =>
                          /\ j \in Retained(registry)
                          /\ registry'.entry[j].owner = registry.entry[j].owner
  BY FreshFields DEF Asking, Alike, Retained, Settled, Terminal
<1> QED BY <1>1 DEF Core, ToldOK

\* A step that leaves the drivers alone and does nothing to the registry but
\* forget expired results.
LEMMA ForgettingAsks ==
  ASSUME Core, RegistryOK(registry'), Forgets(registry, registry'),
         cancelled \subseteq cancelled', cancelled' \subseteq Ids, UNCHANGED <<driver, native>>
  PROVE  Asking
BY DEF Asking, Forgets, Alike

\* The requests of these actions stop nothing by themselves.
LEMMA BystandersAsk ==
  ASSUME Core, UNCHANGED <<registry, driver, native>>,
         cancelled \subseteq cancelled', cancelled' \subseteq Ids
  PROVE  Asking
BY ForgettingAsks DEF Core, Forgets

LEMMA RegisterAsks == ASSUME Core, NEW i \in Ids, Register(i) PROVE Asking
<1> DEFINE b == i \in Retained(registry)
           e == [registry.entry[i] EXCEPT !.token = b]
<1>1. registry.entry[i] \in Entries /\ RegistryOK(registry)
  BY DEF Core, RegistryOK, RegistryType
<1>2. /\ registry' = [registry EXCEPT !.entry[i] = e] /\ UNCHANGED <<driver, native>>
      /\ cancelled \subseteq cancelled' /\ cancelled' \subseteq Ids
  BY DEF Register, Core, ServingType
<1>3. b \in BOOLEAN
  OBVIOUS
<1> HIDE DEF b
<1>4. e \in Entries /\ Alike(registry.entry[i], e) /\ e.requested = registry.entry[i].requested
      /\ e.worst = registry.entry[i].worst
  BY <1>1, <1>3 DEF Entries, Alike
<1> HIDE DEF e
<1>5. /\ RegistryOK(registry')
      /\ \A j \in Ids : registry'.entry[j] = IF j = i THEN e ELSE registry.entry[j]
  <2>1. e.status = registry.entry[i].status /\ (e.requested => e.status = "running")
    BY <1>1, <1>4 DEF Alike, RegistryOK, Running
  <2> QED BY <1>1, <1>2, <1>4, <2>1, UpdateKeeps
<1> QED BY <1>2, <1>4, <1>5 DEF Asking, Alike

\* A request to stop a running task.
LEMMA RequestKeeps ==
  ASSUME NEW r, RegistryOK(r), NEW i \in Ids
  PROVE  /\ RegistryOK(request_cancel(r, i))
         /\ \A j \in Ids : /\ Alike(r.entry[j], request_cancel(r, i).entry[j])
                           /\ request_cancel(r, i).entry[j].worst = r.entry[j].worst
                           /\ j # i => request_cancel(r, i).entry[j] = r.entry[j]
         /\ ~Running(r, i) => request_cancel(r, i).entry[i] = r.entry[i]
<1> DEFINE e == [r.entry[i] EXCEPT !.requested = TRUE]
<1>1. r.entry[i] \in Entries
  BY DEF RegistryOK, RegistryType
<1>2. e \in Entries /\ Alike(r.entry[i], e) /\ e.worst = r.entry[i].worst
  BY <1>1 DEF Entries, Alike
<1>3. CASE Running(r, i)
  <2>1. request_cancel(r, i) = [r EXCEPT !.entry[i] = e]
    BY <1>3 DEF request_cancel
  <2> HIDE DEF e
  <2>2. /\ RegistryOK(request_cancel(r, i))
        /\ \A j \in Ids : request_cancel(r, i).entry[j] = IF j = i THEN e ELSE r.entry[j]
    BY <1>2, <1>3, <2>1, UpdateKeeps DEF Alike, Running
  <2> QED BY <1>2, <1>3, <2>2 DEF Alike
<1>4. CASE ~Running(r, i)
  BY <1>4 DEF request_cancel, Alike
<1> QED BY <1>3, <1>4

LEMMA CancelAsks == ASSUME Core, NEW c \in Clients, NEW i \in Ids, cancel_task(c, i) PROVE Asking
<1> DEFINE p == prune_terminal_tasks(registry)
<1>1. RegistryOK(p) /\ Forgets(registry, p)
  BY PruneKeeps DEF Core
<1>2. /\ registry' = request_cancel(p, i) /\ UNCHANGED <<driver, native>>
      /\ cancelled' = cancelled \cup Reached(p, {i})
  BY DEF cancel_task
<1> HIDE DEF p
<1>3. RegistryOK(registry')
  BY <1>1, <1>2, RequestKeeps
<1>4. ASSUME NEW j \in Ids
      PROVE  \/ Alike(registry.entry[j], registry'.entry[j])
                /\ registry'.entry[j].worst = registry.entry[j].worst
             \/ Settled(registry, j) /\ registry'.entry[j] = Gone
  <2>1. CASE p.entry[j] = registry.entry[j]
    BY <1>1, <1>2, <2>1, RequestKeeps
  <2>2. CASE Settled(registry, j) /\ p.entry[j] = Gone
    <3>1. ~Running(p, j)
      BY <2>2, FreshFields DEF Running
    <3>2. registry'.entry[j] = Gone
      BY <1>1, <1>2, <2>2, <3>1, RequestKeeps
    <3> QED BY <2>2, <3>2
  <2> QED BY <1>1, <2>1, <2>2 DEF Forgets
<1>5. cancelled \subseteq cancelled' /\ cancelled' \subseteq Ids
  BY <1>2 DEF Core, ServingType, Reached
<1> QED BY <1>2, <1>3, <1>4, <1>5 DEF Asking

LEMMA CancelAllAsks == ASSUME Core, CancelAllRunning PROVE Asking
<1> DEFINE E == [i \in Ids |-> request_cancel(registry, i).entry[i]]
           r == [registry EXCEPT !.entry = E]
<1>1. /\ registry' = IF r = registry THEN r ELSE prune_terminal_tasks(r)
      /\ UNCHANGED <<driver, native>>
      /\ cancelled' = cancelled \cup Reached(registry, Ids)
  BY DEF CancelAllRunning
<1>2. /\ RegistryOK(registry) /\ registry \in RegistryType
  BY DEF Core, RegistryOK
<1>3. \A i \in Ids : /\ E[i] \in Entries /\ Alike(registry.entry[i], E[i])
                     /\ E[i].worst = registry.entry[i].worst
                     /\ E[i].requested => E[i].status = "running"
  <2> SUFFICES ASSUME NEW i \in Ids
               PROVE  /\ E[i] \in Entries /\ Alike(registry.entry[i], E[i])
                      /\ E[i].worst = registry.entry[i].worst
                      /\ E[i].requested => E[i].status = "running"
    OBVIOUS
  <2>1. E[i] = request_cancel(registry, i).entry[i]
    OBVIOUS
  <2> HIDE DEF E
  <2> QED BY <1>2, <2>1, RequestKeeps DEF RegistryOK, RegistryType, Running
<1>4. E \in [Ids -> Entries]
  BY <1>3
<1> HIDE DEF E
<1>5. /\ r.entry = E /\ r.settled = registry.settled /\ r.old = registry.old
      /\ r \in RegistryType
  BY <1>2, <1>4 DEF RegistryType
<1> HIDE DEF r
<1>6. \A i \in Ids : Settled(r, i) <=> Settled(registry, i)
  BY <1>3, <1>5 DEF Settled, Alike
<1>7. RegistryOK(r)
  BY <1>2, <1>3, <1>5, <1>6 DEF RegistryOK, Running
<1>8. RegistryOK(registry') /\ Forgets(r, registry')
  BY <1>1, <1>7, PruneKeeps DEF Forgets
<1>9. \A j \in Ids : \/ Alike(registry.entry[j], registry'.entry[j])
                        /\ registry'.entry[j].worst = registry.entry[j].worst
                     \/ Settled(registry, j) /\ registry'.entry[j] = Gone
  BY <1>3, <1>5, <1>6, <1>8 DEF Forgets
<1>10. cancelled \subseteq cancelled' /\ cancelled' \subseteq Ids
  BY <1>1 DEF Core, ServingType, Reached
<1> QED BY <1>1, <1>8, <1>9, <1>10 DEF Asking

LEMMA AgeAsks == ASSUME Core, Age PROVE Asking
<1> DEFINE n == registry.old + 1
<1>1. registry' = [registry EXCEPT !.old = n] /\ registry.old < Len(registry.settled)
  BY DEF Age
<1>2. registry \in RegistryType /\ RegistryOK(registry) /\ Len(registry.settled) \in Nat
  BY DEF Core, RegistryOK, RegistryType
<1>3. n \in Nat /\ n <= Len(registry.settled)
  BY <1>1, <1>2 DEF RegistryType
<1> HIDE DEF n
<1>4. /\ registry'.entry = registry.entry /\ registry'.settled = registry.settled
      /\ registry'.old = n /\ registry' \in RegistryType
  BY <1>1, <1>2, <1>3 DEF RegistryType
<1>5. RegistryOK(registry')
  BY <1>2, <1>3, <1>4 DEF RegistryOK, Settled, Running
<1> QED BY <1>4, <1>5, ForgettingAsks DEF Age, Forgets, Core, ServingType

\* Creating a task: it finds a running one for its key, or no room, or starts.
LEMMA CreateSteps ==
  ASSUME Core, NEW c \in Clients, NEW k \in Keys, create_keyed(c, k)
  PROVE  (Asking /\ ToldOK') \/ \E i \in Ids : Admitting(i)
<1> DEFINE p == prune_terminal_tasks(registry)
           r == reclaim_capacity_for_admission(p)
           i == NewId
<1>1. RegistryOK(p) /\ Forgets(registry, p) /\ RegistryOK(r) /\ Forgets(p, r)
  BY PruneKeeps, ReclaimKeeps DEF Core
<1>2. i \in Ids /\ registry.entry[i].status = "none"
  BY DEF create_keyed, NewId
<1>3. /\ UNCHANGED <<cancelled, native>>
      /\ \/ /\ registry' = p
            /\ told' = told \cup {<<c, j>> : j \in {m \in Disclosed(p, c, k) : ~Knows(c, m)}}
            /\ UNCHANGED driver
         \/ registry' = r /\ UNCHANGED <<driver, told>>
         \/ /\ Matching(p, k) = {} /\ Cardinality(Retained(r)) < MaxEntries
            /\ registry' = [r EXCEPT !.entry[i] =
                 [Fresh EXCEPT !.status = "running", !.owner = Owner(c), !.client = c, !.key = k]]
            /\ driver' = [driver EXCEPT ![i] = [Asleep EXCEPT !.pc = "start"]]
            /\ UNCHANGED told
  BY DEF create_keyed
<1> HIDE DEF p, r, i
<1>4. \A j \in Ids : r.entry[j] = registry.entry[j] \/ (Settled(registry, j) /\ r.entry[j] = Gone)
  BY <1>1 DEF Forgets, Settled
<1>5. cancelled \subseteq cancelled' /\ cancelled' \subseteq Ids
  BY <1>3 DEF Core, ServingType
<1>6. CASE /\ registry' = p /\ UNCHANGED driver
           /\ told' = told \cup {<<c, j>> : j \in {m \in Disclosed(p, c, k) : ~Knows(c, m)}}
  <2>1. Asking
    BY <1>1, <1>3, <1>5, <1>6, ForgettingAsks
  <2>2. ASSUME NEW d \in Clients, NEW j \in Ids, <<d, j>> \in told
        PROVE  /\ p.entry[j].status # "none"
               /\ j \in Retained(p) => d \in Sessions /\ p.entry[j].owner = d
    BY <1>1, <2>2, FreshFields DEF Core, ToldOK, Forgets, Retained, Settled, Terminal
  <2>3. ASSUME NEW d \in Clients, NEW j \in Ids, j \in Disclosed(p, c, k), d = c
        PROVE  /\ p.entry[j].status # "none"
               /\ j \in Retained(p) => d \in Sessions /\ p.entry[j].owner = d
    BY <2>3 DEF Disclosed, Matching, Running
  <2> QED BY <1>6, <2>1, <2>2, <2>3 DEF ToldOK
<1>7. CASE registry' = r /\ UNCHANGED <<driver, told>>
  <2>1. Forgets(registry, r)
    BY <1>4 DEF Forgets
  <2> QED BY <1>1, <1>3, <1>5, <1>7, <2>1, ForgettingAsks, AskingTold
<1>8. CASE /\ Matching(p, k) = {} /\ Cardinality(Retained(r)) < MaxEntries
           /\ registry' = [r EXCEPT !.entry[i] =
                [Fresh EXCEPT !.status = "running", !.owner = Owner(c), !.client = c, !.key = k]]
           /\ driver' = [driver EXCEPT ![i] = [Asleep EXCEPT !.pc = "start"]]
           /\ UNCHANGED told
  <2> DEFINE e == [Fresh EXCEPT !.status = "running", !.owner = Owner(c), !.client = c, !.key = k]
  <2>1. Owner(c) \in Sessions \cup {"Runtime"}
    BY DEF Owner
  <2>2. e \in Entries /\ e.status = "running" /\ ~e.requested /\ e.worst = "none" /\ e.key = k
    BY <2>1, FreshFields DEF Fresh, Entries
  <2>3. registry' = [r EXCEPT !.entry[i] = e]
    BY <1>8
  <2> HIDE DEF e
  <2>4. r.entry[i] = registry.entry[i] /\ r.entry[i].status \notin Terminal
    BY <1>2, <1>4 DEF Settled, Terminal
  <2>5. /\ RegistryOK(registry')
        /\ \A j \in Ids : registry'.entry[j] = IF j = i THEN e ELSE r.entry[j]
    <3>1. e.status \notin Terminal
      BY <2>2 DEF Terminal
    <3> QED BY <1>1, <1>2, <2>2, <2>3, <2>4, <3>1, UpdateKeeps
  <2>6. Matching(registry, k) = {}
    <3>1. \A j \in Ids : Running(registry, j) => p.entry[j] = registry.entry[j]
      BY <1>1 DEF Forgets, Running, Settled, Terminal
    <3> QED BY <1>8, <3>1 DEF Matching, Running
  <2>7. Retained(registry') \ {i} = Retained(r)
    <3>1. i \notin Retained(r)
      BY <1>2, <2>4 DEF Retained
    <3> QED BY <2>5, <3>1 DEF Retained
  <2>8. Admitting(i)
    BY <1>2, <1>3, <1>4, <1>8, <2>2, <2>5, <2>6, <2>7 DEF Admitting, Running
  <2> QED BY <1>2, <2>8
<1> QED BY <1>3, <1>6, <1>7, <1>8

\* A driver outside a call settles with one of the operators of the registry.
LEMMA SettleOutsideCall ==
  ASSUME Core, NEW i \in Ids, Live(i), driver[i].pc \notin Calls, NEW q,
         \/ q = finish_cancelled(registry, i) /\ i \in Asked
         \/ q \in {fail(registry, i), complete(registry, i),
                   complete_background_tool_error(registry, i, "plain")},
         driver[i].pc \in {"finish", "closeCancelled", "closeFailed"} =>
           \/ lease' # driver[i].gen
           \/ ~registry.entry[i].requested /\ q = complete(registry, i),
         Return(i, q), UNCHANGED <<native, told>>
  PROVE  Settling(i)
<1>1. Running(registry, i) /\ RegistryOK(registry) /\ registry.entry[i].worst \notin {"fatal", "cleanup"}
  BY DEF Core, DriverOK, NewsOK
<1>2. native' = IF native = i THEN 0 ELSE native
  BY DEF Core, DriverOK
<1>3. PICK s \in Terminal :
        /\ RegistryOK(q) /\ Ends(registry, q, i, s)
        /\ s = "cancelled" => i \in Asked
  BY <1>1, SettlingOperators DEF Terminal, Asked
<1>4. ~registry.entry[i].requested /\ q = complete(registry, i) => s # "cancelled"
  <2> SUFFICES ASSUME ~registry.entry[i].requested, q = complete(registry, i)
               PROVE  s # "cancelled"
    OBVIOUS
  <2>1. q = Transition(registry, i, "completed")
    BY <1>1 DEF complete
  <2>2. Ends(registry, q, i, "completed")
    BY <1>1, <2>1, TransitionEnds DEF Terminal
  <2>3. registry.entry[i] \in Entries
    BY <1>1 DEF RegistryOK, RegistryType
  <2>4. \A t \in Terminal : Ended(registry.entry[i], t).status = t
    BY <2>3 DEF Ended, Entries
  <2> QED BY <1>3, <2>2, <2>4 DEF Ends, Terminal
<1> QED BY <1>1, <1>2, <1>3, <1>4, ReturnSettles

\* A driver outside a call goes on to another await.
LEMMA StartSteps == ASSUME Core, NEW i \in Ids, Start(i) PROVE Settling(i) \/ Serving(i)
<1>1. /\ driver[i].pc = "start" /\ Live(i) /\ driver[i].pc \notin Calls
      /\ driver[i].pc \notin {"finish", "closeCancelled", "closeFailed"}
      /\ UNCHANGED <<native, told>> /\ native' # i
  BY DEF Start, At, Live, Calls, Core, DriverOK
<1>2. i \in cancelled => i \in Asked
  BY DEF Asked
<1>3. CASE Goto(i, "analyze") \/ Goto(i, "open")
  BY <1>1, <1>3, GotoServes
<1>4. CASE i \in cancelled /\ Return(i, finish_cancelled(registry, i))
  BY <1>1, <1>2, <1>4, SettleOutsideCall
<1>5. CASE Return(i, complete_background_tool_error(registry, i, "plain"))
  BY <1>1, <1>5, SettleOutsideCall
<1>6. CASE /\ driver' = [driver EXCEPT ![i].pc = "idat", ![i].idat = "running"]
           /\ UNCHANGED <<registry, cancelled>>
  <2> DEFINE d == [driver[i] EXCEPT !.pc = "idat", !.idat = "running"]
  <2>1. driver[i] \in Drivers /\ driver \in [Ids -> Drivers]
    BY DEF Core, ServingType
  <2>2. driver' = [driver EXCEPT ![i] = d]
    BY <1>6, <2>1
  <2>3. d \in Drivers /\ d.pc = "idat"
    BY <2>1 DEF Drivers
  <2>4. registry' = Noted(i, "none")
    BY <1>6 DEF Noted
  <2> HIDE DEF d
  <2> QED BY <1>1, <1>6, <2>2, <2>3, <2>4, AdvanceServes
<1> QED BY <1>3, <1>4, <1>5, <1>6 DEF Start

LEMMA IdatSteps ==
  ASSUME Core, NEW i \in Ids, IdatExits(i) \/ StopIdat(i) \/ IdatDone(i)
  PROVE  Settling(i) \/ Serving(i)
<1>1. /\ driver[i].pc = "idat" /\ Live(i) /\ driver[i].pc \notin Calls
      /\ driver[i].pc \notin {"finish", "closeCancelled", "closeFailed"}
      /\ UNCHANGED <<native, told>> /\ native' # i
  BY DEF IdatExits, StopIdat, IdatDone, At, Live, Calls, Core, DriverOK
<1>2. i \in cancelled => i \in Asked
  BY DEF Asked
<1>3. CASE Goto(i, "open")
  BY <1>1, <1>3, GotoServes
<1>4. CASE i \in cancelled /\ Return(i, finish_cancelled(registry, i))
  BY <1>1, <1>2, <1>4, SettleOutsideCall
<1>5. CASE \/ Return(i, complete_background_tool_error(registry, i, "plain"))
           \/ Return(i, fail(registry, i))
  BY <1>1, <1>5, SettleOutsideCall
<1>6. ASSUME NEW o \in {"ok", "error"}, driver' = [driver EXCEPT ![i].idat = o],
             UNCHANGED <<registry, cancelled>>
      PROVE  Serving(i)
  <2> DEFINE d == [driver[i] EXCEPT !.idat = o]
  <2>1. driver[i] \in Drivers /\ driver \in [Ids -> Drivers]
    BY DEF Core, ServingType
  <2>2. driver' = [driver EXCEPT ![i] = d]
    BY <1>6, <2>1
  <2>3. d \in Drivers /\ d.pc = "idat"
    BY <1>1, <2>1 DEF Drivers
  <2>4. registry' = Noted(i, "none")
    BY <1>6 DEF Noted
  <2> HIDE DEF d
  <2> QED BY <1>1, <1>6, <2>2, <2>3, <2>4, AdvanceServes
<1> QED BY <1>3, <1>4, <1>5, <1>6 DEF IdatExits, StopIdat, IdatDone

LEMMA LeaseSteps ==
  ASSUME Core, ServerType, NEW i \in Ids, LeaseForOpen(i) PROVE Settling(i) \/ Serving(i)
<1>1. /\ driver[i].pc = "open" /\ Live(i) /\ driver[i].pc \in Calls /\ driver[i].gen = 0
      /\ UNCHANGED <<native, told>> /\ native # i
  BY DEF LeaseForOpen, At, Live, Calls, Core, DriverOK
<1>2. CASE Opened(i, "never")
  <2>1. Resume(i, "never") /\ native' = IF native = i THEN 0 ELSE native
    BY <1>1, <1>2 DEF Resume
  <2> QED BY <1>1, <2>1, ResumeSteps
<1>3. ASSUME NEW g \in 0 .. MaxGenerations, g # 0, NEW f \in BOOLEAN,
             driver' = [driver EXCEPT ![i].gen = g, ![i].fresh = f], UNCHANGED <<registry, cancelled>>
      PROVE  Serving(i)
  <2> DEFINE d == [driver[i] EXCEPT !.gen = g, !.fresh = f]
  <2>1. driver[i] \in Drivers /\ driver \in [Ids -> Drivers] /\ driver[i].idat # "running"
    BY <1>1 DEF Core, ServingType, DriverOK
  <2>2. driver' = [driver EXCEPT ![i] = d]
    BY <1>3, <2>1
  <2>3. d \in Drivers /\ d.pc = "open" /\ d.gen = g /\ d.idat # "running"
    BY <1>1, <1>3, <2>1 DEF Drivers
  <2>4. registry' = Noted(i, "none")
    BY <1>3 DEF Noted
  <2> HIDE DEF d
  <2> QED BY <1>1, <1>3, <2>2, <2>3, <2>4, AdvanceServes
<1>4. created < MaxGenerations => created + 1 \in 0 .. MaxGenerations /\ created + 1 # 0
  BY BoundsAssumption DEF ServerType
<1>5. lease \in 0 .. MaxGenerations
  BY DEF ServerType
<1> QED BY <1>2, <1>3, <1>4, <1>5 DEF LeaseForOpen

LEMMA CallSteps ==
  ASSUME Core, NEW i \in Ids,
         Dispatch(i) \/ NeverDispatched(i) \/ Answer(i) \/ CancelRunning(i)
  PROVE  Settling(i) \/ Serving(i)
<1>1. CASE Dispatch(i)
  <2>1. /\ driver[i].pc \in Calls /\ Live(i) /\ UNCHANGED <<registry, cancelled, driver, told>>
        /\ native' = i
        /\ driver[i].pc = "open" => driver[i].gen # 0
    BY <1>1 DEF Dispatch, Waiting, At, Live, Calls
  <2>2. DriverOK(i) /\ driver \in [Ids -> Drivers] /\ RegistryOK(registry)
    BY DEF Core, ServingType
  <2>3. driver[i].pc # "analyze" => driver[i].gen # 0
    BY <2>1, <2>2 DEF DriverOK, Calls
  <2>4. DriverOK(i)' /\ Live(i)'
    BY <2>1, <2>2, <2>3 DEF DriverOK, Live, Asked
  <2> QED BY <2>1, <2>2, <2>4 DEF Serving, Alike
<1>2. CASE NeverDispatched(i)
  <2>1. /\ \E v \in {"never", "plain"} : Resume(i, v)
        /\ UNCHANGED <<native, told>> /\ native # i
    BY <1>2 DEF NeverDispatched, Waiting
  <2>2. native' = IF native = i THEN 0 ELSE native
    BY <2>1
  <2> QED BY <2>1, <2>2, ResumeSteps
<1>3. CASE Answer(i) \/ CancelRunning(i)
  <2>1. /\ \E v \in {"ok", "plain", "fatal", "lost"} : Resume(i, v)
        /\ UNCHANGED told /\ native = i /\ native' = 0
    BY <1>3 DEF Answer, CancelRunning
  <2> QED BY <2>1, ResumeSteps
<1> QED BY <1>1, <1>2, <1>3

LEMMA FinishSteps ==
  ASSUME Core, NEW i \in Ids, Finish(i) PROVE Settling(i) \/ Serving(i)
<1>1. /\ driver[i].pc = "finish" /\ Live(i) /\ driver[i].pc \notin Calls
      /\ driver[i].gen # 0 /\ UNCHANGED <<native, told>> /\ native' # i
  BY DEF Finish, At, Live, Calls, Core, DriverOK
<1>2. CASE (i \in cancelled \/ registry.entry[i].requested) /\ Goto(i, "closeCancelled")
  <2>1. i \in Asked
    BY <1>2 DEF Asked
  <2> QED BY <1>1, <1>2, <2>1, GotoServes
<1>3. CASE ~registry.entry[i].requested /\ Return(i, complete(registry, i))
  BY <1>1, <1>3, SettleOutsideCall
<1> QED BY <1>2, <1>3 DEF Finish

LEMMA ClosedSteps == ASSUME Core, NEW i \in Ids, Closed(i) PROVE Settling(i)
<1>1. /\ driver[i].pc \in {"closeCancelled", "closeFailed"} /\ Live(i) /\ driver[i].pc \notin Calls
      /\ UNCHANGED <<native, told>> /\ native' # i /\ driver[i].gen # 0
      /\ Running(registry, i)
  BY DEF Closed, At, Live, Calls, Core, DriverOK
<1>2. lease' # driver[i].gen
  <2>1. lease' = IF lease = driver[i].gen THEN 0 ELSE lease
    BY DEF Closed
  <2> QED BY <1>1, <2>1
<1>3. CASE driver[i].pc = "closeCancelled" /\ Return(i, finish_cancelled(registry, i))
  <2>1. i \in Asked
    BY <1>3 DEF Core, DriverOK
  <2> QED BY <1>1, <1>2, <1>3, <2>1, SettleOutsideCall
<1>4. CASE Return(i, complete_background_tool_error(registry, i, "plain"))
  BY <1>1, <1>2, <1>4, SettleOutsideCall
<1>5. CASE Return(i, fail_after_cleanup_error(Noted(i, "cleanup"), i))
  <2> DEFINE q == fail_after_cleanup_error(Noted(i, "cleanup"), i)
  <2>1. RegistryOK(Noted(i, "cleanup")) /\ Running(Noted(i, "cleanup"), i)
    BY <1>1, NotedKeeps DEF Alike, Running
  <2>2. RegistryOK(q) /\ Ends(Noted(i, "cleanup"), q, i, "failed")
    BY <2>1, SettlingOperators
  <2>3. "failed" \in Terminal /\ native' = IF native = i THEN 0 ELSE native
    BY <1>1 DEF Terminal
  <2> HIDE DEF q
  <2> QED BY <1>1, <1>5, <2>2, <2>3, ReturnSettles DEF q
<1> QED BY <1>3, <1>4, <1>5 DEF Closed

LEMMA RetireSteps ==
  ASSUME Core, RetireWorkers PROVE (Asking /\ ToldOK') \/ \E i \in Ids : Settling(i)
<1>1. CASE native = 0
  <2>1. UNCHANGED <<registry, driver, native, cancelled, told>>
    BY <1>1 DEF RetireWorkers
  <2> QED BY <2>1, BystandersAsk, AskingTold DEF Core, ServingType
<1>2. CASE native # 0
  <2>1. native \in Ids /\ Resume(native, "fatal") /\ native' = 0 /\ UNCHANGED told
    BY <1>2 DEF RetireWorkers, Core, ServingType
  <2> QED BY <2>1, ResumeSteps
<1> QED BY <1>1, <1>2

\* Every step of the system is of one of the four kinds.
OneOfFour == (Asking /\ ToldOK') \/ \E i \in Ids : Serving(i) \/ Settling(i) \/ Admitting(i)

LEMMA EveryStep == ASSUME Core, ServerType, [Next]_vars PROVE OneOfFour
<1>1. CASE UNCHANGED vars
  <2>1. UNCHANGED <<registry, driver, native, cancelled, told>>
    BY <1>1 DEF vars
  <2> QED BY <2>1, BystandersAsk, AskingTold DEF Core, ServingType, OneOfFour
<1>2. ASSUME NEW c \in Clients, AnalyzeInBackground(c) \/ \E k \in Caches : OpenDsc(c, k)
      PROVE  OneOfFour
  <2>1. \E k \in Keys : create_keyed(c, k)
    BY <1>2 DEF AnalyzeInBackground, OpenDsc, Keys
  <2> QED BY <2>1, CreateSteps DEF OneOfFour
<1>3. ASSUME NEW c \in Clients, NEW i \in Ids, Poll(c, i) \/ cancel_task(c, i)
      PROVE  OneOfFour
  <2>1. UNCHANGED told
    BY <1>3 DEF Poll, cancel_task
  <2>2. CASE Poll(c, i)
    <3>1. /\ registry' = prune_terminal_tasks(registry) /\ UNCHANGED <<driver, native, cancelled>>
      BY <2>2 DEF Poll
    <3>2. RegistryOK(registry') /\ Forgets(registry, registry')
      BY <3>1, PruneKeeps DEF Core
    <3> QED BY <2>1, <3>1, <3>2, ForgettingAsks, AskingTold DEF Core, ServingType, OneOfFour
  <2> QED BY <1>3, <2>1, <2>2, CancelAsks, AskingTold DEF OneOfFour
<1>4. ASSUME NEW i \in Ids, Register(i) PROVE OneOfFour
  <2>1. UNCHANGED told
    BY <1>4 DEF Register
  <2> QED BY <1>4, <2>1, RegisterAsks, AskingTold DEF OneOfFour
<1>5. ASSUME NEW i \in Ids, Drive(i) \/ IdatExits(i) \/ StopIdat(i) \/ Answer(i) \/ CancelRunning(i)
      PROVE  OneOfFour
  BY <1>5, StartSteps, IdatSteps, LeaseSteps, CallSteps, FinishSteps, ClosedSteps DEF Drive, OneOfFour
<1>6. ASSUME NEW t \in Sessions, EndSession(t) PROVE OneOfFour
  <2>1. /\ UNCHANGED <<registry, driver, native, told>> /\ cancelled \subseteq cancelled'
        /\ cancelled' \subseteq Ids
    BY <1>6 DEF EndSession, Core, ServingType
  <2> QED BY <2>1, BystandersAsk, AskingTold DEF OneOfFour
<1>7. CASE OpenElsewhere \/ CloseElsewhere \/ BeginShutdown
  <2>1. UNCHANGED <<registry, driver, native, cancelled, told>>
    BY <1>7 DEF OpenElsewhere, CloseElsewhere, BeginShutdown
  <2> QED BY <2>1, BystandersAsk, AskingTold DEF Core, ServingType, OneOfFour
<1>8. CASE Age \/ CancelAllRunning
  <2>1. UNCHANGED told
    BY <1>8 DEF Age, CancelAllRunning
  <2> QED BY <1>8, <2>1, AgeAsks, CancelAllAsks, AskingTold DEF OneOfFour
<1>9. CASE RetireWorkers
  BY <1>9, RetireSteps DEF OneOfFour
<1> QED BY <1>1, <1>2, <1>3, <1>4, <1>5, <1>6, <1>7, <1>8, <1>9 DEF Next

\* The rest of the server's state keeps its types.
LEMMA ServerStep == ASSUME ServerType, [Next]_vars PROVE ServerType'
<1>1. \A k \in Caches \cup {"analyze_funcs", "none"} : \A v \in {"none", "half", "whole"} :
        [output EXCEPT ![k] = v] \in [Caches -> {"none", "half", "whole"}]
  BY DEF ServerType
<1> DEFINE Same == UNCHANGED <<setup, starting, lease, created, output, told, alive, stage>>
<1>2. CASE UNCHANGED vars \/ Same
  BY <1>2 DEF vars, ServerType
<1>3. ASSUME NEW c \in Clients, AnalyzeInBackground(c) \/ \E k \in Caches : OpenDsc(c, k)
      PROVE  ServerType'
  <2>1. PICK k \in Keys : create_keyed(c, k)
    BY <1>3 DEF AnalyzeInBackground, OpenDsc, Keys
  <2>2. NewId \in Ids
    BY <2>1 DEF create_keyed, NewId
  <2>3. /\ starting' \in {starting, starting \cup {NewId}}
        /\ \E D \in SUBSET Ids : told' = told \cup {<<c, j>> : j \in D}
        /\ UNCHANGED <<setup, lease, created, output, alive, stage>>
    <3> DEFINE D == {m \in Disclosed(prune_terminal_tasks(registry), c, k) : ~Knows(c, m)}
    <3>1. D \in SUBSET Ids /\ {} \in SUBSET Ids
      BY DEF Disclosed, Matching
    <3>2. told' = told => told' = told \cup {<<c, j>> : j \in {}}
      OBVIOUS
    <3>3. told' \in {told, told \cup {<<c, j>> : j \in D}}
      BY <2>1 DEF create_keyed
    <3> HIDE DEF D
    <3>4. \E F \in SUBSET Ids : told' = told \cup {<<c, j>> : j \in F}
      BY <3>1, <3>2, <3>3
    <3> QED BY <2>1, <3>4 DEF create_keyed
  <2> QED BY <2>2, <2>3 DEF ServerType
<1>4. ASSUME NEW c \in Clients, NEW i \in Ids, Poll(c, i) \/ cancel_task(c, i)
      PROVE  ServerType'
  BY <1>2, <1>4 DEF Poll, cancel_task
<1>5. ASSUME NEW i \in Ids, Register(i) PROVE ServerType'
  BY <1>5 DEF Register, ServerType
<1>6. ASSUME NEW k, NEW v \in {"none", "half", "whole"},
             output' \in {output, [output EXCEPT ![k] = v]},
             UNCHANGED <<setup, starting, created, told, alive, stage>>,
             lease' \in {0, lease}
      PROVE  ServerType'
  <2>1. output' \in [Caches -> {"none", "half", "whole"}]
    BY <1>6 DEF ServerType
  <2> QED BY <1>6, <2>1, BoundsAssumption DEF ServerType
<1>7. ASSUME NEW i \in Ids, Start(i) \/ IdatDone(i) \/ IdatExits(i) \/ StopIdat(i)
      PROVE  ServerType'
  BY <1>6, <1>7 DEF Start, IdatDone, IdatExits, StopIdat
<1>8. ASSUME NEW i \in Ids, Answer(i) \/ CancelRunning(i)
      PROVE  ServerType'
  BY <1>6, <1>8 DEF Answer, CancelRunning, LeaseAfter
<1>9. ASSUME NEW i \in Ids, LeaseForOpen(i) PROVE ServerType'
  BY <1>9, BoundsAssumption DEF LeaseForOpen, ServerType
<1>10. ASSUME NEW i \in Ids, Dispatch(i) \/ NeverDispatched(i) \/ Finish(i)
       PROVE  ServerType'
  BY <1>2, <1>10 DEF Dispatch, NeverDispatched, Finish
<1>11. ASSUME NEW i \in Ids, Closed(i) PROVE ServerType'
  BY <1>11, BoundsAssumption DEF Closed, ServerType
<1>12. ASSUME NEW t \in Sessions, EndSession(t) PROVE ServerType'
  BY <1>12 DEF EndSession, ServerType
<1>13. CASE Age
  BY <1>2, <1>13 DEF Age
<1>14. CASE OpenElsewhere \/ CloseElsewhere
  BY <1>14, BoundsAssumption DEF OpenElsewhere, CloseElsewhere, ServerType
<1>15. CASE BeginShutdown \/ CancelAllRunning \/ RetireWorkers
  BY <1>15, BoundsAssumption DEF BeginShutdown, CancelAllRunning, RetireWorkers, ServerType
<1> QED
  BY <1>2, <1>3, <1>4, <1>5, <1>7, <1>8, <1>9, <1>10, <1>11, <1>12, <1>13, <1>14, <1>15
     DEF Next, Drive

-----------------------------------------------------------------------------
(* The theorems.                                                           *)

LEMMA InitOK == Init => IInv
<1> SUFFICES ASSUME Init PROVE IInv
  OBVIOUS
<1>1. /\ registry.entry = [i \in Ids |-> Fresh] /\ registry.settled = <<>> /\ registry.old = 0
      /\ registry = [entry |-> registry.entry, settled |-> <<>>, old |-> 0]
  BY DEF Init
<1>2. RegistryOK(registry)
  <2>1. registry \in RegistryType
    <3>1. registry.entry \in [Ids -> Entries] /\ <<>> \in Seq(Ids) /\ 0 \in Nat
      BY <1>1, FreshFields
    <3> QED BY <1>1, <3>1 DEF RegistryType
  <2>2. \A i \in Ids : ~Settled(registry, i) /\ ~registry.entry[i].requested
    BY <1>1, FreshFields DEF Settled, Terminal
  <2> QED BY <1>1, <2>1, <2>2 DEF RegistryOK
<1>3. Asleep \in Drivers /\ Asleep.pc = "none" /\ Asleep.idat = "none"
  BY BoundsAssumption DEF Asleep, Drivers, Calls
<1>4. ServingType
  BY <1>3 DEF Init, ServingType
<1>5. ServerType
  BY BoundsAssumption DEF Init, ServerType
<1>6. \A i \in Ids : DriverOK(i)
  BY <1>3, IdsAreNaturals DEF Init, DriverOK, Live
<1>7. NewsOK /\ ToldOK
  BY <1>1, FreshFields DEF NewsOK, ToldOK, Running, Init
<1> QED BY <1>2, <1>4, <1>5, <1>6, <1>7 DEF IInv

\* IInv is inductive.
LEMMA Invariance == Spec => []IInv
<1>1. IInv /\ [Next]_vars => IInv'
  <2> SUFFICES ASSUME IInv, [Next]_vars PROVE IInv'
    OBVIOUS
  <2>1. Core /\ ServerType
    BY DEF IInv, Core
  <2>2. Core'
    BY <2>1, EveryStep, AskingKeeps, ServingKeeps, SettlingKeeps, AdmittingKeeps DEF OneOfFour
  <2>3. ServerType'
    BY <2>1, ServerStep
  <2> QED BY <2>2, <2>3 DEF IInv, Core
<1> QED BY <1>1, InitOK, PTL DEF Spec

\* Every variable keeps its type, and a settled task is in the retention order
\* exactly once (TaskRegistry).
THEOREM TypeCorrect == Spec => []TypeOK
<1>1. IInv => TypeOK
  <2> SUFFICES ASSUME IInv PROVE TypeOK
    OBVIOUS
  <2>1. registry.settled \in Seq(Ids)
    BY DEF IInv, RegistryOK, RegistryType
  <2>2. ToSet(registry.settled) = {i \in Ids : registry.entry[i].status \in Terminal}
    BY <2>1 DEF IInv, RegistryOK, Settled, ToSet
  <2>3. native \in 0 .. MaxTasks
    BY BoundsAssumption DEF IInv, ServingType, Ids
  <2> QED BY <2>2, <2>3 DEF IInv, RegistryOK, RegistryType, ServingType, ServerType, TypeOK
<1> QED BY <1>1, Invariance, PTL

\* However full the registry gets, and whoever asks for what in whatever order,
\* a driver at work has a running entry: it can be polled and cancelled, and no
\* second task starts on its key (create_keyed, reclaim_capacity_for_admission).
THEOREM WorkIsNeverForgotten == Spec => []NeverForgotten
<1>1. IInv => NeverForgotten
  BY DEF IInv, DriverOK, NeverForgotten
<1> QED BY <1>1, Invariance, PTL

\* A task id becomes known only to the client that created the task or to the
\* legacy session that owns it (create_keyed).
THEOREM HandlesArePrivate == Spec => []HandlesStayPrivate
<1>1. IInv => HandlesStayPrivate
  BY DEF IInv, ToldOK, HandlesStayPrivate, Knows, Retained
<1> QED BY <1>1, Invariance, PTL

\* A task that comes to say cancelled left nothing behind: no fatal error, no
\* failed cleanup, and not the database it opened (complete_after_fatal_error,
\* fail_after_cleanup_error, complete_or_defer_cancellation).
THEOREM CancelledTasksAreClean == Spec => CancelledIsClean
<1> DEFINE Clean(i) ==
      Running(registry, i) /\ registry'.entry[i].status = "cancelled" =>
        /\ registry'.entry[i].worst \notin {"fatal", "cleanup"}
        /\ driver[i].pc \in {"finish", "closeCancelled", "closeFailed"} => lease' # driver[i].gen
<1>1. IInv /\ [Next]_vars => [\A i \in Ids : Clean(i)]_vars
  <2> SUFFICES ASSUME IInv, [Next]_vars, NEW i \in Ids, Running(registry, i),
                      registry'.entry[i].status = "cancelled"
               PROVE  /\ registry'.entry[i].worst \notin {"fatal", "cleanup"}
                      /\ driver[i].pc \in {"finish", "closeCancelled", "closeFailed"} =>
                           lease' # driver[i].gen
    OBVIOUS
  <2>1. Core /\ ServerType
    BY DEF IInv, Core
  <2>2. PICK j \in Ids : Settling(j)
    <3>1. ~Asking
      BY FreshFields DEF Asking, Alike, Running, Settled, Terminal
    <3>2. \A j \in Ids : ~Serving(j)
      BY DEF Serving, Alike, Running
    <3>3. \A j \in Ids : ~Admitting(j)
      BY FreshFields DEF Admitting, Running
    <3> QED BY <2>1, <3>1, <3>2, <3>3, EveryStep DEF OneOfFour
  <2>3. i = j
    BY <2>2, FreshFields DEF Settling, Running
  <2>4. PICK t \in Terminal :
          /\ Alike([registry.entry[i] EXCEPT !.status = t, !.requested = FALSE], registry'.entry[i])
          /\ t = "cancelled" =>
               /\ registry'.entry[i].worst \notin {"fatal", "cleanup"}
               /\ driver[i].pc \in {"finish", "closeCancelled", "closeFailed"} =>
                    lease' # driver[i].gen
    BY <2>2, <2>3 DEF Settling
  <2>5. registry.entry[i] \in Entries
    BY DEF IInv, RegistryOK, RegistryType
  <2>6. t = "cancelled"
    BY <2>4, <2>5 DEF Alike, Entries
  <2> QED BY <2>4, <2>6
<1> QED BY <1>1, Invariance, PTL DEF Spec, CancelledIsClean

-----------------------------------------------------------------------------
(* Tasks implements TaskService.                                           *)

LEMMA InitMaps == Init => Service!Init
<1> SUFFICES ASSUME Init PROVE Service!Init
  OBVIOUS
<1>1. \A i \in Ids : registry.entry[i] = Fresh
  BY DEF Init
<1>2. StatusOf = [i \in Ids |-> "none"] /\ KeyOf = [i \in Ids |-> "none"]
  BY <1>1, FreshFields DEF StatusOf, KeyOf, Running
<1>3. Asked = {}
  BY <1>1, FreshFields DEF Init, Asked
<1>4. Working = {}
  <2>1. \A i \in Ids : native # i /\ driver[i].idat # "running"
    BY IdsAreNaturals DEF Init, Asleep
  <2> QED BY <2>1 DEF Working
<1> QED BY <1>2, <1>3, <1>4 DEF Service!Init, StatusOf, KeyOf

\* The settled tasks of TaskService.
LEMMA SameSettled == \A i \in Ids : /\ Service!Settled(i) <=> Settled(registry, i)
                                    /\ Service!Running(i) <=> Running(registry, i)
BY DEF StatusOf, Service!Settled, Service!Running, Service!Terminal, Settled, Running, Terminal

LEMMA AskingMaps == ASSUME Core, Core', Asking PROVE Service!Ask
<1> DEFINE F == {j \in Ids : Settled(registry, j) /\ registry'.entry[j] = Gone}
<1>1. F \in SUBSET {j \in Ids : Service!Settled(j)}
  BY SameSettled
<1>2. \A j \in Ids : \/ registry'.entry[j].status = registry.entry[j].status /\ j \notin F
                     \/ registry'.entry[j].status = "gone" /\ j \in F
  BY FreshFields DEF Asking, Alike, Settled, Terminal
<1>3. StatusOf' = [j \in Ids |-> IF j \in F THEN "gone" ELSE StatusOf[j]]
  BY <1>2 DEF StatusOf
<1>4. KeyOf' = KeyOf
  BY FreshFields DEF KeyOf, Asking, Alike, Running, Settled, Terminal
<1>5. Asked' \in SUBSET Ids /\ Asked' = Asked \cup Asked'
  <2>1. \A j \in Ids : registry.entry[j].requested => registry'.entry[j].requested
    BY DEF Asking, Alike, Core, RegistryOK, Running, Settled, Terminal
  <2> QED BY <2>1 DEF Asked, Asking
<1>6. Working' = Working
  BY DEF Working, Asking
<1> HIDE DEF F
<1> QED BY <1>1, <1>3, <1>4, <1>5, <1>6 DEF Service!Ask, StatusOf, KeyOf

LEMMA ServingMaps == ASSUME Core, Core', NEW i \in Ids, Serving(i) PROVE Service!Work
<1>1. StatusOf' = StatusOf /\ KeyOf' = KeyOf
  BY DEF Serving, Alike, StatusOf, KeyOf, Running
<1>2. Asked' = Asked
  BY DEF Serving, Asked
<1>3. Working' \subseteq Ids
  BY DEF Working
<1>4. \A j \in Working' \ Working : Service!Running(j)
  <2>1. \A j \in Ids : j # i /\ j \in Working' => j \in Working
    BY IdsAreNaturals DEF Working, Serving
  <2>2. Running(registry, i)
    BY DEF Core, DriverOK, Serving
  <2> QED BY <1>3, <2>1, <2>2, SameSettled
<1> QED BY <1>1, <1>2, <1>3, <1>4 DEF Service!Work, StatusOf, KeyOf

LEMMA SettlingMaps == ASSUME Core, Core', NEW i \in Ids, Settling(i) PROVE Service!Settle(i)
<1> DEFINE F == {j \in Ids \ {i} : Settled(registry, j) /\ registry'.entry[j] = Gone}
<1>1. PICK s \in Terminal :
        /\ Alike([registry.entry[i] EXCEPT !.status = s, !.requested = FALSE], registry'.entry[i])
        /\ s = "cancelled" => i \in Asked
  BY DEF Settling
<1>2. registry'.entry[i].status = s
  <2>1. registry.entry[i] \in Entries
    BY DEF Core, RegistryOK, RegistryType
  <2> QED BY <1>1, <2>1 DEF Alike, Entries
<1>3. Running(registry, i) /\ Service!Running(i) /\ ~Running(registry', i) /\ i \notin F
  BY <1>2, SameSettled DEF Core, DriverOK, Settling, Running, Terminal
<1>4. F \in SUBSET {j \in Ids : Service!Settled(j)}
  BY SameSettled
<1>5. \A j \in Ids \ {i} : \/ registry'.entry[j].status = registry.entry[j].status /\ j \notin F
                           \/ registry'.entry[j].status = "gone" /\ j \in F
  BY FreshFields DEF Settling, Settled, Terminal
<1>6. StatusOf' = [j \in Ids |-> CASE j = i -> s [] j \in F -> "gone" [] OTHER -> StatusOf[j]]
  BY <1>2, <1>3, <1>5 DEF StatusOf
<1>7. KeyOf' = [KeyOf EXCEPT ![i] = "none"]
  BY <1>3, FreshFields DEF KeyOf, Settling, Running, Settled, Terminal
<1>8. Asked' = Asked \ {i}
  <2>1. \A j \in Ids : registry'.entry[j].requested <=> j # i /\ registry.entry[j].requested
    BY <1>3, FreshFields DEF Settling, Core, RegistryOK, Running, Settled, Terminal
  <2> QED BY <2>1 DEF Asked, Settling
<1>9. Working' = Working \ {i}
  <2>1. driver'[i].idat # "running" /\ \A j \in Ids \ {i} : driver'[j] = driver[j]
    BY DEF Settling, Core, ServingType, Asleep
  <2> QED BY <2>1, IdsAreNaturals DEF Working, Settling
<1>10. s \in Service!Terminal
  BY DEF Service!Terminal, Terminal
<1> HIDE DEF F
<1> QED BY <1>1, <1>3, <1>4, <1>6, <1>7, <1>8, <1>9, <1>10 DEF Service!Settle, StatusOf, KeyOf

LEMMA AdmittingMaps == ASSUME Core, Core', NEW i \in Ids, Admitting(i) PROVE Service!Admit(i)
<1> DEFINE F == {j \in Ids \ {i} : Settled(registry, j) /\ registry'.entry[j] = Gone}
           k == registry'.entry[i].key
<1>1. F \in SUBSET {j \in Ids : Service!Settled(j)}
  BY SameSettled
<1>2. \A j \in Ids \ {i} : \/ registry'.entry[j].status = registry.entry[j].status /\ j \notin F
                           \/ registry'.entry[j].status = "gone" /\ j \in F
  BY FreshFields DEF Admitting, Settled, Terminal
<1>3. StatusOf[i] = "none" /\ i \notin F /\ registry'.entry[i].status = "running"
      /\ ~Running(registry, i)
  BY DEF Admitting, StatusOf, Running
<1>4. StatusOf' = [j \in Ids |-> CASE j = i -> "running" [] j \in F -> "gone"
                                   [] OTHER -> StatusOf[j]]
  BY <1>2, <1>3 DEF StatusOf
<1>5. KeyOf' = [KeyOf EXCEPT ![i] = k]
  BY <1>3, FreshFields DEF KeyOf, Admitting, Running, Settled, Terminal
<1>6. k \in Keys /\ \A j \in Ids : Service!Running(j) => KeyOf[j] # k
  BY SameSettled DEF Admitting, Matching, KeyOf
<1>7. Service!Retained \ F = Retained(registry') \ {i}
  <2>1. \A j \in Ids : j \in Service!Retained <=> Running(registry, j) \/ Settled(registry, j)
    BY SameSettled DEF Service!Retained
  <2>2. Service!Retained \subseteq Ids
    BY DEF Service!Retained
  <2>3. \A j \in Ids : j \in Service!Retained \ F <=> j \in Retained(registry') \ {i}
    <3> SUFFICES ASSUME NEW j \in Ids
                 PROVE  j \in Service!Retained \ F <=> j \in Retained(registry') \ {i}
      OBVIOUS
    <3>1. CASE j = i
      BY <1>3, <2>1, <3>1 DEF Admitting, Running, Settled, Terminal
    <3>2. CASE j # i /\ j \in F
      BY <1>2, <3>2 DEF Retained, Terminal
    <3>3. CASE j # i /\ j \notin F
      <4>1. registry'.entry[j].status = registry.entry[j].status
        BY <1>2, <3>3
      <4>2. j \in Retained(registry') <=> Running(registry, j) \/ Settled(registry, j)
        BY <4>1 DEF Retained, Running, Settled
      <4> QED BY <2>1, <3>3, <4>2
    <3> QED BY <3>1, <3>2, <3>3
  <2> QED BY <2>2, <2>3 DEF Retained
<1>8. Cardinality(Service!Retained \ F) < MaxEntries
  BY <1>7 DEF Admitting
<1>9. Asked' = Asked
  <2>1. \A j \in Ids : registry'.entry[j].requested <=> registry.entry[j].requested
    BY <1>3, FreshFields DEF Admitting, Core, RegistryOK, Running, Settled, Terminal
  <2> QED BY <2>1 DEF Asked, Admitting
<1>10. Working' = Working
  <2>1. driver'[i].idat # "running" /\ \A j \in Ids \ {i} : driver'[j] = driver[j]
    BY DEF Admitting, Core, ServingType, Asleep
  <2>2. driver[i].idat # "running"
    BY <1>3 DEF Core, DriverOK, Live
  <2> QED BY <2>1, <2>2 DEF Working, Admitting
<1> HIDE DEF F, k
<1>11. \E kk \in Keys, FF \in SUBSET {j \in Ids : Service!Settled(j)} :
         /\ \A j \in Ids : Service!Running(j) => KeyOf[j] # kk
         /\ Cardinality(Service!Retained \ FF) < MaxEntries
         /\ StatusOf' = [j \in Ids |-> CASE j = i -> "running" [] j \in FF -> "gone"
                                         [] OTHER -> StatusOf[j]]
         /\ KeyOf' = [KeyOf EXCEPT ![i] = kk]
  BY <1>1, <1>4, <1>5, <1>6, <1>8, Zenon
<1>12. StatusOf[i] = "none"
  BY <1>3
<1>13. UNCHANGED <<Asked, Working>>
  BY <1>9, <1>10
<1> QED BY <1>11, <1>12, <1>13, Zenon DEF Service!Admit, Service!Cardinality, Cardinality

\* The registry, the drivers and the worker together implement the promises of
\* TaskService: one task per key, a bounded registry, one outcome per task and
\* no work behind it, cancelled only on request, and nothing forgotten but
\* settled tasks.
THEOREM TasksImplementTaskService == Spec => ImplementsTaskService
<1>1. IInv /\ IInv' /\ [Next]_vars => [Service!Next]_(Service!vars)
  <2> SUFFICES ASSUME IInv, IInv', [Next]_vars PROVE Service!Next
    OBVIOUS
  <2>1. Core /\ ServerType /\ Core'
    BY DEF IInv, Core
  <2>2. CASE Asking
    BY <2>1, <2>2, AskingMaps DEF Service!Next
  <2>3. ASSUME NEW i \in Ids, Serving(i) \/ Settling(i) \/ Admitting(i)
        PROVE  Service!Next
    BY <2>1, <2>3, ServingMaps, SettlingMaps, AdmittingMaps DEF Service!Next
  <2> QED BY <2>1, <2>2, <2>3, EveryStep DEF OneOfFour
<1> QED BY <1>1, InitMaps, Invariance, PTL DEF Spec, ImplementsTaskService, Service!Spec
=============================================================================
