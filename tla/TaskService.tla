---------------------------- MODULE TaskService ----------------------------
(***************************************************************************)
(* What the server promises a client about background tasks               *)
(* (docs/TRANSPORTS.md, "Task cancellation is cooperative" and "Bounded    *)
(* task retention"), without saying how it keeps the promise.  A task is   *)
(* admitted when nothing else runs under its key, settles once, and only   *)
(* after the work behind it has stopped; a result may be forgotten, running *)
(* work may not.  Tasks is shown to implement this module.                 *)
(***************************************************************************)
EXTENDS Naturals, FiniteSets

CONSTANTS
  Ids,      \* task identifiers, each used once
  Keys,     \* what a task works on
  Limit     \* tasks the registry retains

VARIABLES
  status,   \* of every task
  keyOf,    \* the key every running task holds
  asked,    \* tasks whose cancellation somebody asked for
  working   \* tasks with IDA work in progress

vars == <<status, keyOf, asked, working>>

Terminal == {"completed", "failed", "cancelled"}
Settled(i) == status[i] \in Terminal
Running(i) == status[i] = "running"
Retained == {i \in Ids : Running(i) \/ Settled(i)}

Init ==
  /\ status = [i \in Ids |-> "none"]
  /\ keyOf = [i \in Ids |-> "none"]
  /\ asked = {}
  /\ working = {}

(* One task per key, and never more than the registry may hold.  Room is   *)
(* made by forgetting settled tasks only.                                  *)
Admit(i) ==
  /\ status[i] = "none"
  /\ \E k \in Keys, F \in SUBSET {j \in Ids : Settled(j)} :
       /\ \A j \in Ids : Running(j) => keyOf[j] # k
       /\ Cardinality(Retained \ F) < Limit
       /\ status' = [j \in Ids |-> CASE j = i -> "running" [] j \in F -> "gone"
                                     [] OTHER -> status[j]]
       /\ keyOf' = [keyOf EXCEPT ![i] = k]
  /\ UNCHANGED <<asked, working>>

(* Anybody may ask for anything to stop.  Old results may expire meanwhile. *)
Ask ==
  /\ \E A \in SUBSET Ids : asked' = asked \cup A
  /\ \E F \in SUBSET {j \in Ids : Settled(j)} :
       status' = [j \in Ids |-> IF j \in F THEN "gone" ELSE status[j]]
  /\ UNCHANGED <<keyOf, working>>

(* Work starts and stops behind a running task.                            *)
Work ==
  /\ working' \subseteq Ids
  /\ \A i \in working' \ working : Running(i)
  /\ UNCHANGED <<status, keyOf, asked>>

(* A task settles with nothing left working behind it, and says cancelled  *)
(* only if somebody asked, which uses the request up.  Work that ends and  *)
(* the news of it may share a step.                                        *)
Settle(i) ==
  /\ Running(i)
  /\ \E s \in Terminal, F \in SUBSET {j \in Ids : Settled(j)} :
       /\ s = "cancelled" => i \in asked
       /\ status' = [j \in Ids |-> CASE j = i -> s [] j \in F -> "gone" [] OTHER -> status[j]]
  /\ working' = working \ {i}
  /\ asked' \in {asked, asked \ {i}}
  /\ keyOf' = [keyOf EXCEPT ![i] = "none"]

Next ==
  \/ \E i \in Ids : Admit(i) \/ Settle(i)
  \/ Ask \/ Work

Spec == Init /\ [][Next]_vars
=============================================================================
