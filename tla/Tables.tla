-------------------------------- MODULE Tables --------------------------------
(***************************************************************************)
(* Functions used as tables: the union of two, as the operator of this     *)
(* name in the standard module TLC, and of many, and what proofs need to   *)
(* know of them.                                                           *)
(***************************************************************************)

(* The entries of both; where both have one, that of the first.            *)
f @@ g == [x \in DOMAIN f \cup DOMAIN g |-> IF x \in DOMAIN f THEN f[x] ELSE g[x]]

(* The entries of several tables with different keys.                      *)
Merged(tables) ==
  [x \in UNION {DOMAIN f : f \in tables} |-> (CHOOSE f \in tables : x \in DOMAIN f)[x]]

\* The keys of both tables of requests are keys of their union.
LEMMA MergeDomain == \A f, g : DOMAIN (f @@ g) = DOMAIN f \cup DOMAIN g
BY DEF @@

\* An entry of a union of two tables of requests is an entry of one of them.
LEMMA MergeEntry ==
    ASSUME NEW f, NEW g, NEW x \in DOMAIN (f @@ g)
    PROVE  \/ x \in DOMAIN f /\ (f @@ g)[x] = f[x]
           \/ x \in DOMAIN g /\ (f @@ g)[x] = g[x]
BY DEF @@

\* The keys of several tables of requests are the keys of their union.
LEMMA MergedDomain == \A S : DOMAIN Merged(S) = UNION {DOMAIN f : f \in S}
BY DEF Merged

\* Each of them has its keys there.
LEMMA MergedIncludes == \A S : \A f \in S : DOMAIN f \subseteq DOMAIN Merged(S)
BY MergedDomain

\* An entry of a union of several tables of requests is an entry of one of them.
LEMMA MergedEntry ==
    ASSUME NEW S, NEW x \in DOMAIN Merged(S)
    PROVE  \E f \in S : x \in DOMAIN f /\ Merged(S)[x] = f[x]
<1> DEFINE f == CHOOSE f \in S : x \in DOMAIN f
<1>1. f \in S /\ x \in DOMAIN f
  <2>1. x \in UNION {DOMAIN h : h \in S}
    BY MergedDomain
  <2>2. \E h \in S : x \in DOMAIN h
    BY <2>1
  <2> QED BY <2>2
<1>2. Merged(S)[x] = f[x]
  BY MergedDomain DEF Merged
<1> QED BY <1>1, <1>2
=============================================================================
