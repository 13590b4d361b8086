------------------------------- MODULE ShadowTrend -------------------------------
(***************************************************************************)
(* How found items become trends: every two are compared in order and      *)
(* joined when they tell the same, and a group is described by the stage   *)
(* its age, spread and size suggest.  Signals are numbered in their order. *)
(* Nobody supplies engagement figures to this lane, so velocity and        *)
(* acceleration are unknown throughout.  Scores are per cent.              *)
(***************************************************************************)
EXTENDS Naturals, Sequences, FiniteSets

CONSTANTS Runs,         \* [signals, alike] a run may come with: a signal is
                        \* [explores, core, age, source], alike[i, j] \in Likeness
          MaxSemantic   \* how many pairs are compared by meaning

VARIABLES given, parent, pair, joined, asked

vars == <<given, parent, pair, joined, asked>>

Undated == 1000          \* the age of a page without a date
Likeness == {"corroborated", "same words", "some words", "nothing"}

Signals == DOMAIN given.signals
Pairs == {p \in Signals \X Signals: p[1] < p[2]}
TrendAssumption ==
  /\ MaxSemantic \in 0..500
  /\ \A run \in Runs:
       run.signals \in Seq({run.signals[i]: i \in DOMAIN run.signals})

isExplorationOnly(i) == given.signals[i].explores /\ ~given.signals[i].core
-----------------------------------------------------------------------------
Root(p, i) == LET root[x \in DOMAIN p] == IF p[x] = x THEN x ELSE root[p[x]] IN root[i]

\* (mutant) An item goes below its neighbour, not below the neighbour's root.
UnionShallow(i, j) == [parent EXCEPT ![j] = i]

Union(i, j) ==
  LET a == Root(parent, i) b == Root(parent, j) IN
  IF a < b THEN [parent EXCEPT ![b] = a] ELSE [parent EXCEPT ![a] = b]

Comparable(i, j) == isExplorationOnly(i) = isExplorationOnly(j)

NextPair(p) == IF p[2] < Len(given.signals) THEN <<p[1], p[2] + 1>>
               ELSE <<p[1] + 1, p[1] + 2>>
Over == pair \notin Pairs

Join(i, j) == parent' = Union(i, j) /\ joined' = joined \cup {pair}
Pass == UNCHANGED <<parent, joined>>

Compare ==
  /\ ~Over
  /\ LET i == pair[1] j == pair[2] like == given.alike[pair] IN
     IF ~Comparable(i, j) THEN Pass /\ UNCHANGED asked
     ELSE \/ like \in {"corroborated", "same words"} /\ Join(i, j) /\ UNCHANGED asked
          \/ like = "some words" /\ asked < MaxSemantic /\ asked' = asked + 1
             /\ (Join(i, j) \/ Pass)
          \/ like = "some words" /\ asked >= MaxSemantic /\ Pass /\ UNCHANGED asked
          \/ like = "nothing" /\ Pass /\ UNCHANGED asked
  /\ pair' = NextPair(pair) /\ UNCHANGED given

Init == /\ given \in Runs /\ parent = [i \in Signals |-> i]
        /\ pair = <<1, 2>> /\ joined = {} /\ asked = 0
Next == Compare
Spec == Init /\ [][Next]_vars
-----------------------------------------------------------------------------
(* What a group of signals is. *)
Groups == {{j \in Signals: Root(parent, j) = r}: r \in {Root(parent, i): i \in Signals}}
Ages(G) == {given.signals[i].age: i \in G} \ {Undated}
Newest(G) == CHOOSE a \in Ages(G): \A b \in Ages(G): a <= b
Oldest(G) == CHOOSE a \in Ages(G): \A b \in Ages(G): a >= b

Freshness(G) == IF Ages(G) = {} THEN 0 ELSE 700 \div (7 + Newest(G))
Spread(G) == LET n == Cardinality({given.signals[i].source: i \in G}) IN
             IF n >= 3 THEN 100 ELSE 33 * n
SpanDays(G) == IF Ages(G) = {} THEN 0 ELSE Oldest(G) - Newest(G)
(* log2(n + 1) / 3 *)
Saturation(G) == LET n == Cardinality(G) IN
  IF n >= 7 THEN 100 ELSE <<33, 53, 67, 77, 86, 94>>[n]

classifyStage(G) ==
  IF Saturation(G) >= 82 THEN "saturated"
  ELSE IF Freshness(G) >= 62 /\ Spread(G) >= 66 THEN "rising"
  ELSE IF Freshness(G) >= 72 /\ Cardinality(G) <= 2 THEN "emerging"
  ELSE IF SpanDays(G) >= 21 /\ Cardinality(G) >= 3 /\ Freshness(G) \in 28..72
       THEN "evergreen"
  ELSE IF Freshness(G) < 28 THEN "declining" ELSE "mature"
-----------------------------------------------------------------------------
TypeOK == \A i \in Signals: parent[i] \in 1..i

(* The groups are exactly what the joins connect, in whatever order they   *)
(* came; an exploration is never grouped with the brand's own subjects;    *)
(* and what has no date is never called new.                               *)
Connected(S) ==
  \A A \in SUBSET S: A # {} /\ A # S =>
    \E i \in A, j \in S \ A: <<i, j>> \in joined \/ <<j, i>> \in joined

ClustersTrue ==
  /\ \A p \in joined: Root(parent, p[1]) = Root(parent, p[2])
  /\ \A G \in Groups:
       /\ Connected(G)
       /\ \A i, j \in G: isExplorationOnly(i) = isExplorationOnly(j)
       /\ Ages(G) = {} => classifyStage(G) \notin {"rising", "emerging", "evergreen"}
=============================================================================
