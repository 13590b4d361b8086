------------------------------- MODULE ShadowEEI -------------------------------
(***************************************************************************)
(* How the candidate lane chooses what it recommends: the eligible items   *)
(* fill a core, an adjacent and an exploration quota, the rest is filled   *)
(* up, and then topics and explorations that are too many are trimmed and  *)
(* the selection is refilled, twice.  This is the operational profile: the *)
(* final shares are enforced and the order is the measured quality, which  *)
(* the list already is in, best first.  Scores and shares are per cent.    *)
(***************************************************************************)
EXTENDS Naturals, Sequences, FiniteSets

CONSTANTS Lists,    \* the lists of items a run may come with; an item is
                    \* [topic, fit, explores, risk, likes, dislikes, saturation, twice]:
                    \* likes and dislikes are what the preference state says that is
                    \* similar to it, [of, weight, similar] and [weight, similar]
          Max, Budget, AdjacentShare

VARIABLES items, selected, stage, added

vars == <<items, selected, stage, added>>

TopicShare == 34
ExplorationShare == 20
ExplorationMin == 8
RiskBlock == 50

EEIAssumption == /\ Max \in 1..12 /\ Budget \in 0..100
                 /\ AdjacentShare \in 10..30

Round(n, share) == (n * share + 50) \div 100
AtLeastOne(n) == IF n = 0 THEN 1 ELSE n
-----------------------------------------------------------------------------
(* What the preference state says of an item: the strongest of its         *)
(* likings, the weaker the more they were inferred, and of its dislikes,   *)
(* each as far as it is similar.  A liking of a measured kind counts by    *)
(* the confidence of its memory.                                           *)
Strongest(S) == IF S = {} THEN 0 ELSE CHOOSE s \in S: \A t \in S: t <= s
Counts(l) == CASE l.of = "topic" -> 100 [] l.of = "active topic" -> 90
               [] l.of = "audience" -> 85 [] l.of = "mechanism" -> 80
               [] OTHER -> l.confidence
PreferenceAffinity(i) ==
  Strongest({(l.weight * l.similar * Counts(l)) \div 10000: l \in i.likes})
NegativePenalty(i) == Strongest({(d.weight * d.similar) \div 100: d \in i.dislikes})

(* What is never recommended, and the bucket of the rest. *)
Novelty(i) == LET used == i.saturation * 7 + i.twice * 3 IN
              IF used >= 1000 THEN 0 ELSE 100 - used \div 10
Eligible(i) == /\ i.risk < RiskBlock
               /\ NegativePenalty(i) < 80
               /\ ~(i.saturation >= 92 /\ Novelty(i) < 28)

classifyBucket(i) ==
  LET likes(n) == PreferenceAffinity(i) >= n IN
  CASE i.explores -> "exploration"
    [] ~i.explores /\ (i.fit >= 72 \/ likes(68)) -> "core"
    [] ~i.explores /\ i.fit < 72 /\ ~likes(68) /\ (i.fit >= 32 \/ likes(35))
         -> "adjacent"
    [] OTHER -> "exploration"

Best == {n \in DOMAIN items: Eligible(items[n])}
Bucket(n) == classifyBucket(items[n])
Least(S) == CHOOSE n \in S: \A m \in S: n <= m
Worst(S) == CHOOSE n \in S: \A m \in S: n >= m

Chosen(sel) == {sel[k]: k \in DOMAIN sel}
OfTopic(sel, t) == {k \in DOMAIN sel: items[sel[k]].topic = t}
Explorations(sel) == {k \in DOMAIN sel: Bucket(sel[k]) = "exploration"}
Without(sel, n) == SelectSeq(sel, LAMBDA m: m # n)
-----------------------------------------------------------------------------
(* The quotas. *)
BudgetUsed == IF Budget < ExplorationMin THEN ExplorationMin
              ELSE IF Budget > ExplorationShare THEN ExplorationShare ELSE Budget
ExplorationTarget == AtLeastOne(Round(Max, BudgetUsed))
ExplorationMax == LET most == (Max * ExplorationShare) \div 100 IN
                  IF most > ExplorationTarget THEN most ELSE ExplorationTarget
AdjacentTarget == Round(Max, AdjacentShare)
CoreTarget == IF ExplorationTarget + AdjacentTarget >= Max THEN 0
              ELSE Max - ExplorationTarget - AdjacentTarget
TopicLimit == AtLeastOne((Max * TopicShare) \div 100)

Stages == <<"core", "adjacent", "exploration", "any", "topics", "refill", "topics",
            "explorations", "refill", "topics", "explorations", "done">>
Now == Stages[stage]
Target == CASE Now = "core" -> CoreTarget [] Now = "adjacent" -> AdjacentTarget
            [] Now = "exploration" -> ExplorationTarget [] OTHER -> Max

Pickable == {n \in Best \ Chosen(selected):
               /\ Now \in {"any", Bucket(n)}
               /\ Bucket(n) = "exploration" =>
                    Cardinality(Explorations(selected)) < ExplorationMax
               /\ Cardinality(OfTopic(selected, items[n].topic)) < TopicLimit}
Picks == Now \in {"core", "adjacent", "exploration", "any"}
CanPick == added < Target /\ Len(selected) < Max /\ Pickable # {}

TooMany == {t \in {items[n].topic: n \in Chosen(selected)}:
              Cardinality(OfTopic(selected, t)) * 100 > TopicShare * Len(selected)}
CanTrimTopic == Len(selected) >= 3 /\ TooMany # {}

Fits(n) ==
  LET size == Len(selected) + 1 IN
  /\ (Cardinality(OfTopic(selected, items[n].topic)) + 1) * 100 <= TopicShare * size
  /\ Bucket(n) = "exploration" =>
       (Cardinality(Explorations(selected)) + 1) * 100 <= ExplorationShare * size
Refills == {n \in Best \ Chosen(selected): Fits(n)}
CanRefill == Len(selected) < Max /\ Refills # {}

CanTrimExploration ==
  Cardinality(Explorations(selected)) * 100 > ExplorationShare * Len(selected)
-----------------------------------------------------------------------------
Init == items \in Lists /\ selected = <<>> /\ stage = 1 /\ added = 0

Pick == /\ Picks /\ CanPick
        /\ selected' = Append(selected, Least(Pickable)) /\ added' = added + 1
        /\ UNCHANGED <<items, stage>>

(* The worst item of the commonest topic goes; equals fall by name. *)
TrimTopic ==
  /\ Now = "topics" /\ CanTrimTopic
  /\ LET most == {t \in TooMany: \A u \in TooMany:
                    Cardinality(OfTopic(selected, u)) <= Cardinality(OfTopic(selected, t))}
         topic == Least(most) IN
     selected' = Without(selected, Worst({selected[k]: k \in OfTopic(selected, topic)}))
  /\ UNCHANGED <<items, stage, added>>

Refill == /\ Now = "refill" /\ CanRefill
          /\ selected' = Append(selected, Least(Refills))
          /\ UNCHANGED <<items, stage, added>>

TrimExploration ==
  /\ Now = "explorations" /\ CanTrimExploration
  /\ selected' = Without(selected, Worst({selected[k]: k \in Explorations(selected)}))
  /\ UNCHANGED <<items, stage, added>>

Advance == /\ Now # "done"
           /\ Picks => ~CanPick
           /\ Now = "topics" => ~CanTrimTopic
           /\ Now = "refill" => ~CanRefill
           /\ Now = "explorations" => ~CanTrimExploration
           /\ stage' = stage + 1 /\ added' = 0 /\ UNCHANGED <<items, selected>>

Next == Pick \/ TrimTopic \/ Refill \/ TrimExploration \/ Advance
-----------------------------------------------------------------------------
TypeOK == /\ stage \in DOMAIN Stages /\ added \in 0..Max
          /\ Len(selected) <= Max /\ Chosen(selected) \subseteq DOMAIN items
          /\ Cardinality(Chosen(selected)) = Len(selected)

MostOfATopic ==
  IF selected = <<>> THEN 0
  ELSE LET counts == {Cardinality(OfTopic(selected, items[n].topic)): n \in Chosen(selected)}
       IN CHOOSE c \in counts: \A d \in counts: d <= c

(* What comes out: nothing barred, the exploration share kept at every     *)
(* size, the topic share from three items on, although each trim and each  *)
(* refill disturbs what the one before it put right.                       *)
SharesCertified ==
  Now = "done" =>
    /\ Chosen(selected) \subseteq Best
    /\ Cardinality(Explorations(selected)) * 100 <= ExplorationShare * Len(selected)
    /\ Len(selected) >= 3 => MostOfATopic * 100 <= TopicShare * Len(selected)
=============================================================================
