------------------------------- MODULE ShadowGate -------------------------------
(***************************************************************************)
(* The gate that shadow and canary observations open.  The two lanes of a  *)
(* pair become an observation with the violations it shows; observations   *)
(* add up to the stage that is allowed.  Scores and shares are per cent,   *)
(* and an average is compared through its sum.                             *)
(***************************************************************************)
EXTENDS Integers, Sequences, FiniteSets, SequencesExt

CONSTANTS Pairs,     \* what two lanes may report; see Observation
          Canaries,  \* what a canary may report
          MinRuns, MinBrands, MinCanaryRuns, MinCanaryBrands,
          MaxPairs, MaxCanaries

VARIABLES shadow, canary, approved

vars == <<shadow, canary, approved>>

GateAssumption == {MinRuns, MinBrands, MinCanaryRuns, MinCanaryBrands} \subseteq Nat \ {0}

(* The default policy. *)
MinQualityDelta == -2
MinCoverage == 85
MaxFailureRate == 5
MaxRatio == 150
ExplorationMin == 8
ExplorationMax == 20
MaximumTopicShare == 34
MinPositiveDelta == -2
MaxNegativeDelta == 3
-----------------------------------------------------------------------------
(* The observation a pair becomes: what the lane reports of itself, and    *)
(* what the pair shows of it.                                              *)
Kinds == {"tenant-isolation", "manipulation-safety", "persistence-authority",
          "evidence-provenance", "production-guard-bypass"}
Shows(p, v) ==
  \/ v = "tenant-isolation" /\ ~(p.controlBrand = p.brand /\ p.candidateBrand = p.brand
                                 /\ p.isolated)
  \/ v = "manipulation-safety" /\ ~p.safe
  \/ v = "persistence-authority" /\ p.persisted
  \/ v = "evidence-provenance" /\ ~(p.provenance /\ p.fingerprint)
  \/ v = "production-guard-bypass" /\ ~p.guarded
Violations(p) == p.reported \cup {v \in Kinds: Shows(p, v)}

ShareOf(n, total) == IF total = 0 THEN 0 ELSE (n * 100) \div total

(* A share is kept as its two counts, so that no digit is lost. *)
Observation(p) ==
  [run |-> p.run, brand |-> p.brand, delta |-> p.v2 - p.v1, covered |-> ShareOf(p.covered, p.planned),
   failed |-> p.failed, ratio |-> p.ratio, explorations |-> p.explorations,
   topic |-> p.topic, total |-> p.total, critical |-> Violations(p)]

SharesPass(o) ==
  /\ o.total # 0
  /\ o.explorations * 100 >= ExplorationMin * o.total
  /\ o.explorations * 100 <= ExplorationMax * o.total
  /\ o.topic * 100 <= MaximumTopicShare * o.total
-----------------------------------------------------------------------------
SumOf(s, Value(_)) == FoldLeft(LAMBDA a, o: a + Value(o), 0, s)
Count(s, Is(_)) == Len(SelectSeq(s, Is))
Brands(s) == Cardinality({s[k].brand: k \in DOMAIN s})
Runs(s) == Cardinality({s[k].run: k \in DOMAIN s})

(* The p95 is the observation of rank ceil(0.95 n). *)
P95(s) ==
  LET rank == (95 * Len(s) + 99) \div 100
      atMost(v) == Count(s, LAMBDA o: o.ratio <= v)
      values == {s[k].ratio: k \in DOMAIN s}
      enough == {v \in values: atMost(v) >= rank} IN
  CHOOSE v \in enough: \A w \in enough: v <= w

KillSwitch == \/ \E k \in DOMAIN shadow: shadow[k].critical # {}
              \/ \E k \in DOMAIN canary: canary[k].critical # {}
ShadowReady ==
  LET n == Len(shadow) IN
  /\ ~KillSwitch
  /\ Runs(shadow) >= MinRuns /\ Brands(shadow) >= MinBrands
  /\ SumOf(shadow, LAMBDA o: o.delta) >= MinQualityDelta * n
  /\ SumOf(shadow, LAMBDA o: o.covered) >= MinCoverage * n
  /\ Count(shadow, LAMBDA o: o.failed) * 100 <= MaxFailureRate * n
  /\ n > 0 => P95(shadow) <= MaxRatio
  /\ SumOf(shadow, LAMBDA o: o.ratio) <= MaxRatio * n
  /\ \A k \in DOMAIN shadow: SharesPass(shadow[k])

CanaryHolds ==
  LET n == Len(canary) IN
  /\ Runs(canary) >= MinCanaryRuns /\ Brands(canary) >= MinCanaryBrands
  /\ SumOf(canary, LAMBDA o: o.positive) >= MinPositiveDelta * n
  /\ SumOf(canary, LAMBDA o: o.negative) <= MaxNegativeDelta * n
  /\ Count(canary, LAMBDA o: o.failed) * 100 <= MaxFailureRate * n

ProductionReady == ShadowReady /\ CanaryHolds /\ approved /\ ~KillSwitch
AllowedStage ==
  IF KillSwitch THEN "off"
  ELSE IF ProductionReady THEN "production"
  ELSE IF ShadowReady THEN "canary"
  ELSE IF shadow # <<>> THEN "shadow" ELSE "off"
-----------------------------------------------------------------------------
Init == shadow = <<>> /\ canary = <<>> /\ approved = FALSE

Observe(p) == /\ Len(shadow) < MaxPairs /\ shadow' = Append(shadow, Observation(p))
              /\ UNCHANGED <<canary, approved>>
Release(o) == /\ Len(canary) < MaxCanaries /\ canary' = Append(canary, o)
              /\ UNCHANGED <<shadow, approved>>
Approve == ~approved /\ approved' = TRUE /\ UNCHANGED <<shadow, canary>>

Next == (\E p \in Pairs: Observe(p)) \/ (\E o \in Canaries: Release(o)) \/ Approve
-----------------------------------------------------------------------------
TypeOK == Len(shadow) <= MaxPairs /\ Len(canary) <= MaxCanaries

(* A stage is earned: production has a person's approval, as many canary   *)
(* and shadow runs as are asked for (one that is reported twice counts     *)
(* once) and not one bad selection behind it, and after one critical       *)
(* violation, wherever it was seen, everything is off.                     *)
StageEarned ==
  /\ AllowedStage = "production" =>
       /\ approved /\ Runs(canary) >= MinCanaryRuns /\ Runs(shadow) >= MinRuns
       /\ \A k \in DOMAIN shadow: shadow[k].topic * 100 <= MaximumTopicShare * shadow[k].total
  /\ (\E k \in DOMAIN canary: canary[k].critical # {}) => AllowedStage = "off"
  /\ (\E k \in DOMAIN shadow: shadow[k].critical # {}) => AllowedStage = "off"

=============================================================================
