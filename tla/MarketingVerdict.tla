---------------------------- MODULE MarketingVerdict ----------------------------
(***************************************************************************)
(* What observations of a baseline and a challenger come to                *)
(* (marketing-benchmark.ts), and which skill may run or be chosen for a    *)
(* brand (skill-registry.ts, marketing-lab.ts).  Observations arrive one   *)
(* by one, of any case and lane, and the comparison is asked at any time.  *)
(* Means over the same cases are compared by their sums; scores, costs and *)
(* delays are small numbers; what a person or an audience did not say is   *)
(* None.                                                                   *)
(***************************************************************************)
EXTENDS Integers, FiniteSets, FiniteSetsExt

CONSTANTS Cases, Observations,   \* cases, and what may be observed of one
          MinPairs, MinQuality, MaxRatio, MinHuman, MaxEdit,
          MinSample, MinPerformance,   \* the policy
          MaxTimes               \* bound: observations of one case and lane

VARIABLE observed   \* of each lane and case: how often, the only observation,
                    \* the stages, and whether one was untrue

VerdictAssumption ==
  /\ IsFiniteSet(Cases) /\ MinPairs \in Nat \ {0} /\ MaxTimes \in Nat \ {0}
  /\ {MinQuality, MaxRatio, MinHuman, MaxEdit, MinSample, MinPerformance} \subseteq Nat

None == -1
Lanes == {"baseline", "challenger"}
Nothing == [stage |-> "none", input |-> None, truth |-> TRUE, quality |-> None,
            cost |-> None, latency |-> None, human |-> None, edit |-> None,
            sample |-> None, performance |-> None]
Unseen == [times |-> 0, last |-> Nothing, stages |-> {}, untrue |-> FALSE]

Init == observed = [o \in Lanes \X Cases |-> Unseen]

Observe(lane, case, observation) ==
  /\ observed[lane, case].times < MaxTimes
  /\ observed' = [observed EXCEPT ![lane, case] =
                    [times |-> @.times + 1,
                     last |-> IF @.times = 0 THEN observation ELSE Nothing,
                     stages |-> @.stages \cup {observation.stage},
                     untrue |-> @.untrue \/ ~observation.truth]]

Next == \E lane \in Lanes, case \in Cases, observation \in Observations:
          Observe(lane, case, observation)

VerdictSpec == Init /\ [][Next]_observed

-----------------------------------------------------------------------------
(* The comparison.                                                         *)

Of(seen, lane, case) == seen[lane, case].last

(* A case counts if it was observed once in each lane, of the same input.  *)
Paired(seen) ==
  {c \in Cases: /\ \A lane \in Lanes: seen[lane, c].times = 1
                /\ Of(seen, "baseline", c).input = Of(seen, "challenger", c).input}

Stages(seen) == UNION {seen[o].stages: o \in Lanes \X Cases}

Untrue(seen, lane) == {c \in Paired(seen): ~Of(seen, lane, c).truth}
SumOf(seen, lane, field) ==
  MapThenSumSet(LAMBDA c: Of(seen, lane, c)[field], Paired(seen))
Delta(seen, field) == SumOf(seen, "challenger", field) - SumOf(seen, "baseline", field)
Count(seen) == Cardinality(Paired(seen))
Gains(seen, field, least) == Delta(seen, field) >= least * Count(seen)
(* A ratio to nothing is 1 for nothing, and without end for something.     *)
WithinRatio(seen, field) ==
  SumOf(seen, "challenger", field) <= MaxRatio * SumOf(seen, "baseline", field)

Every(seen, Has(_)) == \A lane \in Lanes, c \in Paired(seen): Has(Of(seen, lane, c))
Asked(observation) == observation.human # None
Sampled(observation) == observation.sample >= MinSample

Comparable(seen) == /\ Cardinality(Stages(seen)) = 1 /\ Count(seen) >= MinPairs
                    /\ Untrue(seen, "baseline") = {}
Efficient(seen) == /\ Gains(seen, "quality", MinQuality)
                   /\ WithinRatio(seen, "cost") /\ WithinRatio(seen, "latency")
Preferred(seen) == /\ Gains(seen, "human", MinHuman)
                   /\ Delta(seen, "edit") <= MaxEdit * Count(seen)

(* The order of the tests is the code's: what is missing is asked for only *)
(* when nothing before it decides.                                         *)
Verdict(seen) ==
  IF ~Comparable(seen) THEN "insufficient-evidence"
  ELSE IF Untrue(seen, "challenger") # {} THEN "reject-challenger"
  ELSE IF ~Efficient(seen) THEN "keep-baseline"
  ELSE IF Stages(seen) = {"offline"} THEN "advance-to-shadow"
  ELSE IF ~Every(seen, Asked) THEN "insufficient-evidence"
  ELSE IF ~Preferred(seen) THEN "keep-baseline"
  ELSE IF Stages(seen) = {"shadow"} THEN "advance-to-live"
  ELSE IF ~Every(seen, Sampled) THEN "insufficient-evidence"
  ELSE IF Gains(seen, "performance", MinPerformance) THEN "qualified-for-brand"
  ELSE "keep-baseline"

Advances == {"advance-to-shadow", "advance-to-live", "qualified-for-brand"}

-----------------------------------------------------------------------------
(* The skills.                                                             *)

Skill == [source: {"kairo-native", "github", "future"},
          mode: {"native", "reference-only", "sandboxed"},
          status: {"approved", "evaluation", "rejected", "disabled"},
          benchmark: {"baseline", "pending", "shadow", "live", "qualified", "failed"},
          permissions: SUBSET {"network", "secrets", "context", "publishing"}]

Valid(skill) ==
  /\ (skill.source = "kairo-native") <=> (skill.mode = "native")
  /\ skill.mode = "reference-only" => skill.permissions = {}
  /\ skill.mode = "sandboxed" =>
       /\ skill.benchmark \in {"shadow", "live", "qualified"}
       /\ skill.status \notin {"rejected", "disabled"}
       /\ skill.benchmark = "qualified" => skill.status = "approved"
  /\ "publishing" \notin skill.permissions

CanRun(skill, stage) ==
  IF skill.mode = "native" THEN skill.status = "approved" /\ skill.benchmark = "baseline"
  ELSE /\ skill.mode = "sandboxed" /\ skill.status \in {"evaluation", "approved"}
       /\ skill.benchmark \in {"live", "qualified"} \cup
            (IF stage = "shadow" THEN {"shadow"} ELSE {})

CanExecute(skill) ==
  /\ skill.status = "approved"
  /\ \/ skill.mode = "native" /\ skill.benchmark = "baseline"
     \/ skill.mode = "sandboxed" /\ skill.benchmark = "qualified"

(* MarketingShadowExecutionService.shadowChallenger.                       *)
MayShadow(skill) ==
  /\ skill.mode = "sandboxed" /\ skill.benchmark = "shadow" /\ CanRun(skill, "shadow")
  /\ skill.permissions = {"context"}

(* evaluateMarketingLabComparison: what may be compared as a challenger.   *)
MayChallenge(skill, stage) ==
  /\ skill.status \notin {"rejected", "disabled"}
  /\ stage # "offline" => CanRun(skill, stage)

(* createBrandSkillSelection: chosen for a brand.                          *)
MaySelect(skill, verdict) == CanExecute(skill) /\ verdict = "qualified-for-brand"

-----------------------------------------------------------------------------
VerdictTypeOK ==
  \A o \in Lanes \X Cases: /\ observed[o].times \in 0..MaxTimes
                           /\ observed[o].times = 1 => observed[o].last \in Observations

(* Of two skills at most one is the better one, whichever is called the    *)
(* baseline.                                                               *)
Swapped == [o \in Lanes \X Cases |->
             observed[IF o[1] = "baseline" THEN "challenger" ELSE "baseline", o[2]]]
NotBoth == Verdict(observed) \in Advances => Verdict(Swapped) \notin Advances

(* More quality, at the same cost, never takes an advance away.            *)
Improved(c) == [observed EXCEPT !["challenger", c].last.quality = @ + 1]
MoreIsNotLess ==
  Verdict(observed) \in Advances =>
    \A c \in Paired(observed): Verdict(Improved(c)) = Verdict(observed)

(* A verdict is about the cases it counts: what was observed of others in  *)
(* the same stage changes nothing.                                         *)
Counted == [o \in Lanes \X Cases |->
             IF o[2] \in Paired(observed) THEN observed[o] ELSE Unseen]
OnlyPairsCount ==
  Cardinality(Stages(observed)) = 1 => Verdict(Counted) = Verdict(observed)

(* Whoever may be chosen may also be measured live and in the shadow, what *)
(* is measured in the shadow cannot be chosen yet, and no skill publishes. *)
Ladder ==
  \A skill \in Skill:
    Valid(skill) =>
      /\ CanExecute(skill) => CanRun(skill, "live")
      /\ CanRun(skill, "live") => CanRun(skill, "shadow")
      /\ MayShadow(skill) => ~CanExecute(skill) /\ MayChallenge(skill, "shadow")
      /\ CanRun(skill, "shadow") => MayChallenge(skill, "shadow")

VerdictsSound == NotBoth /\ MoreIsNotLess /\ OnlyPairsCount

(* The test "hard-rejects a challenger with any Truth failure" says that a *)
(* failure that was observed rejects; one whose case was observed again,   *)
(* or not in the other lane, does not count.                               *)
AnyFailureStops ==
  (\E c \in Cases: observed["challenger", c].untrue) => Verdict(observed) \notin Advances
=============================================================================
