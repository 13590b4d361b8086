---------------------------- MODULE DeepAnalysis ----------------------------
(* Clusters are pre-ranked, and the best of them are analysed by the model:  *)
(* a few runners share one cursor over the list, an analysis that is rate    *)
(* limited or times out is tried once more after a pause, and the outcomes   *)
(* are put back in the order of the list.                                    *)
(* Scores are in thousandths.                                                *)
EXTENDS Integers, SequencesExt, FiniteSetsExt

CONSTANTS Inputs,       \* sets of clusters a run may come with
          RankLimit, DeepLimit, Concurrency,
          Replies       \* how an invocation may end
          \* a cluster is [id, fit, explores, evidence, fresh, stage, velocity,
          \* gain, spread, saturation, brand, affinity, twice, unwanted]

VARIABLES clusters,  \* the clusters of this run
          ranked,    \* the pre-ranked list, Unranked until it is made
          cursor,    \* the next position to analyse
          runner,    \* [runner |-> position and phase]
          calls,     \* [position |-> how its invocations ended]
          outcome,   \* [position |-> outcome]
          analysed   \* the positions whose analyses are kept, Pending before
vars == <<clusters, ranked, cursor, runner, calls, outcome, analysed>>

Unranked == <<[id |-> 0]>>
Pending == <<0>>
Unknown == -1
Runners == 1..Concurrency
Free == [at |-> 0, phase |-> "free"]
Gone == [at |-> 0, phase |-> "gone"]
Clamp(x) == IF x < 0 THEN 0 ELSE IF x > 1000 THEN 1000 ELSE x

----------------------------------------------------------------------------
(* The pre-rank: what is unknown has no weight. *)
SumOver(ps, Value(_)) == FoldLeft(LAMBDA acc, p : acc + Value(p), 0, ps)
Known(ps) == SelectSeq(ps, LAMBDA p : p[1] # Unknown)
MeanOf(ps) == LET w == SumOver(Known(ps), LAMBDA p : p[2])
              IN IF w = 0 THEN 0 ELSE Clamp(SumOver(Known(ps), LAMBDA p : p[1] * p[2]) \div w)
StageBase == [emerging |-> 580, rising |-> 750, accelerating |-> 1000, mature |-> 480,
              saturated |-> 280, declining |-> 120, evergreen |-> 520]
Momentum(c) == MeanOf(<<<<StageBase[c.stage], 45>>, <<c.velocity, 25>>, <<c.gain, 30>>>>)
TopicFit(c) == IF c.explores THEN Min({c.fit, 250}) ELSE c.fit
Positive(c) == MeanOf(<<<<c.brand, 24>>, <<TopicFit(c), 18>>, <<c.evidence, 16>>, <<c.fresh, 12>>,
                        <<Momentum(c), 12>>, <<c.spread, 8>>, <<c.affinity, 10>>>>)
Penalty(c) == Clamp(SumOver(Known(<<<<c.saturation, 8>>, <<c.twice, 12>>, <<c.unwanted, 18>>>>),
                            LAMBDA p : p[1] * p[2]) \div 100)

Overall(c) == Clamp(Positive(c) - Penalty(c))
Before(a, b) == \/ Overall(a) > Overall(b)
                \/ Overall(a) = Overall(b) /\ a.evidence > b.evidence
                \/ Overall(a) = Overall(b) /\ a.evidence = b.evidence /\ a.id < b.id
PreRank(S) ==
  LET place == [n \in 1..Cardinality(S) |->
                  CHOOSE c \in S : Cardinality({d \in S : Before(d, c)}) = n - 1]
  IN SubSeq(place, 1, Min({RankLimit, Cardinality(S)}))

Deep == Min({DeepLimit, Len(ranked)})    \* how many are analysed
Transient == {"rate-limited", "timeout"}

----------------------------------------------------------------------------
Init == /\ clusters \in Inputs /\ ranked = Unranked /\ cursor = 1
        /\ runner = [r \in Runners |-> Free]
        /\ calls = <<>> /\ outcome = <<>> /\ analysed = Pending

Rank == /\ ranked = Unranked
        /\ ranked' = PreRank(clusters)
        /\ LET n == Min({DeepLimit, Len(ranked')})
           IN /\ calls' = [i \in 1..n |-> <<>>]
              /\ outcome' = [i \in 1..n |-> "none"]
        /\ UNCHANGED <<clusters, cursor, runner, analysed>>

\* (mutant) A runner that finds the list empty looks again.
TakeAgain(r) ==
  /\ ranked # Unranked /\ runner[r] = Free /\ cursor <= Deep
  /\ runner' = [runner EXCEPT ![r] = [at |-> cursor, phase |-> "calling"]]
  /\ cursor' = cursor + 1
  /\ UNCHANGED <<clusters, ranked, calls, outcome, analysed>>

Take(r) ==
  /\ ranked # Unranked /\ runner[r] = Free
  /\ IF cursor <= Deep THEN runner' = [runner EXCEPT ![r] = [at |-> cursor, phase |-> "calling"]]
                       ELSE runner' = [runner EXCEPT ![r] = Gone]
  /\ cursor' = cursor + 1
  /\ UNCHANGED <<clusters, ranked, calls, outcome, analysed>>

\* (mutant) It is tried again for as long as the failure is transient.
RetriesForever(i, end) == end \in Transient

Retries(i, end) == end \in Transient /\ calls[i] = <<>>

\* The invocation ends: with an analysis, with one of another candidate or one
\* that does not validate, or with an error.
Finish(r) ==
  LET i == runner[r].at
  IN /\ runner[r].phase = "calling"
     /\ \E end \in Replies :
          /\ calls' = [calls EXCEPT ![i] = Append(@, end)]
          /\ IF Retries(i, end)
             THEN /\ runner' = [runner EXCEPT ![r].phase = "waiting"]
                  /\ UNCHANGED outcome
             ELSE /\ runner' = [runner EXCEPT ![r] = Free]
                  /\ outcome' = [outcome EXCEPT ![i] = end]
     /\ UNCHANGED <<clusters, ranked, cursor, analysed>>

Retry(r) == /\ runner[r].phase = "waiting"
            /\ runner' = [runner EXCEPT ![r].phase = "calling"]
            /\ UNCHANGED <<clusters, ranked, cursor, calls, outcome, analysed>>

Kept(o) == SelectSeq([i \in 1..Deep |-> i], LAMBDA i : o[i] = "analysis")

Collect == /\ ranked # Unranked /\ \A r \in Runners : runner[r] = Gone
           /\ analysed = Pending
           /\ analysed' = Kept(outcome)
           /\ UNCHANGED <<clusters, ranked, cursor, runner, calls, outcome>>

Work(r) == Take(r) \/ Finish(r) \/ Retry(r)
Next == Rank \/ (\E r \in Runners : Work(r)) \/ Collect
Spec == Init /\ [][Next]_vars
\* An invocation carries its own timeout, and the pause is a timer.
FairSpec == Spec /\ WF_vars(Rank) /\ WF_vars(Collect) /\ \A r \in Runners : WF_vars(Work(r))

----------------------------------------------------------------------------
TypeOK == /\ cursor \in 1..(Deep + Concurrency + 1)
          /\ \A i \in DOMAIN calls : calls[i] \in BoundedSeq(Replies, 2)
          /\ \A r \in Runners : runner[r].phase \in {"free", "calling", "waiting", "gone"}

\* Two runners never work on one candidate, and nobody works on one that has
\* its outcome.
NobodyTwice ==
  \A r, q \in {x \in Runners : runner[x].at # 0} :
    /\ runner[r].at = runner[q].at => r = q
    /\ outcome[runner[r].at] = "none"

\* A candidate at least as good in everything that is known of both, with
\* nothing more known against it, is never ranked below.
Merits(c) == <<c.brand, TopicFit(c), c.evidence, c.fresh, Momentum(c), c.spread, c.affinity>>
Faults(c) == <<c.saturation, c.twice, c.unwanted>>
Dominates(a, b) ==
  /\ \A n \in 1..7 : /\ Merits(a)[n] >= Merits(b)[n]
                     /\ (Merits(a)[n] = Unknown) = (Merits(b)[n] = Unknown)
  /\ \A n \in 1..3 : Faults(a)[n] <= Faults(b)[n]
RankIsMonotone ==
  ranked # Unranked => \A a, b \in clusters :
    Dominates(a, b) => Overall(a) >= Overall(b)

\* The outcome of every candidate is known when the result is read, the failed
\* ones take nothing from the others, and the order of the ranking is kept.
EachAnswersForItself ==
  analysed # Pending =>
    /\ \A i \in 1..Deep : outcome[i] # "none"
    /\ ToSet(analysed) = {i \in 1..Deep : outcome[i] = "analysis"}
    /\ \A m, n \in 1..Len(analysed) : m < n => analysed[m] < analysed[n]

\* The list is always worked off, whatever fails.
AlwaysCollects == <>(analysed # Pending)
=============================================================================
