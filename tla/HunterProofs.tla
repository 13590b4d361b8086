------------------------------ MODULE HunterProofs ------------------------------
(***************************************************************************)
(* What holds of the Hunter.  Of a run: it is sound for every list of      *)
(* sources, every answer they may give, every proposal of the model and    *)
(* every quota.  Of the store, for any servers, requests and people, any   *)
(* lists of candidates, any number of runs, and whatever fails: the        *)
(* invariant is in four parts, one per kind of state, and each part is     *)
(* preserved because the others say what a run or a person still holds.    *)
(* Last, of what a brand has learned: none of what was taught is forgotten.*)
(***************************************************************************)
EXTENDS HunterRun, OpportunityStore, SequenceTheorems, FiniteSetTheorems,
        WellFoundedInduction, TLAPS

-----------------------------------------------------------------------------
(* The run.                                                                *)

Given == [plans: Plans, query: BOOLEAN, profile: BOOLEAN, fits: BOOLEAN]
Phases == {"search", "unique", "judge", "retry", "rank", "rerank", "record",
           "unjudged", "thrown", "done"}

(* Every stage is a set of places of the one before. *)
Placed ==
  /\ given \in Given /\ phase \in Phases
  /\ asked \in Seq([source: Sources, answer: {"skipped", "found", "failed"}])
  /\ Len(asked) <= Len(given.plans)
  /\ found \in Seq(Items) /\ offers \in Seq(Candidate)
  /\ kept \subseteq DOMAIN found /\ evidence \subseteq kept /\ docs \subseteq evidence
  /\ accepted \subseteq DOMAIN offers /\ chosen \subseteq accepted /\ saved \subseteq chosen
  /\ phase = "unique" => left \subseteq DOMAIN found

(* What a stage is judged by does not change any more once it has begun. *)
Staged ==
  /\ phase = "search" => kept = {}
  /\ phase \in {"search", "unique"} => evidence = {}
  /\ phase \in {"search", "unique", "judge", "retry", "unjudged"} => offers = <<>>
  /\ phase \in {"search", "unique", "judge", "retry", "unjudged", "rank"} => chosen = {}
  /\ phase \notin {"record", "thrown", "done"} => saved = {}
  /\ phase = "retry" \/ offers # <<>> => given.fits
  /\ phase = "rank" => left \subseteq Prepared(offers)
  /\ phase = "rerank" => left \subseteq accepted /\ \A k \in left: ~offers[k].risky
  /\ phase = "record" => left \subseteq chosen /\ left \cap saved = {}
  /\ accepted \subseteq Prepared(offers)
  /\ \A k \in chosen: ~offers[k].risky

Unrepeated == \A i, k \in kept: i # k => ~Repeats(i, k)

OfPage(k, S) == {n \in S: KeyOf(n) = KeyOf(k)}
OfTopic(k, S) == {n \in S: offers[n].topic = offers[k].topic}
OfWords(k, S) == {n \in S: offers[n].words = offers[k].words}

Shared ==
  /\ Cardinality(accepted) <= MaxCandidates
  /\ \A k \in accepted: /\ Cardinality(OfPage(k, accepted)) <= PerSource
                        /\ offers[k].topic # 0 => Cardinality(OfTopic(k, accepted)) <= PerTopic
  /\ \A k \in chosen: Cardinality(OfWords(k, chosen)) <= EEITopics
  /\ \A k, n \in accepted: k # n => ~Duplicates(k, n)

HunterInv == Placed /\ SourcesHeeded /\ Staged /\ Unrepeated /\ Shared
-----------------------------------------------------------------------------
(* Places of a sequence are finitely many. *)
LEMMA PlacesFinite == ASSUME NEW T, NEW q \in Seq(T), NEW S \in SUBSET DOMAIN q PROVE IsFiniteSet(S)
  <1>1. DOMAIN q = 1..Len(q) /\ Len(q) \in Nat
    OBVIOUS
  <1>2. IsFiniteSet(1..Len(q))
    BY <1>1, FS_Interval
  <1>3. QED
    BY <1>1, <1>2, FS_Subset

(* A share that has room for one more keeps its bound. *)
LEMMA ShareKept ==
  ASSUME NEW S, IsFiniteSet(S), NEW k, NEW q \in Nat,
         NEW P, NEW Q, P = Q \/ P = Q \cup {k}, Q \subseteq S,
         Cardinality(Q) <= q, P # Q => Cardinality(Q) < q
  PROVE  Cardinality(P) <= q
  <1>1. IsFiniteSet(Q) /\ Cardinality(Q) \in Nat
    BY FS_Subset, FS_CardinalityType
  <1>2. CASE P = Q
    BY <1>2
  <1>3. CASE P # Q
    <2>1. P = Q \cup {k} /\ k \notin Q
      BY <1>3
    <2>2. Cardinality(P) = Cardinality(Q) + 1
      BY <1>1, <2>1, FS_AddElement
    <2>3. QED
      BY <1>1, <1>3, <2>2
  <1>4. QED
    BY <1>2, <1>3

(* The quotas are positive. *)
LEMMA QuotasPositive ==
  {MaxEvidence, MaxCandidates, PerSource, PerTopic, EEITopics} \subseteq Nat \ {0}
  BY HunterAssumption

(* Where what is judged stays, the judgement stays. *)
LEMMA JudgementStays ==
  ASSUME UNCHANGED <<given, found, evidence, docs, offers>>
  PROVE  /\ \A o: Cited(o)' = Cited(o)
         /\ \A o: CitedBy(o)' = CitedBy(o)
         /\ \A n: KeyOf(n)' = KeyOf(n)
         /\ \A o: PassesFloor(o)' = PassesFloor(o)
         /\ Prepared(offers)' = Prepared(offers)
         /\ \A k, n: Duplicates(k, n)' = Duplicates(k, n)
  <1>1. \A o: Cited(o)' = Cited(o)
    BY DEF Cited
  <1>2. \A o: CitedBy(o)' = CitedBy(o)
    BY DEF CitedBy
  <1>3. \A n: KeyOf(n)' = KeyOf(n)
    BY <1>2 DEF KeyOf
  <1>4. \A o: PassesFloor(o)' = PassesFloor(o)
    <2>1. \A o: Adjusted(o)' = Adjusted(o)
      BY <1>2 DEF Adjusted, Quality
    <2>2. QED
      BY <2>1 DEF PassesFloor
  <1>5. Prepared(offers)' = Prepared(offers)
    BY <1>1, <1>4 DEF Prepared
  <1>6. QED
    BY <1>1, <1>2, <1>3, <1>4, <1>5 DEF Duplicates

-----------------------------------------------------------------------------
LEMMA HunterBegins == HunterInit => HunterInv
  <1> SUFFICES ASSUME HunterInit PROVE HunterInv
    OBVIOUS
  <1>1. given.plans \in Seq(Sources)
    BY HunterAssumption DEF HunterInit
  <1>2. Placed
    BY <1>1 DEF HunterInit, Placed, Given, Phases
  <1>3. SourcesHeeded /\ Staged /\ Unrepeated
    BY DEF HunterInit, SourcesHeeded, Staged, Unrepeated
  <1>4. Shared
    BY QuotasPositive, FS_EmptySet DEF HunterInit, Shared
  <1>5. QED
    BY <1>2, <1>3, <1>4 DEF HunterInv

(* What a source answers is items of its own. *)
LEMMA OwnItems ==
  ASSUME Placed, Planned1, NEW a \in Answers[Source1]
  PROVE  /\ Source1 \in Sources /\ a \in Seq(Items)
         /\ \A i \in DOMAIN a: a[i].source = Source1
  <1>1. given.plans \in Seq(Sources)
    BY HunterAssumption DEF Placed, Given
  <1>2. Source1 \in Sources
    BY <1>1 DEF Planned1, Source1, Placed
  <1>3. a \in Seq({i \in Items: i.source = Source1})
    BY <1>2, HunterAssumption
  <1>4. QED
    BY <1>2, <1>3

LEMMA AskedPlaced ==
  ASSUME Placed, Planned1, NEW answer \in {"skipped", "found", "failed"}, Ask(answer)
  PROVE  /\ asked' \in Seq([source: Sources, answer: {"skipped", "found", "failed"}])
         /\ Len(asked') = Len(asked) + 1 /\ Len(asked') <= Len(given.plans)
         /\ asked'[Len(asked) + 1] = [source |-> Source1, answer |-> answer]
         /\ \A i \in DOMAIN asked: asked'[i] = asked[i]
         /\ DOMAIN asked' = DOMAIN asked \cup {Len(asked) + 1}
  <1>1. given.plans \in Seq(Sources)
    BY HunterAssumption DEF Placed, Given
  <1>2. Source1 \in Sources
    BY <1>1 DEF Planned1, Source1, Placed
  <1>3. QED
    BY <1>1, <1>2 DEF Ask, Planned1, Placed

(* The least of the places left is taken, whatever they are. *)
LEMMA PlacedNext == ASSUME Placed, Staged, HunterNext PROVE Placed'
  <1>1. CASE SkipDegraded
    BY <1>1, AskedPlaced DEF SkipDegraded, Placed
  <1>2. CASE SearchFound
    <2>1. PICK a \in Answers[Source1]: found' = found \o a
      BY <1>2 DEF SearchFound
    <2>2. found' \in Seq(Items)
      BY <1>2, <2>1, OwnItems DEF SearchFound, Placed
    <2>3. kept = {}
      BY <1>2 DEF SearchFound, Staged
    <2>4. QED
      BY <1>2, <2>2, <2>3, AskedPlaced DEF SearchFound, Placed
  <1>3. CASE SearchFailed
    BY <1>3, AskedPlaced DEF SearchFailed, Placed
  <1>4. CASE Searched
    BY <1>4 DEF Searched, Placed, Phases
  <1>5. CASE UniqueEvidence
    BY <1>5 DEF UniqueEvidence, Placed
  <1>6. CASE \E fetched \in SUBSET kept: Enrich(fetched)
    BY <1>6 DEF Enrich, Placed, Phases, Shortlist
  <1>7. CASE TooLarge
    BY <1>7 DEF TooLarge, Placed, Phases
  <1>8. CASE Judge
    <2>1. accepted = {}
      BY <1>8 DEF Judge, Placed, Staged
    <2>2. offers' \in Seq(Candidate) /\ phase' \in Phases \ {"unique"}
      BY <1>8, HunterAssumption DEF Judge, Goes, Placed, Phases
    <2>3. UNCHANGED <<given, asked, found, kept, evidence, docs, accepted, chosen, saved>>
      BY <1>8 DEF Judge
    <2>4. QED
      BY <2>1, <2>2, <2>3 DEF Placed
  <1>9. CASE JudgeFailed
    BY <1>9 DEF JudgeFailed, Placed, Phases
  <1>10. CASE Retry
    <2>1. accepted = {}
      BY <1>10 DEF Retry, Placed, Staged
    <2>2. offers' \in Seq(Candidate) /\ phase' \in Phases \ {"unique"}
      <3>1. PICK os \in Proposals \cup {<<>>}: offers' = os /\ phase' = "rank"
        BY <1>10 DEF Retry, Goes
      <3>2. <<>> \in Seq(Candidate) /\ Proposals \subseteq Seq(Candidate)
        BY HunterAssumption
      <3>3. QED
        BY <3>1, <3>2 DEF Phases
    <2>3. UNCHANGED <<given, asked, found, kept, evidence, docs, accepted, chosen, saved>>
      BY <1>10 DEF Retry
    <2>4. QED
      BY <2>1, <2>2, <2>3 DEF Placed
  <1>11. CASE RankNext
    BY <1>11 DEF RankNext, Placed, Staged, Prepared
  <1>12. CASE Ranked
    BY <1>12 DEF Ranked, Placed, Phases
  <1>13. CASE Rerank
    BY <1>13 DEF Rerank, Placed, Staged
  <1>14. CASE Reranked
    BY <1>14 DEF Reranked, Placed, Phases
  <1>15. CASE \E outcome \in Outcomes: Record(outcome)
    <2>1. PICK outcome \in Outcomes: Record(outcome)
      BY <1>15
    <2>2. PICK k \in left: saved' = IF outcome \in {"saved", "unprojected"} THEN saved \cup {k} ELSE saved
      BY <2>1 DEF Record
    <2>3. k \in chosen
      BY <2>1 DEF Record, Staged
    <2>4. phase' \in Phases \ {"unique"}
      BY <2>1 DEF Record, Phases
    <2>5. UNCHANGED <<given, asked, found, kept, evidence, docs, offers, accepted, chosen>>
      BY <2>1 DEF Record
    <2>6. QED
      BY <2>2, <2>3, <2>4, <2>5 DEF Placed
  <1>16. CASE Recorded
    BY <1>16 DEF Recorded, Placed, Phases
  <1>17. QED
    BY <1>1, <1>2, <1>3, <1>4, <1>5, <1>6, <1>7, <1>8, <1>9, <1>10, <1>11, <1>12,
       <1>13, <1>14, <1>15, <1>16 DEF HunterNext

(* Only the three search actions change what was asked or found. *)
LEMMA HeededNext == ASSUME Placed, SourcesHeeded, HunterNext PROVE SourcesHeeded'
  <1>1. ASSUME Planned1, NEW answer \in {"skipped", "found", "failed"}, Ask(answer),
               Source1 \in Degraded => answer = "skipped"
        PROVE  \A i, j \in DOMAIN asked': i < j /\ asked'[i].source = asked'[j].source
                 /\ asked'[i].answer = "failed" => asked'[j].answer = "skipped"
    <2> SUFFICES ASSUME NEW i \in DOMAIN asked', NEW j \in DOMAIN asked', i < j,
                        asked'[i].source = asked'[j].source, asked'[i].answer = "failed"
                 PROVE  asked'[j].answer = "skipped"
      OBVIOUS
    <2>1. DOMAIN asked = 1..Len(asked) /\ Len(asked) \in Nat
      BY DEF Placed
    <2>2. i \in DOMAIN asked
      BY <1>1, <2>1, AskedPlaced
    <2>3. CASE j \in DOMAIN asked
      BY <1>1, <2>2, <2>3, AskedPlaced DEF SourcesHeeded
    <2>4. CASE j = Len(asked) + 1
      BY <1>1, <2>2, <2>4, AskedPlaced DEF Degraded
    <2>5. QED
      BY <1>1, <2>3, <2>4, AskedPlaced
  <1>2. ASSUME Planned1, NEW answer \in {"skipped", "failed"}, Ask(answer), UNCHANGED found
        PROVE  \A i \in DOMAIN found': \E j \in DOMAIN asked':
                 asked'[j].source = found'[i].source /\ asked'[j].answer = "found"
    BY <1>2, AskedPlaced DEF SourcesHeeded
  <1>3. CASE SkipDegraded
    BY <1>1, <1>2, <1>3 DEF SkipDegraded, SourcesHeeded
  <1>4. CASE SearchFailed
    BY <1>1, <1>2, <1>4 DEF SearchFailed, SourcesHeeded
  <1>5. CASE SearchFound
    <2>1. PICK a \in Answers[Source1]: found' = found \o a
      BY <1>5 DEF SearchFound
    <2>2. Planned1 /\ Ask("found") /\ Source1 \notin Degraded
      BY <1>5 DEF SearchFound
    <2>3. \A i, j \in DOMAIN asked': i < j /\ asked'[i].source = asked'[j].source
                 /\ asked'[i].answer = "failed" => asked'[j].answer = "skipped"
      BY <1>1, <2>2
    <2>4. ASSUME NEW i \in DOMAIN found'
          PROVE  \E j \in DOMAIN asked': asked'[j].source = found'[i].source /\ asked'[j].answer = "found"
      <3>1. a \in Seq(Items) /\ \A n \in DOMAIN a: a[n].source = Source1
        BY <2>2, OwnItems
      <3>2. CASE i \in DOMAIN found
        <4>1. found'[i] = found[i]
          BY <2>1, <3>1, <3>2 DEF Placed
        <4>2. QED
          BY <2>2, <3>2, <4>1, AskedPlaced DEF SourcesHeeded
      <3>3. CASE i \notin DOMAIN found
        <4>1. i - Len(found) \in DOMAIN a /\ found'[i] = a[i - Len(found)]
          BY <2>1, <2>4, <3>1, <3>3 DEF Placed
        <4>2. asked'[Len(asked) + 1].source = found'[i].source
              /\ asked'[Len(asked) + 1].answer = "found"
          BY <2>2, <3>1, <4>1, AskedPlaced
        <4>3. QED
          BY <2>2, <4>2, AskedPlaced
      <3>4. QED
        BY <3>2, <3>3
    <2>5. QED
      BY <2>3, <2>4 DEF SourcesHeeded
  <1>6. CASE UNCHANGED <<asked, found>>
    BY <1>6 DEF SourcesHeeded
  <1>7. QED
    BY <1>3, <1>4, <1>5, <1>6
    DEF HunterNext, Searched, UniqueEvidence, Enrich, TooLarge, Judge, JudgeFailed, Retry,
        RankNext, Ranked, Rerank, Reranked, Record, Recorded

LEMMA UnrepeatedNext == ASSUME Placed, Staged, Unrepeated, HunterNext PROVE Unrepeated'
  <1>1. CASE UniqueEvidence
    <2>1. PICK i \in left: kept' = IF \E k \in kept: Repeats(i, k) THEN kept ELSE kept \cup {i}
      BY <1>1 DEF UniqueEvidence
    <2>2. UNCHANGED found
      BY <1>1 DEF UniqueEvidence
    <2>3. QED
      BY <2>1, <2>2 DEF Unrepeated, Repeats
  <1>2. CASE SearchFound
    BY <1>2 DEF SearchFound, Staged, Unrepeated
  <1>3. CASE UNCHANGED <<kept, found>>
    BY <1>3 DEF Unrepeated, Repeats
  <1>4. QED
    BY <1>1, <1>2, <1>3
    DEF HunterNext, SkipDegraded, SearchFailed, Searched, Enrich, TooLarge, Judge, JudgeFailed,
        Retry, RankNext, Ranked, Rerank, Reranked, Record, Recorded

(* A stage begins with nothing of the stages after it. *)
LEMMA StagedNext == ASSUME Placed, Staged, HunterNext PROVE Staged'
  <1>1. CASE \/ SkipDegraded \/ SearchFound \/ SearchFailed
    <2>1. /\ phase = "search" /\ phase' = "search" /\ evidence = {} /\ offers = <<>>
          /\ UNCHANGED <<given, kept, evidence, offers, accepted, chosen, saved>>
      BY <1>1 DEF SkipDegraded, SearchFound, SearchFailed, Staged
    <2>2. accepted = {}
      BY <2>1 DEF Placed
    <2>3. QED
      BY <2>1, <2>2 DEF Staged
  <1>2. CASE Searched \/ UniqueEvidence \/ \E fetched \in SUBSET kept: Enrich(fetched)
    <2>1. /\ phase' \in {"done", "unique", "judge"} /\ offers = <<>>
          /\ phase' = "unique" => evidence' = {}
          /\ UNCHANGED <<given, offers, accepted, chosen, saved>>
      BY <1>2 DEF Searched, UniqueEvidence, Enrich, Staged
    <2>2. accepted = {} /\ chosen = {} /\ saved = {}
      BY <2>1 DEF Placed
    <2>3. QED
      BY <2>1, <2>2 DEF Staged
  <1>3. CASE TooLarge \/ JudgeFailed
    <2>1. /\ phase' \in {"thrown", "unjudged"} /\ offers = <<>>
          /\ UNCHANGED <<given, offers, accepted, chosen, saved>>
      BY <1>3 DEF TooLarge, JudgeFailed, Staged
    <2>2. accepted = {} /\ chosen = {} /\ saved = {}
      BY <2>1 DEF Placed
    <2>3. QED
      BY <2>1, <2>2 DEF Staged
  <1>4. CASE Judge \/ Retry
    <2>1. /\ given.fits /\ offers = <<>>
          /\ UNCHANGED <<given, found, evidence, docs, accepted, chosen, saved>>
      BY <1>4 DEF Judge, Retry, Staged
    <2>2. accepted = {} /\ chosen = {} /\ saved = {}
      BY <2>1 DEF Placed
    <2>3. CASE phase' = "retry" /\ UNCHANGED offers
      BY <2>1, <2>2, <2>3 DEF Staged
    <2>4. CASE \E os: Goes(os)
      <3>1. PICK os: offers' = os /\ phase' = "rank" /\ left' = Prepared(os)
        BY <2>4 DEF Goes
      <3>2. Prepared(os)' = Prepared(os)
        <4>1. \A o: Cited(o)' = Cited(o)
          BY <2>1 DEF Cited
        <4>2. \A o: CitedBy(o)' = CitedBy(o)
          BY <2>1 DEF CitedBy
        <4>3. \A o: Adjusted(o)' = Adjusted(o)
          BY <2>1, <4>2 DEF Adjusted, Quality
        <4>4. \A o: PassesFloor(o)' = PassesFloor(o)
          BY <2>1, <4>3 DEF PassesFloor
        <4>5. QED
          BY <2>1, <4>1, <4>4 DEF Prepared
      <3>3. left' \subseteq Prepared(offers)'
        BY <2>1, <3>1, <3>2 DEF Prepared
      <3>4. QED
        BY <2>1, <2>2, <3>1, <3>3 DEF Staged
    <2>5. QED
      BY <1>4, <2>3, <2>4 DEF Judge, Retry
  <1>5. CASE RankNext
    <2>1. UNCHANGED <<given, found, evidence, docs, offers, phase, chosen, saved>> /\ phase = "rank"
      BY <1>5 DEF RankNext
    <2>2. Prepared(offers)' = Prepared(offers)
      BY <2>1, JudgementStays
    <2>3. left' \subseteq Prepared(offers) /\ accepted' \subseteq Prepared(offers)
      BY <1>5 DEF RankNext, Staged
    <2>4. QED
      BY <2>1, <2>2, <2>3 DEF Staged
  <1>6. CASE Ranked \/ Rerank \/ Reranked \/ Recorded
    <2>1. UNCHANGED <<given, found, evidence, docs, offers, accepted, saved>> /\ offers' = offers
      BY <1>6 DEF Ranked, Rerank, Reranked, Recorded
    <2>2. Prepared(offers)' = Prepared(offers)
      BY <2>1, JudgementStays
    <2>3. accepted' \subseteq Prepared(offers)'
      BY <2>1, <2>2 DEF Staged
    <2>4. CASE Ranked
      BY <2>1, <2>3, <2>4 DEF Ranked, Staged
    <2>5. CASE Rerank
      <3>1. PICK k \in left: left' = left \ {k} /\ (chosen' = chosen \cup {k} \/ chosen' = chosen)
        BY <2>5 DEF Rerank
      <3>2. ~offers[k].risky
        BY <2>5 DEF Rerank, Staged
      <3>3. QED
        BY <2>1, <2>3, <2>5, <3>1, <3>2 DEF Rerank, Staged
    <2>6. CASE Reranked
      BY <2>1, <2>3, <2>6 DEF Reranked, Staged
    <2>7. CASE Recorded
      BY <2>1, <2>3, <2>7 DEF Recorded, Staged
    <2>8. QED
      BY <1>6, <2>4, <2>5, <2>6, <2>7
  <1>7. CASE \E outcome \in Outcomes: Record(outcome)
    <2>1. PICK outcome \in Outcomes: Record(outcome)
      BY <1>7
    <2>2. UNCHANGED <<given, found, evidence, docs, offers, accepted, chosen>> /\ phase = "record"
      BY <2>1 DEF Record
    <2>3. accepted' \subseteq Prepared(offers)'
      BY <2>2, JudgementStays DEF Staged
    <2>4. left' \subseteq chosen /\ left' \cap saved' = {} /\ phase' \in {"record", "thrown"}
      BY <2>1 DEF Record, Staged
    <2>5. QED
      BY <2>2, <2>3, <2>4 DEF Staged
  <1>8. QED
    BY <1>1, <1>2, <1>3, <1>4, <1>5, <1>6, <1>7 DEF HunterNext

(* A share changes only by what is accepted, or chosen, within it. *)
LEMMA SharedNext == ASSUME Placed, Staged, Shared, HunterNext PROVE Shared'
  <1>1. IsFiniteSet(accepted) /\ IsFiniteSet(chosen)
    <2>1. IsFiniteSet(accepted)
      BY PlacesFinite DEF Placed
    <2>2. QED
      BY <2>1, FS_Subset DEF Placed
  <1>2. MaxCandidates \in Nat /\ PerSource \in Nat /\ PerTopic \in Nat /\ EEITopics \in Nat
    BY QuotasPositive
  <1>3. CASE RankNext
    <2>1. PICK k \in left: accepted' = IF Room(k) THEN accepted \cup {k} ELSE accepted
      BY <1>3 DEF RankNext
    <2>2. /\ UNCHANGED <<given, found, evidence, docs, offers, chosen>>
          /\ Cardinality(accepted) < MaxCandidates
      BY <1>3 DEF RankNext
    <2>3. /\ \A n: KeyOf(n)' = KeyOf(n)
          /\ \A m, n: Duplicates(m, n)' = Duplicates(m, n)
      BY <2>2, JudgementStays
    <2>4. Cardinality(accepted') <= MaxCandidates
      <3>1. accepted' = accepted \/ accepted' = accepted \cup {k}
        BY <2>1
      <3>2. Cardinality(accepted) <= MaxCandidates /\ Cardinality(accepted) < MaxCandidates
        BY <2>2 DEF Shared
      <3>3. QED
        BY <1>1, <1>2, <3>1, <3>2, ShareKept
    <2>5. ASSUME NEW m \in accepted' PROVE Cardinality(OfPage(m, accepted)') <= PerSource
      <3>1. OfPage(m, accepted)' = {n \in accepted': KeyOf(n) = KeyOf(m)}
        BY <2>3 DEF OfPage
      <3>2. \/ OfPage(m, accepted)' = OfPage(m, accepted)
            \/ OfPage(m, accepted)' = OfPage(m, accepted) \cup {k} /\ Room(k) /\ KeyOf(k) = KeyOf(m)
        BY <2>1, <3>1 DEF OfPage
      <3>3. KeyOf(k) = KeyOf(m) => OfPage(m, accepted) = OfPage(k, accepted)
        BY DEF OfPage
      <3>4. Room(k) => Cardinality(OfPage(k, accepted)) < PerSource
        BY DEF Room, OfPage
      <3>5. IsFiniteSet(OfPage(m, accepted)) /\ Cardinality(OfPage(m, accepted)) \in Nat
        BY <1>1, FS_Subset, FS_CardinalityType DEF OfPage
      <3>6. Cardinality(OfPage(m, accepted)) <= PerSource
        <4>1. CASE m \in accepted
          BY <4>1 DEF Shared
        <4>2. CASE m \notin accepted
          BY <1>2, <2>1, <3>3, <3>4, <3>5, <4>2
        <4>3. QED
          BY <4>1, <4>2
      <3>7. CASE OfPage(m, accepted)' = OfPage(m, accepted)
        BY <3>6, <3>7
      <3>8. CASE OfPage(m, accepted)' # OfPage(m, accepted)
        <4>1. OfPage(m, accepted)' = OfPage(m, accepted) \cup {k}
              /\ Cardinality(OfPage(m, accepted)) < PerSource
          BY <3>2, <3>3, <3>4, <3>8
        <4>2. QED
          BY <1>2, <3>5, <3>6, <4>1, ShareKept
      <3>9. QED
        BY <3>7, <3>8
    <2>6. ASSUME NEW m \in accepted', offers[m].topic # 0
          PROVE  Cardinality(OfTopic(m, accepted)') <= PerTopic
      <3>1. OfTopic(m, accepted)' = {n \in accepted': offers[n].topic = offers[m].topic}
        BY <2>2 DEF OfTopic
      <3>2. \/ OfTopic(m, accepted)' = OfTopic(m, accepted)
            \/ /\ OfTopic(m, accepted)' = OfTopic(m, accepted) \cup {k}
               /\ Room(k) /\ offers[k].topic = offers[m].topic
        BY <2>1, <3>1 DEF OfTopic
      <3>3. offers[k].topic = offers[m].topic => OfTopic(m, accepted) = OfTopic(k, accepted)
        BY DEF OfTopic
      <3>4. Room(k) /\ offers[k].topic # 0 => Cardinality(OfTopic(k, accepted)) < PerTopic
        BY DEF Room, OfTopic
      <3>5. IsFiniteSet(OfTopic(m, accepted)) /\ Cardinality(OfTopic(m, accepted)) \in Nat
        BY <1>1, FS_Subset, FS_CardinalityType DEF OfTopic
      <3>6. Cardinality(OfTopic(m, accepted)) <= PerTopic
        <4>1. CASE m \in accepted
          BY <2>6, <4>1 DEF Shared
        <4>2. CASE m \notin accepted
          BY <1>2, <2>1, <2>6, <3>3, <3>4, <3>5, <4>2
        <4>3. QED
          BY <4>1, <4>2
      <3>7. CASE OfTopic(m, accepted)' = OfTopic(m, accepted)
        BY <3>6, <3>7
      <3>8. CASE OfTopic(m, accepted)' # OfTopic(m, accepted)
        <4>1. OfTopic(m, accepted)' = OfTopic(m, accepted) \cup {k}
              /\ Cardinality(OfTopic(m, accepted)) < PerTopic
          BY <2>6, <3>2, <3>3, <3>4, <3>8
        <4>2. QED
          BY <1>2, <3>5, <3>6, <4>1, ShareKept
      <3>9. QED
        BY <3>7, <3>8
    <2>7. \A m, n \in accepted': m # n => ~Duplicates(m, n)
      <3>1. ASSUME NEW n \in accepted, Room(k) PROVE ~Duplicates(k, n) /\ ~Duplicates(n, k)
        <4>1. ~Duplicates(k, n)
          BY <3>1 DEF Room
        <4>2. \A x, y: /\ <<x, y>> \in Similar => <<y, x>> \in Similar
                       /\ <<x, y>> \in Near => <<y, x>> \in Near
          BY HunterAssumption
        <4>3. QED
          BY <4>1, <4>2 DEF Duplicates
      <3>2. QED
        BY <2>1, <3>1 DEF Shared
    <2>8. \A m \in chosen': Cardinality(OfWords(m, chosen)') <= EEITopics
      BY <2>2 DEF Shared, OfWords
    <2>9. QED
      BY <2>2, <2>3, <2>4, <2>5, <2>6, <2>7, <2>8 DEF Shared
  <1>4. CASE Rerank
    <2>1. PICK k \in left:
            chosen' = IF Cardinality({n \in chosen: offers[n].words = offers[k].words}) < EEITopics
                      THEN chosen \cup {k} ELSE chosen
      BY <1>4 DEF Rerank
    <2>2. UNCHANGED <<given, found, evidence, docs, offers, accepted>>
      BY <1>4 DEF Rerank
    <2>3. /\ \A n: KeyOf(n)' = KeyOf(n)
          /\ \A m, n: Duplicates(m, n)' = Duplicates(m, n)
      BY <2>2, JudgementStays
    <2>4. ASSUME NEW m \in chosen' PROVE Cardinality(OfWords(m, chosen)') <= EEITopics
      <3>1. OfWords(m, chosen)' = {n \in chosen': offers[n].words = offers[m].words}
        BY <2>2 DEF OfWords
      <3>2. \/ OfWords(m, chosen)' = OfWords(m, chosen)
            \/ /\ OfWords(m, chosen)' = OfWords(m, chosen) \cup {k}
               /\ offers[k].words = offers[m].words /\ chosen' # chosen
        BY <2>1, <3>1 DEF OfWords
      <3>3. offers[k].words = offers[m].words => OfWords(m, chosen) = OfWords(k, chosen)
        BY DEF OfWords
      <3>4. chosen' # chosen => Cardinality(OfWords(k, chosen)) < EEITopics
        BY <2>1 DEF OfWords
      <3>5. IsFiniteSet(OfWords(m, chosen)) /\ Cardinality(OfWords(m, chosen)) \in Nat
        BY <1>1, FS_Subset, FS_CardinalityType DEF OfWords
      <3>6. Cardinality(OfWords(m, chosen)) <= EEITopics
        <4>1. CASE m \in chosen
          BY <4>1 DEF Shared
        <4>2. CASE m \notin chosen
          BY <1>2, <2>1, <2>4, <3>3, <3>4, <3>5, <4>2
        <4>3. QED
          BY <4>1, <4>2
      <3>7. CASE OfWords(m, chosen)' = OfWords(m, chosen)
        BY <3>6, <3>7
      <3>8. CASE OfWords(m, chosen)' # OfWords(m, chosen)
        <4>1. OfWords(m, chosen)' = OfWords(m, chosen) \cup {k}
              /\ Cardinality(OfWords(m, chosen)) < EEITopics
          BY <3>2, <3>3, <3>4, <3>8
        <4>2. QED
          BY <1>2, <3>5, <3>6, <4>1, ShareKept
      <3>9. QED
        BY <3>7, <3>8
    <2>5. \A m \in accepted': /\ Cardinality(OfPage(m, accepted)') <= PerSource
                              /\ offers'[m].topic # 0 => Cardinality(OfTopic(m, accepted)') <= PerTopic
      BY <2>2, <2>3 DEF Shared, OfPage, OfTopic
    <2>6. QED
      BY <2>2, <2>3, <2>4, <2>5 DEF Shared
  <1>5. CASE accepted = {} /\ UNCHANGED accepted
    <2>1. chosen' = {}
      BY <1>5, PlacedNext DEF Placed
    <2>2. QED
      BY <1>2, <1>5, <2>1, FS_EmptySet DEF Shared
  <1>6. CASE UNCHANGED <<given, found, evidence, docs, offers, accepted, chosen>>
    <2>1. /\ \A n: KeyOf(n)' = KeyOf(n)
          /\ \A m, n: Duplicates(m, n)' = Duplicates(m, n)
      BY <1>6, JudgementStays
    <2>2. /\ \A m \in accepted: OfPage(m, accepted)' = OfPage(m, accepted)
          /\ \A m \in accepted: OfTopic(m, accepted)' = OfTopic(m, accepted)
          /\ \A m \in chosen: OfWords(m, chosen)' = OfWords(m, chosen)
      BY <1>6, <2>1 DEF OfPage, OfTopic, OfWords
    <2>3. QED
      BY <1>6, <2>1, <2>2 DEF Shared
  <1>7. CASE phase \in {"search", "unique", "judge", "retry"}
    <2>1. accepted = {}
      BY <1>7 DEF Placed, Staged
    <2>2. UNCHANGED accepted
      BY <1>7 DEF HunterNext, SkipDegraded, SearchFound, SearchFailed, Searched, UniqueEvidence,
                  Enrich, TooLarge, Judge, JudgeFailed, Retry, RankNext, Ranked, Rerank,
                  Reranked, Record, Recorded
    <2>3. QED
      BY <1>5, <2>1, <2>2
  <1>8. CASE phase \notin {"search", "unique", "judge", "retry"}
    BY <1>3, <1>4, <1>6, <1>8
    DEF HunterNext, SkipDegraded, SearchFound, SearchFailed, Searched, UniqueEvidence, Enrich,
        TooLarge, Judge, JudgeFailed, Retry, Ranked, Reranked, Record, Recorded
  <1>9. QED
    BY <1>7, <1>8

-----------------------------------------------------------------------------
LEMMA HunterInvariance == HunterSpec => []HunterInv
  <1>1. HunterInv /\ [HunterNext]_hunterVars => HunterInv'
    <2> SUFFICES ASSUME HunterInv, [HunterNext]_hunterVars PROVE HunterInv'
      OBVIOUS
    <2>1. CASE HunterNext
      BY <2>1, PlacedNext, HeededNext, StagedNext, UnrepeatedNext, SharedNext DEF HunterInv
    <2>2. CASE UNCHANGED hunterVars
      <3>1. Placed' /\ SourcesHeeded' /\ Unrepeated'
        BY <2>2 DEF HunterInv, hunterVars, Placed, SourcesHeeded, Unrepeated, Repeats
      <3>2. Prepared(offers)' = Prepared(offers)
        BY <2>2, JudgementStays DEF hunterVars
      <3>3. Staged'
        BY <2>2, <3>2 DEF HunterInv, hunterVars, Staged
      <3>4. /\ \A n: KeyOf(n)' = KeyOf(n)
            /\ \A m, n: Duplicates(m, n)' = Duplicates(m, n)
        BY <2>2, JudgementStays DEF hunterVars
      <3>5. Shared'
        BY <2>2, <3>4 DEF HunterInv, hunterVars, Shared, OfPage, OfTopic, OfWords
      <3>6. QED
        BY <3>1, <3>3, <3>5 DEF HunterInv
    <2>3. QED
      BY <2>1, <2>2
  <1>2. QED
    BY <1>1, HunterBegins, PTL DEF HunterSpec

(* A page that is cited is cited at one place: pages of one address have   *)
(* one key, and no key is kept twice.                                      *)
LEMMA CitedOnce ==
  ASSUME HunterInv, NEW k \in accepted PROVE Cardinality(Cited(offers[k])) = 1
  <1>1. Cited(offers[k]) # {}
    BY DEF HunterInv, Staged, Prepared
  <1>2. PICK i: i \in Cited(offers[k])
    BY <1>1
  <1>3. \A n \in DOMAIN found: found[n] \in Items
    BY DEF HunterInv, Placed
  <1>4. ASSUME NEW n \in Cited(offers[k]) PROVE n = i
    <2>1. found[n].url = found[i].url /\ n \in kept /\ i \in kept
      BY <1>2, <1>4 DEF Cited, HunterInv, Placed
    <2>2. found[n].key = found[i].key
      BY <1>3, <2>1, HunterAssumption DEF HunterInv, Placed
    <2>3. QED
      BY <2>1, <2>2 DEF HunterInv, Unrepeated, Repeats
  <1>5. Cited(offers[k]) = {i}
    BY <1>2, <1>4
  <1>6. QED
    BY <1>5, FS_Singleton

(* For every source list, answer, proposal and quota: a source that failed *)
(* is left alone for the run, what is accepted cites one page of this run, *)
(* passes the floor and repeats nothing within its quotas, and what is     *)
(* recorded was chosen and manipulates nobody.                             *)
THEOREM HunterHolds == HunterSpec => []HunterSound
  <1>1. HunterInv => HunterSound
    <2> SUFFICES ASSUME HunterInv PROVE HunterSound
      OBVIOUS
    <2>1. HunterTypeOK /\ SourcesHeeded
      BY DEF HunterInv, Placed, HunterTypeOK, Phases
    <2>2. \A i, k \in evidence: i # k => ~Repeats(i, k)
      BY DEF HunterInv, Placed, Unrepeated
    <2>3. \A k \in accepted: /\ ~(given.profile /\ offers[k].unwanted)
                             /\ offers[k].known < 72 /\ PassesFloor(offers[k])
      BY DEF HunterInv, Staged, Prepared
    <2>4. Diverse
      BY <2>2, <2>3, CitedOnce DEF HunterInv, Shared, OfPage, OfTopic, OfWords, Duplicates, Diverse
    <2>5. saved # {} => evidence # {} /\ given.fits
      <3> SUFFICES ASSUME saved # {} PROVE evidence # {} /\ given.fits
        OBVIOUS
      <3>1. PICK k \in saved: k \in accepted /\ k \in DOMAIN offers
        BY DEF HunterInv, Placed
      <3>2. Cited(offers[k]) # {}
        BY <3>1 DEF HunterInv, Staged, Prepared
      <3>3. offers # <<>>
        BY <3>1
      <3>4. QED
        BY <3>2, <3>3 DEF HunterInv, Staged, Cited
    <2>6. RecordedIsChosen
      BY <2>5 DEF HunterInv, Placed, Staged, RecordedIsChosen
    <2>7. QED
      BY <2>1, <2>4, <2>6 DEF HunterSound, HunterInv
  <1>2. QED
    BY <1>1, HunterInvariance, PTL

-----------------------------------------------------------------------------
(* The store.                                                              *)

Topics == {c.topic: c \in Candidates}
Directions == {c.direction: c \in Candidates}
Stages == {"first", "second", "look", "insert", "list", "create",
           "intelligence", "failing", "ended"}
Statuses == {"new", "saved", "ignored", "developing"}

RunRow == [server: Servers, at: Stages, count: Nat, seen: Nat, list: Lists,
           left: SUBSET Nat, titles: SUBSET Topics]
Row == [topic: Topics, direction: Directions, angle: {c.angle: c \in Candidates} \cup {Nothing},
        status: Statuses, run: Nat, seen: Nat, scores: {c.scores: c \in Candidates}]
Asked == [at: {"idle", "ready", "waiting", "answered", "lost"}, server: Servers \cup {Nothing},
          titles: SUBSET Topics, run: Nat]
Person == [at: {"idle", "set", "feedback", "learn"}, action: Actions \cup Feedbacks \cup {Nothing},
           of: Nat, had: BOOLEAN, seen: SUBSET (Nat \X Feedbacks \X Users)]

(* The runs and their records, and who asked for them. *)
Working(r) == runs[r].at \in {"second", "look", "insert", "list", "create", "intelligence"}
RunsShaped ==
  /\ runs \in Seq(RunRow) /\ records \in Seq([status: {"running", "succeeded", "failed"}, count: Nat])
  /\ Len(records) = Len(runs) /\ Len(runs) <= MaxRuns
  /\ requests \in [Requests -> Asked]
  /\ \A q \in Requests: requests[q].at = "ready" => requests[q].server \in Servers
  /\ \A r \in DOMAIN runs:
       /\ runs[r].left \subseteq WithoutTitles(runs[r].list, runs[r].titles)
       /\ Working(r) => runs[r].left # {}
  /\ \A r, n \in DOMAIN runs: runs[r].server = runs[n].server /\ Live(r) /\ Live(n) => r = n

(* A run that is writing its signal holds the keys it has locked so far. *)
KeysHeld ==
  /\ holder \in [Keys -> 0..Len(runs)]
  /\ \A k \in Keys: holder[k] # 0 => runs[holder[k]].at \in {"second", "look", "insert"}
  /\ \A r \in DOMAIN runs:
       /\ runs[r].at \in {"second", "look", "insert"} => holder[<<"key", Now(r).key>>] = r
       /\ runs[r].at \in {"look", "insert"} /\ Now(r).hash # Nothing =>
            holder[<<"hash", Now(r).hash>>] = r
  /\ InsertsDoNotClash

(* What a run has listed and not found similar stays dissimilar, and the   *)
(* last row of a run that owes it an angle has none.                       *)
Owed(r, i) == /\ rows[i].run = r /\ rows[i].angle = Nothing
              /\ \A j \in DOMAIN rows: rows[j].run = r => j <= i
RowsRecorded ==
  /\ rows \in Seq(Row)
  /\ \A i \in DOMAIN rows: rows[i].run \in DOMAIN runs
  /\ \A r \in DOMAIN runs: runs[r].at = "create" =>
       /\ runs[r].seen <= Len(rows)
       /\ \A i \in DOMAIN rows:
            i <= runs[r].seen /\ rows[i].topic = Now(r).topic /\ rows[i].direction = Now(r).direction
              => rows[i].angle \notin {Nothing, rows[i].direction}
  /\ \A r \in DOMAIN runs: runs[r].at = "intelligence" => \E i \in DOMAIN rows: Owed(r, i)
  /\ RecordedOnce

Of(r) == {i \in DOMAIN rows: rows[i].run = r}
Counted ==
  /\ \A r \in DOMAIN runs: runs[r].count = Cardinality(Of(r))
  /\ \A r \in DOMAIN runs: records[r].status = "succeeded" =>
       runs[r].at \in {"failing", "ended"} /\ records[r].count = runs[r].count

(* People work on rows there are and learn what they have recorded. *)
PeopleHonest ==
  /\ users \in [Users -> Person]
  /\ preference \in [there: BOOLEAN, of: SUBSET (Nat \X Feedbacks \X Users)]
  /\ ideas \in Seq(Nat) /\ \A i \in DOMAIN ideas: ideas[i] \in DOMAIN rows
  /\ events \subseteq (DOMAIN rows) \X Feedbacks \X Users /\ preference.of \subseteq events
  /\ \A u \in Users:
       /\ users[u].at # "idle" => users[u].of \in DOMAIN rows
       /\ users[u].at = "set" => users[u].action \in {"save", "ignore", "develop"}
       /\ users[u].at = "learn" => /\ users[u].seen \subseteq events
                                   /\ <<users[u].of, users[u].action, u>> \in events
  /\ OneIdea /\ LearningKept

Inv == RunsShaped /\ KeysHeld /\ RowsRecorded /\ Counted /\ PeopleHonest
-----------------------------------------------------------------------------
(* A set of numbers has a least one, so what Least chooses is in the set.  *)
Less == OpToRel(<, Nat)

LEMMA LessIs == \A x, y \in Nat: <<x, y>> \in Less <=> x < y
  <1>1. Less = {ss \in Nat \X Nat: ss[1] < ss[2]}
    BY DEF OpToRel, Less
  <1>2. QED
    BY <1>1

LEMMA LeastIsIn ==
  ASSUME NEW S \in SUBSET Nat, S # {}
  PROVE  Least(S) \in S /\ \A y \in S: Least(S) <= y
  <1>1. IsWellFoundedOn(Less, Nat)
    BY NatLessThanWellFounded DEF Less
  <1>2. PICK x \in S: \A y \in S: ~(<<y, x>> \in Less)
    BY <1>1, WFMin
  <1>3. ASSUME NEW y \in S PROVE x <= y
    <2>1. x \in Nat /\ y \in Nat
      OBVIOUS
    <2>2. ~(<<y, x>> \in Less)
      BY <1>2
    <2>3. ~(y < x)
      BY <2>1, <2>2, LessIs, Zenon
    <2>4. QED
      BY <2>1, <2>3
  <1>4. QED
    BY <1>3 DEF Least

(* What a run works on is a candidate that its request had not read.       *)
LEMMA NowIs ==
  ASSUME RunsShaped, NEW r \in DOMAIN runs, runs[r].left # {}
  PROVE  /\ Now(r) \in Candidates
         /\ Now(r).topic \in Topics /\ Now(r).direction \in Directions
         /\ Now(r).topic \notin runs[r].titles
  <1>1. runs[r] \in RunRow /\ runs[r].left \subseteq WithoutTitles(runs[r].list, runs[r].titles)
    BY DEF RunsShaped
  <1>2. /\ runs[r].left \in SUBSET Nat /\ runs[r].list \in Lists
    BY <1>1 DEF RunRow
  <1>3. Least(runs[r].left) \in WithoutTitles(runs[r].list, runs[r].titles)
    BY <1>1, <1>2, LeastIsIn
  <1>4. /\ Least(runs[r].left) \in DOMAIN runs[r].list
        /\ Now(r).topic \notin runs[r].titles
    BY <1>3 DEF WithoutTitles, Now
  <1>5. Now(r) \in Candidates
    BY <1>2, <1>4 DEF Now, Candidates
  <1>6. QED
    BY <1>4, <1>5 DEF Topics, Directions

-----------------------------------------------------------------------------
(* A step of a run changes its own row and in it only what is named here.  *)
Moves(r, at, remaining, count, seen) ==
  /\ r \in DOMAIN runs /\ runs' \in Seq(RunRow) /\ Len(runs') = Len(runs)
  /\ \A n \in DOMAIN runs: n # r => runs'[n] = runs[n]
  /\ runs'[r].at = at /\ runs'[r].left = remaining /\ runs'[r].count = count /\ runs'[r].seen = seen
  /\ runs'[r].server = runs[r].server /\ runs'[r].list = runs[r].list
  /\ runs'[r].titles = runs[r].titles
Stays(r, at) == Moves(r, at, runs[r].left, runs[r].count, runs[r].seen)

LEMMA MoveOf ==
  ASSUME RunsShaped, NEW r \in DOMAIN runs, NEW at \in Stages, NEW remaining \in SUBSET Nat,
         NEW count \in Nat, NEW seen \in Nat,
         runs' = [runs EXCEPT ![r] = [server |-> runs[r].server, at |-> at, count |-> count,
                     seen |-> seen, list |-> runs[r].list, left |-> remaining,
                     titles |-> runs[r].titles]]
  PROVE  Moves(r, at, remaining, count, seen)
  <1> DEFINE v == [server |-> runs[r].server, at |-> at, count |-> count, seen |-> seen,
                   list |-> runs[r].list, left |-> remaining, titles |-> runs[r].titles]
  <1>1. runs \in Seq(RunRow) /\ DOMAIN runs = 1..Len(runs) /\ runs[r] \in RunRow
    BY DEF RunsShaped
  <1>2. v \in RunRow
    BY <1>1 DEF RunRow
  <1>3. runs' = [runs EXCEPT ![r] = v]
    OBVIOUS
  <1> HIDE DEF v
  <1>4. /\ runs' \in Seq(RunRow) /\ Len(runs') = Len(runs)
        /\ \A n \in 1..Len(runs): runs'[n] = IF n = r THEN v ELSE runs[n]
    BY <1>1, <1>2, <1>3, ExceptSeq
  <1>5. runs'[r] = v /\ \A n \in DOMAIN runs: n # r => runs'[n] = runs[n]
    BY <1>1, <1>4
  <1>6. QED
    BY <1>4, <1>5 DEF Moves, v

LEMMA GotoStays ==
  ASSUME RunsShaped, NEW r \in DOMAIN runs, NEW at \in Stages, Goto(r, at)
  PROVE  Stays(r, at)
  <1>1. runs \in Seq(RunRow) /\ runs[r] \in RunRow
    BY DEF RunsShaped
  <1>2. /\ runs[r].left \in SUBSET Nat /\ runs[r].count \in Nat /\ runs[r].seen \in Nat
        /\ [runs[r] EXCEPT !.at = at]
              = [server |-> runs[r].server, at |-> at, count |-> runs[r].count,
                 seen |-> runs[r].seen, list |-> runs[r].list, left |-> runs[r].left,
                 titles |-> runs[r].titles]
    BY <1>1 DEF RunRow
  <1>3. runs' = [runs EXCEPT ![r] = [runs[r] EXCEPT !.at = at]]
    BY DEF Goto
  <1>4. QED
    BY <1>2, <1>3, MoveOf DEF Stays

(* Two fields of a row are written at once. *)
LEMMA TwoFields ==
  ASSUME NEW v \in RunRow, NEW at \in Stages, NEW remaining \in SUBSET Nat, NEW n \in Nat
  PROVE  /\ [v EXCEPT !.at = at, !.left = remaining]
              = [server |-> v.server, at |-> at, count |-> v.count, seen |-> v.seen,
                 list |-> v.list, left |-> remaining, titles |-> v.titles]
         /\ [v EXCEPT !.at = at, !.seen = n]
              = [server |-> v.server, at |-> at, count |-> v.count, seen |-> n,
                 list |-> v.list, left |-> v.left, titles |-> v.titles]
         /\ [v EXCEPT !.at = at, !.count = n]
              = [server |-> v.server, at |-> at, count |-> n, seen |-> v.seen,
                 list |-> v.list, left |-> v.left, titles |-> v.titles]
  <1> DEFINE x == [v EXCEPT !.at = at]
  <1>1. /\ x \in RunRow /\ x.server = v.server /\ x.at = at /\ x.count = v.count
        /\ x.seen = v.seen /\ x.list = v.list /\ x.left = v.left /\ x.titles = v.titles
    BY DEF RunRow
  <1>2. /\ [v EXCEPT !.at = at, !.left = remaining] = [x EXCEPT !.left = remaining]
        /\ [v EXCEPT !.at = at, !.seen = n] = [x EXCEPT !.seen = n]
        /\ [v EXCEPT !.at = at, !.count = n] = [x EXCEPT !.count = n]
    OBVIOUS
  <1> HIDE DEF x
  <1>3. [x EXCEPT !.left = remaining]
              = [server |-> x.server, at |-> x.at, count |-> x.count, seen |-> x.seen,
                 list |-> x.list, left |-> remaining, titles |-> x.titles]
    BY <1>1 DEF RunRow
  <1>4. [x EXCEPT !.seen = n]
              = [server |-> x.server, at |-> x.at, count |-> x.count, seen |-> n,
                 list |-> x.list, left |-> x.left, titles |-> x.titles]
    BY <1>1 DEF RunRow
  <1>5. [x EXCEPT !.count = n]
              = [server |-> x.server, at |-> x.at, count |-> n, seen |-> x.seen,
                 list |-> x.list, left |-> x.left, titles |-> x.titles]
    BY <1>1 DEF RunRow
  <1>6. QED
    BY <1>1, <1>2, <1>3, <1>4, <1>5

(* What each step does to the row of its run. *)
LEMMA NextCandidateMoves ==
  ASSUME RunsShaped, NEW r \in DOMAIN runs, runs[r].left # {},
         runs' = [runs EXCEPT ![r] = NextCandidate(r)]
  PROVE  Moves(r, "first", runs[r].left \ {Least(runs[r].left)}, runs[r].count, runs[r].seen)
  <1> DEFINE rest == runs[r].left \ {Least(runs[r].left)}
  <1>1. runs \in Seq(RunRow) /\ runs[r] \in RunRow
    BY DEF RunsShaped
  <1>2. /\ rest \in SUBSET Nat /\ runs[r].count \in Nat /\ runs[r].seen \in Nat
    BY <1>1 DEF RunRow
  <1>3. NextCandidate(r)
              = [server |-> runs[r].server, at |-> "first", count |-> runs[r].count,
                 seen |-> runs[r].seen, list |-> runs[r].list, left |-> rest,
                 titles |-> runs[r].titles]
    BY <1>1, <1>2, TwoFields DEF NextCandidate, Stages
  <1>4. QED
    BY <1>2, <1>3, MoveOf DEF Stages

LEMMA ListMoves ==
  ASSUME RunsShaped, RowsRecorded, NEW r \in DOMAIN runs, ListAndCompare(r)
  PROVE  \/ Moves(r, "first", runs[r].left \ {Least(runs[r].left)}, runs[r].count, runs[r].seen)
         \/ /\ Moves(r, "create", runs[r].left, runs[r].count, Len(rows))
            /\ ~\E i \in DOMAIN rows: materiallySimilarOpportunity(Now(r), rows[i])
  <1>1. runs \in Seq(RunRow) /\ runs[r] \in RunRow /\ runs[r].left # {} /\ Len(rows) \in Nat
    BY DEF RunsShaped, ListAndCompare, At, Working, RowsRecorded
  <1>2. CASE runs' = [runs EXCEPT ![r] = NextCandidate(r)]
    BY <1>1, <1>2, NextCandidateMoves
  <1>3. CASE /\ runs' = [runs EXCEPT ![r] = [@ EXCEPT !.at = "create", !.seen = Len(rows)]]
             /\ ~\E i \in DOMAIN rows: materiallySimilarOpportunity(Now(r), rows[i])
    <2>2. /\ runs[r].left \in SUBSET Nat /\ runs[r].count \in Nat
      BY <1>1 DEF RunRow
    <2>1. [runs[r] EXCEPT !.at = "create", !.seen = Len(rows)]
              = [server |-> runs[r].server, at |-> "create", count |-> runs[r].count,
                 seen |-> Len(rows), list |-> runs[r].list, left |-> runs[r].left,
                 titles |-> runs[r].titles]
      BY <1>1, <2>2, TwoFields DEF Stages
    <2>3. runs' = [runs EXCEPT ![r] = [runs[r] EXCEPT !.at = "create", !.seen = Len(rows)]]
      BY <1>3
    <2>4. Moves(r, "create", runs[r].left, runs[r].count, Len(rows))
      BY <1>1, <2>1, <2>2, <2>3, MoveOf DEF Stages
    <2>5. QED
      BY <1>3, <2>4
  <1>4. QED
    BY <1>2, <1>3 DEF ListAndCompare

LEMMA CreateMoves ==
  ASSUME RunsShaped, NEW r \in DOMAIN runs, CreateBrandOpportunity(r)
  PROVE  Moves(r, "intelligence", runs[r].left, runs[r].count + 1, runs[r].seen)
  <1>1. runs \in Seq(RunRow) /\ runs[r] \in RunRow
    BY DEF RunsShaped
  <1>2. /\ runs[r].left \in SUBSET Nat /\ runs[r].count + 1 \in Nat /\ runs[r].seen \in Nat
    BY <1>1 DEF RunRow
  <1>3. runs' = [runs EXCEPT ![r] = [runs[r] EXCEPT !.at = "intelligence",
                                                    !.count = runs[r].count + 1]]
    BY <1>1 DEF CreateBrandOpportunity
  <1>4. [runs[r] EXCEPT !.at = "intelligence", !.count = runs[r].count + 1]
              = [server |-> runs[r].server, at |-> "intelligence", count |-> runs[r].count + 1,
                 seen |-> runs[r].seen, list |-> runs[r].list, left |-> runs[r].left,
                 titles |-> runs[r].titles]
    BY <1>1, <1>2, TwoFields DEF Stages
  <1>5. QED
    BY <1>2, <1>3, <1>4, MoveOf DEF Stages

SignalSteps(r) == Lock(r, 1) \/ Lock(r, 2) \/ LookForSignal(r) \/ InsertSignal(r)
LEMMA SignalMoves ==
  ASSUME RunsShaped, NEW r \in DOMAIN runs
  PROVE  /\ Lock(r, 1) => Stays(r, "second")
         /\ Lock(r, 2) => Stays(r, "look")
         /\ LookForSignal(r) => Stays(r, "list") \/ Stays(r, "insert")
         /\ InsertSignal(r) => Stays(r, "list")
  BY GotoStays DEF Lock, LookForSignal, InsertSignal, Stages

-----------------------------------------------------------------------------
(* RunsShaped: the runs, their records and the requests.                   *)
AskedWell(reqs) ==
  /\ reqs \in [Requests -> Asked]
  /\ \A q \in Requests: reqs[q].at = "ready" => reqs[q].server \in Servers

LEMMA AnswerIsWell == ASSUME AskedWell(requests), NEW r PROVE AskedWell(Answer(r))
  <1>1. ASSUME NEW q \in Requests
        PROVE  /\ Answer(r)[q] \in Asked
               /\ Answer(r)[q].at = "ready" => Answer(r)[q].server \in Servers
    <2>1. requests[q] \in Asked /\ (requests[q].at = "ready" => requests[q].server \in Servers)
      BY DEF AskedWell
    <2>2. CASE requests[q].run = r /\ requests[q].at = "waiting"
      BY <2>1, <2>2 DEF Answer, Asked
    <2>3. CASE ~(requests[q].run = r /\ requests[q].at = "waiting")
      BY <2>1, <2>3 DEF Answer
    <2>4. QED
      BY <2>2, <2>3
  <1>2. QED
    BY <1>1 DEF AskedWell, Answer

LEMMA FinishedIsWell ==
  ASSUME RunsShaped, NEW r \in DOMAIN runs, NEW status \in {"succeeded", "failed"},
         NEW count \in Nat, Finished(r, status, count)
  PROVE  /\ records' \in Seq([status: {"running", "succeeded", "failed"}, count: Nat])
         /\ Len(records') = Len(records)
         /\ \A n \in DOMAIN records: n # r => records'[n] = records[n]
         /\ \/ records'[r] = records[r]
            \/ records'[r] = [status |-> status, count |-> count]
  <1> DEFINE K == [status: {"running", "succeeded", "failed"}, count: Nat]
             v == [status |-> status, count |-> count]
  <1>1. records \in Seq(K) /\ r \in 1..Len(records) /\ DOMAIN records = 1..Len(records) /\ v \in K
    BY DEF RunsShaped
  <1>2. CASE records' = records
    BY <1>1, <1>2
  <1>3. CASE records' = [records EXCEPT ![r] = v]
    <2> HIDE DEF v, K
    <2>1. /\ records' \in Seq(K) /\ Len(records') = Len(records)
          /\ \A n \in 1..Len(records): records'[n] = IF n = r THEN v ELSE records[n]
      BY <1>1, <1>3, ExceptSeq
    <2>2. QED
      BY <1>1, <2>1 DEF v, K
  <1>4. QED
    BY <1>2, <1>3 DEF Finished

LEMMA RunsShapedMoved ==
  ASSUME RunsShaped, NEW r \in DOMAIN runs, NEW at, NEW remaining, NEW count, NEW seen,
         Moves(r, at, remaining, count, seen), Live(r), remaining \subseteq runs[r].left,
         at \notin {"first", "failing", "ended"} => remaining # {},
         records' \in Seq([status: {"running", "succeeded", "failed"}, count: Nat]),
         Len(records') = Len(records), AskedWell(requests')
  PROVE  RunsShaped'
  <1>1. /\ DOMAIN runs' = DOMAIN runs /\ Len(runs') = Len(runs) /\ runs' \in Seq(RunRow)
        /\ \A n \in DOMAIN runs: n # r => runs'[n] = runs[n]
    BY DEF Moves, RunsShaped
  <1>2. ASSUME NEW n \in DOMAIN runs
        PROVE  /\ runs'[n].left \subseteq WithoutTitles(runs'[n].list, runs'[n].titles)
               /\ Working(n)' => runs'[n].left # {}
               /\ runs'[n].server = runs[n].server
               /\ Live(n)' => Live(n)
    <2>1. CASE n = r
      BY <2>1 DEF Moves, RunsShaped, Working, Live
    <2>2. CASE n # r
      BY <1>1, <2>2 DEF RunsShaped, Working, Live
    <2>3. QED
      BY <2>1, <2>2
  <1>3. QED
    BY <1>1, <1>2 DEF RunsShaped, AskedWell

LEMMA WriteMoves ==
  ASSUME RunsShaped, NEW r \in DOMAIN runs, NEW stored \in BOOLEAN, WriteIntelligence(r, stored)
  PROVE  \/ Stays(r, "failing") /\ UNCHANGED rows
         \/ /\ Moves(r, "first", runs[r].left \ {Least(runs[r].left)}, runs[r].count, runs[r].seen)
            /\ rows' = IF stored THEN [rows EXCEPT ![Mine(r)].angle = Now(r).angle] ELSE rows
  <1>1. CASE Now(r).long
    BY <1>1, GotoStays DEF WriteIntelligence, Stages
  <1>2. CASE ~Now(r).long
    <2>1. runs[r].left # {}
      BY DEF RunsShaped, WriteIntelligence, At, Working
    <2>2. QED
      BY <1>2, <2>1, NextCandidateMoves DEF WriteIntelligence
  <1>3. QED
    BY <1>1, <1>2

LEMMA RunShaped ==
  ASSUME RunsShaped, RowsRecorded, NEW r \in DOMAIN runs, Step(r) \/ Faults(r)
  PROVE  RunsShaped'
  <1>0. /\ runs \in Seq(RunRow) /\ runs[r] \in RunRow /\ AskedWell(requests)
        /\ records \in Seq([status: {"running", "succeeded", "failed"}, count: Nat])
        /\ Working(r) => runs[r].left # {}
    BY DEF RunsShaped, AskedWell
  <1>1. ASSUME NEW at, NEW remaining, NEW count, NEW seen, Moves(r, at, remaining, count, seen),
               remaining \subseteq runs[r].left, Live(r),
               at \notin {"first", "failing", "ended"} => remaining # {},
               UNCHANGED <<records, requests>>
        PROVE  RunsShaped'
    BY <1>0, <1>1, RunsShapedMoved DEF AskedWell
  <1>2. CASE SignalSteps(r)
    <2>1. Live(r) /\ runs[r].left # {} /\ UNCHANGED <<records, requests>>
      BY <1>0, <1>2 DEF SignalSteps, Lock, LookForSignal, InsertSignal, At, Live, Working, Stored
    <2>2. Stays(r, "second") \/ Stays(r, "look") \/ Stays(r, "list") \/ Stays(r, "insert")
      BY <1>2, SignalMoves DEF SignalSteps
    <2>3. QED
      BY <1>1, <2>1, <2>2 DEF Stays
  <1>3. CASE ListAndCompare(r)
    <2>1. Live(r) /\ runs[r].left # {} /\ UNCHANGED <<records, requests>>
      BY <1>0, <1>3 DEF ListAndCompare, At, Live, Working, Stored
    <2>2. QED
      BY <1>1, <1>3, <2>1, ListMoves
  <1>4. CASE CreateBrandOpportunity(r)
    <2>1. Live(r) /\ runs[r].left # {} /\ UNCHANGED <<records, requests>>
      BY <1>0, <1>4 DEF CreateBrandOpportunity, At, Live, Working
    <2>2. QED
      BY <1>1, <1>4, <2>1, CreateMoves
  <1>5. CASE \E stored \in BOOLEAN: WriteIntelligence(r, stored)
    <2>1. Live(r) /\ UNCHANGED <<records, requests>>
      BY <1>0, <1>5 DEF WriteIntelligence, At, Live
    <2>2. \/ Stays(r, "failing")
          \/ Moves(r, "first", runs[r].left \ {Least(runs[r].left)}, runs[r].count, runs[r].seen)
      BY <1>5, WriteMoves
    <2>3. QED
      BY <1>1, <2>1, <2>2 DEF Stays
  <1>6. CASE RunRaises(r)
    <2>1. Live(r) /\ Stays(r, "failing") /\ UNCHANGED <<records, requests>>
      BY <1>6, GotoStays DEF RunRaises, Live, Stored, Stages
    <2>2. QED
      BY <1>1, <2>1 DEF Stays
  <1>7. CASE \E heard \in BOOLEAN: Complete(r, heard)
    <2>1. Live(r) /\ runs[r].count \in Nat
      BY <1>0, <1>7 DEF Complete, At, Live, RunRow
    <2>2. Stays(r, "ended") \/ Stays(r, "failing")
      BY <1>7, GotoStays DEF Complete, Stages
    <2>3. AskedWell(requests')
      BY <1>0, <1>7, AnswerIsWell DEF Complete, AskedWell
    <2>4. Finished(r, "succeeded", runs[r].count)
      BY <1>7 DEF Complete
    <2>5. /\ records' \in Seq([status: {"running", "succeeded", "failed"}, count: Nat])
          /\ Len(records') = Len(records)
      BY <2>1, <2>4, FinishedIsWell
    <2>6. QED
      BY <2>1, <2>2, <2>3, <2>5, RunsShapedMoved DEF Stays
  <1>8. CASE \E stored \in BOOLEAN: Fail(r, stored)
    <2>1. Live(r) /\ Stays(r, "ended")
      BY <1>8, GotoStays DEF Fail, At, Live, Stages
    <2>2. AskedWell(requests')
      BY <1>0, <1>8, AnswerIsWell DEF Fail
    <2>3. UNCHANGED records \/ Finished(r, "failed", 0)
      BY <1>8 DEF Fail
    <2>4. /\ records' \in Seq([status: {"running", "succeeded", "failed"}, count: Nat])
          /\ Len(records') = Len(records)
      BY <1>0, <2>3, FinishedIsWell
    <2>5. QED
      BY <2>1, <2>2, <2>4, RunsShapedMoved DEF Stays
  <1>9. QED
    BY <1>2, <1>3, <1>4, <1>5, <1>6, <1>7, <1>8 DEF Step, Faults, SignalSteps

(* A request starts a run of its process only when none is live.           *)
Starts(q, l) ==
  [server |-> requests[q].server, at |-> "first", count |-> 0, seen |-> 0, list |-> l,
   left |-> WithoutTitles(l, requests[q].titles), titles |-> requests[q].titles]

LEMMA StartAppends ==
  ASSUME RunsShaped, NEW q \in Requests, NEW l \in Lists, StartRun(q, l)
  PROVE  /\ Starts(q, l) \in RunRow
         /\ runs' \in Seq(RunRow) /\ Len(runs') = Len(runs) + 1
         /\ \A n \in DOMAIN runs: runs'[n] = runs[n]
         /\ runs'[Len(runs) + 1] = Starts(q, l)
         /\ records' \in Seq([status: {"running", "succeeded", "failed"}, count: Nat])
         /\ Len(records') = Len(records) + 1
         /\ \A n \in DOMAIN records: records'[n] = records[n]
         /\ records'[Len(records) + 1] = [status |-> "running", count |-> 0]
  <1> DEFINE K == [status: {"running", "succeeded", "failed"}, count: Nat]
             v == Starts(q, l)
             k == [status |-> "running", count |-> 0]
  <1>1. /\ runs \in Seq(RunRow) /\ records \in Seq(K) /\ requests[q] \in Asked
        /\ requests[q].server \in Servers /\ k \in K
    BY DEF RunsShaped, StartRun
  <1>2. v \in RunRow
    <2>1. l \in Seq(Candidates)
      BY StoreAssumption
    <2>2. WithoutTitles(l, requests[q].titles) \in SUBSET Nat
      BY <2>1 DEF WithoutTitles
    <2>3. QED
      BY <1>1, <2>2 DEF RunRow, Stages, Starts, Asked
  <1>3. runs' = Append(runs, v) /\ records' = Append(records, k)
    BY DEF StartRun, Starts
  <1> HIDE DEF v, K, k
  <1>4. /\ runs' \in Seq(RunRow) /\ Len(runs') = Len(runs) + 1
        /\ \A n \in 1..Len(runs): runs'[n] = runs[n]
        /\ runs'[Len(runs) + 1] = v
    BY <1>1, <1>2, <1>3, AppendProperties
  <1>5. /\ records' \in Seq(K) /\ Len(records') = Len(records) + 1
        /\ \A n \in 1..Len(records): records'[n] = records[n]
        /\ records'[Len(records) + 1] = k
    BY <1>1, <1>3, AppendProperties
  <1>6. DOMAIN runs = 1..Len(runs) /\ DOMAIN records = 1..Len(records)
    BY <1>1
  <1>7. QED
    BY <1>2, <1>4, <1>5, <1>6 DEF v, K, k

LEMMA StartShaped ==
  ASSUME RunsShaped, NEW q \in Requests, NEW l \in Lists, StartRun(q, l)
  PROVE  RunsShaped'
  <1> DEFINE r == Len(runs) + 1
  <1>1. /\ DOMAIN runs = 1..Len(runs) /\ DOMAIN runs' = 1..r /\ Len(runs) \in Nat
        /\ \A n \in DOMAIN runs: runs'[n] = runs[n]
        /\ runs'[r] = Starts(q, l)
        /\ runs' \in Seq(RunRow) /\ Len(runs') = r /\ Len(records') = r
        /\ records' \in Seq([status: {"running", "succeeded", "failed"}, count: Nat])
    BY StartAppends DEF RunsShaped
  <1>2. Len(runs') <= MaxRuns
    BY <1>1, StoreAssumption DEF StartRun
  <1>3. AskedWell(requests')
    <2>1. requests \in [Requests -> Asked] /\ Len(runs) + 1 \in Nat
      BY <1>1 DEF RunsShaped
    <2>2. /\ requests' = [requests EXCEPT ![q] = [requests[q] EXCEPT !.at = "waiting", !.run = r]]
      BY <2>1 DEF StartRun
    <2>3. /\ [requests[q] EXCEPT !.at = "waiting", !.run = r] \in Asked
          /\ [requests[q] EXCEPT !.at = "waiting", !.run = r].at = "waiting"
      BY <2>1 DEF Asked
    <2>4. QED
      BY <2>1, <2>2, <2>3 DEF AskedWell, RunsShaped
  <1>4. ASSUME NEW n \in DOMAIN runs'
        PROVE  /\ runs'[n].left \subseteq WithoutTitles(runs'[n].list, runs'[n].titles)
               /\ Working(n)' => runs'[n].left # {}
    <2>1. CASE n = r
      BY <1>1, <2>1 DEF Starts, Working
    <2>2. CASE n # r
      <3>1. n \in DOMAIN runs /\ runs'[n] = runs[n]
        BY <1>1, <2>2
      <3>2. QED
        BY <3>1 DEF RunsShaped, Working
    <2>3. QED
      BY <2>1, <2>2
  <1>5. ASSUME NEW n \in DOMAIN runs', NEW m \in DOMAIN runs',
               runs'[n].server = runs'[m].server, Live(n)', Live(m)'
        PROVE  n = m
    <2>1. \A k \in DOMAIN runs: runs[k].server = requests[q].server => ~Live(k)
      BY DEF StartRun, InFlight
    <2>2. CASE n = r \/ m = r
      BY <1>1, <1>5, <2>1, <2>2 DEF Starts, Live
    <2>3. CASE n # r /\ m # r
      <3>1. n \in DOMAIN runs /\ runs'[n] = runs[n] /\ m \in DOMAIN runs /\ runs'[m] = runs[m]
        BY <1>1, <2>3
      <3>2. QED
        BY <1>5, <3>1 DEF RunsShaped, Live
    <2>4. QED
      BY <2>2, <2>3
  <1>6. QED
    BY <1>1, <1>2, <1>3, <1>4, <1>5 DEF RunsShaped, AskedWell

LEMMA AskShaped ==
  ASSUME RunsShaped, NEW q \in Requests, Join(q) \/ \E s \in Servers: Recommend(q, s),
         rows \in Seq(Row)
  PROVE  RunsShaped'
  <1>1. requests \in [Requests -> Asked] /\ UNCHANGED <<runs, records>>
    BY DEF RunsShaped, Join, Recommend, Stored
  <1>2. CASE Join(q)
    <2>1. PICK r \in DOMAIN runs:
            requests' = [requests EXCEPT ![q] = [requests[q] EXCEPT !.at = "waiting", !.run = r]]
      BY <1>1, <1>2 DEF Join, InFlight
    <2>2. r \in Nat
      BY DEF RunsShaped
    <2>3. /\ [requests[q] EXCEPT !.at = "waiting", !.run = r] \in Asked
          /\ [requests[q] EXCEPT !.at = "waiting", !.run = r].at = "waiting"
      BY <1>1, <2>2 DEF Asked
    <2>4. AskedWell(requests')
      BY <1>1, <2>1, <2>3 DEF RunsShaped, AskedWell
    <2>5. QED
      BY <1>1, <2>4 DEF RunsShaped, AskedWell, Working, Live
  <1>3. CASE \E s \in Servers: Recommend(q, s)
    <2>1. PICK s \in Servers: Recommend(q, s)
      BY <1>3
    <2> DEFINE v == [at |-> "ready", server |-> s, run |-> 0,
                     titles |-> {rows[i].topic: i \in DOMAIN rows}]
    <2>2. v \in Asked
      <3>1. \A i \in DOMAIN rows: rows[i] \in Row
        OBVIOUS
      <3>2. {rows[i].topic: i \in DOMAIN rows} \in SUBSET Topics
        BY <3>1 DEF Row
      <3>3. QED
        BY <3>2 DEF Asked
    <2>3. requests' = [requests EXCEPT ![q] = v]
      BY <2>1 DEF Recommend
    <2>4. v.at = "ready" /\ v.server \in Servers
      OBVIOUS
    <2> HIDE DEF v
    <2>5. AskedWell(requests')
      BY <1>1, <2>2, <2>3, <2>4 DEF RunsShaped, AskedWell
    <2>6. QED
      BY <1>1, <2>5 DEF RunsShaped, AskedWell, Working, Live
  <1>4. QED
    BY <1>2, <1>3

(* The runs of a process that crashes end, the others do not notice.       *)
LEMMA CrashEnds ==
  ASSUME RunsShaped, NEW s \in Servers, Crash(s)
  PROVE  /\ runs' \in Seq(RunRow) /\ Len(runs') = Len(runs) /\ DOMAIN runs' = DOMAIN runs
         /\ \A n \in DOMAIN runs:
              /\ runs[n].server # s => runs'[n] = runs[n]
              /\ runs[n].server = s => runs'[n].at = "ended"
              /\ runs'[n].server = runs[n].server /\ runs'[n].list = runs[n].list
              /\ runs'[n].left = runs[n].left /\ runs'[n].titles = runs[n].titles
              /\ runs'[n].count = runs[n].count /\ runs'[n].seen = runs[n].seen
  <1>1. runs \in Seq(RunRow) /\ DOMAIN runs = 1..Len(runs) /\ Len(runs) \in Nat
    BY DEF RunsShaped
  <1>2. runs' = [n \in DOMAIN runs |-> IF runs[n].server = s THEN [runs[n] EXCEPT !.at = "ended"]
                                       ELSE runs[n]]
    BY DEF Crash
  <1>3. ASSUME NEW n \in DOMAIN runs
        PROVE  /\ runs'[n] \in RunRow
               /\ runs[n].server # s => runs'[n] = runs[n]
               /\ runs[n].server = s => runs'[n].at = "ended"
               /\ runs'[n].server = runs[n].server /\ runs'[n].list = runs[n].list
               /\ runs'[n].left = runs[n].left /\ runs'[n].titles = runs[n].titles
               /\ runs'[n].count = runs[n].count /\ runs'[n].seen = runs[n].seen
    <2>1. runs[n] \in RunRow
      BY <1>1
    <2>2. CASE runs[n].server = s
      <3>1. runs'[n] = [runs[n] EXCEPT !.at = "ended"]
        BY <1>2, <2>2
      <3>2. QED
        BY <2>1, <2>2, <3>1 DEF RunRow, Stages
    <2>3. CASE runs[n].server # s
      BY <1>2, <2>1, <2>3
    <2>4. QED
      BY <2>2, <2>3
  <1>4. runs' \in [1..Len(runs) -> RunRow]
    BY <1>1, <1>2, <1>3
  <1>5. runs' \in Seq(RunRow) /\ Len(runs') = Len(runs)
    <2>1. runs' \in Seq(RunRow)
      BY <1>1, <1>4, SeqDef
    <2>2. DOMAIN runs' = 1..Len(runs)
      BY <1>4
    <2>3. QED
      BY <1>1, <2>1, <2>2, LenProperties
  <1>6. QED
    BY <1>1, <1>3, <1>4, <1>5

LEMMA CrashShaped ==
  ASSUME RunsShaped, NEW s \in Servers, Crash(s)
  PROVE  RunsShaped'
  <1>1. AskedWell(requests')
    <2>1. requests \in [Requests -> Asked]
      BY DEF RunsShaped
    <2>2. ASSUME NEW q \in Requests
          PROVE  /\ requests'[q] \in Asked
                 /\ requests'[q].at = "ready" => requests'[q].server \in Servers
      <3>1. CASE requests[q].server = s /\ requests[q].at # "answered"
        <4>1. requests'[q] = [requests[q] EXCEPT !.at = "lost"]
          BY <3>1 DEF Crash
        <4>2. QED
          BY <2>1, <4>1 DEF Asked
      <3>2. CASE ~(requests[q].server = s /\ requests[q].at # "answered")
        <4>1. requests'[q] = requests[q]
          BY <3>2 DEF Crash
        <4>2. QED
          BY <2>1, <4>1 DEF RunsShaped
      <3>3. QED
        BY <3>1, <3>2
    <2>3. requests' = [q \in Requests |-> requests'[q]]
      BY DEF Crash
    <2>4. QED
      BY <2>2, <2>3 DEF AskedWell
  <1>2. ASSUME NEW n \in DOMAIN runs
        PROVE  /\ runs'[n].left \subseteq WithoutTitles(runs'[n].list, runs'[n].titles)
               /\ Working(n)' => runs'[n].left # {}
               /\ runs'[n].server = runs[n].server
               /\ Live(n)' => Live(n)
    BY CrashEnds DEF RunsShaped, Working, Live
  <1>3. QED
    BY <1>1, <1>2, CrashEnds DEF RunsShaped, AskedWell, Crash, Stored

People == \E u \in Users: UserEnds(u) \/ \E i \in DOMAIN rows, a \in Actions: UserDoes(u, i, a)
LEMMA PeopleKeepRuns ==
  ASSUME People PROVE UNCHANGED <<signals, holder, records, runs, requests>>
  BY DEF People, UserEnds, UserDoes, Act, setBrandOpportunityStatus, developOpportunity,
         recordFeedback, evolveBrandPreferenceState, Stored

LEMMA RunsShapedNext ==
  ASSUME RunsShaped, RowsRecorded, [Next]_vars
  PROVE  RunsShaped'
  <1>0. rows \in Seq(Row)
    BY DEF RowsRecorded
  <1>1. CASE \E q \in Requests: Request(q) \/ \E s \in Servers: Recommend(q, s)
    BY <1>0, <1>1, StartShaped, AskShaped DEF Request
  <1>2. CASE \E r \in DOMAIN runs: Step(r) \/ Faults(r)
    BY <1>2, RunShaped
  <1>3. CASE \E s \in Servers: Crash(s)
    BY <1>3, CrashShaped
  <1>4. CASE People \/ UNCHANGED vars
    <2>1. UNCHANGED <<records, runs, requests>>
      BY <1>4, PeopleKeepRuns DEF vars
    <2>2. QED
      BY <2>1 DEF RunsShaped, Working, Live
  <1>5. QED
    BY <1>1, <1>2, <1>3, <1>4 DEF Next, People

-----------------------------------------------------------------------------
(* KeysHeld: no two runs write signals that would clash.                   *)
Writing == {"second", "look", "insert"}

LEMMA KeysOf ==
  ASSUME RunsShaped, NEW r \in DOMAIN runs, runs[r].left # {}
  PROVE  <<"key", Now(r).key>> \in Keys /\ <<"hash", Now(r).hash>> \in Keys
  BY NowIs DEF Keys

LEMMA NowStays ==
  ASSUME NEW n \in DOMAIN runs, runs'[n].list = runs[n].list, runs'[n].left = runs[n].left
  PROVE  Now(n)' = Now(n)
  BY DEF Now

(* What the others hold and look for is as it was.                         *)
LEMMA OthersKeys ==
  ASSUME RunsShaped, KeysHeld, NEW r \in DOMAIN runs, NEW at, NEW remaining, NEW count, NEW seen,
         Moves(r, at, remaining, count, seen),
         holder' \in [Keys -> 0..Len(runs)],
         \A k \in Keys: holder[k] \notin {0, r} => holder'[k] = holder[k],
         \A k \in Keys: holder'[k] \notin {0, r} => holder'[k] = holder[k],
         \A k \in Keys: holder'[k] = r => at \in Writing,
         at \in Writing => holder'[<<"key", Now(r)'.key>>] = r,
         at \in {"look", "insert"} /\ Now(r)'.hash # Nothing => holder'[<<"hash", Now(r)'.hash>>] = r,
         at = "insert" => ~\E s \in signals': Same(Now(r)', s),
         \A n \in DOMAIN runs: n # r /\ runs[n].at = "insert" => ~\E s \in signals' \ signals: Same(Now(n), s)
  PROVE  KeysHeld'
  <1>1. /\ DOMAIN runs' = DOMAIN runs /\ Len(runs') = Len(runs) /\ runs'[r].at = at
        /\ \A n \in DOMAIN runs: n # r => runs'[n] = runs[n]
        /\ DOMAIN runs = 1..Len(runs)
    BY DEF Moves, RunsShaped
  <1>2. \A k \in Keys: holder'[k] # 0 => runs'[holder'[k]].at \in Writing
    <2> SUFFICES ASSUME NEW k \in Keys, holder'[k] # 0 PROVE runs'[holder'[k]].at \in Writing
      OBVIOUS
    <2>1. CASE holder'[k] = r
      BY <1>1, <2>1
    <2>2. CASE holder'[k] # r
      <3>1. holder'[k] = holder[k] /\ holder[k] # 0 /\ holder[k] \in DOMAIN runs
        BY <1>1, <2>2
      <3>2. QED
        BY <1>1, <2>2, <3>1 DEF KeysHeld, Writing
    <2>3. QED
      BY <2>1, <2>2
  <1>3. ASSUME NEW n \in DOMAIN runs
        PROVE  /\ runs'[n].at \in Writing => holder'[<<"key", Now(n)'.key>>] = n
               /\ runs'[n].at \in {"look", "insert"} /\ Now(n)'.hash # Nothing =>
                    holder'[<<"hash", Now(n)'.hash>>] = n
               /\ runs'[n].at = "insert" => ~\E s \in signals': Same(Now(n)', s)
    <2>1. CASE n = r
      BY <1>1, <2>1
    <2>2. CASE n # r
      <3>1. runs'[n] = runs[n] /\ Now(n)' = Now(n)
        BY <1>1, <2>2, NowStays
      <3>2. CASE runs[n].at \in Writing
        <4>1. runs[n].left # {} /\ n # 0
          BY <1>1, <3>2 DEF RunsShaped, Working, Writing
        <4>2. /\ <<"key", Now(n).key>> \in Keys /\ <<"hash", Now(n).hash>> \in Keys
          BY <4>1, KeysOf
        <4>3. holder[<<"key", Now(n).key>>] = n
          BY <3>2 DEF KeysHeld, Writing
        <4>4. holder'[<<"key", Now(n).key>>] = n
          BY <2>2, <4>1, <4>2, <4>3
        <4>5. ASSUME runs[n].at \in {"look", "insert"}, Now(n).hash # Nothing
              PROVE holder'[<<"hash", Now(n).hash>>] = n
          <5>1. holder[<<"hash", Now(n).hash>>] = n
            BY <4>5 DEF KeysHeld
          <5>2. QED
            BY <2>2, <4>1, <4>2, <5>1
        <4>6. ASSUME runs[n].at = "insert" PROVE ~\E s \in signals': Same(Now(n), s)
          <5>1. ~\E s \in signals: Same(Now(n), s)
            BY <4>6 DEF KeysHeld, InsertsDoNotClash, At
          <5>2. QED
            BY <2>2, <4>6, <5>1
        <4>7. QED
          BY <3>1, <4>4, <4>5, <4>6
      <3>3. CASE runs[n].at \notin Writing
        BY <3>1, <3>3 DEF Writing
      <3>4. QED
        BY <3>2, <3>3
    <2>3. QED
      BY <2>1, <2>2
  <1>4. QED
    BY <1>1, <1>2, <1>3 DEF KeysHeld, InsertsDoNotClash, At, Writing

LEMMA FreedKeys ==
  ASSUME KeysHeld, NEW r \in DOMAIN runs, r # 0, holder' = Freed(r)
  PROVE  /\ holder' \in [Keys -> 0..Len(runs)]
         /\ \A k \in Keys: holder[k] \notin {0, r} => holder'[k] = holder[k]
         /\ \A k \in Keys: holder'[k] \notin {0, r} => holder'[k] = holder[k]
         /\ \A k \in Keys: holder'[k] # r
  <1>1. holder \in [Keys -> 0..Len(runs)]
    BY DEF KeysHeld
  <1>2. holder' = [k \in Keys |-> IF holder[k] = r THEN 0 ELSE holder[k]]
    BY DEF Freed
  <1>3. holder' \in [Keys -> 0..Len(runs)]
    <2>1. ASSUME NEW k \in Keys PROVE (IF holder[k] = r THEN 0 ELSE holder[k]) \in 0..Len(runs)
      BY <1>1
    <2>2. QED
      BY <1>2, <2>1
  <1>4. QED
    BY <1>2, <1>3

LEMMA ReleaseKeys ==
  ASSUME RunsShaped, KeysHeld, NEW r \in DOMAIN runs, r # 0, NEW at, at \notin Writing,
         Stays(r, at), holder' = Freed(r),
         \A n \in DOMAIN runs: n # r /\ runs[n].at = "insert" => ~\E s \in signals' \ signals: Same(Now(n), s)
  PROVE  KeysHeld'
  <1>1. /\ holder' \in [Keys -> 0..Len(runs)]
        /\ \A k \in Keys: holder[k] \notin {0, r} => holder'[k] = holder[k]
        /\ \A k \in Keys: holder'[k] \notin {0, r} => holder'[k] = holder[k]
        /\ \A k \in Keys: holder'[k] # r
    BY FreedKeys
  <1>2. Moves(r, at, runs[r].left, runs[r].count, runs[r].seen)
    BY DEF Stays
  <1>3. at \notin {"look", "insert"} /\ at # "insert"
    BY DEF Writing
  <1>4. \A k \in Keys: holder'[k] = r => at \in Writing
    BY <1>1
  <1>5. QED
    BY <1>1, <1>2, <1>3, <1>4, OthersKeys

LEMMA SignalKeys ==
  ASSUME RunsShaped, KeysHeld, NEW r \in DOMAIN runs, SignalSteps(r)
  PROVE  KeysHeld'
  <1>1. /\ DOMAIN runs = 1..Len(runs) /\ r # 0 /\ runs[r].left # {}
        /\ holder \in [Keys -> 0..Len(runs)] /\ r \in 0..Len(runs)
    BY DEF RunsShaped, KeysHeld, SignalSteps, Lock, LookForSignal, InsertSignal, At, Working
  <1>2. <<"key", Now(r).key>> \in Keys /\ <<"hash", Now(r).hash>> \in Keys
    BY <1>1, KeysOf
  <1>3. ASSUME NEW at, Stays(r, at) PROVE Now(r)' = Now(r)
    BY <1>3, NowStays DEF Stays, Moves
  <1>4. CASE Lock(r, 1)
    <2> DEFINE k1 == <<"key", Now(r).key>>
    <2>1. runs[r].at = "first" /\ Stays(r, "second") /\ UNCHANGED signals
      BY <1>4, SignalMoves DEF Lock, At, Stored
    <2>2. k1 # <<"hash", Nothing>>
      OBVIOUS
    <2>3. holder[k1] = 0 /\ holder' = [holder EXCEPT ![k1] = r]
      BY <1>4, <2>2 DEF Lock, LockKey
    <2>4. Now(r)' = Now(r)
      BY <1>3, <2>1
    <2> HIDE DEF k1
    <2>5. k1 \in Keys
      BY <1>2 DEF k1
    <2>6. /\ holder' \in [Keys -> 0..Len(runs)] /\ holder'[k1] = r
          /\ \A k \in Keys: k # k1 => holder'[k] = holder[k]
      BY <1>1, <2>3, <2>5
    <2>7. \A k \in Keys: holder[k] \notin {0, r} => holder'[k] = holder[k]
      BY <2>3, <2>6
    <2>8. \A k \in Keys: holder'[k] \notin {0, r} => holder'[k] = holder[k]
      BY <2>6
    <2>9. QED
      BY <2>1, <2>4, <2>6, <2>7, <2>8, OthersKeys DEF Stays, Writing, k1
  <1>5. CASE Lock(r, 2)
    <2> DEFINE k2 == <<"hash", Now(r).hash>>
    <2>1. runs[r].at = "second" /\ Stays(r, "look") /\ UNCHANGED signals
      BY <1>5, SignalMoves DEF Lock, At, Stored
    <2>2. Now(r)' = Now(r)
      BY <1>3, <2>1
    <2>3. holder[<<"key", Now(r).key>>] = r
      BY <2>1 DEF KeysHeld
    <2>4. CASE Now(r).hash = Nothing
      <3>1. UNCHANGED holder
        BY <1>5, <2>4 DEF Lock, LockKey
      <3>2. /\ holder' \in [Keys -> 0..Len(runs)] /\ \A k \in Keys: holder'[k] = holder[k]
            /\ holder'[<<"key", Now(r)'.key>>] = r /\ Now(r)'.hash = Nothing
        BY <1>1, <2>2, <2>3, <2>4, <3>1
      <3>3. \A n \in DOMAIN runs: n # r /\ runs[n].at = "insert" =>
               ~\E s \in signals' \ signals: Same(Now(n), s)
        BY <2>1
      <3>4. QED
        BY <2>1, <3>2, <3>3, OthersKeys DEF Stays, Writing
    <2>5. CASE Now(r).hash # Nothing
      <3>1. k2 # <<"hash", Nothing>>
        BY <2>5
      <3>2. holder[k2] = 0 /\ holder' = [holder EXCEPT ![k2] = r]
        BY <1>5, <3>1 DEF Lock, LockKey
      <3>3. <<"key", Now(r).key>> # k2
        OBVIOUS
      <3> HIDE DEF k2
      <3>4. k2 \in Keys
        BY <1>2 DEF k2
      <3>5. /\ holder' \in [Keys -> 0..Len(runs)] /\ holder'[k2] = r
            /\ \A k \in Keys: k # k2 => holder'[k] = holder[k]
        BY <1>1, <3>2, <3>4
      <3>6. holder'[<<"key", Now(r).key>>] = r
        BY <1>2, <2>3, <3>3, <3>5
      <3>7. \A k \in Keys: holder[k] \notin {0, r} => holder'[k] = holder[k]
        BY <3>2, <3>5
      <3>8. \A k \in Keys: holder'[k] \notin {0, r} => holder'[k] = holder[k]
        BY <3>5
      <3>9. QED
        BY <2>1, <2>2, <3>5, <3>6, <3>7, <3>8, OthersKeys DEF Stays, Writing, k2
    <2>6. QED
      BY <2>4, <2>5
  <1>6. CASE LookForSignal(r)
    <2>1. runs[r].at = "look" /\ UNCHANGED signals
      BY <1>6 DEF LookForSignal, At, Stored
    <2>2. CASE Goto(r, "list") /\ holder' = Freed(r)
      <3>1. Stays(r, "list")
        BY <2>2, GotoStays DEF Stages
      <3>2. \A n \in DOMAIN runs: n # r /\ runs[n].at = "insert" =>
               ~\E s \in signals' \ signals: Same(Now(n), s)
        BY <2>1
      <3>3. "list" \notin Writing
        BY DEF Writing
      <3>4. QED
        BY <1>1, <2>2, <3>1, <3>2, <3>3, ReleaseKeys
    <2>3. CASE Goto(r, "insert") /\ UNCHANGED holder /\ ~\E s \in signals: Same(Now(r), s)
      <3>1. Stays(r, "insert")
        BY <2>3, GotoStays DEF Stages
      <3>2. Now(r)' = Now(r)
        BY <1>3, <3>1
      <3>3. /\ holder[<<"key", Now(r).key>>] = r
            /\ Now(r).hash # Nothing => holder[<<"hash", Now(r).hash>>] = r
        BY <2>1 DEF KeysHeld
      <3>4. QED
        BY <1>1, <2>1, <2>3, <3>1, <3>2, <3>3, OthersKeys DEF Stays, Writing
    <2>4. QED
      BY <1>6, <2>2, <2>3 DEF LookForSignal
  <1>7. CASE InsertSignal(r)
    <2> DEFINE s == [key |-> Now(r).key, hash |-> Now(r).hash]
    <2>1. /\ runs[r].at = "insert" /\ Stays(r, "list") /\ signals' = signals \cup {s}
          /\ holder' = Freed(r)
      BY <1>7, SignalMoves DEF InsertSignal, At
    <2>2. ASSUME NEW n \in DOMAIN runs, n # r, runs[n].at = "insert" PROVE ~Same(Now(n), s)
      <3>1. holder[<<"key", Now(n).key>>] = n /\ holder[<<"key", Now(r).key>>] = r
        BY <2>1, <2>2 DEF KeysHeld
      <3>2. Now(n).key # Now(r).key
        BY <2>2, <3>1
      <3>3. ASSUME Now(n).hash # Nothing PROVE Now(n).hash # Now(r).hash
        <4>1. holder[<<"hash", Now(n).hash>>] = n
          BY <2>2, <3>3 DEF KeysHeld
        <4>2. Now(r).hash # Nothing => holder[<<"hash", Now(r).hash>>] = r
          BY <2>1 DEF KeysHeld
        <4>3. QED
          BY <2>2, <3>3, <4>1, <4>2
      <3>4. QED
        BY <3>2, <3>3 DEF Same
    <2>3. \A n \in DOMAIN runs: n # r /\ runs[n].at = "insert" =>
             ~\E x \in signals' \ signals: Same(Now(n), x)
      BY <2>1, <2>2
    <2>4. "list" \notin Writing
      BY DEF Writing
    <2>5. QED
      BY <1>1, <2>1, <2>3, <2>4, ReleaseKeys
  <1>8. QED
    BY <1>4, <1>5, <1>6, <1>7 DEF SignalSteps

LEMMA RunKeys ==
  ASSUME RunsShaped, RowsRecorded, KeysHeld, NEW r \in DOMAIN runs, Step(r) \/ Faults(r)
  PROVE  KeysHeld'
  <1>1. /\ DOMAIN runs = 1..Len(runs) /\ r # 0 /\ holder \in [Keys -> 0..Len(runs)]
    BY DEF RunsShaped, KeysHeld
  <1>2. ASSUME runs[r].at \notin Writing, UNCHANGED <<holder, signals>>,
               NEW at, NEW remaining, NEW count, NEW seen, Moves(r, at, remaining, count, seen),
               at \notin Writing
        PROVE  KeysHeld'
    <2>1. \A k \in Keys: holder[k] # r
      BY <1>1, <1>2 DEF KeysHeld, Writing
    <2>2. QED
      BY <1>1, <1>2, <2>1, OthersKeys DEF Writing
  <1>3. CASE SignalSteps(r)
    BY <1>3, SignalKeys
  <1>4. CASE ListAndCompare(r)
    <2>1. /\ runs[r].at = "list" /\ UNCHANGED <<holder, signals>>
      BY <1>4 DEF ListAndCompare, At, Stored
    <2>2. \/ Moves(r, "first", runs[r].left \ {Least(runs[r].left)}, runs[r].count, runs[r].seen)
          \/ Moves(r, "create", runs[r].left, runs[r].count, Len(rows))
      BY <1>4, ListMoves
    <2>3. QED
      BY <1>2, <2>1, <2>2 DEF Writing
  <1>5. CASE CreateBrandOpportunity(r)
    <2>1. /\ runs[r].at = "create" /\ UNCHANGED <<holder, signals>>
      BY <1>5 DEF CreateBrandOpportunity, At
    <2>2. Moves(r, "intelligence", runs[r].left, runs[r].count + 1, runs[r].seen)
      BY <1>5, CreateMoves
    <2>3. QED
      BY <1>2, <2>1, <2>2 DEF Writing
  <1>6. CASE \E stored \in BOOLEAN: WriteIntelligence(r, stored)
    <2>1. \/ Stays(r, "failing")
          \/ Moves(r, "first", runs[r].left \ {Least(runs[r].left)}, runs[r].count, runs[r].seen)
      BY <1>6, WriteMoves
    <2>2. QED
      BY <1>2, <1>6, <2>1 DEF WriteIntelligence, At, Writing, Stays
  <1>7. CASE RunRaises(r)
    <2>1. Stays(r, "failing") /\ holder' = Freed(r) /\ UNCHANGED signals
      BY <1>7, GotoStays DEF RunRaises, Stored, Stages
    <2>2. \A n \in DOMAIN runs: n # r /\ runs[n].at = "insert" =>
             ~\E s \in signals' \ signals: Same(Now(n), s)
      BY <2>1
    <2>3. "failing" \notin Writing
      BY DEF Writing
    <2>4. QED
      BY <1>1, <2>1, <2>2, <2>3, ReleaseKeys
  <1>8. CASE \E heard \in BOOLEAN: Complete(r, heard)
    <2>1. Stays(r, "ended") \/ Stays(r, "failing")
      BY <1>8, GotoStays DEF Complete, Stages
    <2>2. QED
      BY <1>2, <1>8, <2>1 DEF Complete, At, Writing, Stays
  <1>9. CASE \E stored \in BOOLEAN: Fail(r, stored)
    <2>1. Stays(r, "ended")
      BY <1>9, GotoStays DEF Fail, Stages
    <2>2. QED
      BY <1>2, <1>9, <2>1 DEF Fail, At, Writing, Stays
  <1>10. QED
    BY <1>3, <1>4, <1>5, <1>6, <1>7, <1>8, <1>9 DEF Step, Faults, SignalSteps

LEMMA StartKeys ==
  ASSUME RunsShaped, KeysHeld, NEW q \in Requests, NEW l \in Lists, StartRun(q, l)
  PROVE  KeysHeld'
  <1>1. /\ DOMAIN runs = 1..Len(runs) /\ Len(runs) \in Nat /\ DOMAIN runs' = 1..(Len(runs) + 1)
        /\ \A n \in DOMAIN runs: runs'[n] = runs[n]
        /\ runs'[Len(runs) + 1].at = "first" /\ Len(runs') = Len(runs) + 1
        /\ holder \in [Keys -> 0..Len(runs)] /\ UNCHANGED <<holder, signals>>
    <2>1. /\ runs' \in Seq(RunRow) /\ Len(runs') = Len(runs) + 1
          /\ \A n \in DOMAIN runs: runs'[n] = runs[n]
          /\ runs'[Len(runs) + 1] = Starts(q, l)
      BY StartAppends
    <2>2. /\ DOMAIN runs = 1..Len(runs) /\ Len(runs) \in Nat
          /\ holder \in [Keys -> 0..Len(runs)] /\ UNCHANGED <<holder, signals>>
      BY DEF RunsShaped, KeysHeld, StartRun
    <2>3. Starts(q, l).at = "first" /\ DOMAIN runs' = 1..(Len(runs) + 1)
      BY <2>1 DEF Starts
    <2>4. QED
      BY <2>1, <2>2, <2>3
  <1>2. \A n \in DOMAIN runs: Now(n)' = Now(n)
    BY <1>1, NowStays
  <1>3. holder' \in [Keys -> 0..Len(runs')]
    BY <1>1
  <1>4. \A k \in Keys: holder'[k] # 0 => runs'[holder'[k]].at \in Writing
    <2>1. \A k \in Keys: holder[k] # 0 => holder[k] \in DOMAIN runs /\ runs[holder[k]].at \in Writing
      BY <1>1 DEF KeysHeld, Writing
    <2>2. QED
      BY <1>1, <2>1
  <1>5. ASSUME NEW n \in DOMAIN runs', runs'[n].at \in Writing
        PROVE  n \in DOMAIN runs /\ runs'[n] = runs[n] /\ Now(n)' = Now(n)
    BY <1>1, <1>2, <1>5 DEF Writing
  <1>6. QED
    BY <1>1, <1>3, <1>4, <1>5 DEF KeysHeld, InsertsDoNotClash, At, Writing

LEMMA CrashKeys ==
  ASSUME RunsShaped, KeysHeld, NEW s \in Servers, Crash(s)
  PROVE  KeysHeld'
  <1>1. /\ DOMAIN runs = 1..Len(runs) /\ Len(runs) \in Nat /\ DOMAIN runs' = DOMAIN runs
        /\ holder \in [Keys -> 0..Len(runs)] /\ UNCHANGED signals /\ Len(runs') = Len(runs)
    BY CrashEnds DEF RunsShaped, KeysHeld, Crash, Stored
  <1>2. ASSUME NEW n \in DOMAIN runs, runs'[n].at \in Writing
        PROVE  n # 0 /\ runs'[n] = runs[n] /\ runs[n].server # s /\ Now(n)' = Now(n)
    BY <1>1, <1>2, CrashEnds, NowStays DEF Writing
  <1>3. holder' = [k \in Keys |-> IF holder[k] # 0 /\ runs[holder[k]].server = s
                                  THEN 0 ELSE holder[k]]
    BY DEF Crash
  <1>4. holder' \in [Keys -> 0..Len(runs)]
    <2>1. ASSUME NEW k \in Keys
          PROVE  (IF holder[k] # 0 /\ runs[holder[k]].server = s THEN 0 ELSE holder[k]) \in 0..Len(runs)
      BY <1>1
    <2>2. QED
      BY <1>3, <2>1
  <1>5. ASSUME NEW k \in Keys, holder'[k] # 0 PROVE runs'[holder'[k]].at \in Writing
    <2>1. holder'[k] = holder[k] /\ holder[k] # 0 /\ runs[holder[k]].server # s
      BY <1>3, <1>5
    <2>2. holder[k] \in DOMAIN runs /\ runs[holder[k]].at \in Writing
      BY <1>1, <2>1 DEF KeysHeld, Writing
    <2>3. runs'[holder[k]] = runs[holder[k]]
      BY <2>1, <2>2, CrashEnds
    <2>4. QED
      BY <2>1, <2>2, <2>3
  <1>6. ASSUME NEW n \in DOMAIN runs, runs'[n].at \in Writing
        PROVE  /\ holder'[<<"key", Now(n).key>>] = n
               /\ runs[n].at \in {"look", "insert"} /\ Now(n).hash # Nothing =>
                    holder'[<<"hash", Now(n).hash>>] = n
    <2>1. runs'[n] = runs[n] /\ runs[n].server # s /\ n # 0
      BY <1>2, <1>6
    <2>2. runs[n].left # {}
      BY <1>6, <2>1 DEF RunsShaped, Working, Writing
    <2>3. <<"key", Now(n).key>> \in Keys /\ <<"hash", Now(n).hash>> \in Keys
      BY <2>2, KeysOf
    <2>4. \A k \in Keys: holder[k] = n => holder'[k] = n
      BY <1>3, <2>1
    <2>5. /\ holder[<<"key", Now(n).key>>] = n
          /\ runs[n].at \in {"look", "insert"} /\ Now(n).hash # Nothing =>
               holder[<<"hash", Now(n).hash>>] = n
      BY <1>6, <2>1 DEF KeysHeld, Writing
    <2>6. QED
      BY <2>3, <2>4, <2>5
  <1>7. QED
    BY <1>1, <1>2, <1>4, <1>5, <1>6 DEF KeysHeld, InsertsDoNotClash, At, Writing

LEMMA KeysHeldNext ==
  ASSUME RunsShaped, RowsRecorded, KeysHeld, [Next]_vars
  PROVE  KeysHeld'
  <1>1. CASE \E q \in Requests, l \in Lists: StartRun(q, l)
    BY <1>1, StartKeys
  <1>2. CASE \E r \in DOMAIN runs: Step(r) \/ Faults(r)
    BY <1>2, RunKeys
  <1>3. CASE \E s \in Servers: Crash(s)
    BY <1>3, CrashKeys
  <1>4. CASE \/ \E q \in Requests: Join(q) \/ \E s \in Servers: Recommend(q, s)
             \/ People \/ UNCHANGED vars
    <2>1. UNCHANGED <<holder, runs, signals>>
      BY <1>4, PeopleKeepRuns DEF vars, Join, Recommend, Stored
    <2>2. QED
      BY <2>1 DEF KeysHeld, InsertsDoNotClash, At, Now
  <1>5. QED
    BY <1>1, <1>2, <1>3, <1>4 DEF Next, People, Request

-----------------------------------------------------------------------------
(* RowsRecorded: what is recorded twice, and why.                          *)
SameRows ==
  /\ rows' \in Seq(Row) /\ Len(rows') = Len(rows)
  /\ \A i \in DOMAIN rows:
       /\ rows'[i].topic = rows[i].topic /\ rows'[i].direction = rows[i].direction
       /\ rows'[i].angle = rows[i].angle /\ rows'[i].run = rows[i].run
       /\ rows'[i].seen = rows[i].seen

LEMMA RowsKeep ==
  ASSUME RunsShaped, RowsRecorded, SameRows, DOMAIN runs \subseteq DOMAIN runs',
         \A n \in DOMAIN runs: runs'[n].titles = runs[n].titles,
         \A n \in DOMAIN runs': runs'[n].at \in {"create", "intelligence"} =>
            n \in DOMAIN runs /\ runs'[n] = runs[n]
  PROVE  RowsRecorded'
  <1>1. DOMAIN rows' = DOMAIN rows /\ DOMAIN rows = 1..Len(rows) /\ Len(rows) \in Nat
    BY DEF SameRows, RowsRecorded
  <1>2. \A i \in DOMAIN rows': rows'[i].run \in DOMAIN runs'
    BY <1>1 DEF SameRows, RowsRecorded
  <1>3. ASSUME NEW n \in DOMAIN runs', runs'[n].at = "create"
        PROVE  /\ runs'[n].seen <= Len(rows')
               /\ \A i \in DOMAIN rows':
                    i <= runs'[n].seen /\ rows'[i].topic = Now(n)'.topic
                      /\ rows'[i].direction = Now(n)'.direction
                      => rows'[i].angle \notin {Nothing, rows'[i].direction}
    <2>1. n \in DOMAIN runs /\ runs'[n] = runs[n] /\ Now(n)' = Now(n)
      BY <1>3, NowStays
    <2>2. QED
      BY <1>1, <1>3, <2>1 DEF SameRows, RowsRecorded
  <1>4. ASSUME NEW n \in DOMAIN runs', runs'[n].at = "intelligence"
        PROVE  \E i \in DOMAIN rows': Owed(n, i)'
    <2>1. n \in DOMAIN runs /\ runs'[n] = runs[n]
      BY <1>4
    <2>2. PICK i \in DOMAIN rows: Owed(n, i)
      BY <1>4, <2>1 DEF RowsRecorded
    <2>3. Owed(n, i)'
      BY <1>1, <2>2 DEF Owed, SameRows
    <2>4. QED
      BY <1>1, <2>3
  <1>5. \A i, j \in DOMAIN rows':
          i < j /\ rows'[i].topic = rows'[j].topic /\ rows'[i].direction = rows'[j].direction
            => i > rows'[j].seen \/ rows'[i].angle \notin {Nothing, rows'[i].direction}
    BY <1>1 DEF SameRows, RowsRecorded, RecordedOnce
  <1>6. \A i \in DOMAIN rows': rows'[i].topic \notin runs'[rows'[i].run].titles
    BY <1>1 DEF SameRows, RowsRecorded, RecordedOnce
  <1>7. QED
    BY <1>1, <1>2, <1>3, <1>4, <1>5, <1>6 DEF RowsRecorded, RecordedOnce, SameRows

LEMMA Unwritten == ASSUME RowsRecorded, UNCHANGED rows PROVE SameRows
  BY DEF RowsRecorded, SameRows

LEMMA OneRow ==
  ASSUME rows \in Seq(Row), NEW i \in DOMAIN rows, NEW v \in Row, rows' = [rows EXCEPT ![i] = v]
  PROVE  /\ rows' \in Seq(Row) /\ Len(rows') = Len(rows)
         /\ \A j \in 1..Len(rows): rows'[j] = IF j = i THEN v ELSE rows[j]
  <1>1. i \in 1..Len(rows)
    OBVIOUS
  <1>2. QED
    BY <1>1, ExceptSeq

LEMMA RestatusRows ==
  ASSUME RowsRecorded, NEW i \in DOMAIN rows, NEW status \in Statuses,
         rows' = [rows EXCEPT ![i].status = status]
  PROVE  SameRows
  <1>1. rows \in Seq(Row) /\ rows[i] \in Row /\ DOMAIN rows = 1..Len(rows)
    BY DEF RowsRecorded
  <1> DEFINE v == [rows[i] EXCEPT !.status = status]
  <1>2. /\ v \in Row /\ v.topic = rows[i].topic /\ v.direction = rows[i].direction
        /\ v.angle = rows[i].angle /\ v.run = rows[i].run /\ v.seen = rows[i].seen
    BY <1>1 DEF Row, Statuses
  <1>3. rows' = [rows EXCEPT ![i] = v]
    OBVIOUS
  <1> HIDE DEF v
  <1>4. /\ rows' \in Seq(Row) /\ Len(rows') = Len(rows)
        /\ \A j \in 1..Len(rows): rows'[j] = IF j = i THEN v ELSE rows[j]
    BY <1>1, <1>2, <1>3, ExceptSeq
  <1>5. QED
    BY <1>1, <1>2, <1>4 DEF SameRows

LEMMA MovesKeep ==
  ASSUME RunsShaped, NEW r, NEW at, NEW remaining, NEW count, NEW seen, Moves(r, at, remaining, count, seen)
  PROVE  /\ DOMAIN runs' = DOMAIN runs
         /\ \A n \in DOMAIN runs: n # r => runs'[n] = runs[n]
         /\ \A n \in DOMAIN runs: runs'[n].titles = runs[n].titles
  <1>1. runs \in Seq(RunRow) /\ runs' \in Seq(RunRow) /\ Len(runs') = Len(runs)
    BY DEF Moves, RunsShaped
  <1>2. DOMAIN runs' = DOMAIN runs
    BY <1>1
  <1>3. QED
    BY <1>2 DEF Moves

LEMMA ListRows ==
  ASSUME RunsShaped, RowsRecorded, NEW r \in DOMAIN runs, ListAndCompare(r)
  PROVE  RowsRecorded'
  <1>1. UNCHANGED rows /\ SameRows
    BY Unwritten DEF ListAndCompare, Stored
  <1>2. CASE Moves(r, "first", runs[r].left \ {Least(runs[r].left)}, runs[r].count, runs[r].seen)
    <2>1. /\ DOMAIN runs' = DOMAIN runs /\ \A n \in DOMAIN runs: runs'[n].titles = runs[n].titles
          /\ \A n \in DOMAIN runs: runs'[n].at \in {"create", "intelligence"} => runs'[n] = runs[n]
      <3>1. /\ DOMAIN runs' = DOMAIN runs /\ \A n \in DOMAIN runs: runs'[n].titles = runs[n].titles
            /\ \A n \in DOMAIN runs: n # r => runs'[n] = runs[n]
        BY <1>2, MovesKeep
      <3>2. runs'[r].at = "first"
        BY <1>2 DEF Moves
      <3>3. QED
        BY <3>1, <3>2
    <2>2. QED
      BY <1>1, <2>1, RowsKeep
  <1>3. CASE /\ Moves(r, "create", runs[r].left, runs[r].count, Len(rows))
             /\ ~\E i \in DOMAIN rows: materiallySimilarOpportunity(Now(r), rows[i])
    <2>1. /\ DOMAIN runs' = DOMAIN runs /\ \A n \in DOMAIN runs: runs'[n].titles = runs[n].titles
          /\ \A n \in DOMAIN runs: n # r => runs'[n] = runs[n]
          /\ runs'[r].at = "create" /\ runs'[r].seen = Len(rows) /\ Len(rows) \in Nat
      BY <1>3, MovesKeep DEF Moves, RowsRecorded
    <2>2. Now(r)' = Now(r)
      <3>1. runs'[r].list = runs[r].list /\ runs'[r].left = runs[r].left
        BY <1>3 DEF Moves
      <3>2. QED
        BY <3>1, NowStays
    <2>3. \A i \in DOMAIN rows: rows[i].topic = Now(r).topic /\ rows[i].direction = Now(r).direction
             => rows[i].angle \notin {Nothing, rows[i].direction}
      BY <1>3 DEF materiallySimilarOpportunity, projectOpportunityFromIntelligence
    <2>4. \A n \in DOMAIN runs: n # r => Now(n)' = Now(n)
      BY <2>1, NowStays
    <2>5. \A n \in DOMAIN runs: runs'[n].at = "intelligence" =>
             /\ runs[n].at = "intelligence"
             /\ \A i \in DOMAIN rows: Owed(n, i) => Owed(n, i)'
      BY <1>1, <2>1 DEF Owed
    <2>6. RecordedOnce'
      BY <1>1, <2>1 DEF RowsRecorded, RecordedOnce
    <2>7. \A n \in DOMAIN runs: runs'[n].at = "create" =>
             /\ runs'[n].seen <= Len(rows)
             /\ \A i \in DOMAIN rows:
                  i <= runs'[n].seen /\ rows[i].topic = Now(n)'.topic /\ rows[i].direction = Now(n)'.direction
                    => rows[i].angle \notin {Nothing, rows[i].direction}
      BY <2>1, <2>2, <2>3, <2>4 DEF RowsRecorded
    <2>8. QED
      BY <1>1, <2>1, <2>5, <2>6, <2>7 DEF RowsRecorded
  <1>4. QED
    BY <1>2, <1>3, ListMoves

(* The row a run appends: it has listed all rows but those after seen.     *)
Created(r) == [topic |-> Now(r).topic, direction |-> Now(r).direction, angle |-> Nothing,
               status |-> "new", run |-> r, seen |-> runs[r].seen, scores |-> Now(r).scores]

LEMMA CreateAppends ==
  ASSUME RunsShaped, RowsRecorded, NEW r \in DOMAIN runs, CreateBrandOpportunity(r)
  PROVE  /\ rows' \in Seq(Row) /\ Len(rows') = Len(rows) + 1 /\ Len(rows) \in Nat
         /\ DOMAIN rows = 1..Len(rows) /\ DOMAIN rows' = 1..(Len(rows) + 1)
         /\ \A i \in DOMAIN rows: rows'[i] = rows[i]
         /\ rows'[Len(rows) + 1] = Created(r)
  <1>1. /\ rows \in Seq(Row) /\ runs[r] \in RunRow /\ r \in Nat /\ runs[r].left # {}
    BY DEF RunsShaped, RowsRecorded, CreateBrandOpportunity, At, Working
  <1>2. Created(r) \in Row
    <2>1. Now(r) \in Candidates /\ Now(r).topic \in Topics /\ Now(r).direction \in Directions
      BY <1>1, NowIs
    <2>2. Now(r).scores \in {c.scores: c \in Candidates} /\ runs[r].seen \in Nat
      BY <1>1, <2>1 DEF RunRow
    <2>3. QED
      BY <1>1, <2>1, <2>2 DEF Created, Row, Statuses
  <1>3. rows' = Append(rows, Created(r))
    BY DEF CreateBrandOpportunity, Created
  <1>4. /\ rows' \in Seq(Row) /\ Len(rows') = Len(rows) + 1
        /\ \A i \in 1..Len(rows): rows'[i] = rows[i]
        /\ rows'[Len(rows) + 1] = Created(r)
    BY <1>1, <1>2, <1>3, AppendProperties
  <1>5. DOMAIN rows = 1..Len(rows) /\ DOMAIN rows' = 1..(Len(rows) + 1) /\ Len(rows) \in Nat
    BY <1>1, <1>4
  <1>6. QED
    BY <1>4, <1>5

LEMMA CreateRows ==
  ASSUME RunsShaped, RowsRecorded, NEW r \in DOMAIN runs, CreateBrandOpportunity(r)
  PROVE  RowsRecorded'
  <1> DEFINE m == Len(rows) + 1
  <1>1. /\ rows' \in Seq(Row) /\ Len(rows') = m /\ Len(rows) \in Nat
        /\ DOMAIN rows = 1..Len(rows) /\ DOMAIN rows' = 1..m
        /\ \A i \in DOMAIN rows: rows'[i] = rows[i]
        /\ rows'[m] = Created(r)
    BY CreateAppends
  <1>2. /\ DOMAIN runs' = DOMAIN runs /\ \A n \in DOMAIN runs: runs'[n].titles = runs[n].titles
        /\ \A n \in DOMAIN runs: n # r => runs'[n] = runs[n]
        /\ runs'[r].at = "intelligence"
    BY CreateMoves, MovesKeep DEF Moves
  <1>3. runs[r].at = "create" /\ runs[r].left # {}
    BY DEF CreateBrandOpportunity, At, RunsShaped, Working
  <1>4. /\ rows'[m].run = r /\ rows'[m].topic = Now(r).topic /\ rows'[m].direction = Now(r).direction
        /\ rows'[m].angle = Nothing /\ rows'[m].seen = runs[r].seen
    BY <1>1 DEF Created
  <1>5. \A i \in DOMAIN rows': rows'[i].run \in DOMAIN runs'
    BY <1>1, <1>2, <1>4 DEF RowsRecorded
  <1>6. ASSUME NEW n \in DOMAIN runs', runs'[n].at = "create"
        PROVE  /\ runs'[n].seen <= Len(rows')
               /\ \A i \in DOMAIN rows':
                    i <= runs'[n].seen /\ rows'[i].topic = Now(n)'.topic
                      /\ rows'[i].direction = Now(n)'.direction
                      => rows'[i].angle \notin {Nothing, rows'[i].direction}
    <2>1. n # r /\ n \in DOMAIN runs /\ runs'[n] = runs[n] /\ Now(n)' = Now(n)
      BY <1>2, <1>6, NowStays
    <2>2. runs[n] \in RunRow /\ runs[n].seen <= Len(rows) /\ runs[n].seen \in Nat
      <3>1. runs[n].seen <= Len(rows)
        BY <1>6, <2>1 DEF RowsRecorded
      <3>2. runs[n] \in RunRow
        BY <2>1 DEF RunsShaped
      <3>3. QED
        BY <3>1, <3>2 DEF RunRow
    <2>3. ASSUME NEW i \in DOMAIN rows', i <= runs[n].seen PROVE i \in DOMAIN rows
      BY <1>1, <2>2, <2>3
    <2>4. \A i \in DOMAIN rows:
             i <= runs[n].seen /\ rows[i].topic = Now(n).topic /\ rows[i].direction = Now(n).direction
               => rows[i].angle \notin {Nothing, rows[i].direction}
      BY <1>6, <2>1 DEF RowsRecorded
    <2>5. runs[n].seen <= Len(rows')
      BY <1>1, <2>2
    <2>6. QED
      BY <1>1, <2>1, <2>3, <2>4, <2>5
  <1>7. ASSUME NEW n \in DOMAIN runs', runs'[n].at = "intelligence"
        PROVE  \E i \in DOMAIN rows': Owed(n, i)'
    <2>1. CASE n = r
      <3>1. PICK i \in DOMAIN rows': i = m
        BY <1>1
      <3>2. \A j \in DOMAIN rows': j <= i
        BY <1>1, <3>1
      <3>3. Owed(n, i)'
        BY <1>4, <2>1, <3>1, <3>2 DEF Owed
      <3>4. QED
        BY <3>3
    <2>2. CASE n # r
      <3>1. PICK i \in DOMAIN rows: Owed(n, i)
        BY <1>2, <1>7, <2>2 DEF RowsRecorded
      <3>2. Owed(n, i)'
        <4>1. \A j \in DOMAIN rows': rows'[j].run = n => j \in DOMAIN rows /\ rows[j].run = n
          BY <1>1, <1>4, <2>2
        <4>2. QED
          BY <1>1, <3>1, <4>1 DEF Owed
      <3>3. QED
        BY <1>1, <3>1, <3>2
    <2>3. QED
      BY <2>1, <2>2
  <1>8. ASSUME NEW i \in DOMAIN rows', NEW j \in DOMAIN rows', i < j,
               rows'[i].topic = rows'[j].topic, rows'[i].direction = rows'[j].direction
        PROVE  i > rows'[j].seen \/ rows'[i].angle \notin {Nothing, rows'[i].direction}
    <2>1. i \in DOMAIN rows /\ rows'[i] = rows[i]
      BY <1>1, <1>8
    <2>2. CASE j = m
      <3>1. /\ rows[i].topic = Now(r).topic /\ rows[i].direction = Now(r).direction
            /\ rows'[j].seen = runs[r].seen
        BY <1>4, <1>8, <2>1, <2>2
      <3>2. i <= runs[r].seen => rows[i].angle \notin {Nothing, rows[i].direction}
        BY <1>3, <2>1, <3>1 DEF RowsRecorded
      <3>3. i \in Nat /\ runs[r].seen \in Nat
        <4>1. runs[r] \in RunRow
          BY DEF RunsShaped
        <4>2. QED
          BY <1>1, <4>1 DEF RunRow
      <3>4. QED
        BY <2>1, <3>1, <3>2, <3>3
    <2>3. CASE j # m
      <3>1. j \in DOMAIN rows /\ rows'[j] = rows[j]
        BY <1>1, <2>3
      <3>2. QED
        BY <1>8, <2>1, <3>1 DEF RowsRecorded, RecordedOnce
    <2>4. QED
      BY <2>2, <2>3
  <1>9. ASSUME NEW i \in DOMAIN rows' PROVE rows'[i].topic \notin runs'[rows'[i].run].titles
    <2>1. CASE i = m
      <3>1. Now(r).topic \notin runs[r].titles
        BY <1>3, NowIs
      <3>2. QED
        BY <1>2, <1>4, <2>1, <3>1
    <2>2. CASE i # m
      <3>1. i \in DOMAIN rows /\ rows'[i] = rows[i]
        BY <1>1, <2>2
      <3>2. QED
        BY <1>2, <3>1 DEF RowsRecorded, RecordedOnce
    <2>3. QED
      BY <2>1, <2>2
  <1>10. RecordedOnce'
    BY <1>8, <1>9 DEF RecordedOnce
  <1>11. QED
    BY <1>1, <1>5, <1>6, <1>7, <1>10 DEF RowsRecorded

(* Which row is the run's own, and what the intelligence does to it.       *)
LEMMA MineIs ==
  ASSUME RowsRecorded, NEW r \in DOMAIN runs, NEW i \in DOMAIN rows, Owed(r, i)
  PROVE  Mine(r) = i
  <1>1. DOMAIN rows = 1..Len(rows)
    BY DEF RowsRecorded
  <1>2. i \in DOMAIN rows /\ rows[i].run = r /\ \A j \in DOMAIN rows: rows[j].run = r => j <= i
    BY DEF Owed
  <1>3. ASSUME NEW k \in DOMAIN rows, rows[k].run = r,
               \A j \in DOMAIN rows: rows[j].run = r => j <= k
        PROVE  k = i
    BY <1>1, <1>2, <1>3
  <1>4. QED
    BY <1>2, <1>3 DEF Mine

Angled(r, i) ==
  /\ Owed(r, i) /\ rows' \in Seq(Row) /\ Len(rows') = Len(rows)
  /\ \A j \in DOMAIN rows: j # i => rows'[j] = rows[j]
  /\ rows'[i].topic = rows[i].topic /\ rows'[i].direction = rows[i].direction
  /\ rows'[i].run = rows[i].run /\ rows'[i].seen = rows[i].seen

LEMMA AngleWrites ==
  ASSUME RunsShaped, RowsRecorded, NEW r \in DOMAIN runs, runs[r].at = "intelligence",
         rows' = [rows EXCEPT ![Mine(r)].angle = Now(r).angle]
  PROVE  \E i \in DOMAIN rows: Angled(r, i)
  <1>1. PICK i \in DOMAIN rows: Owed(r, i)
    BY DEF RowsRecorded
  <1>2. Mine(r) = i
    BY <1>1, MineIs
  <1>3. rows \in Seq(Row) /\ rows[i] \in Row /\ DOMAIN rows = 1..Len(rows) /\ runs[r].left # {}
    <2>1. rows \in Seq(Row)
      BY DEF RowsRecorded
    <2>2. runs[r].left # {}
      BY DEF RunsShaped, Working
    <2>3. QED
      BY <2>1, <2>2
  <1>4. Now(r).angle \in {c.angle: c \in Candidates}
    BY <1>3, NowIs
  <1> DEFINE v == [rows[i] EXCEPT !.angle = Now(r).angle]
  <1>5. /\ v \in Row /\ v.topic = rows[i].topic /\ v.direction = rows[i].direction
        /\ v.run = rows[i].run /\ v.seen = rows[i].seen
    BY <1>3, <1>4 DEF Row
  <1>6. rows' = [rows EXCEPT ![i] = v]
    BY <1>2
  <1> HIDE DEF v
  <1>7. /\ rows' \in Seq(Row) /\ Len(rows') = Len(rows)
        /\ \A j \in 1..Len(rows): rows'[j] = IF j = i THEN v ELSE rows[j]
    BY <1>3, <1>5, <1>6, OneRow
  <1>8. rows'[i] = v /\ \A j \in DOMAIN rows: j # i => rows'[j] = rows[j]
    BY <1>3, <1>7
  <1>9. Angled(r, i)
    BY <1>1, <1>5, <1>7, <1>8 DEF Angled
  <1>10. QED
    BY <1>9

LEMMA AngleRows ==
  ASSUME RunsShaped, RowsRecorded, NEW r \in DOMAIN runs, runs[r].at = "intelligence",
         rows' = [rows EXCEPT ![Mine(r)].angle = Now(r).angle],
         NEW remaining, NEW count, NEW seen, Moves(r, "first", remaining, count, seen)
  PROVE  RowsRecorded'
  <1>0. PICK o \in DOMAIN rows: Angled(r, o)
    BY AngleWrites
  <1>1. /\ Owed(r, o) /\ rows' \in Seq(Row) /\ Len(rows') = Len(rows)
        /\ \A j \in DOMAIN rows: j # o => rows'[j] = rows[j]
        /\ rows'[o].topic = rows[o].topic /\ rows'[o].direction = rows[o].direction
        /\ rows'[o].run = rows[o].run /\ rows'[o].seen = rows[o].seen
    BY <1>0 DEF Angled
  <1>2. /\ DOMAIN runs' = DOMAIN runs /\ \A n \in DOMAIN runs: runs'[n].titles = runs[n].titles
        /\ \A n \in DOMAIN runs: n # r => runs'[n] = runs[n]
        /\ runs'[r].at = "first"
    BY MovesKeep DEF Moves
  <1>3. DOMAIN rows' = DOMAIN rows /\ rows[o].angle = Nothing /\ rows[o].run = r
    <2>1. rows \in Seq(Row)
      BY DEF RowsRecorded
    <2>2. QED
      BY <1>1, <2>1 DEF Owed
  <1>4. \A i \in DOMAIN rows:
          /\ rows'[i].topic = rows[i].topic /\ rows'[i].direction = rows[i].direction
          /\ rows'[i].run = rows[i].run /\ rows'[i].seen = rows[i].seen
          /\ rows[i].angle # Nothing => rows'[i].angle = rows[i].angle
    BY <1>1, <1>3
  <1>5. ASSUME NEW n \in DOMAIN runs', runs'[n].at = "create"
        PROVE  /\ runs'[n].seen <= Len(rows')
               /\ \A i \in DOMAIN rows':
                    i <= runs'[n].seen /\ rows'[i].topic = Now(n)'.topic
                      /\ rows'[i].direction = Now(n)'.direction
                      => rows'[i].angle \notin {Nothing, rows'[i].direction}
    <2>1. n # r /\ n \in DOMAIN runs /\ runs'[n] = runs[n] /\ Now(n)' = Now(n)
      BY <1>2, <1>5, NowStays
    <2>2. /\ runs[n].seen <= Len(rows)
          /\ \A i \in DOMAIN rows:
               i <= runs[n].seen /\ rows[i].topic = Now(n).topic /\ rows[i].direction = Now(n).direction
                 => rows[i].angle \notin {Nothing, rows[i].direction}
      BY <1>5, <2>1 DEF RowsRecorded
    <2>3. QED
      BY <1>1, <1>3, <1>4, <2>1, <2>2
  <1>6. ASSUME NEW n \in DOMAIN runs', runs'[n].at = "intelligence"
        PROVE  \E i \in DOMAIN rows': Owed(n, i)'
    <2>1. n # r /\ n \in DOMAIN runs /\ runs[n].at = "intelligence"
      BY <1>2, <1>6
    <2>2. PICK i \in DOMAIN rows: Owed(n, i)
      BY <2>1 DEF RowsRecorded
    <2>3. i # o
      BY <1>3, <2>1, <2>2 DEF Owed
    <2>4. Owed(n, i)'
      BY <1>1, <1>3, <1>4, <2>2, <2>3 DEF Owed
    <2>5. QED
      BY <1>3, <2>4
  <1>7. RecordedOnce'
    <2>1. \A i, j \in DOMAIN rows':
            i < j /\ rows'[i].topic = rows'[j].topic /\ rows'[i].direction = rows'[j].direction
              => i > rows'[j].seen \/ rows'[i].angle \notin {Nothing, rows'[i].direction}
      BY <1>3, <1>4 DEF RowsRecorded, RecordedOnce
    <2>2. \A i \in DOMAIN rows': rows'[i].topic \notin runs'[rows'[i].run].titles
      BY <1>2, <1>3, <1>4 DEF RowsRecorded, RecordedOnce
    <2>3. QED
      BY <2>1, <2>2 DEF RecordedOnce
  <1>8. \A i \in DOMAIN rows': rows'[i].run \in DOMAIN runs'
    BY <1>2, <1>3, <1>4 DEF RowsRecorded
  <1>9. QED
    BY <1>1, <1>5, <1>6, <1>7, <1>8 DEF RowsRecorded

LEMMA RunRows ==
  ASSUME RunsShaped, RowsRecorded, NEW r \in DOMAIN runs, Step(r) \/ Faults(r)
  PROVE  RowsRecorded'
  <1>1. ASSUME UNCHANGED rows, NEW at, NEW remaining, NEW count, NEW seen,
               Moves(r, at, remaining, count, seen), at \notin {"create", "intelligence"}
        PROVE  RowsRecorded'
    <2>1. SameRows
      BY <1>1, Unwritten
    <2>2. /\ DOMAIN runs' = DOMAIN runs /\ \A n \in DOMAIN runs: n # r => runs'[n] = runs[n]
          /\ \A n \in DOMAIN runs: runs'[n].titles = runs[n].titles
      BY <1>1, MovesKeep
    <2>3. runs'[r].at = at
      BY <1>1 DEF Moves
    <2>4. QED
      BY <1>1, <2>1, <2>2, <2>3, RowsKeep
  <1>2. CASE SignalSteps(r)
    <2>1. UNCHANGED rows
      BY <1>2 DEF SignalSteps, Lock, LookForSignal, InsertSignal, Stored
    <2>2. Stays(r, "second") \/ Stays(r, "look") \/ Stays(r, "list") \/ Stays(r, "insert")
      BY <1>2, SignalMoves DEF SignalSteps
    <2>3. QED
      BY <1>1, <2>1, <2>2 DEF Stays
  <1>3. CASE ListAndCompare(r)
    BY <1>3, ListRows
  <1>4. CASE CreateBrandOpportunity(r)
    BY <1>4, CreateRows
  <1>5. CASE \E stored \in BOOLEAN: WriteIntelligence(r, stored)
    <2>1. PICK stored \in BOOLEAN: WriteIntelligence(r, stored)
      BY <1>5
    <2>2. runs[r].at = "intelligence"
      BY <2>1 DEF WriteIntelligence, At
    <2>3. CASE Stays(r, "failing") /\ UNCHANGED rows
      BY <1>1, <2>3 DEF Stays
    <2>4. CASE /\ Moves(r, "first", runs[r].left \ {Least(runs[r].left)}, runs[r].count, runs[r].seen)
               /\ rows' = [rows EXCEPT ![Mine(r)].angle = Now(r).angle]
      BY <2>2, <2>4, AngleRows
    <2>5. CASE /\ Moves(r, "first", runs[r].left \ {Least(runs[r].left)}, runs[r].count, runs[r].seen)
               /\ UNCHANGED rows
      BY <1>1, <2>5
    <2>6. QED
      BY <2>1, <2>3, <2>4, <2>5, WriteMoves
  <1>6. CASE RunRaises(r)
    <2>1. Stays(r, "failing") /\ UNCHANGED rows
      BY <1>6, GotoStays DEF RunRaises, Stored, Stages
    <2>2. QED
      BY <1>1, <2>1 DEF Stays
  <1>7. CASE \/ \E heard \in BOOLEAN: Complete(r, heard)
             \/ \E stored \in BOOLEAN: Fail(r, stored)
    <2>1. UNCHANGED rows /\ (Stays(r, "ended") \/ Stays(r, "failing"))
      BY <1>7, GotoStays DEF Complete, Fail, Stages
    <2>2. QED
      BY <1>1, <2>1 DEF Stays
  <1>8. QED
    BY <1>2, <1>3, <1>4, <1>5, <1>6, <1>7 DEF Step, Faults, SignalSteps

LEMMA OtherRows ==
  ASSUME RunsShaped, RowsRecorded,
         \/ \E q \in Requests, l \in Lists: StartRun(q, l)
         \/ \E s \in Servers: Crash(s)
  PROVE  RowsRecorded'
  <1>1. SameRows
    BY Unwritten DEF StartRun, Crash, Stored
  <1>2. CASE \E q \in Requests, l \in Lists: StartRun(q, l)
    <2>1. PICK q \in Requests, l \in Lists: StartRun(q, l)
      BY <1>2
    <2>2. /\ runs' \in Seq(RunRow) /\ Len(runs') = Len(runs) + 1
          /\ \A n \in DOMAIN runs: runs'[n] = runs[n]
          /\ runs'[Len(runs) + 1].at = "first"
      <3>1. /\ runs' \in Seq(RunRow) /\ Len(runs') = Len(runs) + 1
            /\ \A n \in DOMAIN runs: runs'[n] = runs[n]
            /\ runs'[Len(runs) + 1] = Starts(q, l)
        BY <2>1, StartAppends
      <3>2. QED
        BY <3>1 DEF Starts
    <2>3. runs \in Seq(RunRow)
      BY DEF RunsShaped
    <2>4. DOMAIN runs \subseteq DOMAIN runs' /\ \A n \in DOMAIN runs': n \in DOMAIN runs \/ n = Len(runs) + 1
      BY <2>2, <2>3
    <2>5. QED
      BY <1>1, <2>2, <2>4, RowsKeep
  <1>3. CASE \E s \in Servers: Crash(s)
    <2>1. /\ DOMAIN runs' = DOMAIN runs /\ \A n \in DOMAIN runs: runs'[n].titles = runs[n].titles
          /\ \A n \in DOMAIN runs: runs'[n] = runs[n] \/ runs'[n].at = "ended"
      BY <1>3, CrashEnds
    <2>2. QED
      BY <1>1, <2>1, RowsKeep
  <1>4. QED
    BY <1>2, <1>3

LEMMA PeopleRows ==
  ASSUME RowsRecorded, PeopleHonest, People
  PROVE  SameRows
  <1>1. PICK u \in Users:
          \/ UserEnds(u)
          \/ \E i \in DOMAIN rows, a \in Actions: UserDoes(u, i, a)
    BY DEF People
  <1>2. ASSUME NEW i \in DOMAIN rows, NEW a, recordFeedback(u, i, a) PROVE SameRows
    <2>1. rows[i].status \in Statuses
      <3>1. rows[i] \in Row
        BY DEF RowsRecorded
      <3>2. QED
        BY <3>1 DEF Row
    <2>2. feedbackStatus(a, rows[i].status) \in Statuses
      BY <2>1 DEF feedbackStatus, Statuses
    <2>3. rows' = [rows EXCEPT ![i].status = feedbackStatus(a, rows[i].status)]
      BY <1>2 DEF recordFeedback
    <2>4. QED
      BY <2>2, <2>3, RestatusRows
  <1>3. CASE setBrandOpportunityStatus(u)
    <2>1. users[u].of \in DOMAIN rows
      BY <1>3 DEF PeopleHonest, setBrandOpportunityStatus
    <2>2. transitionOpportunityStatus(users[u].action) \in Statuses
      BY DEF transitionOpportunityStatus, Statuses
    <2>3. QED
      BY <1>3, <2>1, <2>2, RestatusRows DEF setBrandOpportunityStatus
  <1>4. ASSUME NEW i \in DOMAIN rows, developOpportunity(u, i) PROVE SameRows
    BY <1>4, RestatusRows DEF developOpportunity, Statuses
  <1>5. CASE users[u].at = "feedback" /\ recordFeedback(u, users[u].of, "developed")
    <2>1. users[u].of \in DOMAIN rows
      BY <1>5 DEF PeopleHonest
    <2>2. QED
      BY <1>2, <1>5, <2>1
  <1>6. CASE evolveBrandPreferenceState(u)
    BY <1>6, Unwritten DEF evolveBrandPreferenceState
  <1>7. ASSUME NEW i \in DOMAIN rows, NEW a, Act(u, i, a) PROVE SameRows
    BY <1>7, Unwritten DEF Act, Stored
  <1>8. QED
    BY <1>1, <1>2, <1>3, <1>4, <1>5, <1>6, <1>7 DEF UserEnds, UserDoes

LEMMA RowsRecordedNext ==
  ASSUME RunsShaped, RowsRecorded, PeopleHonest, [Next]_vars
  PROVE  RowsRecorded'
  <1>1. CASE \E r \in DOMAIN runs: Step(r) \/ Faults(r)
    BY <1>1, RunRows
  <1>2. CASE \/ \E q \in Requests, l \in Lists: StartRun(q, l)
             \/ \E s \in Servers: Crash(s)
    BY <1>2, OtherRows
  <1>3. CASE People
    <2>1. SameRows /\ UNCHANGED runs
      BY <1>3, PeopleRows, PeopleKeepRuns
    <2>2. QED
      BY <2>1, RowsKeep
  <1>4. CASE \/ \E q \in Requests: Join(q) \/ \E s \in Servers: Recommend(q, s)
             \/ UNCHANGED vars
    <2>1. UNCHANGED <<rows, runs>>
      BY <1>4 DEF vars, Join, Recommend, Stored
    <2>2. QED
      BY <2>1, Unwritten, RowsKeep
  <1>5. QED
    BY <1>1, <1>2, <1>3, <1>4 DEF Next, People, Request

-----------------------------------------------------------------------------
(* Counted: a record says how many rows its run has.                       *)
Settled(r) == records[r].status = "succeeded" =>
                runs[r].at \in {"failing", "ended"} /\ records[r].count = runs[r].count

LEMMA SameOf ==
  ASSUME RowsRecorded, SameRows, NEW n PROVE Of(n)' = Of(n)
  <1>1. DOMAIN rows' = DOMAIN rows
    BY DEF SameRows, RowsRecorded
  <1>2. QED
    BY <1>1 DEF SameRows, Of

LEMMA CountMoves ==
  ASSUME RunsShaped, RowsRecorded, Counted, SameRows, NEW r \in DOMAIN runs, NEW at, NEW remaining, NEW seen,
         Moves(r, at, remaining, runs[r].count, seen),
         \A n \in DOMAIN runs: n # r => records'[n] = records[n],
         Settled(r)'
  PROVE  Counted'
  <1>1. /\ DOMAIN runs' = DOMAIN runs /\ \A n \in DOMAIN runs: n # r => runs'[n] = runs[n]
        /\ runs'[r].count = runs[r].count
    BY MovesKeep DEF Moves
  <1>2. ASSUME NEW n \in DOMAIN runs PROVE runs'[n].count = Cardinality(Of(n)')
    <2>1. Of(n)' = Of(n) /\ runs'[n].count = runs[n].count
      BY <1>1, SameOf
    <2>2. QED
      BY <2>1 DEF Counted
  <1>3. ASSUME NEW n \in DOMAIN runs PROVE Settled(n)'
    <2>1. CASE n = r
      BY <2>1
    <2>2. CASE n # r
      BY <1>1, <2>2 DEF Counted, Settled
    <2>3. QED
      BY <2>1, <2>2
  <1>4. QED
    BY <1>1, <1>2, <1>3 DEF Counted, Settled

LEMMA CreateCounts ==
  ASSUME RunsShaped, RowsRecorded, Counted, NEW r \in DOMAIN runs, CreateBrandOpportunity(r)
  PROVE  Counted'
  <1>1. /\ DOMAIN rows = 1..Len(rows) /\ DOMAIN rows' = 1..(Len(rows) + 1) /\ Len(rows) \in Nat
        /\ \A i \in DOMAIN rows: rows'[i] = rows[i]
        /\ rows'[Len(rows) + 1].run = r
    <2>1. rows'[Len(rows) + 1] = Created(r)
      BY CreateAppends
    <2>2. QED
      BY <2>1, CreateAppends DEF Created
  <1>2. /\ DOMAIN runs' = DOMAIN runs /\ \A n \in DOMAIN runs: n # r => runs'[n] = runs[n]
        /\ runs'[r].count = runs[r].count + 1
    BY CreateMoves, MovesKeep DEF Moves
  <1>3. ASSUME NEW n \in DOMAIN runs PROVE runs'[n].count = Cardinality(Of(n)')
    <2>1. CASE n = r
      <3>1. Of(n)' = Of(n) \cup {Len(rows) + 1} /\ Len(rows) + 1 \notin Of(n)
        BY <1>1, <2>1 DEF Of
      <3>2. IsFiniteSet(Of(n))
        <4>1. Of(n) \in SUBSET (1..Len(rows))
          BY <1>1 DEF Of
        <4>2. IsFiniteSet(1..Len(rows))
          BY <1>1, FS_Interval
        <4>3. QED
          BY <4>1, <4>2, FS_Subset
      <3>3. Cardinality(Of(n)') = Cardinality(Of(n)) + 1
        BY <3>1, <3>2, FS_AddElement
      <3>4. QED
        BY <1>2, <2>1, <3>3 DEF Counted
    <2>2. CASE n # r
      <3>1. Of(n)' = Of(n)
        BY <1>1, <2>2 DEF Of
      <3>2. QED
        BY <1>2, <2>2, <3>1 DEF Counted
    <2>3. QED
      BY <2>1, <2>2
  <1>4. ASSUME NEW n \in DOMAIN runs PROVE Settled(n)'
    <2>1. UNCHANGED records /\ runs[r].at = "create"
      BY DEF CreateBrandOpportunity, At
    <2>2. records[r].status # "succeeded"
      BY <2>1 DEF Counted
    <2>3. QED
      BY <1>2, <2>1, <2>2 DEF Counted, Settled
  <1>5. QED
    BY <1>2, <1>3, <1>4 DEF Counted, Settled

LEMMA RunCounts ==
  ASSUME RunsShaped, RowsRecorded, Counted, NEW r \in DOMAIN runs, Step(r) \/ Faults(r)
  PROVE  Counted'
  <1>1. ASSUME UNCHANGED records, SameRows, NEW at, NEW remaining, NEW seen,
               Moves(r, at, remaining, runs[r].count, seen), runs[r].at \notin {"failing", "ended"}
        PROVE  Counted'
    <2>1. records[r].status # "succeeded"
      BY <1>1 DEF Counted
    <2>2. Settled(r)'
      BY <1>1, <2>1 DEF Settled
    <2>3. QED
      BY <1>1, <2>2, CountMoves
  <1>2. CASE SignalSteps(r)
    <2>1. UNCHANGED records /\ SameRows /\ runs[r].at \notin {"failing", "ended"}
      BY <1>2, Unwritten DEF SignalSteps, Lock, LookForSignal, InsertSignal, Stored, At
    <2>2. Stays(r, "second") \/ Stays(r, "look") \/ Stays(r, "list") \/ Stays(r, "insert")
      BY <1>2, SignalMoves DEF SignalSteps
    <2>3. QED
      BY <1>1, <2>1, <2>2 DEF Stays
  <1>3. CASE ListAndCompare(r)
    <2>1. UNCHANGED records /\ SameRows /\ runs[r].at \notin {"failing", "ended"}
      BY <1>3, Unwritten DEF ListAndCompare, Stored, At
    <2>2. QED
      BY <1>1, <1>3, <2>1, ListMoves
  <1>4. CASE CreateBrandOpportunity(r)
    BY <1>4, CreateCounts
  <1>5. CASE \E stored \in BOOLEAN: WriteIntelligence(r, stored)
    <2>1. PICK stored \in BOOLEAN: WriteIntelligence(r, stored)
      BY <1>5
    <2>2. UNCHANGED records /\ runs[r].at = "intelligence"
      BY <2>1 DEF WriteIntelligence, At
    <2>3. CASE UNCHANGED rows
      <3>1. SameRows
        BY <2>3, Unwritten
      <3>2. QED
        BY <1>1, <2>1, <2>2, <3>1, WriteMoves DEF Stays
    <2>4. CASE /\ Moves(r, "first", runs[r].left \ {Least(runs[r].left)}, runs[r].count, runs[r].seen)
               /\ rows' = [rows EXCEPT ![Mine(r)].angle = Now(r).angle]
      <3>1. PICK o \in DOMAIN rows: Angled(r, o)
        BY <2>2, <2>4, AngleWrites
      <3>2. DOMAIN rows' = DOMAIN rows /\ \A i \in DOMAIN rows: rows'[i].run = rows[i].run
        <4>1. rows \in Seq(Row)
          BY DEF RowsRecorded
        <4>2. QED
          BY <3>1, <4>1 DEF Angled
      <3>3. \A n: Of(n)' = Of(n)
        BY <3>2 DEF Of
      <3>4. /\ DOMAIN runs' = DOMAIN runs /\ \A n \in DOMAIN runs: n # r => runs'[n] = runs[n]
            /\ runs'[r].count = runs[r].count
        BY <2>4, MovesKeep DEF Moves
      <3>5. records[r].status # "succeeded"
        BY <2>2 DEF Counted
      <3>6. ASSUME NEW n \in DOMAIN runs PROVE runs'[n].count = Cardinality(Of(n)')
        BY <3>3, <3>4 DEF Counted
      <3>7. ASSUME NEW n \in DOMAIN runs PROVE Settled(n)'
        BY <2>2, <3>4, <3>5 DEF Counted, Settled
      <3>8. QED
        BY <3>4, <3>6, <3>7 DEF Counted, Settled
    <2>5. QED
      BY <2>1, <2>3, <2>4, WriteMoves
  <1>6. CASE RunRaises(r)
    <2>1. Stays(r, "failing") /\ SameRows /\ UNCHANGED records /\ runs[r].at \notin {"failing", "ended"}
      BY <1>6, GotoStays, Unwritten DEF RunRaises, Stored, Stages
    <2>2. QED
      BY <1>1, <2>1 DEF Stays
  <1>7. CASE \E heard \in BOOLEAN: Complete(r, heard)
    <2>1. SameRows /\ (Stays(r, "ended") \/ Stays(r, "failing")) /\ runs[r].at = "first"
      BY <1>7, GotoStays, Unwritten DEF Complete, Stages, At
    <2>2. Finished(r, "succeeded", runs[r].count) /\ runs[r].count \in Nat
      <3>1. runs[r] \in RunRow
        BY DEF RunsShaped
      <3>2. QED
        BY <1>7, <3>1 DEF Complete, RunRow
    <2>3. /\ \A n \in DOMAIN records: n # r => records'[n] = records[n]
          /\ \/ records'[r] = records[r]
             \/ records'[r] = [status |-> "succeeded", count |-> runs[r].count]
          /\ DOMAIN records = DOMAIN runs
      <3>1. DOMAIN records = DOMAIN runs
        BY DEF RunsShaped
      <3>2. QED
        BY <2>2, <3>1, FinishedIsWell
    <2>4. records[r].status # "succeeded"
      BY <2>1 DEF Counted
    <2>5. runs'[r].at \in {"failing", "ended"} /\ runs'[r].count = runs[r].count
      BY <2>1 DEF Stays, Moves
    <2>6. Settled(r)'
      BY <2>3, <2>4, <2>5 DEF Settled
    <2>7. QED
      BY <2>1, <2>3, <2>6, CountMoves DEF Stays
  <1>8. CASE \E stored \in BOOLEAN: Fail(r, stored)
    <2>1. SameRows /\ Stays(r, "ended") /\ runs[r].at = "failing"
      BY <1>8, GotoStays, Unwritten DEF Fail, Stages, At
    <2>2. UNCHANGED records \/ Finished(r, "failed", 0)
      BY <1>8 DEF Fail
    <2>3. /\ \A n \in DOMAIN runs: n # r => records'[n] = records[n]
          /\ \/ records'[r] = records[r]
             \/ records'[r] = [status |-> "failed", count |-> 0]
      <3>1. DOMAIN records = DOMAIN runs
        BY DEF RunsShaped
      <3>2. QED
        BY <2>2, <3>1, FinishedIsWell
    <2>4. runs'[r].at = "ended" /\ runs'[r].count = runs[r].count
      BY <2>1 DEF Stays, Moves
    <2>5. Settled(r)'
      BY <2>3, <2>4 DEF Settled, Counted
    <2>6. QED
      BY <2>1, <2>3, <2>5, CountMoves DEF Stays
  <1>9. QED
    BY <1>2, <1>3, <1>4, <1>5, <1>6, <1>7, <1>8 DEF Step, Faults, SignalSteps

LEMMA OtherCounts ==
  ASSUME RunsShaped, RowsRecorded, Counted,
         \/ \E q \in Requests, l \in Lists: StartRun(q, l)
         \/ \E s \in Servers: Crash(s)
  PROVE  Counted'
  <1>1. UNCHANGED rows /\ SameRows
    BY Unwritten DEF StartRun, Crash, Stored
  <1>2. CASE \E q \in Requests, l \in Lists: StartRun(q, l)
    <2>1. PICK q \in Requests, l \in Lists: StartRun(q, l)
      BY <1>2
    <2>2. /\ runs' \in Seq(RunRow) /\ Len(runs') = Len(runs) + 1
          /\ \A n \in DOMAIN runs: runs'[n] = runs[n] /\ records'[n] = records[n]
          /\ runs'[Len(runs) + 1] = Starts(q, l)
          /\ records'[Len(runs) + 1] = [status |-> "running", count |-> 0]
      <3>1. DOMAIN records = DOMAIN runs /\ Len(records) = Len(runs)
        BY DEF RunsShaped
      <3>2. QED
        BY <2>1, <3>1, StartAppends
    <2>3. runs \in Seq(RunRow) /\ DOMAIN runs = 1..Len(runs) /\ Len(runs) \in Nat
      BY DEF RunsShaped
    <2>4. ASSUME NEW n \in DOMAIN runs'
          PROVE  runs'[n].count = Cardinality(Of(n)') /\ Settled(n)'
      <3>1. CASE n = Len(runs) + 1
        <4>1. Of(n)' = {}
          BY <1>1, <2>3, <3>1 DEF Of, RowsRecorded
        <4>2. Cardinality(Of(n)') = 0
          BY <4>1, FS_EmptySet
        <4>3. QED
          BY <2>2, <3>1, <4>2 DEF Starts, Settled
      <3>2. CASE n # Len(runs) + 1
        <4>1. n \in DOMAIN runs
          BY <2>2, <2>3, <3>2
        <4>2. Of(n)' = Of(n)
          BY <1>1, SameOf
        <4>3. QED
          BY <2>2, <4>1, <4>2 DEF Counted, Settled
      <3>3. QED
        BY <3>1, <3>2
    <2>5. QED
      BY <2>4 DEF Counted, Settled
  <1>3. CASE \E s \in Servers: Crash(s)
    <2>1. /\ DOMAIN runs' = DOMAIN runs /\ UNCHANGED records
          /\ \A n \in DOMAIN runs: /\ runs'[n] = runs[n] \/ runs'[n].at = "ended"
                                   /\ runs'[n].count = runs[n].count
      <3>1. UNCHANGED records
        BY <1>3 DEF Crash, Stored
      <3>2. QED
        BY <1>3, <3>1, CrashEnds
    <2>2. \A n: Of(n)' = Of(n)
      BY <1>1 DEF Of
    <2>3. QED
      BY <2>1, <2>2 DEF Counted
  <1>4. QED
    BY <1>2, <1>3

LEMMA CountedNext ==
  ASSUME RunsShaped, RowsRecorded, PeopleHonest, Counted, [Next]_vars
  PROVE  Counted'
  <1>1. CASE \E r \in DOMAIN runs: Step(r) \/ Faults(r)
    BY <1>1, RunCounts
  <1>2. CASE \/ \E q \in Requests, l \in Lists: StartRun(q, l)
             \/ \E s \in Servers: Crash(s)
    BY <1>2, OtherCounts
  <1>3. CASE \/ \E q \in Requests: Join(q) \/ \E s \in Servers: Recommend(q, s)
             \/ People \/ UNCHANGED vars
    <2>1. SameRows /\ UNCHANGED <<runs, records>>
      BY <1>3, PeopleRows, PeopleKeepRuns, Unwritten DEF vars, Join, Recommend, Stored
    <2>2. \A n \in DOMAIN runs: Of(n)' = Of(n)
      BY <2>1, SameOf
    <2>3. QED
      BY <2>1, <2>2 DEF Counted
  <1>4. QED
    BY <1>1, <1>2, <1>3 DEF Next, People, Request

-----------------------------------------------------------------------------
(* PeopleHonest: what people do to opportunities and learn from it.        *)
LEMMA RowsGrow ==
  ASSUME PeopleHonest, DOMAIN rows \subseteq DOMAIN rows',
         UNCHANGED <<users, preference, ideas, events>>
  PROVE  PeopleHonest'
  BY DEF PeopleHonest, OneIdea, LearningKept

LEMMA RunsKeepPeople ==
  ASSUME RunsShaped, RowsRecorded, PeopleHonest,
         \/ \E r \in DOMAIN runs: Step(r) \/ Faults(r)
         \/ \E q \in Requests: Request(q) \/ \E s \in Servers: Recommend(q, s)
         \/ \E s \in Servers: Crash(s)
         \/ UNCHANGED vars
  PROVE  PeopleHonest'
  <1>1. UNCHANGED <<users, preference, ideas, events>>
    BY DEF Step, Faults, Request, Recommend, Join, StartRun, Crash, Lock, LookForSignal, InsertSignal,
           ListAndCompare, CreateBrandOpportunity, WriteIntelligence, RunRaises, Complete, Fail, Stored, vars
  <1>2. DOMAIN rows \subseteq DOMAIN rows'
    <2>1. CASE \E r \in DOMAIN runs: CreateBrandOpportunity(r)
      <3>1. PICK r \in DOMAIN runs: CreateBrandOpportunity(r)
        BY <2>1
      <3>2. DOMAIN rows = 1..Len(rows) /\ DOMAIN rows' = 1..(Len(rows) + 1) /\ Len(rows) \in Nat
        BY <3>1, CreateAppends
      <3>3. QED
        BY <3>2
    <2>2. CASE \E r \in DOMAIN runs, stored \in BOOLEAN: WriteIntelligence(r, stored)
      <3>1. \/ UNCHANGED rows
            \/ \E r \in DOMAIN runs: rows' = [rows EXCEPT ![Mine(r)].angle = Now(r).angle]
        BY <2>2 DEF WriteIntelligence
      <3>2. QED
        BY <3>1
    <2>3. CASE UNCHANGED rows
      BY <2>3
    <2>4. QED
      BY <2>1, <2>2, <2>3 DEF Step, Faults, Request, Recommend, Join, StartRun, Crash, Lock, LookForSignal,
           InsertSignal, ListAndCompare, RunRaises, Complete, Fail, Stored, vars
  <1>3. QED
    BY <1>1, <1>2, RowsGrow

(* One person moves on: what the new row must say for the rest to hold.    *)
Fits(u, v) ==
  /\ v \in Person
  /\ v.at # "idle" => v.of \in DOMAIN rows
  /\ v.at = "set" => v.action \in {"save", "ignore", "develop"}
  /\ v.at = "learn" => v.seen \subseteq events' /\ <<v.of, v.action, u>> \in events'
  /\ v.at = "learn" /\ v.had => v.seen = preference'.of

LEMMA PersonMoves ==
  ASSUME PeopleHonest, DOMAIN rows' = DOMAIN rows, NEW u \in Users, NEW v, Fits(u, v),
         users' = [users EXCEPT ![u] = v],
         events \subseteq events', events' \subseteq (DOMAIN rows) \X Feedbacks \X Users,
         preference' \in [there: BOOLEAN, of: SUBSET (Nat \X Feedbacks \X Users)],
         preference'.of \subseteq events',
         \/ preference' = preference
         \/ \A w \in Users \ {u}: ~HoldsState(w),
         ideas' \in Seq(Nat), \A i \in DOMAIN ideas': ideas'[i] \in DOMAIN rows, OneIdea'
  PROVE  PeopleHonest'
  <1>1. users' \in [Users -> Person]
    BY DEF PeopleHonest, Fits
  <1>2. ASSUME NEW w \in Users
        PROVE  /\ users'[w].at # "idle" => users'[w].of \in DOMAIN rows'
               /\ users'[w].at = "set" => users'[w].action \in {"save", "ignore", "develop"}
               /\ users'[w].at = "learn" =>
                    users'[w].seen \subseteq events' /\ <<users'[w].of, users'[w].action, w>> \in events'
               /\ users'[w].at = "learn" /\ users'[w].had => users'[w].seen = preference'.of
    <2>1. CASE w = u
      <3>1. users'[w] = v
        BY <2>1 DEF PeopleHonest
      <3>2. QED
        BY <2>1, <3>1 DEF Fits
    <2>2. CASE w # u
      <3>1. users'[w] = users[w]
        BY <2>2 DEF PeopleHonest
      <3>2. users[w].at = "learn" /\ users[w].had => users[w].seen = preference'.of
        BY <2>2 DEF PeopleHonest, LearningKept, HoldsState
      <3>3. QED
        BY <3>1, <3>2 DEF PeopleHonest
    <2>3. QED
      BY <2>1, <2>2
  <1>3. QED
    BY <1>1, <1>2 DEF PeopleHonest, LearningKept

LEMMA RestingFits == ASSUME NEW u PROVE Fits(u, Resting)
  <1>1. /\ Resting \in Person /\ Resting.at = "idle"
    BY DEF Resting, Doing, Person
  <1>2. QED
    BY <1>1 DEF Fits

LEMMA NoOneLearns ==
  ASSUME PeopleHonest, RowsRecorded, SameRows, NEW u \in Users, NEW v \in Person,
         v.at \in {"idle", "set", "feedback"},
         v.at # "idle" => v.of \in DOMAIN rows,
         v.at = "set" => v.action \in {"save", "ignore", "develop"},
         users' = [users EXCEPT ![u] = v], UNCHANGED <<events, preference>>,
         ideas' \in Seq(Nat), \A i \in DOMAIN ideas': ideas'[i] \in DOMAIN rows, OneIdea'
  PROVE  PeopleHonest'
  <1>1. DOMAIN rows' = DOMAIN rows
    BY DEF SameRows, RowsRecorded
  <1>2. Fits(u, v)
    BY DEF Fits
  <1>3. /\ events \subseteq events' /\ events' \subseteq (DOMAIN rows) \X Feedbacks \X Users
        /\ preference' \in [there: BOOLEAN, of: SUBSET (Nat \X Feedbacks \X Users)]
        /\ preference'.of \subseteq events' /\ preference' = preference
    BY DEF PeopleHonest
  <1>4. QED
    BY <1>1, <1>2, <1>3, PersonMoves

LEMMA FeedbackStep ==
  ASSUME PeopleHonest, RowsRecorded, SameRows, NEW u \in Users, NEW i \in DOMAIN rows,
         NEW action, recordFeedback(u, i, action)
  PROVE  PeopleHonest'
  <1>1. /\ DOMAIN rows' = DOMAIN rows /\ i \in Nat
    BY DEF SameRows, RowsRecorded
  <1>2. /\ action \in Feedbacks /\ UNCHANGED <<ideas, preference>>
        /\ ideas' \in Seq(Nat) /\ \A j \in DOMAIN ideas': ideas'[j] \in DOMAIN rows
        /\ OneIdea' /\ preference \in [there: BOOLEAN, of: SUBSET (Nat \X Feedbacks \X Users)]
        /\ preference.of \subseteq events /\ events \subseteq (DOMAIN rows) \X Feedbacks \X Users
    BY DEF recordFeedback, PeopleHonest, OneIdea
  <1>3. CASE UNCHANGED events /\ users' = [users EXCEPT ![u] = Resting]
    <2>1. Resting \in Person /\ Resting.at = "idle"
      BY DEF Resting, Doing, Person
    <2>2. QED
      BY <1>2, <1>3, <2>1, NoOneLearns
  <1>4. CASE /\ events' = events \cup {<<i, action, u>>}
             /\ users' = [users EXCEPT ![u] = [at |-> "learn", action |-> action, of |-> i,
                            had |-> preference.there, seen |-> preference.of]]
    <2> DEFINE v == [at |-> "learn", action |-> action, of |-> i,
                     had |-> preference.there, seen |-> preference.of]
    <2>1. v \in Person
      BY <1>1, <1>2 DEF Person
    <2>2. /\ v.at = "learn" /\ v.of = i /\ v.action = action /\ v.seen = preference.of
          /\ users' = [users EXCEPT ![u] = v]
      BY <1>4
    <2> HIDE DEF v
    <2>3. Fits(u, v)
      BY <1>2, <1>4, <2>1, <2>2 DEF Fits
    <2>4. /\ events \subseteq events' /\ events' \subseteq (DOMAIN rows) \X Feedbacks \X Users
          /\ preference'.of \subseteq events'
      BY <1>2, <1>4
    <2>5. QED
      BY <1>1, <1>2, <2>2, <2>3, <2>4, PersonMoves
  <1>5. QED
    BY <1>3, <1>4 DEF recordFeedback

LEMMA LearnStep ==
  ASSUME PeopleHonest, RowsRecorded, SameRows, NEW u \in Users, evolveBrandPreferenceState(u)
  PROVE  PeopleHonest'
  <1>1. DOMAIN rows' = DOMAIN rows /\ DOMAIN rows = 1..Len(rows)
    BY DEF SameRows, RowsRecorded
  <1>2. /\ users' = [users EXCEPT ![u] = Resting] /\ UNCHANGED <<ideas, events>>
        /\ users[u].at = "learn" /\ \A w \in Users \ {u}: ~HoldsState(w)
    BY DEF evolveBrandPreferenceState
  <1>3. /\ events' \subseteq (DOMAIN rows) \X Feedbacks \X Users /\ events \subseteq events'
        /\ users[u].seen \subseteq events /\ <<users[u].of, users[u].action, u>> \in events
        /\ ideas' \in Seq(Nat) /\ \A j \in DOMAIN ideas': ideas'[j] \in DOMAIN rows
        /\ OneIdea' /\ preference \in [there: BOOLEAN, of: SUBSET (Nat \X Feedbacks \X Users)]
        /\ preference.of \subseteq events
    BY <1>2 DEF PeopleHonest, OneIdea
  <1>4. /\ preference' \in [there: BOOLEAN, of: SUBSET (Nat \X Feedbacks \X Users)]
        /\ preference'.of \subseteq events'
    <2>1. CASE preference' = preference
      BY <1>2, <1>3, <2>1
    <2>2. CASE preference' = [there |-> TRUE,
                              of |-> users[u].seen \cup {<<users[u].of, users[u].action, u>>}]
      <3> DEFINE all == users[u].seen \cup {<<users[u].of, users[u].action, u>>}
      <3>1. all \subseteq events /\ events \subseteq Nat \X Feedbacks \X Users
        BY <1>1, <1>2, <1>3
      <3>2. preference' = [there |-> TRUE, of |-> all]
        BY <2>2
      <3> HIDE DEF all
      <3>3. QED
        BY <1>2, <3>1, <3>2
    <2>3. QED
      BY <2>1, <2>2 DEF evolveBrandPreferenceState
  <1>5. QED
    BY <1>1, <1>2, <1>3, <1>4, RestingFits, PersonMoves

LEMMA IdeasStay ==
  ASSUME PeopleHonest, UNCHANGED ideas
  PROVE  ideas' \in Seq(Nat) /\ (\A j \in DOMAIN ideas': ideas'[j] \in DOMAIN rows) /\ OneIdea'
  BY DEF PeopleHonest, OneIdea

LEMMA ActStep ==
  ASSUME PeopleHonest, RowsRecorded, SameRows, NEW u \in Users, NEW i \in DOMAIN rows,
         NEW a \in Actions, Act(u, i, a)
  PROVE  PeopleHonest'
  <1> DEFINE v == Doing("set", a, i)
  <1>1. i \in Nat
    BY DEF RowsRecorded
  <1>2. v \in Person /\ v.at = "set" /\ v.of = i /\ v.action = a
    BY <1>1 DEF Doing, Person
  <1>3. /\ users' = [users EXCEPT ![u] = v] /\ UNCHANGED <<ideas, events, preference>>
        /\ a \in {"save", "ignore", "develop"}
    BY DEF Act, Stored
  <1> HIDE DEF v
  <1>4. QED
    BY <1>2, <1>3, IdeasStay, NoOneLearns

LEMMA SetStep ==
  ASSUME PeopleHonest, RowsRecorded, SameRows, NEW u \in Users, setBrandOpportunityStatus(u)
  PROVE  PeopleHonest'
  <1>1. Resting \in Person /\ Resting.at = "idle"
    BY DEF Resting, Doing, Person
  <1>2. users' = [users EXCEPT ![u] = Resting] /\ UNCHANGED <<ideas, events, preference>>
    BY DEF setBrandOpportunityStatus
  <1>3. QED
    BY <1>1, <1>2, IdeasStay, NoOneLearns

LEMMA DevelopStep ==
  ASSUME PeopleHonest, RowsRecorded, SameRows, NEW u \in Users, NEW i \in DOMAIN rows,
         developOpportunity(u, i)
  PROVE  PeopleHonest'
  <1> DEFINE v == Doing("feedback", "developed", i)
  <1>1. i \in Nat
    BY DEF RowsRecorded
  <1>2. v \in Person /\ v.at = "feedback" /\ v.of = i
    BY <1>1 DEF Doing, Person, Feedbacks
  <1>3. users' = [users EXCEPT ![u] = v] /\ UNCHANGED <<events, preference>>
    BY DEF developOpportunity
  <1> HIDE DEF v
  <1>4. ideas' \in Seq(Nat) /\ (\A j \in DOMAIN ideas': ideas'[j] \in DOMAIN rows) /\ OneIdea'
    <2>1. CASE Existing(i)
      BY <2>1, IdeasStay DEF developOpportunity
    <2>2. CASE ~Existing(i)
      <3>1. ideas \in Seq(Nat) /\ ideas' = Append(ideas, i) /\ DOMAIN ideas = 1..Len(ideas)
        BY <2>2 DEF developOpportunity, PeopleHonest
      <3>2. /\ ideas' \in Seq(Nat) /\ Len(ideas') = Len(ideas) + 1
            /\ \A j \in 1..Len(ideas): ideas'[j] = ideas[j]
            /\ ideas'[Len(ideas) + 1] = i
        BY <1>1, <3>1, AppendProperties
      <3>3. \A j \in DOMAIN ideas': j \in DOMAIN ideas \/ j = Len(ideas) + 1
        BY <3>1, <3>2
      <3>4. \A j \in DOMAIN ideas: ideas[j] # i /\ ideas[j] \in DOMAIN rows
        BY <2>2 DEF Existing, PeopleHonest
      <3>5. \A j \in DOMAIN ideas': ideas'[j] \in DOMAIN rows
        BY <3>1, <3>2, <3>3, <3>4
      <3>6. ASSUME NEW j \in DOMAIN ideas', NEW k \in DOMAIN ideas', ideas'[j] = ideas'[k]
            PROVE  j = k
        <4>1. \A x, y \in DOMAIN ideas: ideas[x] = ideas[y] => x = y
          BY DEF PeopleHonest, OneIdea
        <4>2. \A x \in DOMAIN ideas: ideas'[x] = ideas[x]
          BY <3>1, <3>2
        <4>3. QED
          BY <3>2, <3>3, <3>4, <3>6, <4>1, <4>2
      <3>7. QED
        BY <3>2, <3>5, <3>6 DEF OneIdea
    <2>3. QED
      BY <2>1, <2>2
  <1>5. QED
    BY <1>2, <1>3, <1>4, NoOneLearns

LEMMA PeopleHonestNext ==
  ASSUME RunsShaped, RowsRecorded, PeopleHonest, [Next]_vars
  PROVE  PeopleHonest'
  <1>1. CASE People
    <2>1. PICK u \in Users:
            \/ UserEnds(u)
            \/ \E i \in DOMAIN rows, a \in Actions: UserDoes(u, i, a)
      BY <1>1 DEF People
    <2>2. SameRows
      BY <1>1, PeopleRows
    <2>3. CASE UserEnds(u)
      <3>1. CASE users[u].at = "feedback" /\ recordFeedback(u, users[u].of, "developed")
        <4>1. users[u].of \in DOMAIN rows
          BY <3>1 DEF PeopleHonest
        <4>2. QED
          BY <2>2, <3>1, <4>1, FeedbackStep
      <3>2. QED
        BY <2>2, <2>3, <3>1, SetStep, LearnStep DEF UserEnds
    <2>4. CASE \E i \in DOMAIN rows, a \in Actions: UserDoes(u, i, a)
      BY <2>2, <2>4, ActStep, DevelopStep, FeedbackStep DEF UserDoes
    <2>5. QED
      BY <2>1, <2>3, <2>4
  <1>2. QED
    BY <1>1, RunsKeepPeople DEF Next, People

-----------------------------------------------------------------------------
LEMMA InitInv == Init => Inv
  <1> SUFFICES ASSUME Init PROVE Inv
    OBVIOUS
  <1>1. /\ runs = <<>> /\ rows = <<>> /\ records = <<>> /\ ideas = <<>> /\ signals = {}
        /\ events = {} /\ holder = [k \in Keys |-> 0] /\ MaxRuns \in Nat
        /\ preference = [there |-> FALSE, of |-> {}]
    BY StoreAssumption DEF Init
  <1>2. RunsShaped
    <2>1. requests \in [Requests -> Asked] /\ \A q \in Requests: requests[q].at = "idle"
      BY DEF Init, Asking, Asked
    <2>2. /\ runs \in Seq(RunRow) /\ Len(runs) = 0 /\ DOMAIN runs = {}
          /\ records \in Seq([status: {"running", "succeeded", "failed"}, count: Nat]) /\ Len(records) = 0
      BY <1>1
    <2>3. QED
      BY <1>1, <2>1, <2>2 DEF RunsShaped
  <1>3. KeysHeld
    <2>1. DOMAIN runs = {} /\ Len(runs) = 0
      BY <1>1
    <2>2. holder \in [Keys -> 0..Len(runs)] /\ \A k \in Keys: holder[k] = 0
      BY <1>1, <2>1
    <2>3. QED
      BY <2>1, <2>2 DEF KeysHeld, InsertsDoNotClash
  <1>4. RowsRecorded
    <2>1. DOMAIN runs = {} /\ DOMAIN rows = {} /\ rows \in Seq(Row)
      BY <1>1
    <2>2. QED
      BY <2>1 DEF RowsRecorded, RecordedOnce
  <1>5. Counted
    <2>1. DOMAIN runs = {}
      BY <1>1
    <2>2. QED
      BY <2>1 DEF Counted
  <1>6. PeopleHonest
    <2>1. \A u \in Users: users[u] = Resting /\ users[u].at = "idle"
      BY DEF Init, Resting, Doing
    <2>2. users \in [Users -> Person]
      BY DEF Init, Resting, Doing, Person
    <2>3. preference \in [there: BOOLEAN, of: SUBSET (Nat \X Feedbacks \X Users)] /\ preference.of = {}
      BY <1>1
    <2>4. ideas \in Seq(Nat) /\ DOMAIN ideas = {}
      BY <1>1
    <2>5. QED
      BY <1>1, <2>1, <2>2, <2>3, <2>4 DEF PeopleHonest, OneIdea, LearningKept
  <1>7. QED
    BY <1>2, <1>3, <1>4, <1>5, <1>6 DEF Inv

LEMMA Invariance == Spec => []Inv
  <1>1. Inv /\ [Next]_vars => Inv'
    BY RunsShapedNext, KeysHeldNext, RowsRecordedNext, CountedNext, PeopleHonestNext DEF Inv
  <1>2. QED
    BY <1>1, InitInv, PTL DEF Spec

(* The store is well formed: an idea, an event and a preference are of an  *)
(* opportunity there is, and only a run that is writing its signal holds a *)
(* key, whatever fails and however many processes and people there are.    *)
THEOREM StoreTyped == Spec => []TypeOK
  <1>1. Inv => TypeOK
    <2> SUFFICES ASSUME Inv PROVE TypeOK
      OBVIOUS
    <2>1. \A i \in DOMAIN rows: rows[i].status \in Statuses
      <3>1. \A i \in DOMAIN rows: rows[i] \in Row
        BY DEF Inv, RowsRecorded
      <3>2. QED
        BY <3>1 DEF Row
    <2>2. holder \in [Keys -> 0..MaxRuns]
      <3>1. holder \in [Keys -> 0..Len(runs)] /\ Len(runs) \in Nat /\ Len(runs) <= MaxRuns
        BY DEF Inv, KeysHeld, RunsShaped
      <3>2. QED
        BY <3>1, StoreAssumption
    <2>3. QED
      BY <2>1, <2>2 DEF Inv, TypeOK, RunsShaped, KeysHeld, PeopleHonest, Statuses
  <1>2. QED
    BY <1>1, Invariance, PTL

(* The store is well formed, signals of concurrent runs never clash,       *)
(* nothing a run has listed or its request has read is recorded again      *)
(* unless its angle was replaced, a record that succeeded counts the rows  *)
(* of its run, an opportunity is one idea, and a preference is written     *)
(* over what was read.                                                     *)
THEOREM StoreHolds == Spec => []StoreSound
  <1>1. Inv /\ TypeOK => StoreSound
    <2> SUFFICES ASSUME Inv, TypeOK PROVE StoreSound
      OBVIOUS
    <2>1. InsertsDoNotClash /\ RecordedOnce /\ OneIdea /\ LearningKept
      BY DEF Inv, KeysHeld, RowsRecorded, PeopleHonest
    <2>2. \A r, n \in DOMAIN runs: runs[r].server = runs[n].server /\ Live(r) /\ Live(n) => r = n
      BY DEF Inv, RunsShaped
    <2>3. \A r \in DOMAIN records: records[r].status = "succeeded" =>
            records[r].count = Cardinality({i \in DOMAIN rows: rows[i].run = r})
      <3>1. DOMAIN records = DOMAIN runs
        BY DEF Inv, RunsShaped
      <3>2. QED
        BY <3>1 DEF Inv, Counted, Of
    <2>4. QED
      BY <2>1, <2>2, <2>3 DEF StoreSound, RunsAccounted
  <1>2. QED
    BY <1>1, Invariance, StoreTyped, PTL

-----------------------------------------------------------------------------
(* What a brand's people teach it, for any requests at once, any feedback  *)
(* and anything that was recorded before.                                  *)
CONSTANTS Teachers, Lessons, Pasts, Facets, Replays, MetricRows, Baselines, Direct,
          MaxKept, MaxEvents, MaxWeek, MaxLog
VARIABLES lWeek, lEvents, lStatus, lPref, lTx, lLog, lRows

Learning == INSTANCE PreferenceLearning WITH
  Requests <- Teachers, Events <- Lessons, Signals <- Replays, Rows <- MetricRows,
  week <- lWeek,
  events <- lEvents, status <- lStatus, pref <- lPref, tx <- lTx, log <- lLog,
  rows <- lRows
learningVars == <<<<lWeek, lEvents, lStatus, lPref>>, lTx, <<lLog, lRows>>>>

Telling(E) == {e \in E: ~Learning!Passive(e.action)}
Heard(p, E) == /\ p.learned \subseteq E /\ p.blind \subseteq E /\ IsFiniteSet(p.blind)
               /\ Telling(E) \subseteq p.learned \/ Cardinality(p.blind) >= 2
               /\ ~p.there => p.learned = {} /\ p.blind = {} /\ Telling(E) = {}

TxShape(t) == /\ {"pc", "event", "base", "at"} \subseteq DOMAIN t
              /\ t.pc \in {"idle", "recorded", "read"}
\* A request has the row it locked as it is; where there was no row, nobody
\* had taught the brand anything, or somebody has since, as blindly.
BaseFits(t, p) ==
  t.pc = "read" => IF t.base.there THEN t.base = p
                   ELSE t.base.learned = {} /\ (p.there => p.blind # {})
NewTo(t, E) == t.pc # "idle" => t.event \notin E
Separate(t, u) == t.pc # "idle" /\ u.pc # "idle" => t.event.opportunity # u.event.opportunity

LearningInv ==
  /\ Heard(lPref, lEvents)
  /\ DOMAIN lTx = Teachers /\ lTx = [r \in Teachers |-> lTx[r]]
  /\ \A r \in Teachers: TxShape(lTx[r]) /\ BaseFits(lTx[r], lPref) /\ NewTo(lTx[r], lEvents)
  /\ \A r, q \in Teachers: r # q => Separate(lTx[r], lTx[q])

LEMMA TxRecords ==
  ASSUME NEW t, TxShape(t), NEW e
  PROVE  /\ TxShape([t EXCEPT !.pc = "recorded", !.event = e])
         /\ [t EXCEPT !.pc = "recorded", !.event = e].pc = "recorded"
         /\ [t EXCEPT !.pc = "recorded", !.event = e].event = e
  BY DEF TxShape

ReadTx(t, b, a) == [t EXCEPT !.pc = "read", !.base = b, !.at = a]
LEMMA TxReads ==
  ASSUME NEW t, TxShape(t), NEW b, NEW a
  PROVE  LET u == ReadTx(t, b, a) IN
         TxShape(u) /\ u.pc = "read" /\ u.event = t.event /\ u.base = b
  BY DEF TxShape, ReadTx

LEMMA LearningStarts == ASSUME Learning!Init PROVE LearningInv
<1>1. Heard(lPref, lEvents)
  <2>1. CASE lEvents = {} /\ lPref = Learning!NoPref
    <3>1. lPref.learned = {} /\ lPref.blind = {} /\ ~lPref.there
      BY <2>1 DEF Learning!NoPref
    <3>2. Telling(lEvents) = {}
      BY <2>1 DEF Telling
    <3>3. QED
      BY <2>1, <3>1, <3>2, FS_EmptySet DEF Heard
  <2>2. ASSUME NEW past \in Pasts, lEvents = Learning!ToSet(past),
               lPref = Learning!PrefAfter(past)
        PROVE  Heard(lPref, lEvents)
    <3>1. lPref.learned = lEvents /\ lPref.blind = {} /\ lPref.there
      BY <2>2, Zenon DEF Learning!PrefAfter
    <3>2. Telling(lEvents) \subseteq lEvents
      BY DEF Telling
    <3>3. QED
      BY <3>1, <3>2, FS_EmptySet DEF Heard
  <2>3. QED
    BY <2>1, <2>2 DEF Learning!Init
<1>2. lTx = [r \in Teachers |-> Learning!Idle]
  BY DEF Learning!Init
<1>3. Learning!Idle.pc = "idle" /\ TxShape(Learning!Idle)
  BY DEF Learning!Idle, TxShape
<1>4. QED
  BY <1>1, <1>2, <1>3 DEF LearningInv, BaseFits, NewTo, Separate

\* A step of one request that leaves what was recorded and learned alone.
LEMMA OneRequestMoves ==
  ASSUME LearningInv, NEW r \in Teachers, NEW t, lTx' = [lTx EXCEPT ![r] = t],
         UNCHANGED <<lEvents, lPref>>,
         TxShape(t), BaseFits(t, lPref), NewTo(t, lEvents),
         \A q \in Teachers: q # r => Separate(t, lTx[q])
  PROVE  LearningInv'
<1>1. DOMAIN lTx' = Teachers /\ \A q \in Teachers: lTx'[q] = IF q = r THEN t ELSE lTx[q]
  BY DEF LearningInv
<1>2. lTx' = [q \in Teachers |-> lTx'[q]]
  BY <1>1 DEF LearningInv
<1>3. \A q, s \in Teachers: q # s => Separate(lTx'[q], lTx'[s])
  BY <1>1 DEF LearningInv, Separate
<1>4. \A q \in Teachers: TxShape(lTx'[q]) /\ BaseFits(lTx'[q], lPref') /\ NewTo(lTx'[q], lEvents')
  BY <1>1 DEF LearningInv
<1>5. Heard(lPref', lEvents')
  BY DEF LearningInv
<1>6. QED
  BY <1>1, <1>2, <1>3, <1>4, <1>5 DEF LearningInv

LEMMA SaveLearns ==
  ASSUME LearningInv, NEW r \in Teachers, Learning!Save(r) PROVE LearningInv'
<1> DEFINE t == lTx[r]
           e == t.event
<1>1. /\ t.pc = "read" /\ t.pc # "idle" /\ lEvents' = lEvents \cup {e}
      /\ lTx' = [lTx EXCEPT ![r] = Learning!Idle]
      /\ \A q \in Teachers: q # r => ~(lTx[q].pc = "read" /\ lTx[q].base.there)
  BY DEF Learning!Save, Learning!HoldsState
<1>2. Heard(lPref, lEvents) /\ BaseFits(t, lPref) /\ e \notin lEvents
  BY <1>1 DEF LearningInv, NewTo
<1>3. \/ Learning!Passive(e.action) /\ ~t.base.there /\ lPref' = lPref
      \/ /\ ~(Learning!Passive(e.action) /\ ~t.base.there)
         /\ lPref'.there = TRUE
         /\ lPref'.learned = t.base.learned \cup Telling({e})
         /\ lPref'.blind = IF t.base.there THEN t.base.blind ELSE lPref.blind \cup {e}
  BY DEF Learning!Save, Telling
<1>4. Telling(lEvents') = Telling(lEvents) \cup Telling({e}) /\ Telling({e}) \subseteq {e}
  BY <1>1 DEF Telling
<1>5. Learning!Passive(e.action) => Telling({e}) = {}
  BY DEF Telling
<1> HIDE DEF e
<1>6. ASSUME Learning!Passive(e.action) /\ ~t.base.there /\ lPref' = lPref
      PROVE  Heard(lPref', lEvents')
  BY <1>1, <1>2, <1>4, <1>5, <1>6 DEF Heard
<1>7. ASSUME t.base.there, lPref'.there = TRUE,
             lPref'.learned = t.base.learned \cup Telling({e}), lPref'.blind = t.base.blind
      PROVE  Heard(lPref', lEvents')
  <2>1. t.base = lPref
    BY <1>1, <1>2, <1>7 DEF BaseFits
  <2>2. QED
    BY <2>1, <1>1, <1>2, <1>4, <1>7 DEF Heard
<1>8. ASSUME ~t.base.there, lPref'.there = TRUE,
             lPref'.learned = t.base.learned \cup Telling({e}),
             lPref'.blind = lPref.blind \cup {e}
      PROVE  Heard(lPref', lEvents')
  <2>1. t.base.learned = {} /\ (lPref.there => lPref.blind # {})
    BY <1>1, <1>2, <1>8 DEF BaseFits
  <2>2. /\ IsFiniteSet(lPref'.blind)
        /\ Cardinality(lPref'.blind) = Cardinality(lPref.blind) + 1
    BY <1>2, <1>8, FS_AddElement DEF Heard
  <2>3. Cardinality(lPref.blind) \in Nat /\ (lPref.blind # {} => Cardinality(lPref.blind) # 0)
    BY <1>2, FS_CardinalityType, FS_EmptySet DEF Heard
  <2>4. lPref.there => Cardinality(lPref'.blind) >= 2
    BY <2>1, <2>2, <2>3
  <2>5. ~lPref.there => Telling(lEvents') \subseteq lPref'.learned
    BY <1>2, <1>4, <1>8 DEF Heard
  <2>6. QED
    BY <2>1, <2>2, <2>4, <2>5, <1>1, <1>2, <1>4, <1>8 DEF Heard
<1>9. Heard(lPref', lEvents')
  BY <1>3, <1>6, <1>7, <1>8
<1>10. (lPref'.there /\ ~t.base.there) => (lPref' = lPref \/ lPref'.blind # {})
  BY <1>3
<1>11. DOMAIN lTx' = Teachers /\ \A q \in Teachers: lTx'[q] = IF q = r THEN Learning!Idle ELSE lTx[q]
  BY <1>1 DEF LearningInv
<1>12. Learning!Idle.pc = "idle" /\ TxShape(Learning!Idle)
  BY DEF Learning!Idle, TxShape
<1>13. ASSUME NEW q \in Teachers, q # r PROVE BaseFits(lTx[q], lPref') /\ NewTo(lTx[q], lEvents')
  <2>1. BaseFits(lTx[q], lPref) /\ NewTo(lTx[q], lEvents) /\ Separate(lTx[q], t)
    BY <1>13 DEF LearningInv
  <2>2. NewTo(lTx[q], lEvents')
    BY <2>1, <1>1 DEF NewTo, Separate, e
  <2>3. CASE lTx[q].pc = "read"
    <3>1. ~lTx[q].base.there /\ lTx[q].base.learned = {} /\ (lPref.there => lPref.blind # {})
      BY <2>1, <2>3, <1>1, <1>13 DEF BaseFits
    <3>2. lPref'.there => lPref'.blind # {}
      <4>1. CASE t.base.there
        <5>1. t.base = lPref
          BY <4>1, <1>1, <1>2 DEF BaseFits
        <5>2. QED
          BY <5>1, <4>1, <3>1, <1>3
      <4>2. CASE ~t.base.there
        BY <4>2, <3>1, <1>3
      <4>3. QED
        BY <4>1, <4>2
    <3>3. QED
      BY <3>1, <3>2, <2>2 DEF BaseFits
  <2>4. QED
    BY <2>2, <2>3 DEF BaseFits
<1>14. \A q \in Teachers: TxShape(lTx'[q]) /\ BaseFits(lTx'[q], lPref') /\ NewTo(lTx'[q], lEvents')
  <2>1. BaseFits(Learning!Idle, lPref') /\ NewTo(Learning!Idle, lEvents')
    BY <1>12 DEF BaseFits, NewTo
  <2>2. QED
    BY <2>1, <1>11, <1>12, <1>13 DEF LearningInv
<1>15. \A q, s \in Teachers: q # s => Separate(lTx'[q], lTx'[s])
  BY <1>11, <1>12 DEF LearningInv, Separate
<1>16. lTx' = [q \in Teachers |-> lTx'[q]]
  BY <1>1 DEF LearningInv
<1>17. QED
  BY <1>9, <1>11, <1>14, <1>15, <1>16 DEF LearningInv

LEMMA LearningStep ==
  ASSUME LearningInv, [Learning!Next]_learningVars PROVE LearningInv'
<1>1. ASSUME NEW r \in Teachers, NEW e \in Lessons, Learning!Record(r, e) PROVE LearningInv'
  <2> DEFINE t == [lTx[r] EXCEPT !.pc = "recorded", !.event = e]
  <2>1. /\ lTx' = [lTx EXCEPT ![r] = t] /\ UNCHANGED <<lEvents, lPref>>
        /\ Learning!OpportunityFree(e.opportunity)
        /\ ~\E f \in lEvents: Learning!SameRow(e, f) \/ Learning!SameKey(e, f)
    BY <1>1 DEF Learning!Record, Learning!kept, LearningInv
  <2>2. TxShape(lTx[r])
    BY DEF LearningInv
  <2>3. TxShape(t) /\ t.pc = "recorded" /\ t.event = e
    BY <2>2, TxRecords, Zenon
  <2>4. e \notin lEvents
    BY <2>1 DEF Learning!SameRow
  <2>5. \A q \in Teachers: lTx[q].pc # "idle" => lTx[q].event.opportunity # e.opportunity
    BY <2>1 DEF Learning!OpportunityFree, Learning!Open
  <2> HIDE DEF t
  <2>6. BaseFits(t, lPref) /\ NewTo(t, lEvents) /\ \A q \in Teachers: q # r => Separate(t, lTx[q])
    BY <2>3, <2>4, <2>5 DEF BaseFits, NewTo, Separate
  <2>7. QED
    BY <2>1, <2>3, <2>6, OneRequestMoves
<1>2. ASSUME NEW r \in Teachers, Learning!ReadForUpdate(r) PROVE LearningInv'
  <2> DEFINE t == ReadTx(lTx[r], lPref, lWeek)
  <2>1. /\ lTx' = [lTx EXCEPT ![r] = t] /\ UNCHANGED <<lEvents, lPref>>
        /\ lTx[r].pc = "recorded"
    BY <1>2 DEF Learning!ReadForUpdate, Learning!kept, LearningInv, ReadTx
  <2>2. TxShape(lTx[r])
    BY DEF LearningInv
  <2>3. TxShape(t) /\ t.pc = "read" /\ t.event = lTx[r].event /\ t.base = lPref
    BY <2>2, TxReads
  <2> HIDE DEF t
  <2>4. BaseFits(t, lPref)
    BY <2>3 DEF BaseFits, LearningInv, Heard
  <2>5. NewTo(t, lEvents) /\ \A q \in Teachers: q # r => Separate(t, lTx[q])
    BY <2>1, <2>3 DEF NewTo, Separate, LearningInv
  <2>6. QED
    BY <2>1, <2>3, <2>4, <2>5, OneRequestMoves
<1>3. ASSUME NEW r \in Teachers, Learning!Fail(r) PROVE LearningInv'
  <2>1. lTx' = [lTx EXCEPT ![r] = Learning!Idle] /\ UNCHANGED <<lEvents, lPref>>
    BY <1>3 DEF Learning!Fail, Learning!kept
  <2>2. Learning!Idle.pc = "idle" /\ TxShape(Learning!Idle)
    BY DEF Learning!Idle, TxShape
  <2>3. /\ BaseFits(Learning!Idle, lPref) /\ NewTo(Learning!Idle, lEvents)
        /\ \A q \in Teachers: q # r => Separate(Learning!Idle, lTx[q])
    BY <2>2 DEF BaseFits, NewTo, Separate
  <2>4. QED
    BY <2>1, <2>2, <2>3, OneRequestMoves
<1>4. ASSUME NEW r \in Teachers, Learning!Save(r) PROVE LearningInv'
  BY <1>4, SaveLearns
<1>5. ASSUME UNCHANGED <<lEvents, lPref, lTx>> PROVE LearningInv'
  BY <1>5 DEF LearningInv
<1>6. QED
  BY <1>1, <1>2, <1>3, <1>4, <1>5
  DEF Learning!Next, Learning!Repeat, Learning!Tick, Learning!Deliver, Learning!Collect,
      Learning!kept, Learning!streams, learningVars

\* For any requests at once, any feedback and anything recorded before: only
\* recorded feedback shapes what a brand has learned, and all of it does that
\* says something, unless two requests found no state to lock
\* (batch7-closed-loop-store.ts).
THEOREM NothingIsForgotten == Learning!LearningSpec => []Learning!NothingForgotten
<1>1. Learning!Init => LearningInv
  BY LearningStarts
<1>2. LearningInv /\ [Learning!Next]_learningVars => LearningInv'
  BY LearningStep
<1>3. LearningInv => Learning!NothingForgotten
  BY SMT DEF LearningInv, Heard, Telling, Learning!NothingForgotten, Learning!Cardinality, Cardinality
<1>4. Learning!LearningSpec => Learning!Init /\ [][Learning!Next]_learningVars
  BY PTL DEF Learning!LearningSpec, learningVars, Learning!kept, Learning!streams
<1>5. QED
  BY <1>1, <1>2, <1>3, <1>4, PTL
=============================================================================
