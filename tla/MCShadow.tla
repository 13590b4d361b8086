-------------------------------- MODULE MCShadow --------------------------------
(***************************************************************************)
(* The Hunter's shadow evidence on small instances, one part at a time:    *)
(* reports of single pairs that are combined ("chunks", the component this *)
(* module extends), the same with a pinned brand ("pinned"), two processes *)
(* that make disposable brands and crash ("anchors"), one alone that       *)
(* neither crashes nor fails to clean up ("alone"), the retrieval of the   *)
(* candidate lane ("find"), its trends ("trend"), its analyses ("deep",    *)
(* "rank"), its selection ("choose"), and the gate ("gate"); and of the    *)
(* Marketing Lab two API processes on one authorization ("pairs"), the     *)
(* critic's worker after one of them ("judge"), and the comparison of what *)
(* was observed ("verdict").                                               *)
(* The "chunks" start the cases of their plan in order, the "pinned" ones  *)
(* in any.                                                                 *)
(***************************************************************************)
EXTENDS ShadowRun, Integers, TLC

CONSTANTS s1, s2

VARIABLES part,
          fPlan, fTurn, fIntents, fPaid, fAnswers, fMerged, fAt, fBill,
          tGiven, tParent, tPair, tJoined, tAsked,
          aClusters, aRanked, aCursor, aRunner, aCalls, aOutcome, aAnalysed,
          eItems, eSelected, eStage, eAdded,
          gShadow, gCanary, gApproved,
          lAuthorization, lRow, lProcess, lSanctioned, lBegun, lFaults, lStarts,
          vObserved

Pin == INSTANCE ShadowRun WITH
  Procs <- {s1}, Customers <- {2, 4},
  Spare <- {3}, Publics <- {11}, CohortSize <- 1, Repeats <- 3,
  Plans <- {"r1"}, Cases <- {1, 2, 3}, Pinned <- 4, Disposable <- FALSE,
  Public <- TRUE, MaxContent <- 2, MaxRuns <- 4, MaxChanges <- 2,
  MayCrash <- FALSE, MayKeep <- FALSE
Anchors == INSTANCE ShadowRun WITH
  Procs <- {s1, s2}, Customers <- {2},
  Spare <- {1, 3}, Publics <- {11, 12}, CohortSize <- 2, Repeats <- 1,
  Plans <- {"r1"}, Cases <- {0}, Pinned <- 0, Disposable <- TRUE,
  Public <- TRUE, MaxContent <- 1, MaxRuns <- 2, MaxChanges <- 0,
  MayCrash <- TRUE, MayKeep <- TRUE
Alone == INSTANCE ShadowRun WITH
  Procs <- {s1}, Customers <- {2},
  Spare <- {1, 3}, Publics <- {11, 12}, CohortSize <- 2, Repeats <- 1,
  Plans <- {"r1"}, Cases <- {0}, Pinned <- 0, Disposable <- TRUE,
  Public <- TRUE, MaxContent <- 1, MaxRuns <- 1, MaxChanges <- 1,
  MayCrash <- FALSE, MayKeep <- FALSE

Intents == {[topic |-> t, kind |-> k]: t \in {1, 2}, k \in {0, 5}}
             \cup {[topic |-> t, kind |-> 7]: t \in {1, 3}}
Item(k, s, a, u) == [key |-> k, source |-> s, about |-> a, unwanted |-> u]
Out(items) == [state |-> "found", items |-> items]
Find == INSTANCE ShadowRetrieval WITH
  plan <- fPlan, turn <- fTurn, intents <- fIntents, paid <- fPaid,
  answers <- fAnswers, merged <- fMerged, at <- fAt, bill <- fBill,
  Plans <- {S \in SUBSET Intents: S # {}}, Rotations <- {0, 1}, MaxIntents <- 2,
  MaxPaid <- 1, MaxSources <- 2,
  Sources <- (0 :> <<"agent-reach", "rss">> @@ 5 :> <<"rss", "agent-reach">>
                @@ 7 :> <<"agent-reach">>),
  Finds <- {[state |-> "failed", items |-> <<>>], Out(<<Item(1, "x", "one", FALSE)>>),
            Out(<<Item(1, "x", "one", FALSE), Item(2, "y", "one", FALSE)>>),
            Out(<<Item(3, "x", "two", TRUE)>>)}
Wide == INSTANCE ShadowRetrieval WITH
  plan <- fPlan, turn <- fTurn, intents <- fIntents, paid <- fPaid,
  answers <- fAnswers, merged <- fMerged, at <- fAt, bill <- fBill,
  Plans <- SUBSET Intents \ {{}}, Rotations <- {0, 1, 2}, MaxIntents <- 4,
  MaxPaid <- 3, MaxSources <- 1,
  Sources <- (0 :> <<"agent-reach", "rss">> @@ 5 :> <<"agent-reach">>
                @@ 7 :> <<"agent-reach">>),
  Finds <- {Out(<<Item(1, "x", "one", FALSE)>>)}

Signal(e, a, s) == [explores |-> e, core |-> FALSE, age |-> a, source |-> s]
Some == {Signal(FALSE, 0, "x"), Signal(FALSE, 30, "y"), Signal(TRUE, 1000, "x"),
         Signal(TRUE, 3, "y")}
Ordered(n) == {p \in (1..n) \X (1..n): p[1] < p[2]}
Trend == INSTANCE ShadowTrend WITH
  given <- tGiven, parent <- tParent, pair <- tPair, joined <- tJoined,
  asked <- tAsked, MaxSemantic <- 1,
  Runs <- {[signals |-> s, alike |-> l]:
             s \in [1..3 -> Some],
             l \in [Ordered(3) -> {"same words", "some words", "nothing"}]}
            \cup {[signals |-> [i \in 1..4 |-> Signal(FALSE, 40 - 10 * i, "x")],
                   alike |-> l]: l \in [Ordered(4) -> {"corroborated", "nothing"}]}

Cluster(i, fit, e, stage, sat, brand, bad) ==
  [id |-> i, fit |-> fit, explores |-> e, evidence |-> 500, fresh |-> 600,
   stage |-> stage, velocity |-> -1, gain |-> -1, spread |-> 300,
   saturation |-> sat, brand |-> brand, affinity |-> -1, twice |-> 0,
   unwanted |-> bad]
Graded(i) == {Cluster(i, fit, e, st, sat, b, bad):
                fit \in {100, 900}, e \in BOOLEAN, st \in {"rising", "declining"},
                sat \in {0, 900}, b \in {-1, 800}, bad \in {-1, 100}}
Deep == INSTANCE DeepAnalysis WITH
  clusters <- aClusters, ranked <- aRanked, cursor <- aCursor, runner <- aRunner,
  calls <- aCalls, outcome <- aOutcome, analysed <- aAnalysed,
  Inputs <- {{Cluster(i, 100 * i, FALSE, "rising", 0, -1, -1): i \in 1..4}},
  RankLimit <- 4, DeepLimit <- 3, Concurrency <- 2,
  Replies <- {"analysis", "other candidate", "invalid", "rate-limited", "timeout"}
Rank == INSTANCE DeepAnalysis WITH
  clusters <- aClusters, ranked <- aRanked, cursor <- aCursor, runner <- aRunner,
  calls <- aCalls, outcome <- aOutcome, analysed <- aAnalysed,
  Inputs <- {{a, b}: a \in Graded(1), b \in Graded(2)},
  RankLimit <- 1, DeepLimit <- 0, Concurrency <- 1, Replies <- {}

Thing(t, fit, explores, bad) ==
  [topic |-> t, fit |-> fit, explores |-> explores, risk |-> 0, saturation |-> 10,
   twice |-> 0, likes |-> {},
   dislikes |-> IF bad = 0 THEN {} ELSE {[weight |-> bad, similar |-> 100],
                                         [weight |-> 100, similar |-> 50]}]
Likings == {[of |-> "audience", weight |-> 90, similar |-> 90],
            [of |-> "measured", weight |-> 90, similar |-> 100, confidence |-> 40]}
Choose == INSTANCE ShadowEEI WITH
  items <- eItems, selected <- eSelected, stage <- eStage, added <- eAdded,
  Max <- 8, Budget <- 20, AdjacentShare <- 20,
  Lists <- [1..6 -> {Thing(1, 90, FALSE, 0), Thing(2, 90, FALSE, 0),
                     Thing(3, 0, TRUE, 0), Thing(4, 50, FALSE, 0)}]
             \cup [1..7 -> {Thing(1, 90, FALSE, 0), Thing(3, 0, TRUE, 0),
                            Thing(4, 50, FALSE, 0)}]
             \cup [1..5 -> {Thing(t, f, FALSE, 0): t \in {1, 2}, f \in {10, 90}}
                             \cup {Thing(1, 90, FALSE, 90)}]
             \cup [1..3 -> {[Thing(1, 90, FALSE, 0) EXCEPT !.saturation = 95],
                            [Thing(2, 90, FALSE, 0) EXCEPT !.likes = Likings, !.fit = 0],
                            [Thing(3, 90, FALSE, 0) EXCEPT !.risk = 50],
                            Thing(4, 40, TRUE, 0)}]
             \cup {<<Thing(1, 90, FALSE, 0), Thing(1, 90, FALSE, 0), Thing(2, 90, FALSE, 0),
                    Thing(2, 90, FALSE, 0), Thing(4, 50, FALSE, 0), Thing(4, 50, FALSE, 0),
                    Thing(3, 0, TRUE, 0), Thing(t, 0, TRUE, 0), Thing(5, f, FALSE, 0)>>:
                      t \in {3, 5}, f \in {50, 90}}

Measured == [run |-> 1, brand |-> 1, controlBrand |-> 1, candidateBrand |-> 1,
         isolated |-> TRUE, safe |-> TRUE, persisted |-> FALSE, provenance |-> TRUE,
         fingerprint |-> TRUE, guarded |-> TRUE, reported |-> {},
         v1 |-> 60, v2 |-> 61, covered |-> 2, planned |-> 2, failed |-> FALSE,
         ratio |-> 120, explorations |-> 1, topic |-> 2, total |-> 6]
Trial == [run |-> 1, brand |-> 1, positive |-> 0, negative |-> 0, failed |-> FALSE, critical |-> {}]
GatePairs ==
  {Measured, [Measured EXCEPT !.run = 2, !.brand = 2, !.controlBrand = 2,
                               !.candidateBrand = 2],
   [Measured EXCEPT !.run = 2], [Measured EXCEPT !.candidateBrand = 2],
   [Measured EXCEPT !.guarded = FALSE, !.fingerprint = FALSE],
   [Measured EXCEPT !.v2 = 50], [Measured EXCEPT !.v2 = 70, !.topic = 3],
   [Measured EXCEPT !.explorations = 0], [Measured EXCEPT !.ratio = 170],
   [Measured EXCEPT !.covered = 1], [Measured EXCEPT !.failed = TRUE]}
GateCanaries ==
  {Trial, [Trial EXCEPT !.run = 2, !.brand = 2, !.negative = 3], [Trial EXCEPT !.brand = 2],
   [Trial EXCEPT !.positive = -9], [Trial EXCEPT !.failed = TRUE],
   [Trial EXCEPT !.critical = {"tenant-isolation"}]}
Gate == INSTANCE ShadowGate WITH
  shadow <- gShadow, canary <- gCanary, approved <- gApproved,
  Pairs <- GatePairs, Canaries <- GateCanaries,
  MinRuns <- 2, MinBrands <- 2, MinCanaryRuns <- 2, MinCanaryBrands <- 2,
  MaxPairs <- 3, MaxCanaries <- 2

(* A release changed the second fixture.  What is observed of a case: the  *)
(* same as the baseline's, better, and better with one thing wrong.        *)
LabFixture == [r1 |-> <<1, 2>>, r2 |-> <<1, 3>>]
Pairs == INSTANCE MarketingEvidence WITH
  authorization <- lAuthorization, row <- lRow, process <- lProcess,
  sanctioned <- lSanctioned, begun <- lBegun, faults <- lFaults, starts <- lStarts,
  Ticking <- {s1, s2}, Once <- {}, Releases <- {"r1", "r2"}, Source <- "r1",
  Fixture <- LabFixture, Routes <- {"x", "y"}, Tries <- 3,
  Faults <- 1, Starts <- 1, Grants <- 1
Judge == INSTANCE MarketingEvidence WITH
  authorization <- lAuthorization, row <- lRow, process <- lProcess,
  sanctioned <- lSanctioned, begun <- lBegun, faults <- lFaults, starts <- lStarts,
  Ticking <- {s1}, Once <- {s2}, Releases <- {"r1", "r2"}, Source <- "r1",
  Fixture <- LabFixture, Routes <- {"x"}, Tries <- 2,
  Faults <- 1, Starts <- 0, Grants <- 2

Plain == [stage |-> "live", input |-> 1, truth |-> TRUE, quality |-> 10, cost |-> 2,
          latency |-> 1, human |-> 10, edit |-> 2, sample |-> 3, performance |-> 10]
Good == [Plain EXCEPT !.quality = 12, !.human = 12, !.performance = 12]
LabObservations ==
  {Plain, Good, [Good EXCEPT !.truth = FALSE], [Good EXCEPT !.cost = 7],
   [Good EXCEPT !.human = -1], [Good EXCEPT !.sample = 1],
   [Plain EXCEPT !.input = 2], [Good EXCEPT !.stage = "shadow", !.edit = 3]}
Verdict == INSTANCE MarketingVerdict WITH
  observed <- vObserved, Cases <- {1, 2}, Observations <- LabObservations,
  MinPairs <- 1, MinQuality <- 1, MaxRatio <- 2, MinHuman <- 1, MaxEdit <- 0,
  MinSample <- 2, MinPerformance <- 1, MaxTimes <- 2

ASSUME /\ Anchors!ShadowAssumption
       /\ Pin!ShadowAssumption /\ Alone!ShadowAssumption
       /\ Find!RetrievalAssumption /\ Wide!RetrievalAssumption
       /\ Trend!TrendAssumption /\ Choose!EEIAssumption /\ Gate!GateAssumption
       /\ Pairs!EvidenceAssumption /\ Judge!EvidenceAssumption
       /\ Verdict!VerdictAssumption

find == <<fPlan, fTurn, fIntents, fPaid, fAnswers, fMerged, fAt, fBill>>
trend == <<tGiven, tParent, tPair, tJoined, tAsked>>
deep == <<aClusters, aRanked, aCursor, aRunner, aCalls, aOutcome, aAnalysed>>
eei == <<eItems, eSelected, eStage, eAdded>>
gate == <<gShadow, gCanary, gApproved>>
lab == <<lAuthorization, lRow, lProcess, lSanctioned, lBegun, lFaults, lStarts,
         vObserved>>
old == <<vars, find, trend, deep, eei, gate>>

(* Where a part is not exercised one of its beginnings stands for all. *)
SuiteInit ==
  /\ part \in {"chunks", "pinned", "anchors", "alone", "find", "wide", "trend",
               "deep", "rank", "choose", "gate", "pairs", "judge", "verdict"}
  /\ CASE part \in {"anchors", "alone"} -> Anchors!Init
       [] part = "pinned" -> Pin!Init
       [] part = "chunks" -> Init
       [] OTHER -> content = [b \in {2, 11, 12} |-> 0] /\ Alone!Init
  /\ part \notin {"find", "wide"} => fPlan = {[topic |-> 1, kind |-> 0]} /\ fTurn = 0
  /\ IF part = "wide" THEN Wide!Init ELSE Find!Init
  /\ part # "trend" => tGiven = [signals |-> [i \in 1..4 |-> Signal(FALSE, 40 - 10 * i, "x")],
                                 alike |-> [p \in Ordered(4) |-> "nothing"]]
  /\ Trend!Init
  /\ IF part = "rank" THEN Rank!Init ELSE Deep!Init
  /\ part # "choose" => eItems = [i \in 1..3 |-> Thing(4, 40, TRUE, 0)]
  /\ Choose!Init
  /\ Gate!Init
  /\ part \notin {"pairs", "judge"} => lProcess = [p \in {s1, s2} |-> Pairs!Fresh("r1")]
  /\ Pairs!Init /\ Verdict!Init

OnlyChunks == part = "chunks" /\ UNCHANGED <<part, find, trend, deep, eei, gate, lab>>
OnlyPinned == part = "pinned" /\ UNCHANGED <<part, find, trend, deep, eei, gate, lab>>
OnlyAnchors == part = "anchors" /\ UNCHANGED <<part, find, trend, deep, eei, gate, lab>>
OnlyFind == part = "find" /\ UNCHANGED <<part, vars, trend, deep, eei, gate, lab>>
OnlyTrend == part = "trend" /\ UNCHANGED <<part, vars, find, deep, eei, gate, lab>>
OnlyDeep == part = "deep" /\ UNCHANGED <<part, vars, find, trend, eei, gate, lab>>
OnlyRank == part = "rank" /\ UNCHANGED <<part, vars, find, trend, eei, gate, lab>>
OnlyChoose == part = "choose" /\ UNCHANGED <<part, vars, find, trend, deep, gate, lab>>
OnlyGate == part = "gate" /\ UNCHANGED <<part, vars, find, trend, deep, eei, lab>>

OnlyPairs == part = "pairs" /\ UNCHANGED <<part, old, vObserved>>
OnlyJudge == part = "judge" /\ UNCHANGED <<part, old, vObserved>>
OnlyVerdict == /\ part = "verdict" /\ Verdict!Next
               /\ UNCHANGED <<part, old, lAuthorization, lRow, lProcess, lSanctioned,
                              lBegun, lFaults, lStarts>>

SuiteNext ==
  \/ \E b \in Customers \cup Publics, v \in 0..2: OnlyChunks /\ Changes(b, v)
  \/ \E plan \in {"r1", "r2"}: OnlyChunks /\ Start(s1, plan, runs + 1)
  \/ \E ok \in BOOLEAN:
       \/ OnlyChunks /\ Screen(s1, ok)
       \/ OnlyChunks /\ ScreenPublic(s1, ok)
       \/ OnlyChunks /\ Pair(s1, ok)
  \/ OnlyChunks /\ NoAnchor(s1)
  \/ \E S \in SUBSET {11, 12}: OnlyChunks /\ BuildPublic(s1, S)
  \/ OnlyChunks /\ Enough(s1)
  \/ OnlyChunks /\ Redact(s1)
  \/ OnlyChunks /\ Cleanup(s1, TRUE)
  \/ OnlyChunks /\ Restart(s1)
  \/ OnlyPinned /\ Pin!Next
  \/ \E p \in {s1, s2}:
       \/ OnlyAnchors /\ Anchors!Start(p, "r1", 0)
       \/ OnlyAnchors /\ Anchors!Step(p)
       \/ \E d \in {1, 3}: OnlyAnchors /\ Anchors!CreateAnchor(p, d)
       \/ \E ok \in BOOLEAN: OnlyAnchors /\ Anchors!PrepareAnchor(p, ok)
       \/ \E ok \in BOOLEAN: OnlyAnchors /\ Anchors!ScreenAnchor(p, ok)
       \/ OnlyAnchors /\ Anchors!Cleanup(p, FALSE)
       \/ OnlyAnchors /\ Anchors!Crash(p)
       \/ OnlyAnchors /\ Anchors!Restart(p)
  \/ part = "alone" /\ Alone!Next /\ UNCHANGED <<part, find, trend, deep, eei, gate, lab>>
  \/ OnlyFind /\ Find!Plan
  \/ \E n \in {1, 2}: OnlyFind /\ Find!Search(n)
  \/ OnlyFind /\ Find!Merge
  \/ OnlyFind /\ Find!Corroborate
  \/ part = "wide" /\ Wide!Next /\ UNCHANGED <<part, vars, trend, deep, eei, gate, lab>>
  \/ OnlyTrend /\ Trend!Compare
  \/ OnlyDeep /\ Deep!Rank
  \/ \E r \in {1, 2}:
       \/ OnlyDeep /\ Deep!Take(r)
       \/ OnlyDeep /\ Deep!Finish(r)
       \/ OnlyDeep /\ Deep!Retry(r)
  \/ OnlyDeep /\ Deep!Collect
  \/ OnlyRank /\ Rank!Rank
  \/ OnlyChoose /\ Choose!Pick
  \/ OnlyChoose /\ Choose!TrimTopic
  \/ OnlyChoose /\ Choose!Refill
  \/ OnlyChoose /\ Choose!TrimExploration
  \/ OnlyChoose /\ Choose!Advance
  \/ \E p \in GatePairs: OnlyGate /\ Gate!Observe(p)
  \/ \E o \in GateCanaries: OnlyGate /\ Gate!Release(o)
  \/ OnlyGate /\ Gate!Approve
  \/ OnlyPairs /\ Pairs!Next
  \/ OnlyJudge /\ Judge!Next
  \/ OnlyVerdict

suite == <<part, vars, find, trend, deep, eei, gate, lab>>

(* A started run goes on, and an invocation and a pause have their timers. *)
SuiteSpec == /\ SuiteInit /\ [][SuiteNext]_suite
             /\ WF_suite(OnlyPinned /\ Pin!Step(s1))
             /\ WF_suite(OnlyDeep /\ Deep!Rank) /\ WF_suite(OnlyDeep /\ Deep!Collect)
             /\ \A r \in {1, 2}: WF_suite(OnlyDeep /\ Deep!Work(r))
             /\ \A p \in {s1, s2}: WF_suite(OnlyPairs /\ Pairs!Step(p))
-----------------------------------------------------------------------------
(* Every component's state is well formed. *)
SuiteTypeOK ==
  /\ part = "chunks" => TypeOK
  /\ part = "pinned" => Pin!TypeOK
  /\ part = "anchors" => Anchors!TypeOK
  /\ part = "alone" => Alone!TypeOK
  /\ part = "find" => Find!TypeOK
  /\ part = "wide" => Wide!TypeOK
  /\ part = "trend" => Trend!TypeOK
  /\ part = "deep" => Deep!TypeOK
  /\ part = "choose" => Choose!TypeOK
  /\ part = "gate" => Gate!TypeOK
  /\ part = "pairs" => Pairs!EvidenceTypeOK
  /\ part = "judge" => Judge!EvidenceTypeOK
  /\ part = "verdict" => Verdict!VerdictTypeOK

(* From the search to the selection: what is merged, grouped, analysed and *)
(* chosen is what was found, without what is unwanted, and within shares;  *)
(* what the gate lets through has at least five recommendations and one    *)
(* exploration among them, what repeats of one brand measured is of one    *)
(* content, and no stage is reached that the observations did not earn.    *)
(* In the Marketing Lab an authorization is used once, stored pairs are    *)
(* whole, a critic judged the same fixtures, and verdicts agree with each  *)
(* other and with what may run.                                            *)
SelectionSound ==
  /\ part = "pairs" => Pairs!EvidenceSound
  /\ part = "judge" => Judge!EvidenceSound
  /\ part = "verdict" => Verdict!VerdictsSound /\ Verdict!Ladder
  /\ part = "pinned" => Pin!CohortHonest
  /\ part = "gate" => Gate!StageEarned
  /\ part = "find" => Find!RetrievalSound
  /\ part = "wide" => Wide!RetrievalSound
  /\ part = "trend" => Trend!ClustersTrue
  /\ part = "deep" => Deep!NobodyTwice /\ Deep!EachAnswersForItself
  /\ part = "rank" => Rank!RankIsMonotone
  /\ part = "choose" => Choose!SharesCertified
  /\ part = "choose" /\ Choose!Now = "done" =>
       LET explorations == {k \in DOMAIN eSelected: Choose!Bucket(eSelected[k]) = "exploration"}
           n == IF explorations = {} THEN 0
                ELSE IF \E k \in explorations: explorations = {k} THEN 1 ELSE 2 IN
       Gate!SharesPass([total |-> Len(eSelected), explorations |-> n,
                        topic |-> Choose!MostOfATopic])
         <=> Len(eSelected) >= 5 /\ n = 1

(* A run that was started ends, and an analysis always collects what it    *)
(* has, whatever fails on the way; so does an execution of the Marketing   *)
(* Lab, and an authorization that stands is found (its two processes are   *)
(* alike, so one of them stands for both).                                 *)
RunsEnd ==
  /\ part = "pairs" => Pairs!ExecutionEnds(s1) /\ Pairs!AuthorizationFound(s1)
  /\ (part = "pinned" /\ Pin!At(s1, "screen")) ~> Pin!At(s1, "ended")
  /\ <>(part = "deep" => aAnalysed # Deep!Pending)

(* A run that ended left no disposable brand behind. *)
AnchorGone == part = "alone" => Alone!AnchorRemoved

(* A challenger of which an untrue answer was observed does not advance.   *)
UntrueStops == part = "verdict" => Verdict!AnyFailureStops
=============================================================================
