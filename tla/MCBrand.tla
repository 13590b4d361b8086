-------------------------------- MODULE MCBrand --------------------------------
(***************************************************************************)
(* A brand on small instances, one part at a time: the fields one build    *)
(* and the owner write ("brain"), the plan and the graph two discovery     *)
(* requests and an editor append to ("versions"), the reading of one       *)
(* public reference ("read"), and what feedback teaches: two requests on   *)
(* one state ("taught"), a stream replayed ("stream"), the metrics of a    *)
(* post ("post").                                                          *)
(***************************************************************************)
EXTENDS BrandVersions, BrandBrain, TLC

VARIABLES part,
          rHost, rRedirects, rTarget, rPeer, rResponse, rSize, rSent, rSettled,
          rTruncated, rPc, rAnswer,
          pWeek, pEvents, pStatus, pPref, pTx, pLog, pRows

BrainGroups == "business" :> {"description"}
OneUrl == <<"url">>

Reader == INSTANCE ReferenceReader WITH
  host <- rHost, redirects <- rRedirects, target <- rTarget, peer <- rPeer,
  response <- rResponse, size <- rSize, sent <- rSent, settled <- rSettled,
  truncated <- rTruncated, pc <- rPc, answer <- rAnswer,
  Hosts <- {"site", "localhost"}, LocalHosts <- {"localhost"},
  Addresses <- {"public", "private"}, Public <- {"public"},
  MaxBytes <- 2, MaxRedirects <- 1, MaxLookups <- 2, Nobody <- None

Facet(topic, audience) == [topic |-> topic, audience |-> audience,
                           format |-> "post", channel |-> "none"]
Event(o, who, action, key) == [opportunity |-> o, account |-> who,
                               action |-> action, key |-> key]
Signal(id, action, at, key, bucket) ==
  [id |-> id, action |-> action, at |-> at, key |-> key, bucket |-> bucket,
   topic |-> "t1", audience |-> "a1", format |-> "none", channel |-> "none",
   mechanisms |-> <<"hook", "list">>, sources |-> <<"forum">>]
Row(name, at, value, stated) == [name |-> name, at |-> at, value |-> value,
                                 stated |-> stated]
Baseline(name, scope, value, samples) == [name |-> name, scope |-> scope,
                                          value |-> value, samples |-> samples]
Crowd == <<"c1", "c2", "c3", "c4", "c5", "c6", "c7", "c8", "c9", "d1", "d2", "d3",
           "d4", "d5", "d6", "d7", "d8", "d9">>
Told ==
  {Event("o1", "ann", "approved", "none"), Event("o1", "ann", "wrong_audience", "k"),
   Event("o2", "ann", "published", "none"), Event("o2", "ann", "wrong_brand", "k"),
   Event("o3", "ann", "saved", "none"), Event("o3", "ann", "opened", "none")}
Streamed ==
  {Signal(1, "published", 0, "a", "exploration"),
   Signal(2, "heavily_edited", 1, "b", "core"),
   Signal(3, "not_credible", 1, "c", "core"),
   Signal(4, "wrong_brand", 2, "d", "exploration"),
   Signal(5, "opened", 2, "d", "core"),
   Signal(6, "wrong_audience", 2, "a", "core")}
Collected ==
  {Row("saves", at, v, said): at \in 1..2, v \in {0, 4, 9}, said \in BOOLEAN}
  \cup {Row("shares", at, v, TRUE): at \in 1..2, v \in {1, 3}}
Learning == INSTANCE PreferenceLearning WITH
  week <- pWeek, events <- pEvents, status <- pStatus, pref <- pPref, tx <- pTx,
  log <- pLog, rows <- pRows,
  Requests <- Requests,
  Events <- Told,
  Pasts <- {[i \in DOMAIN Crowd |-> Event("o1", Crowd[i], "published", "none")]},
  Facets <- ("o1" :> Facet("t1", "a1") @@ "o2" :> Facet("t2", "a1")
             @@ "o3" :> Facet("t3", "none")),
  Signals <- Streamed,
  Rows <- Collected,
  Baselines <- {Baseline("saves", "brand-format", 2, 31),
                Baseline("saves", "brand-all", 5, 3), Baseline("shares", "brand-all", 2, 7)},
  Direct <- TRUE, MaxKept <- 2, MaxEvents <- 3, MaxWeek <- 2, MaxLog <- 3

ASSUME Reader!ReaderAssumption /\ Learning!LearningAssumption

reader == <<rHost, rRedirects, rTarget, rPeer, rResponse, rSize, rSent,
            rSettled, rTruncated, rPc, rAnswer>>
learning == <<pWeek, pEvents, pStatus, pPref, pTx, pLog, pRows>>

(* Where nothing is read one host stands for all, where nothing is learned *)
(* nothing was.                                                            *)
SuiteInit == /\ part \in {"brain", "versions", "read", "taught", "stream", "post"}
             /\ BrainInit /\ VersionsInit
             /\ part # "read" => rHost = "site"
             /\ Reader!Init /\ Learning!Init
             /\ part # "taught" => pEvents = {}

OnlyBrain == part = "brain" /\ UNCHANGED <<part, versionVars, reader, learning>>
OnlyVersions == part = "versions" /\ UNCHANGED <<part, brainVars, reader, learning>>
OnlyReader == part = "read" /\ UNCHANGED <<part, brainVars, versionVars, learning>>
OnlyLearning(name) == part = name /\ UNCHANGED <<part, brainVars, versionVars, reader>>

SuiteNext ==
  \/ \E b \in Builds:
       \/ OnlyBrain /\ BeginBuild(b)
       \/ OnlyBrain /\ PutAsked(b)
       \/ OnlyBrain /\ ListSources(b)
       \/ OnlyBrain /\ ReadReference(b)
       \/ OnlyBrain /\ ReadExtracts(b)
       \/ OnlyBrain /\ Synthesize(b)
       \/ OnlyBrain /\ FallBack(b)
       \/ OnlyBrain /\ Propose(b)
       \/ OnlyBrain /\ Pick(b)
       \/ OnlyBrain /\ CheckProvenance(b)
       \/ OnlyBrain /\ WriteProposal(b)
  \/ \E o \in Owners:
       \/ \E k \in Keys: OnlyBrain /\ OwnerLoad(o, k)
       \/ OnlyBrain /\ OwnerConfirm(o)
  \/ OnlyBrain /\ AddNote
  \/ \E s \in Ids, status \in {"active", "disabled"}:
       OnlyBrain /\ SetStatus(s, status)
  \/ \E s \in Ids: OnlyBrain /\ RemoveSource(s)
  \/ \E w \in Writers:
       \/ OnlyVersions /\ Begin(w)
       \/ OnlyVersions /\ Rollback(w)
       \/ OnlyVersions /\ Confirm(w)
       \/ OnlyVersions /\ CheckSources(w)
       \/ OnlyVersions /\ Infer(w)
       \/ OnlyVersions /\ Toggle(w)
       \/ OnlyVersions /\ Remove(w)
  \/ \E r \in Requests:
       \/ OnlyVersions /\ ReadBrain(r)
       \/ OnlyVersions /\ ReadSources(r)
       \/ OnlyVersions /\ Snapshot(r)
       \/ OnlyVersions /\ EnsurePlan(r)
       \/ OnlyVersions /\ ReadGraph(r)
       \/ OnlyVersions /\ InsertGraph(r)
  \/ \E e \in Editors:
       \/ OnlyVersions /\ Open(e)
       \/ OnlyVersions /\ CheckRevision(e)
       \/ OnlyVersions /\ SaveEdit(e)
  \/ \E found \in Reader!Lookups: OnlyReader /\ Reader!Resolve(found)
  \/ \E found \in Reader!Lookups: OnlyReader /\ Reader!RefuseTarget(found)
  \/ OnlyReader /\ Reader!LookupFails
  \/ OnlyReader /\ Reader!Connect
  \/ OnlyReader /\ Reader!ConnectFails
  \/ \E n \in 1..3: OnlyReader /\ Reader!Data(n)
  \/ OnlyReader /\ Reader!End
  \/ \E code \in {"unavailable", "timeout"}: OnlyReader /\ Reader!Broken(code)
  \/ OnlyReader /\ Reader!Rejected
  \/ \E to \in {"site", "localhost"}: OnlyReader /\ Reader!Redirect(to)
  \/ OnlyReader /\ Reader!RedirectTooFar
  \/ OnlyReader /\ Reader!BadTarget
  \/ OnlyReader /\ Reader!Refused
  \/ OnlyReader /\ Reader!DecodeFails
  \/ \E n \in 0..3: OnlyReader /\ Reader!Judge(n)
  \/ \E e \in Told: OnlyLearning("taught") /\ Learning!Repeat(e)
  \/ \E r \in Requests:
       \/ \E e \in Told: OnlyLearning("taught") /\ Learning!Record(r, e)
       \/ OnlyLearning("taught") /\ Learning!ReadForUpdate(r)
       \/ OnlyLearning("taught") /\ Learning!Save(r)
       \/ OnlyLearning("taught") /\ Learning!Fail(r)
  \/ OnlyLearning("taught") /\ Learning!Tick
  \/ \E s \in Streamed: OnlyLearning("stream") /\ Learning!Deliver(s)
  \/ \E row \in Collected: OnlyLearning("post") /\ Learning!Collect(row)

suite == <<part, brainVars, versionVars, reader, learning>>

(* The reader goes on, and a server that is silent is timed out. *)
SuiteSpec == /\ SuiteInit /\ [][SuiteNext]_suite
             /\ WF_suite(OnlyReader /\ Reader!Next)
-----------------------------------------------------------------------------
(* Every component's state is well formed. *)
SuiteTypeOK ==
  /\ BrainTypeOK
  /\ part = "versions" => VersionsTypeOK
  /\ part = "read" => Reader!TypeOK
  /\ part \in {"taught", "stream", "post"} => Learning!TypeOK

(* What a brand is known by is backed: what was read of a page is asked of *)
(* an address that was checked and arrived whole, and what the brand is    *)
(* said to prefer or avoid is what recorded feedback taught, none of it    *)
(* lost but to two requests that both began without a state.               *)
BrandBacked ==
  /\ SuiteTypeOK
  /\ part = "read" => Reader!OnlyChecked /\ Reader!EvidenceWhole
  /\ part = "taught" => /\ Learning!NeverStuck /\ Learning!NothingForgotten
                        /\ Learning!HeardRightly
  /\ part = "stream" => Learning!ReplayedAlike
  /\ part = "post" => Learning!MoreSpeaksFor

(* Every reading of a reference ends. *)
ReadsEnd == part = "read" => Reader!ReadEnds
=============================================================================
