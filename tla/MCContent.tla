------------------------------- MODULE MCContent -------------------------------
(***************************************************************************)
(* The making of content on small instances, one part at a time: a         *)
(* creation request under two processes that sign alike ("shared"), two    *)
(* requests of one process that crashes ("crash") and of two processes     *)
(* ("leases"), an asset that is written and approved ("write") and         *)
(* delivered ("deliver"), a carousel edited and rendered ("studio"), the   *)
(* layout of a slide ("layout"), an idea that two requests develop         *)
(* ("research"), three of two processes with small pools ("crowd"), and    *)
(* three people who choose and edit its angles ("choose").                 *)
(***************************************************************************)
EXTENDS CarouselStudio, ContentDelivery, TLC

CONSTANTS w1, w2, i0, p1, p2, r1, r2, r3, u1, u2, u3, None

VARIABLES part,
          jReq, jCampaigns, jAssets, jAngle, jRun,
          lPlan, lSlide, lBoxes, lY, lPc,
          iIdea, iDossier, iAngles, iLock, iRun, iPerson

Shared == INSTANCE CreationQueue WITH
  req <- jReq, campaigns <- jCampaigns, assets <- jAssets, angle <- jAngle,
  run <- jRun, Jobs <- {1}, Workers <- {w1, w2},
  Name <- (w1 :> "api-1" @@ w2 :> "api-1"), Angles <- {"a", "b"},
  Pref <- <<"a">>, Given <- <<None>>, CampaignOnly <- {},
  MayFail <- {"idea", "develop", "asset", "generate"}, MaxAttempts <- 2,
  MaxSelects <- 1
Crash == INSTANCE CreationQueue WITH
  req <- jReq, campaigns <- jCampaigns, assets <- jAssets, angle <- jAngle,
  run <- jRun, Jobs <- {1, 2}, Workers <- {w1}, Name <- (w1 :> "api-1"),
  Angles <- {"a", "b"}, Pref <- <<"a", "b">>, Given <- <<i0, i0>>,
  CampaignOnly <- {}, MayFail <- {"generate"}, MaxAttempts <- 3, MaxSelects <- 0
Leases == INSTANCE CreationQueue WITH
  req <- jReq, campaigns <- jCampaigns, assets <- jAssets, angle <- jAngle,
  run <- jRun, Jobs <- {1, 2}, Workers <- {w1, w2},
  Name <- (w1 :> "api-1" @@ w2 :> "api-2"), Angles <- {"a", "b"},
  Pref <- <<"a", "b">>, Given <- <<None, i0>>, CampaignOnly <- {2},
  MayFail <- {"develop"}, MaxAttempts <- 2, MaxSelects <- 0

(* Two requests that deliver what they review, and one that delivers to two *)
(* destinations; the module itself is instantiated for "write".             *)
Delivering == INSTANCE ContentDelivery WITH Kinds <- {"review", "distribute"}
Schedule == INSTANCE ContentDelivery WITH
  Requests <- {CHOOSE q \in Requests: TRUE}, Destinations <- Destinations \cup {"other"},
  Kinds <- {"review", "distribute"}

(* Two authors who each find no project yet.                                *)
Siblings == INSTANCE CarouselStudio WITH
  Slides <- {0}, Texts <- {"t", "u"}, Images <- {}, Unfit <- {},
  Ids <- {p1, p2}, Authors <- Authors \cup {"second"},
  Renders <- {CHOOSE k \in Renders: TRUE}, MaxRevision <- 2

Copy == {<<4, 3>>, <<13, 2, 5>>, <<30, 7>>, <<6, 6, 6, 6, 6, 6, 6, 6, 6>>}
Layout == INSTANCE CarouselLayout WITH
  plan <- lPlan, slide <- lSlide, boxes <- lBoxes, y <- lY, pc <- lPc,
  Width <- 120, Height <- 220, Covers <- Copy, Headlines <- Copy,
  Bodies <- Copy \cup {<<40, 40, 40, 40>>}, Ctas <- Copy

Item(key, terms, named) ==
  [url |-> key, key |-> key, terms |-> terms, named |-> named, public |-> TRUE]
near == Item("near", {"x", "y"}, TRUE)
copy == [Item("near", {"x", "z"}, TRUE) EXCEPT !.url = "copy"]
other == Item("other", {"y", "z"}, TRUE)
third == Item("third", {"x", "y", "z"}, TRUE)
odd == Item("odd", {"x"}, TRUE)
local == [Item("local", {"x", "y"}, TRUE) EXCEPT !.public = FALSE]
older == Item("older", {"x", "y"}, FALSE)
Evidence == {near, copy, other, third, odd, local, older}
Got(found) == [ok |-> TRUE, found |-> found]
Failed == [ok |-> FALSE, found |-> <<>>]
Claim(cites, first, verified) ==
  [cites |-> cites, first |-> first, verified |-> verified]
plain == <<Claim(<<1>>, "not-applicable", "unresolved")>>
supported == Claim(<<2>>, "not-applicable", "supported")
FewSearches ==
  [general: {Got(<<near, other>>)}, openalex: {Got(<<>>)}, crossref: {Got(<<>>)}]

Research == INSTANCE IdeaResearch WITH
  idea <- iIdea, dossier <- iDossier, angles <- iAngles, lock <- iLock,
  run <- iRun, person <- iPerson, Routes <- {r1}, Creations <- {r2},
  Process <- (r1 :> 1 @@ r2 :> 1), Pool <- 3, People <- {},
  Items <- Evidence, Anchors <- {"x", "y", "z"}, MaxEvidence <- 3,
  Explicit <- {<<>>, <<near>>, <<near, copy>>, <<near, odd>>, <<local, other>>},
  Linked <- {<<>>, <<other>>, <<older, near>>},
  Searches <- [general: {Failed, Got(<<odd, copy>>), Got(<<copy, other>>)},
               openalex: {Failed, Got(<<older, third>>)},
               crossref: {Failed, Got(<<third, other>>)}],
  Judgments <- {<<>>, plain,
                <<Claim(<<1, 2>>, "authorized", "unresolved"), supported>>,
                <<Claim(<<2>>, "not-authorized", "supported")>>,
                <<Claim(<<1, 1>>, "not-applicable", "supported")>>,
                <<Claim(<<3>>, "not-applicable", "supported")>>},
  Strategies <- {<<{1}, {1}>>, <<{1}>>, <<{}, {1}>>, <<{2}, {1, 2}, {1}>>}
Crowd == INSTANCE IdeaResearch WITH
  idea <- iIdea, dossier <- iDossier, angles <- iAngles, lock <- iLock,
  run <- iRun, person <- iPerson, Routes <- {r1, r2, r3}, Creations <- {},
  Process <- (r1 :> 1 @@ r2 :> 1 @@ r3 :> 2), Pool <- 2, People <- {},
  Items <- Evidence, Anchors <- {"x", "y"}, MaxEvidence <- 3, Explicit <- {<<>>}, Linked <- {<<>>},
  Searches <- FewSearches, Judgments <- {plain}, Strategies <- {<<{1}, {1}>>}
Choose == INSTANCE IdeaResearch WITH
  idea <- iIdea, dossier <- iDossier, angles <- iAngles, lock <- iLock,
  run <- iRun, person <- iPerson, Routes <- {r1}, Creations <- {},
  Process <- (r1 :> 1), Pool <- 2, People <- {u1, u2, u3},
  Items <- Evidence, Anchors <- {"x", "y"}, MaxEvidence <- 3, Explicit <- {<<>>}, Linked <- {<<>>},
  Searches <- FewSearches, Judgments <- {plain}, Strategies <- {<<{1}, {1}>>}

ASSUME /\ Shared!CreationAssumption /\ Crash!CreationAssumption
       /\ Leases!CreationAssumption /\ Delivering!DeliveryAssumption
       /\ Schedule!DeliveryAssumption /\ Siblings!CarouselAssumption /\ Layout!LayoutAssumption
       /\ Research!ResearchAssumption /\ Crowd!ResearchAssumption
       /\ Choose!ResearchAssumption

creation == <<jReq, jCampaigns, jAssets, jAngle, jRun>>
layout == <<lPlan, lSlide, lBoxes, lY, lPc>>
research == <<iIdea, iDossier, iAngles, iLock, iRun, iPerson>>

(* The variables of the parts that are not exercised hold nothing. *)
SuiteInit ==
  /\ part \in {"shared", "crash", "leases", "write", "deliver", "schedule",
               "studio", "siblings", "layout", "research", "crowd", "choose"}
  /\ CASE part = "shared" -> Shared!Init [] part = "crash" -> Crash!Init
       [] part = "leases" -> Leases!Init
       [] OTHER -> /\ jReq = <<>> /\ jCampaigns = <<>> /\ jAssets = <<>>
                   /\ jAngle = <<>> /\ jRun = <<>>
  /\ CASE part \in {"write", "deliver"} -> DeliveryInit
       [] part = "schedule" -> Schedule!DeliveryInit
       [] OTHER -> /\ versions = <<>> /\ review = <<>> /\ passed = {}
                   /\ approvals = {} /\ commands = {} /\ req = <<>>
  /\ CASE part = "siblings" -> Siblings!StudioInit
       [] part = "studio" -> StudioInit
       [] OTHER -> /\ projects = <<>> /\ approved = <<>> /\ renditions = {}
                   /\ manifests = <<>> /\ author = <<>> /\ render = <<>>
  /\ IF part = "layout" THEN Layout!Init
       ELSE lPlan = <<>> /\ lSlide = <<>> /\ lBoxes = <<>> /\ lY = <<>> /\ lPc = <<>>
  /\ CASE part = "research" -> Research!Init [] part = "crowd" -> Crowd!Init
       [] part = "choose" -> Choose!Init
       [] OTHER -> /\ iIdea = <<>> /\ iDossier = <<>> /\ iAngles = <<>>
                   /\ iLock = <<>> /\ iRun = <<>> /\ iPerson = <<>>

OnlyShared == part = "shared" /\ UNCHANGED <<part, deliveryVars, studioVars, layout, research>>
OnlyLeases == part = "leases" /\ UNCHANGED <<part, deliveryVars, studioVars, layout, research>>
OnlyWrite == part = "write" /\ UNCHANGED <<part, creation, studioVars, layout, research>>
OnlySchedule == part = "schedule" /\ UNCHANGED <<part, creation, studioVars, layout, research>>
OnlyStudio == part = "studio" /\ UNCHANGED <<part, creation, deliveryVars, layout, research>>
OnlyResearch == part = "research" /\ UNCHANGED <<part, creation, deliveryVars, studioVars, layout>>
OnlyCrowd == part = "crowd" /\ UNCHANGED <<part, creation, deliveryVars, studioVars, layout>>
OnlyChoose == part = "choose" /\ UNCHANGED <<part, creation, deliveryVars, studioVars, layout>>
OnlyLayout == part = "layout" /\ UNCHANGED <<part, creation, deliveryVars, studioVars, research>>

SuiteNext ==
  \/ \E w \in {w1, w2}:
       \/ OnlyShared /\ Shared!Claim(w, 1)
       \/ OnlyShared /\ Shared!Understand(w)
       \/ OnlyShared /\ Shared!CreateIdea(w)
       \/ OnlyShared /\ Shared!RecordIdea(w)
       \/ OnlyShared /\ Shared!Read(w)
       \/ OnlyShared /\ Shared!Researching(w)
       \/ OnlyShared /\ Shared!Develop(w)
       \/ OnlyShared /\ Shared!ChooseAngle(w)
       \/ OnlyShared /\ Shared!SelectAngle(w)
       \/ OnlyShared /\ Shared!BuildCampaign(w)
       \/ OnlyShared /\ Shared!FindCampaign(w)
       \/ OnlyShared /\ Shared!CreateCampaign(w)
       \/ OnlyShared /\ Shared!SaveAsset(w)
       \/ OnlyShared /\ Shared!Generate(w)
       \/ OnlyShared /\ Shared!Finish(w)
       \/ OnlyShared /\ Shared!Throws(w)
       \/ OnlyShared /\ Shared!GiveUp(w)
       \/ OnlyShared /\ Shared!Crash(w)
  \/ OnlyShared /\ Shared!Expire(1)
  \/ \E i \in Shared!Ideas, a \in {"a", "b"}: OnlyShared /\ Shared!UserSelects(i, a)
  \/ /\ part = "crash" /\ Crash!Next
     /\ UNCHANGED <<part, deliveryVars, studioVars, layout, research>>
  \/ OnlyLeases /\ Leases!Next
  \/ OnlyWrite /\ Edit
  \/ \E q \in Requests:
       \/ \E k \in {"select", "generate", "review"}: OnlyWrite /\ Read(q, k)
       \/ OnlyWrite /\ AppendVersion(q)
       \/ OnlyWrite /\ Fails(q)
       \/ OnlyWrite /\ Criticise(q)
       \/ OnlyWrite /\ SaveReview(q)
       \/ OnlyWrite /\ Deliveries(q)
       \/ OnlyWrite /\ ReadCampaign(q)
       \/ OnlyWrite /\ FindExisting(q)
       \/ OnlyWrite /\ FindReview(q)
       \/ OnlyWrite /\ SaveApproval(q)
       \/ OnlyWrite /\ Respond(q)
  \/ /\ part = "deliver" /\ Delivering!DeliveryNext
     /\ UNCHANGED <<part, creation, studioVars, layout, research>>
  \/ OnlySchedule /\ Schedule!Edit
  \/ \E q \in Requests \cap DOMAIN req:
       \/ OnlySchedule /\ Schedule!Step(q)
       \/ OnlySchedule /\ Schedule!CheckAccount(q)
       \/ OnlySchedule /\ Schedule!ReadDetail(q)
       \/ OnlySchedule /\ Schedule!FindApproval(q)
       \/ OnlySchedule /\ Schedule!FindCommand(q)
       \/ OnlySchedule /\ Schedule!InsertCommand(q)
       \/ OnlySchedule /\ Schedule!Respond(q)
  \/ \E p \in Ids:
       \/ \E s \in Slides, t \in Texts: OnlyStudio /\ EditText(p, s, t)
       \/ \E s \in Slides, i \in Images: OnlyStudio /\ ReplaceImage(p, s, i)
       \/ \E st \in Styles: OnlyStudio /\ ChangeStyle(p, st)
       \/ OnlyStudio /\ RequestRegeneration(p)
       \/ OnlyStudio /\ Reorder(p)
       \/ \E text \in [Slides -> Texts], st \in Styles:
            OnlyStudio /\ UpsertFound(p, text, st)
       \/ \E a \in Authors, text \in [Slides -> Texts], st \in Styles:
            OnlyStudio /\ UpsertInsert(a, p, text, st)
       \/ \E k \in Renders: OnlyStudio /\ ReadProject(k, p)
       \/ \E v \in renditions: OnlyStudio /\ Approve(p, v)
  \/ \E a \in Authors: OnlyStudio /\ UpsertMissing(a)
  \/ \E k \in Renders:
       \/ OnlyStudio /\ ReadSlides(k)
       \/ OnlyStudio /\ ReadVersion(k)
       \/ OnlyStudio /\ Upload(k)
       \/ OnlyStudio /\ SaveCheck(k)
       \/ OnlyStudio /\ SaveInsert(k)
       \/ OnlyStudio /\ RenderFails(k)
  \/ /\ part = "siblings" /\ Siblings!StudioNext
     /\ UNCHANGED <<part, creation, deliveryVars, layout, research>>
  \/ OnlyLayout /\ Layout!Cover
  \/ OnlyLayout /\ Layout!Headline
  \/ OnlyLayout /\ Layout!SkipHeadline
  \/ OnlyLayout /\ Layout!Body
  \/ OnlyLayout /\ Layout!Cta
  \/ \E c \in {r1, r2}:
       \/ OnlyResearch /\ Research!Start(c)
       \/ OnlyResearch /\ Research!Connect(c)
       \/ OnlyResearch /\ Research!Lock(c)
       \/ OnlyResearch /\ Research!Bundle(c)
       \/ OnlyResearch /\ Research!Search(c)
       \/ OnlyResearch /\ Research!Judge(c)
       \/ OnlyResearch /\ Research!Save(c)
       \/ OnlyResearch /\ Research!Plan(c)
       \/ OnlyResearch /\ Research!Put(c)
       \/ OnlyResearch /\ Research!Throws(c)
       \/ OnlyResearch /\ Research!Leave(c)
       \/ OnlyResearch /\ Research!Check(c)
  \/ OnlyResearch /\ Research!Crash(1)
  \/ OnlyCrowd /\ Crowd!Next
  \/ OnlyChoose /\ Choose!Step(r1)
  \/ \E u \in {u1, u2, u3}:
       \/ OnlyChoose /\ Choose!Look(u)
       \/ OnlyChoose /\ Choose!SelectRest(u)
       \/ OnlyChoose /\ Choose!Deadlock(u)
       \/ \E a \in DOMAIN iAngles: OnlyChoose /\ Choose!Select(u, a)
       \/ \E a \in DOMAIN iAngles: OnlyChoose /\ Choose!Edit(u, a)

suite == <<part, creation, deliveryVars, studioVars, layout, research>>

(* A process ticks every five seconds, and a lease runs out. *)
SuiteSpec == /\ SuiteInit /\ [][SuiteNext]_suite
             /\ \A w \in {w1, w2}: WF_suite(OnlyLeases /\ Leases!Tick(w))
             /\ \A j \in {1, 2}: WF_suite(OnlyLeases /\ Leases!Expire(j))
             /\ \A c \in {r1, r2}: WF_suite(OnlyResearch /\ Research!Step(c))
-----------------------------------------------------------------------------
(* Every component's state is well formed. *)
SuiteTypeOK ==
  /\ part = "shared" => Shared!TypeOK
  /\ part = "crash" => Crash!TypeOK
  /\ part = "leases" => Leases!TypeOK
  /\ part \in {"write", "deliver"} => DeliveryTypeOK
  /\ part = "schedule" => Schedule!DeliveryTypeOK
  /\ part = "studio" => StudioTypeOK
  /\ part = "siblings" => Siblings!StudioTypeOK
  /\ part = "layout" => Layout!TypeOK
  /\ part = "research" => Research!TypeOK
  /\ part = "crowd" => Crowd!TypeOK
  /\ part = "choose" => Choose!TypeOK

(* "Ready" shows a whole result, and an attempt after a crash takes up the *)
(* one campaign an earlier one left, on the angle it recommends.  The      *)
(* slides of a carousel show all their copy, in texts that do not overlap. *)
(* A dossier and its angles rest on relevant evidence, no source of which  *)
(* is starved, and requests that develop ideas stop only where they hold   *)
(* all connections of the pool.                                            *)
ContentWhole ==
  /\ SuiteTypeOK
  /\ part \in {"shared"} => Shared!ReadyIsWhole
  /\ part = "crash" => Crash!OneCampaign /\ Crash!CampaignFits
  /\ part = "layout" => /\ Layout!TextsApart /\ Layout!CopyPreserved
                        /\ Layout!EverythingShown
  /\ part = "research" => /\ Research!Grounded /\ Research!EvenHanded
                          /\ Research!PinnedKept /\ Research!SuccessIsReal
  /\ part = "crowd" => Crowd!Grounded /\ Crowd!OnlyAFullPoolStops
  /\ part = "choose" => Choose!Grounded /\ Choose!OneChosen

(* What is finished or approved does not change, a request keeps its idea, *)
(* an angle is changed or chosen only by someone who has seen it as it is, *)
(* and every request ends, and stays ended.                                *)
SettledStaysRequestsEnd ==
  /\ [][/\ part = "shared" => Shared!FinalKept
        /\ part = "leases" => Leases!IdeaKept
        /\ part = "studio" => ApprovalKept
        /\ part = "siblings" => Siblings!ApprovalKept
        /\ part = "research" => Research!SeenWhenChanged
        /\ part = "choose" => Choose!SeenWhenChanged]_suite
  /\ <>(/\ part = "leases" => \A j \in {1, 2}: Leases!JobEnded(j)
        /\ part = "research" => \A c \in {r1, r2}: Research!Ends(c))
=============================================================================
