--------------------------- MODULE CreationQueue ---------------------------
(***************************************************************************)
(* The queue behind "create this for me" (SimpleCreationService.runOnce    *)
(* over PgSimpleCreationStore): a request is claimed under a lease and     *)
(* taken from an idea over research, an angle and a campaign to a drafted  *)
(* asset, every step of it a statement or a call of its own.               *)
(*                                                                         *)
(* A lease is owned by a name, "api-<pid>", which two processes may share, *)
(* and advance asks for the name only.  An idea, a campaign or an asset is *)
(* told apart by the request and the attempt that made it.  Every          *)
(* selectAngle raises the version of all the angles of the idea, so one    *)
(* version stands for them.                                                *)
(***************************************************************************)
EXTENDS Naturals, FiniteSets

CONSTANTS
  Jobs,         \* requests, numbered in the order of created_at
  Workers,      \* API processes
  Name,         \* what a process signs its leases with
  Angles,
  Pref,         \* angle of an idea that suits the request's preference
  Given,        \* idea the request continues, None when it has only a goal
  CampaignOnly, \* requests with contentPreference "campaign"
  MayFail,      \* steps that may throw
  MaxAttempts,  \* bound: claims of a request
  MaxSelects,   \* bound: selections of a user on an idea
  None

GivenIdeas == {Given[j]: j \in Jobs} \ {None}
Made == Jobs \X (1..MaxAttempts)
Ideas == GivenIdeas \cup Made

CreationAssumption ==
  /\ Jobs \subseteq Nat /\ MaxAttempts \in Nat \ {0} /\ MaxSelects \in Nat
  /\ Pref \in [Jobs -> Angles] /\ CampaignOnly \subseteq Jobs
  /\ \A w \in Workers: Name[w] # None
  /\ "idle" \notin MayFail
  /\ None \notin Angles \cup Made

VARIABLES
  req,       \* rows: status, owner, live (the lease runs), attempt, results
  campaigns, \* campaigns: who made it, its idea and its angle
  assets,    \* content assets: who made it, its campaign, is it drafted
  angle,     \* of each idea: developed, the selected angle, the version
  run        \* what a process has in hand

vars == <<req, campaigns, assets, angle, run>>

Final == {"ready", "needs-attention"}
Idle == [pc |-> "idle", job |-> None, try |-> 0, idea |-> None, ver |-> 0,
         sel |-> None, campaign |-> None, asset |-> None]

Init ==
  /\ req = [j \in Jobs |->
              [status |-> "queued", owner |-> None, live |-> FALSE,
               attempt |-> 0, idea |-> Given[j], angle |-> None,
               campaign |-> None, asset |-> None]]
  /\ campaigns = {} /\ assets = {}
  /\ angle = [i \in Ideas |-> [ready |-> FALSE, sel |-> None, ver |-> 1]]
  /\ run = [w \in Workers |-> Idle]
-----------------------------------------------------------------------------
Job(w) == req[run[w].job]
Me(w) == <<run[w].job, run[w].try>>
Goto(w, l) == run' = [run EXCEPT ![w].pc = l]
At(w, l) == run[w].pc = l

Claimable(j) == req[j].status \notin Final /\ ~req[j].live

Claim(w, j) ==
  /\ At(w, "idle")
  /\ Claimable(j) /\ \A k \in Jobs: Claimable(k) => j <= k
  /\ req' = [req EXCEPT ![j].owner = Name[w], ![j].live = TRUE,
                        ![j].attempt = @ + 1]
  /\ run' = [run EXCEPT ![w] = [Idle EXCEPT !.pc = "understand", !.job = j,
                                !.try = req[j].attempt + 1,
                                !.idea = req[j].idea]]
  /\ UNCHANGED <<campaigns, assets, angle>>

(* (mutant) the row is written whoever owns its lease *)
HoldsAnyway(w) == run[w].job \in Jobs

(* where id=$1 and lease_owner=$2: no row is "Creation lease was lost".    *)
Holds(w) == Job(w).owner = Name[w]

(* advance: the columns of the patch, and on a final status the end of the *)
(* lease.                                                                  *)
Patched(row, status, patch) ==
  [row EXCEPT !.status = status,
              !.owner = IF status \in Final THEN None ELSE row.owner,
              !.live = row.live /\ status \notin Final,
              !.idea = patch.idea, !.angle = patch.angle,
              !.campaign = patch.campaign, !.asset = patch.asset]
Advance(w, at, status, next, patch) ==
  /\ At(w, at)
  /\ IF Holds(w)
       THEN /\ req' = [req EXCEPT ![run[w].job] = Patched(Job(w), status, patch)]
            /\ IF next = "idle" THEN run' = [run EXCEPT ![w] = Idle]
                                ELSE Goto(w, next)
       ELSE /\ UNCHANGED req
            /\ Goto(w, "catch")
  /\ UNCHANGED <<campaigns, assets, angle>>

WithIdea(w) == [Job(w) EXCEPT !.idea = run[w].idea]
WithAngle(w) == [WithIdea(w) EXCEPT !.angle = Pref[run[w].job]]
-----------------------------------------------------------------------------
Understand(w) ==
  Advance(w, "understand", "understanding-goal",
          IF run[w].idea = None THEN "idea" ELSE "read", Job(w))

CreateIdea(w) ==
  /\ At(w, "idea")
  /\ run' = [run EXCEPT ![w].idea = Me(w), ![w].pc = "record"]
  /\ UNCHANGED <<req, campaigns, assets, angle>>

RecordIdea(w) == Advance(w, "record", "researching", "read", WithIdea(w))

Seen(w, i, l) ==
  run' = [run EXCEPT ![w].ver = angle[i].ver, ![w].sel = angle[i].sel,
                     ![w].pc = l]

(* getIdea: a developed idea goes on to its angle. *)
Read(w) ==
  /\ At(w, "read") /\ angle[run[w].idea].ready
  /\ Seen(w, run[w].idea, "choose")
  /\ UNCHANGED <<req, campaigns, assets, angle>>
Researching(w) ==
  /\ At(w, "read") /\ ~angle[run[w].idea].ready
  /\ Advance(w, "read", "researching", "develop", WithIdea(w))
Develop(w) ==
  /\ At(w, "develop")
  /\ angle' = [angle EXCEPT ![run[w].idea].ready = TRUE]
  /\ Seen(w, run[w].idea, "choose")
  /\ UNCHANGED <<req, campaigns, assets>>

ChooseAngle(w) ==
  Advance(w, "choose", "choosing-angle", "select", WithIdea(w))

Selected(i, a) ==
  angle' = [angle EXCEPT ![i].sel = a, ![i].ver = @ + 1]

(* selectAngle, unless it was selected when the idea was read; a stale     *)
(* version throws.                                                         *)
SelectAngle(w) ==
  /\ At(w, "select")
  /\ \/ run[w].sel = Pref[run[w].job] /\ Goto(w, "build") /\ UNCHANGED angle
     \/ /\ run[w].sel # Pref[run[w].job]
        /\ angle[run[w].idea].ver = run[w].ver
        /\ Selected(run[w].idea, Pref[run[w].job])
        /\ Goto(w, "build")
     \/ /\ run[w].sel # Pref[run[w].job]
        /\ angle[run[w].idea].ver # run[w].ver
        /\ Goto(w, "catch")
        /\ UNCHANGED angle
  /\ UNCHANGED <<req, campaigns, assets>>

BuildCampaign(w) ==
  Advance(w, "build", "building-campaign", "campaign", WithAngle(w))

HasCampaign(w, c) == c.idea = run[w].idea /\ c.angle = Pref[run[w].job]
Draft(w) == IF run[w].job \in CampaignOnly THEN "finish" ELSE "asset"

(* (mutant) a campaign of an earlier attempt is not looked for *)
FindNothing(w) ==
  /\ At(w, "campaign")
  /\ Goto(w, "create")
  /\ UNCHANGED <<req, campaigns, assets, angle>>

(* campaigns.list().find: the campaign an earlier attempt has left. *)
FindCampaign(w) ==
  /\ At(w, "campaign")
  /\ \/ /\ \A c \in campaigns: ~HasCampaign(w, c)
        /\ Goto(w, "create")
     \/ \E c \in campaigns:
          /\ HasCampaign(w, c)
          /\ run' = [run EXCEPT ![w].campaign = c.id, ![w].pc = Draft(w)]
  /\ UNCHANGED <<req, campaigns, assets, angle>>

(* createFromSelectedAngle: the angle is the one selected by now. *)
CreateCampaign(w) ==
  /\ At(w, "create")
  /\ campaigns' = campaigns \cup
       {[id |-> Me(w), idea |-> run[w].idea, angle |-> angle[run[w].idea].sel]}
  /\ run' = [run EXCEPT ![w].campaign = Me(w), ![w].pc = Draft(w)]
  /\ UNCHANGED <<req, assets, angle>>

(* createGeneratedAsset: the asset with its seed, then the drafted version.*)
SaveAsset(w) ==
  /\ At(w, "asset")
  /\ assets' = assets \cup
       {[id |-> Me(w), campaign |-> run[w].campaign, drafted |-> FALSE]}
  /\ run' = [run EXCEPT ![w].asset = Me(w), ![w].pc = "generate"]
  /\ UNCHANGED <<req, campaigns, angle>>
Drafted(a) == [a EXCEPT !.drafted = TRUE]
Generate(w) ==
  /\ At(w, "generate")
  /\ assets' = {IF a.id = run[w].asset THEN Drafted(a) ELSE a: a \in assets}
  /\ Goto(w, "finish")
  /\ UNCHANGED <<req, campaigns, angle>>

Finish(w) ==
  Advance(w, "finish", "ready", "idle",
          [WithAngle(w) EXCEPT !.campaign = run[w].campaign,
                               !.asset = run[w].asset])
-----------------------------------------------------------------------------
Throws(w) ==
  /\ run[w].pc \in MayFail
  /\ Goto(w, "catch")
  /\ UNCHANGED <<req, campaigns, assets, angle>>

(* The catch clause; without the lease its advance throws out of the tick. *)
GiveUp(w) ==
  \/ /\ At(w, "catch") /\ Holds(w)
     /\ Advance(w, "catch", "needs-attention", "idle", Job(w))
  \/ /\ At(w, "catch") /\ ~Holds(w)
     /\ run' = [run EXCEPT ![w] = Idle]
     /\ UNCHANGED <<req, campaigns, assets, angle>>

(* The process dies, or the statement of the catch clause fails. *)
Crash(w) ==
  /\ ~At(w, "idle") /\ Job(w).attempt < MaxAttempts
  /\ run' = [run EXCEPT ![w] = Idle]
  /\ UNCHANGED <<req, campaigns, assets, angle>>

(* 900 seconds pass, whether the owner lives or not. *)
Expire(j) ==
  /\ req[j].live /\ req[j].attempt < MaxAttempts
  /\ req' = [req EXCEPT ![j].live = FALSE]
  /\ UNCHANGED <<campaigns, assets, angle, run>>

(* POST .../angles/:id/select of a user who looks at the idea. *)
UserSelects(i, a) ==
  /\ angle[i].ready /\ angle[i].ver <= MaxSelects
  /\ Selected(i, a)
  /\ UNCHANGED <<req, campaigns, assets, run>>
-----------------------------------------------------------------------------
Step(w) ==
  \/ Understand(w) \/ CreateIdea(w) \/ RecordIdea(w)
  \/ Read(w) \/ Researching(w) \/ Develop(w)
  \/ ChooseAngle(w) \/ SelectAngle(w) \/ BuildCampaign(w)
  \/ FindCampaign(w) \/ CreateCampaign(w)
  \/ SaveAsset(w) \/ Generate(w) \/ Finish(w)
  \/ Throws(w) \/ GiveUp(w)
Tick(w) == Step(w) \/ \E j \in Jobs: Claim(w, j)

Next ==
  \/ \E w \in Workers: Tick(w) \/ Crash(w)
  \/ \E j \in Jobs: Expire(j)
  \/ \E i \in Ideas, a \in Angles: UserSelects(i, a)

Spec == Init /\ [][Next]_vars

(* A process ticks every five seconds and leases run out. *)
FairSpec ==
  /\ Spec
  /\ \A w \in Workers: WF_vars(Tick(w))
  /\ \A j \in Jobs: WF_vars(Expire(j))
-----------------------------------------------------------------------------
Results(j) == [idea |-> req[j].idea, angle |-> req[j].angle,
               campaign |-> req[j].campaign, asset |-> req[j].asset]

TypeOK ==
  /\ req \in [Jobs -> [status: {"queued", "understanding-goal", "researching",
                        "choosing-angle", "building-campaign"} \cup Final,
                       owner: {Name[w]: w \in Workers} \cup {None},
                       live: BOOLEAN, attempt: 0..MaxAttempts,
                       idea: Ideas \cup {None}, angle: Angles \cup {None},
                       campaign: Made \cup {None}, asset: Made \cup {None}]]
  /\ campaigns \subseteq [id: Made, idea: Ideas, angle: Angles \cup {None}]
  /\ assets \subseteq [id: Made, campaign: Made, drafted: BOOLEAN]
  /\ \A i \in Ideas: angle[i].sel \in Angles \cup {None}
  /\ \A w \in Workers: At(w, "idle") <=> run[w] = Idle

(* A finished request is not taken up again and what it shows the user     *)
(* does not change, although a process that has lost its lease works on,   *)
(* and may even sign with the name of the one that has it.                 *)
FinalKept ==
  \A j \in Jobs: req[j].status \in Final => req'[j] = req[j]
FinalStays == [][FinalKept]_vars

(* "Ready" shows a whole result: a drafted asset of a campaign of the      *)
(* idea, whoever else was at work on the request.                          *)
ReadyIsWhole ==
  \A j \in Jobs: req[j].status = "ready" =>
    /\ \E c \in campaigns: c.id = req[j].campaign /\ c.idea = req[j].idea
    /\ \/ j \in CampaignOnly
       \/ Drafted([id |-> req[j].asset, campaign |-> req[j].campaign,
                   drafted |-> FALSE]) \in assets

(* The idea a request continues, or the one it made, stays its idea: a     *)
(* later attempt goes on from it.  Asks for names that differ.             *)
IdeaKept ==
  \A j \in Jobs: req[j].idea # None => req'[j].idea = req[j].idea

(* An attempt that is made again after a crash takes up the campaign the   *)
(* earlier one has left.  Asks for one process and no other selection.     *)
OneCampaign ==
  \A c, d \in campaigns: c.idea = d.idea /\ c.angle = d.angle => c = d

(* The campaign is built on the angle the recommendation shows.  Asks for  *)
(* one process and no other selection: the campaign takes the angle that   *)
(* is selected when it is created.                                         *)
CampaignFits ==
  \A j \in Jobs: req[j].status = "ready" =>
    \E c \in campaigns: c.id = req[j].campaign /\ c.angle = req[j].angle

(* Every request ends, ready or for attention, through crashes and expired *)
(* leases.                                                                 *)
JobEnded(j) == req[j].status \in Final
JobEnds == \A j \in Jobs: <>JobEnded(j)
=============================================================================
