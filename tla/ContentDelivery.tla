-------------------------- MODULE ContentDelivery --------------------------
(***************************************************************************)
(* One content asset from its versions to its publish commands             *)
(* (CampaignService, ContentAssetSelectionService, ReviewService,           *)
(* PublishingService.schedule, PublishingGateway and their PostgreSQL       *)
(* stores).                                                                *)
(*                                                                         *)
(* Every await is a step: a request reads the campaign, waits for a model  *)
(* or for other queries, and writes later.  Only appendVersion locks and   *)
(* looks again.  A version is its number; a review row belongs to a        *)
(* version, an approval to a version and a destination, a command to an    *)
(* approval.  passed is history: the versions a critic once passed.        *)
(***************************************************************************)
EXTENDS Naturals, Sequences, FiniteSets

CONSTANTS
  Requests,
  Destinations,  \* connected channel accounts
  Slots,         \* values of scheduledFor
  MaxVersions,   \* bound on the versions of the asset
  Kinds          \* the requests a run makes, a subset of AllKinds

VARIABLES versions, review, passed, approvals, commands, req

deliveryVars == <<versions, review, passed, approvals, commands, req>>

AllKinds == {"select", "generate", "review", "approve", "schedule", "distribute"}
ASSUME DeliveryAssumption == MaxVersions \in Nat \ {0} /\ Kinds \subseteq AllKinds

Refs == {"none", "library"}       \* production assets with a preview
Media == {"unnamed", "posted"}    \* mediaItems of a schedule request

Idle == [kind |-> "none", pc |-> "idle", read |-> 0, expected |-> 0,
         todo |-> <<>>, when |-> 0, media |-> "unnamed", approval |-> 0,
         verdict |-> "none", answers |-> {}]

Current == Len(versions)
Latest(S) == CHOOSE n \in S: \A m \in S: n >= m
Goto(r, l) == req' = [req EXCEPT ![r].pc = l]
End(r, l) == req' = [req EXCEPT ![r] = [Idle EXCEPT !.pc = l]]

DeliveryInit ==
  /\ \E refs \in Refs, sound, ready \in BOOLEAN:
       versions = <<[from |-> 0, project |-> FALSE, refs |-> refs,
                     sound |-> sound, ready |-> ready]>>
  /\ review = [n \in 1..MaxVersions |-> "none"]
  /\ passed = {}
  /\ approvals = {}
  /\ commands = {}
  /\ req = [r \in Requests |-> Idle]
-----------------------------------------------------------------------------
(* Versions.  Every new one comes from somebody who had seen a version (what *)
(* the client calls expectedVersion) and is built from that one, with what   *)
(* it carries over: an edit from an editor's page, a selection and a         *)
(* generation from the parent that was read before the queries and the model *)
(* call.  Whether it may be appended is decided under the lock of the asset. *)

\* (mutant) The asset is locked but not looked at again.
AppendAnyway(seen, v) == versions' = Append(versions, [v EXCEPT !.from = seen])

\* appendVersion: a version that is not the current one any more is refused.
AppendAfter(seen, v) ==
  IF seen = Current THEN versions' = Append(versions, [v EXCEPT !.from = seen])
  ELSE UNCHANGED versions

Bounded(seen) == seen = Current => Current < MaxVersions

(* appendManualEdit: a Video Project only follows itself with another.      *)
Edit ==
  /\ \E seen \in 1..Current, project, ready \in BOOLEAN:
       /\ Bounded(seen)
       /\ versions[seen].project => project
       /\ AppendAfter(seen, [versions[seen] EXCEPT !.project = project, !.ready = ready])
  /\ UNCHANGED <<review, passed, approvals, commands, req>>

(* The reads of select, generateVersion and review, whose expectedVersion   *)
(* is the current one; otherwise they answer 409 and change nothing.        *)
Read(r, k) ==
  /\ req[r].pc = "idle"
  /\ k = "generate" => ~versions[Current].project
  /\ req' = [req EXCEPT ![r] = [Idle EXCEPT !.kind = k, !.read = Current,
       !.pc = IF k # "review" THEN "append"
              ELSE IF versions[Current].sound /\ versions[Current].ready
                   THEN "critic" ELSE "save",
       !.verdict = IF k = "review" THEN "revision-required" ELSE "none"]]
  /\ UNCHANGED <<versions, review, passed, approvals, commands>>

AppendVersion(r) ==
  /\ req[r].pc = "append"
  /\ Bounded(req[r].read)
  /\ LET parent == versions[req[r].read] IN
     \E sound, ready \in BOOLEAN, refs \in Refs:
       /\ IF req[r].kind = "generate" THEN refs = parent.refs
          ELSE refs # parent.refs /\ sound = parent.sound
       /\ AppendAfter(req[r].read,
            [parent EXCEPT !.sound = sound, !.ready = ready, !.refs = refs])
  /\ End(r, "done")
  /\ UNCHANGED <<review, passed, approvals, commands>>

(* The model fails, or answers what is refused.                             *)
Fails(r) ==
  /\ req[r].pc \in {"append", "critic"}
  /\ End(r, "done")
  /\ UNCHANGED <<versions, review, passed, approvals, commands>>
-----------------------------------------------------------------------------
(* Review.                                                                 *)
Criticise(r) ==
  /\ req[r].pc = "critic"
  /\ \E v \in {"passed", "revision-required"}:
       req' = [req EXCEPT ![r].pc = "save", ![r].verdict = v]
  /\ UNCHANGED <<versions, review, passed, approvals, commands>>

SaveReview(r) ==
  /\ req[r].pc = "save"
  /\ review' = [review EXCEPT ![req[r].read] = req[r].verdict]
  /\ passed' = IF req[r].verdict = "passed" THEN passed \cup {req[r].read} ELSE passed
  /\ End(r, "done")
  /\ UNCHANGED <<versions, approvals, commands>>
-----------------------------------------------------------------------------
(* Approval, scheduling, and distribution: both, destination after          *)
(* destination.  An answer moves on to the next destination.                *)
Deliver(r, k, todo, w, m) ==
  /\ req[r].pc = "idle"
  /\ req' = [req EXCEPT ![r] = [Idle EXCEPT !.kind = k, !.expected = Current,
       !.todo = todo, !.when = w, !.media = m,
       !.pc = CASE k = "approve" -> "campaign" [] k = "schedule" -> "detail"
                [] k = "distribute" -> "account"]]
  /\ UNCHANGED <<versions, review, passed, approvals, commands>>

Dest(r) == Head(req[r].todo)

Answered(r, a) ==
  [req[r] EXCEPT !.answers = @ \cup {<<Dest(r), a>>}, !.todo = Tail(@),
                 !.pc = IF Len(req[r].todo) = 1 THEN "done" ELSE "account",
                 !.read = 0, !.approval = 0]
Answer(r, a) == req' = [req EXCEPT ![r] = Answered(r, a)]

(* approve ends here, distribute goes on to schedule.                       *)
Approved(r) ==
  IF req[r].kind = "approve" THEN Answer(r, "approved") ELSE Goto(r, "detail")

(* A channel account may be away, disabled or without the capability; a     *)
(* destination named twice is answered once.                                *)
CheckAccount(r) ==
  /\ req[r].pc = "account"
  /\ \/ Answer(r, "rejected")
     \/ /\ \A a \in req[r].answers: a[1] # Dest(r)
        /\ Goto(r, "campaign")
  /\ UNCHANGED <<versions, review, passed, approvals, commands>>

ReadCampaign(r) ==
  /\ req[r].pc = "campaign"
  /\ IF Current # req[r].expected THEN Answer(r, "stale")
     ELSE req' = [req EXCEPT ![r].pc = "existing", ![r].read = Current]
  /\ UNCHANGED <<versions, review, passed, approvals, commands>>

ApprovedFor(d) == {n \in 1..MaxVersions: <<n, d>> \in approvals}

(* getApprovalForDestination answers the latest version's approval, which   *)
(* is the one wanted only if it is of the version that was read.            *)
FindExisting(r) ==
  /\ req[r].pc = "existing"
  /\ IF /\ ApprovedFor(Dest(r)) # {}
        /\ Latest(ApprovedFor(Dest(r))) = req[r].read
     THEN Approved(r) ELSE Goto(r, "review")
  /\ UNCHANGED <<versions, review, passed, approvals, commands>>

Reviewed == {n \in 1..MaxVersions: review[n] # "none"}

FindReview(r) ==
  /\ req[r].pc = "review"
  /\ IF /\ Reviewed # {}
        /\ Latest(Reviewed) = req[r].read
        /\ review[req[r].read] = "passed"
     THEN Goto(r, "approve") ELSE Answer(r, "rejected")
  /\ UNCHANGED <<versions, review, passed, approvals, commands>>

SaveApproval(r) ==
  /\ req[r].pc = "approve"
  /\ approvals' = approvals \cup {<<req[r].read, Dest(r)>>}
  /\ Approved(r)
  /\ UNCHANGED <<versions, review, passed, commands>>

ReadDetail(r) ==
  /\ req[r].pc = "detail"
  /\ req' = [req EXCEPT ![r].pc = "approval", ![r].read = Current]
  /\ UNCHANGED <<versions, review, passed, approvals, commands>>

FindApproval(r) ==
  /\ req[r].pc = "approval"
  /\ IF ApprovedFor(Dest(r)) = {} THEN Answer(r, "rejected")
     ELSE req' = [req EXCEPT ![r].pc = "command",
                             ![r].approval = Latest(ApprovedFor(Dest(r)))]
  /\ UNCHANGED <<versions, review, passed, approvals, commands>>

CommandOf(v, d) == {c \in commands: c.version = v /\ c.dest = d}

(* mediaItems the request does not name are compared as none at all.        *)
SameRequest(c, r) ==
  /\ c.when = req[r].when
  /\ c.media = IF req[r].media = "unnamed" THEN "none" ELSE req[r].media

FindCommand(r) ==
  /\ req[r].pc = "command"
  /\ LET C == CommandOf(req[r].approval, Dest(r)) IN
     IF C # {}
     THEN Answer(r, IF \A c \in C: SameRequest(c, r) THEN "scheduled" ELSE "conflict")
     ELSE IF req[r].approval # req[r].read THEN Answer(r, "rejected")
     ELSE Goto(r, "insert")
  /\ UNCHANGED <<versions, review, passed, approvals, commands>>

Command(r) ==
  [version |-> req[r].approval, dest |-> Dest(r), when |-> req[r].when,
   media |-> IF req[r].media = "unnamed" THEN versions[req[r].read].refs
             ELSE req[r].media]

(* approval_id is unique: a second insert is an error no handler expects,   *)
(* and the whole request ends with it.                                      *)
InsertCommand(r) ==
  /\ req[r].pc = "insert"
  /\ IF CommandOf(req[r].approval, Dest(r)) # {}
     THEN End(r, "failed") /\ UNCHANGED commands
     ELSE /\ commands' = commands \cup {Command(r)}
          /\ Answer(r, "scheduled")
  /\ UNCHANGED <<versions, review, passed, approvals>>
-----------------------------------------------------------------------------
Orders == {<<d>>: d \in Destinations} \cup (Destinations \X Destinations)

Deliveries(r) ==
  \/ \E d \in Destinations:
       "approve" \in Kinds /\ Deliver(r, "approve", <<d>>, 0, "unnamed")
  \/ \E d \in Destinations, w \in Slots, m \in Media:
       "schedule" \in Kinds /\ Deliver(r, "schedule", <<d>>, w, m)
  \/ \E todo \in Orders, w \in Slots, m \in Media:
       "distribute" \in Kinds /\ Deliver(r, "distribute", todo, w, m)

Step(r) ==
  \/ \E k \in Kinds \cap {"select", "generate", "review"}: Read(r, k)
  \/ AppendVersion(r) \/ Fails(r)
  \/ Criticise(r) \/ SaveReview(r)
  \/ Deliveries(r)
  \/ CheckAccount(r) \/ ReadCampaign(r) \/ FindExisting(r)
  \/ FindReview(r) \/ SaveApproval(r)
  \/ ReadDetail(r) \/ FindApproval(r) \/ FindCommand(r) \/ InsertCommand(r)

(* The answer is sent, and the client may ask again.                        *)
Respond(r) ==
  /\ req[r].pc \in {"done", "failed"}
  /\ req' = [req EXCEPT ![r] = Idle]
  /\ UNCHANGED <<versions, review, passed, approvals, commands>>

DeliveryNext == Edit \/ \E r \in Requests: Step(r) \/ Respond(r)

DeliverySpec == DeliveryInit /\ [][DeliveryNext]_deliveryVars
-----------------------------------------------------------------------------
(* Every variable has its type.                                            *)
DeliveryTypeOK ==
  /\ Len(versions) \in 1..MaxVersions
  /\ \A n \in 1..Len(versions): versions[n] \in
       [from: 0..MaxVersions, project: BOOLEAN, refs: Refs, sound: BOOLEAN, ready: BOOLEAN]
  /\ review \in [1..MaxVersions -> {"none", "passed", "revision-required"}]
  /\ passed \subseteq 1..MaxVersions
  /\ approvals \subseteq (1..MaxVersions) \X Destinations
  /\ \A c \in commands: c.version \in 1..Len(versions) /\ c.dest \in Destinations
  /\ \A r \in Requests: req[r].read \in 0..Len(versions)

(* Versions form one line: each was built from the one right before it,     *)
(* though an editor may have looked at an older one and a generation or a    *)
(* selection reads its parent long before it writes; so nothing that was     *)
(* written in between is lost, and a Video Project stays one (the look at    *)
(* current_version under the lock of appendVersion).                         *)
Lineage ==
  \A n \in 2..Len(versions):
    /\ versions[n].from = n - 1
    /\ versions[n - 1].project => versions[n].project

(* What is approved passed the truth gate, the copy gate and a critic: a    *)
(* review of another version never stands in for it (approve and            *)
(* approveContentVersion).                                                  *)
ApprovedWasPassed ==
  \A a \in approvals:
    a[1] \in passed /\ versions[a[1]].sound /\ versions[a[1]].ready

(* A destination gets one command for a version, with an approval of that   *)
(* version for that destination and with the media posted or the version's  *)
(* own, however deliveries overlap and whatever is edited between the reads *)
(* of approve and of schedule.                                              *)
OneApprovedCommand ==
  \A c \in commands:
    /\ <<c.version, c.dest>> \in approvals
    /\ c.media \in {"posted", versions[c.version].refs}
    /\ \A b \in commands: b.version = c.version /\ b.dest = c.dest => b = c

(* One asset, from its versions to its commands.                            *)
DeliverySound == Lineage /\ ApprovedWasPassed /\ OneApprovedCommand

============================================================================
