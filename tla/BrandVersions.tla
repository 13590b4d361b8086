------------------------------ MODULE BrandVersions ------------------------------
(***************************************************************************)
(* The versions a discovery request is answered under.                     *)
(*                                                                         *)
(* Brand Brain fields and knowledge sources are written by transactions    *)
(* whose updated_at is now(), the time the transaction BEGAN.  A discovery *)
(* request reads the fields and the sources with two separate queries,     *)
(* names what it read by the newest updated_at (snapshotVersion), then     *)
(* makes sure a Discovery Plan and a topic graph exist for it.  Users edit *)
(* the plan meanwhile; both the request and the edit append a revision     *)
(* after a read that is no longer protected.                               *)
(***************************************************************************)
EXTENDS Naturals, Sequences, FiniteSets

CONSTANTS FieldKeys, FieldValues, Sources, Writers, Requests, Editors,
          MaxTime,  \* bound on the database clock: a transaction begins per tick
          NoOp      \* a writer with no transaction open

ASSUME VersionsAssumption == MaxTime \in Nat

VARIABLES clock, field, source, tx, req, edit, plans, graphs

versionVars == <<clock, field, source, tx, req, edit, plans, graphs>>

Blank == [state |-> "none", val |-> NoOp, src |-> {}, ver |-> 0, at |-> 0]
IdleRequest == [pc |-> "idle", brain |-> {}, sources |-> {}, version |-> 0,
                plan |-> 0, graph |-> 0]

\* What agents are told of the fields: those not stale, with their sources.
Content(brain) ==
  {[key |-> e.key, val |-> e.f.val, state |-> e.f.state, src |-> e.f.src]
     : e \in {x \in brain : x.f.state \notin {"none", "stale"}}}

FieldRows(f) == {[key |-> k, f |-> f[k]] : k \in {x \in FieldKeys : f[x].state # "none"}}
Newest(times) ==
  IF times = {} THEN 0 ELSE CHOOSE t \in times : \A u \in times : u <= t

\* projectBrandIntelligenceSnapshot: the version is the newest updated_at.
SnapshotVersion(brain, list) ==
  Newest({e.f.at : e \in brain} \cup {e.s.at : e \in list})

------------------------------------------------------------------------------
\* Writers

\* A transaction is opened by one of the four writes.  now() is fixed here, and
\* no two transactions begin in the same millisecond.
Begin(w) ==
  /\ tx[w] = NoOp
  /\ clock < MaxTime
  /\ clock' = clock + 1
  /\ \E k \in FieldKeys, v \in FieldValues, s \in Sources,
        op \in {"confirm", "infer", "toggle", "remove"} :
       tx' = [tx EXCEPT ![w] = [op |-> op, key |-> k, val |-> v, src |-> s,
                                expected |-> field[k].ver, now |-> clock + 1]]
  /\ UNCHANGED <<field, source, req, edit, plans, graphs>>

Close(w) == tx' = [tx EXCEPT ![w] = NoOp]

Rollback(w) ==
  /\ tx[w] # NoOp
  /\ Close(w)
  /\ UNCHANGED <<clock, field, source, req, edit, plans, graphs>>

Write(w, state, srcs) ==
  field' = [field EXCEPT ![tx[w].key] =
              [state |-> state, val |-> tx[w].val, src |-> srcs,
               ver |-> @.ver + 1, at |-> tx[w].now]]

\* putConfirmedBrandBrainField
Confirm(w) ==
  /\ tx[w] # NoOp /\ tx[w].op = "confirm"
  /\ field[tx[w].key].ver = tx[w].expected
  /\ Write(w, "confirmed", {})
  /\ Close(w)
  /\ UNCHANGED <<clock, source, req, edit, plans, graphs>>

\* recordInferredBrandBrainField: the sources must be active when they are looked
\* up, and a confirmed field is returned as it is.
CheckSources(w) ==
  /\ tx[w] # NoOp /\ tx[w].op = "infer"
  /\ source[tx[w].src].status = "active"
  /\ tx' = [tx EXCEPT ![w].op = "inferChecked"]
  /\ UNCHANGED <<clock, field, source, req, edit, plans, graphs>>

Infer(w) ==
  /\ tx[w] # NoOp /\ tx[w].op = "inferChecked"
  /\ field[tx[w].key].ver = tx[w].expected
  /\ IF field[tx[w].key].state = "confirmed"
       THEN UNCHANGED field
       ELSE Write(w, "inferred", {tx[w].src})
  /\ Close(w)
  /\ UNCHANGED <<clock, source, req, edit, plans, graphs>>

\* setKnowledgeSourceStatus
Toggle(w) ==
  /\ tx[w] # NoOp /\ tx[w].op = "toggle"
  /\ source[tx[w].src].status # "removed"
  /\ \E status \in {"active", "disabled"} :
       source' = IF source[tx[w].src].status = status THEN source
                 ELSE [source EXCEPT ![tx[w].src] =
                         [status |-> status, at |-> tx[w].now]]
  /\ Close(w)
  /\ UNCHANGED <<clock, field, req, edit, plans, graphs>>

\* removeKnowledgeSource: an inferred field left without a source goes stale.
Remove(w) ==
  /\ tx[w] # NoOp /\ tx[w].op = "remove"
  /\ source[tx[w].src].status # "removed"
  /\ field' = [k \in FieldKeys |->
       IF tx[w].src \notin field[k].src THEN field[k]
       ELSE LET left == field[k].src \ {tx[w].src}
            IN  IF field[k].state = "inferred" /\ left = {}
                  THEN [field[k] EXCEPT !.src = left, !.state = "stale",
                                        !.ver = @ + 1, !.at = tx[w].now]
                  ELSE [field[k] EXCEPT !.src = left]]
  /\ source' = [source EXCEPT ![tx[w].src] = [status |-> "removed", at |-> tx[w].now]]
  /\ Close(w)
  /\ UNCHANGED <<clock, req, edit, plans, graphs>>

------------------------------------------------------------------------------
\* The discovery request

Goes(r, pc) == req' = [req EXCEPT ![r].pc = pc]

\* Promise.all of two queries: either may be answered first.
ReadBrain(r) ==
  /\ req[r].pc \in {"idle", "sourcesRead"}
  /\ req' = [req EXCEPT ![r].brain = FieldRows(field),
                        ![r].pc = IF @ = "idle" THEN "brainRead" ELSE "read"]
  /\ UNCHANGED <<clock, field, source, tx, edit, plans, graphs>>

ReadSources(r) ==
  /\ req[r].pc \in {"idle", "brainRead"}
  /\ req' = [req EXCEPT ![r].sources = {[id |-> s, s |-> source[s]] : s \in Sources},
                        ![r].pc = IF @ = "idle" THEN "sourcesRead" ELSE "read"]
  /\ UNCHANGED <<clock, field, source, tx, edit, plans, graphs>>

\* The snapshot is projected and the plan's latest revision is read.
Snapshot(r) ==
  /\ req[r].pc = "read"
  /\ req' = [req EXCEPT
               ![r].version = SnapshotVersion(req[r].brain, req[r].sources),
               ![r].plan = Len(plans),
               ![r].pc = IF Content(req[r].brain) = {} THEN "notReady" ELSE "planRead"]
  /\ UNCHANGED <<clock, field, source, tx, edit, plans, graphs>>

\* (mutant) append without the revision check
MayAppendBlind(revision) == revision > 0

\* PgBrandDiscoveryPlanRepository.append: the revision is checked under a lock.
MayAppend(revision) == revision = Len(plans) + 1

Follows(plan, version) == plan.version = version \/ plan.state = "customized"

\* BrandDiscoveryPlanService.ensure
EnsurePlan(r) ==
  /\ req[r].pc = "planRead"
  /\ LET read == req[r].plan IN
     IF read > 0 /\ Follows(plans[IF read > 0 THEN read ELSE 1], req[r].version)
       THEN Goes(r, "planned") /\ UNCHANGED plans
     ELSE IF MayAppend(read + 1)
       THEN /\ plans' = Append(plans, [version |-> req[r].version, state |-> "initial",
                                       from |-> Content(req[r].brain), edits |-> {}])
            /\ req' = [req EXCEPT ![r].plan = read + 1, ![r].pc = "planned"]
     ELSE Goes(r, "planRefused") /\ UNCHANGED plans
  /\ UNCHANGED <<clock, field, source, tx, edit, graphs>>

\* ensureCurrent, first half: the latest graph, or 0.
ReadGraph(r) ==
  /\ req[r].pc = "planned"
  /\ req' = [req EXCEPT ![r].graph = Newest({g.version : g \in graphs}),
                        ![r].pc = "graphRead"]
  /\ UNCHANGED <<clock, field, source, tx, edit, plans, graphs>>

NextGraphVersion(latest) == latest + 1

Stored(print) == {g \in graphs : g.print = print}

\* ensureCurrent, second half.  The latest graph read is returned when its
\* fingerprint is the request's; the insert returns the row already stored under
\* that fingerprint, and fails when its version is taken by another one.
InsertGraph(r) ==
  /\ req[r].pc = "graphRead"
  /\ LET print == Content(req[r].brain)
         next  == NextGraphVersion(req[r].graph)
     IN
     IF Stored(print) # {}
       THEN /\ req' = [req EXCEPT ![r].pc = "done",
                         ![r].graph = (CHOOSE g \in Stored(print) : TRUE).version]
            /\ UNCHANGED graphs
     ELSE IF \E g \in graphs : g.version = next
       THEN Goes(r, "graphRefused") /\ UNCHANGED graphs
     ELSE /\ graphs' = graphs \cup {[version |-> next, print |-> print]}
          /\ req' = [req EXCEPT ![r].pc = "done", ![r].graph = next]
  /\ UNCHANGED <<clock, field, source, tx, edit, plans>>

------------------------------------------------------------------------------
\* A user edits one topic of the plan on the screen

Open(e) ==
  /\ edit[e].pc = "idle" /\ Len(plans) > 0
  /\ edit' = [edit EXCEPT ![e] = [pc |-> "shown", revision |-> Len(plans)]]
  /\ UNCHANGED <<clock, field, source, tx, req, plans, graphs>>

\* updateTopic reads the latest plan and compares the expected revision.
CheckRevision(e) ==
  /\ edit[e].pc = "shown"
  /\ edit' = [edit EXCEPT ![e].pc =
                IF Len(plans) = edit[e].revision THEN "checked" ELSE "refused"]
  /\ UNCHANGED <<clock, field, source, tx, req, plans, graphs>>

SaveEdit(e) ==
  /\ edit[e].pc = "checked"
  /\ LET read == edit[e].revision IN
     IF MayAppend(read + 1)
       THEN /\ plans' = Append(plans, [plans[read] EXCEPT !.state = "customized",
                                                         !.edits = @ \cup {e}])
            /\ edit' = [edit EXCEPT ![e] = [pc |-> "saved", revision |-> read + 1]]
       ELSE /\ edit' = [edit EXCEPT ![e].pc = "refused"]
            /\ UNCHANGED plans
  /\ UNCHANGED <<clock, field, source, tx, req, graphs>>

------------------------------------------------------------------------------
VersionsInit ==
  /\ clock = 0
  /\ field = [k \in FieldKeys |-> Blank]
  /\ source = [s \in Sources |-> [status |-> "active", at |-> 0]]
  /\ tx = [w \in Writers |-> NoOp]
  /\ req = [r \in Requests |-> IdleRequest]
  /\ edit = [e \in Editors |-> [pc |-> "idle", revision |-> 0]]
  /\ plans = <<>> /\ graphs = {}

VersionsNext ==
  \/ \E w \in Writers : \/ Begin(w) \/ Rollback(w) \/ Confirm(w)
                        \/ CheckSources(w) \/ Infer(w) \/ Toggle(w) \/ Remove(w)
  \/ \E r \in Requests : \/ ReadBrain(r) \/ ReadSources(r) \/ Snapshot(r)
                         \/ EnsurePlan(r) \/ ReadGraph(r) \/ InsertGraph(r)
  \/ \E e \in Editors : Open(e) \/ CheckRevision(e) \/ SaveEdit(e)

VersionsSpec == VersionsInit /\ [][VersionsNext]_versionVars

------------------------------------------------------------------------------
\* Every variable stays in its domain (the row types of the three stores).
VersionsTypeOK ==
  /\ clock \in 0..MaxTime
  /\ \A k \in FieldKeys : /\ field[k].state \in {"none", "confirmed", "inferred", "stale"}
                     /\ field[k].src \subseteq Sources /\ field[k].at \in 0..MaxTime
  /\ \A s \in Sources : source[s].status \in {"active", "disabled", "removed"}
  /\ \A r \in Requests : req[r].plan \in 0..Len(plans)
  /\ \A e \in Editors : edit[e].revision \in 0..Len(plans)

\* An edit a user was told is saved is in every later revision of the plan,
\* whoever appends it: a request whose ensure() read the plan before the edit,
\* or another user (BrandDiscoveryPlanService over the repository's append).
EditsSurvive ==
  \A e \in Editors : edit[e].pc = "saved" =>
    \A n \in edit[e].revision..Len(plans) : e \in plans[n].edits

\* A request or an edit is turned away only because another one was accepted
\* after it read: nobody is refused by its own stale arithmetic.
RefusedForAReason ==
  /\ \A r \in Requests :
       /\ req[r].pc = "planRefused" => Len(plans) > req[r].plan
       /\ req[r].pc = "graphRefused" => \E g \in graphs : g.version > req[r].graph
  /\ \A e \in Editors : edit[e].pc = "refused" => Len(plans) > edit[e].revision

\* The graph version a finished request records names the graph of the fields
\* that request read, and no version names two graphs.
GraphVersionNamesGraph ==
  /\ \A r \in Requests : req[r].pc = "done" =>
       \A g \in graphs : g.version = req[r].graph => g.print = Content(req[r].brain)
  /\ \A g, h \in graphs : g.version = h.version => g = h

\* What a user saved of a plan stays in it, who is refused lost to somebody
\* else, and a graph version names one graph, the one of the fields read.
VersionsHonest == EditsSurvive /\ RefusedForAReason /\ GraphVersionNamesGraph

=============================================================================
