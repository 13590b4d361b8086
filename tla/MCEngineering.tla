---------------------------- MODULE MCEngineering ----------------------------
(***************************************************************************)
(* The engineering system's components on small instances, one at a time:  *)
(* exact-SHA certification, the gate, the graph memory, the ratchet run    *)
(* and the multi-agent plan.  "part" says which one a behaviour exercises; *)
(* the others stay as they begin.                                          *)
(***************************************************************************)
EXTENDS Certification, GateLifecycle, GraphMemory, RatchetRun, MultiAgentPlan

VARIABLE part

(* The policies of delivery/gates.json, for a slice of high risk that asks   *)
(* for a delivery graph, over the part of the lifecycle they speak of.       *)
Normal == <<"approved", "ready-for-implementation", "testing", "certification",
            "certified", "released">>
Escapes == {"blocked"}
From(s) == {Normal[i] : i \in {k \in DOMAIN Normal : \E j \in 1..k : Normal[j] = s}}
Approvals == [s \in {Normal[i] : i \in DOMAIN Normal} \cup Escapes |->
  CASE s = "ready-for-implementation" -> {"scope"}
    [] s = "testing" -> {"scope", "implementation"}
    [] s = "certification" -> {"scope", "implementation"}
    [] s = "certified" -> {"certification"}
    [] s = "released" -> {"release"}
    [] s \in {"approved", "blocked"} -> {}]
Permissions == [s \in DOMAIN Approvals |->
  CASE s = "ready-for-implementation" -> 1 [] s = "testing" -> 3
    [] s \in {"certification", "certified"} -> 3 [] s = "released" -> 4
    [] s \in {"approved", "blocked"} -> 0]

(* The graph the certification begins with: an objective, the run that made  *)
(* an artifact, an evaluation of it, evidence, and a node that failed.       *)
Objects == {"OBJ", "RUN", "ART", "EVAL", "EVID", "FAILED"}
TypeOf == [n \in Objects |-> CASE n = "OBJ" -> "Objective" [] n = "RUN" -> "AgentRun"
                             [] n = "ART" -> "Artifact" [] n = "EVAL" -> "Evaluation"
                             [] n \in {"EVID", "FAILED"} -> "Evidence"]
Verified == Objects \ {"FAILED"}
Lineage == {<<"OBJ", "RUN">>, <<"RUN", "ART">>, <<"EVAL", "ART">>, <<"RUN", "EVID">>}
Leaves == {<<"RUN", "FAILED">>}
Shortcut == {<<"OBJ", "ART">>}
Named == {{"ART", "EVAL", "EVID"}}
ReadyOn == From("ready-for-implementation")
TestingOn == From("testing")
CertificationOn == From("certification")
FloorLow == [t \in {"Artifact", "Evaluation", "Evidence"} |-> 1]

\* A behaviour that is not the plan's begins with one plan, not all of them.
SuiteInit ==
  /\ part \in {"certification", "gate", "memory", "ratchet", "plan"}
  /\ part # "plan" => /\ dependsOn = [t \in Tasks |-> {}]
                      /\ writes = [t \in Tasks |-> {}]
  /\ Init /\ GateInit /\ GraphInit /\ RatchetInit /\ PlanInit
  /\ part # "certification" => head = CHOOSE s \in Shas : TRUE

OnlyCertification == part = "certification" /\ UNCHANGED <<part, gateVars, graphVars, ratchetVars, planVars>>
OnlyGate == part = "gate" /\ UNCHANGED <<part, vars, graphVars, ratchetVars, planVars>>
OnlyMemory == part = "memory" /\ UNCHANGED <<part, vars, gateVars, ratchetVars, planVars>>
OnlyRatchet == part = "ratchet" /\ UNCHANGED <<part, vars, gateVars, graphVars, planVars>>
OnlyPlan == part = "plan" /\ UNCHANGED <<part, vars, gateVars, graphVars, ratchetVars>>

SuiteNext ==
  \/ \E b \in Bundles, refs \in Refs : OnlyCertification /\ Candidate(b, refs)
  \/ \E c \in candidates, actor \in {"human", "agent"} :
       OnlyCertification /\ Approve(c, actor)
  \/ \E c \in candidates, a \in approvals : OnlyCertification /\ Finalize(c, a)
  \/ \E b \in certified : OnlyCertification /\ AppendBundle(b)
  \/ \E e \in NewLinks : OnlyCertification /\ AppendLink(e)
  \/ \E s \in Shas : OnlyCertification /\ Commit(s)
  \/ OnlyCertification /\ Edit
  \/ OnlyCertification /\ BuildContext
  \/ \E to \in States : OnlyGate /\ Transition(to)
  \/ \E t \in Types : OnlyGate /\ FileApproval(t, "human")
  \/ \E t \in ByAgent : OnlyGate /\ FileApproval(t, "agent")
  \/ OnlyGate /\ Contradict
  \/ OnlyGate /\ BuildPack
  \/ OnlyGate /\ LinkEvidence
  \/ OnlyGate /\ Permit
  \/ OnlyGate /\ DeliveryReady
  \/ \E w \in Writers : \/ OnlyMemory /\ Open(w)
                        \/ OnlyMemory /\ Release(w)
                        \/ OnlyMemory /\ Write(w)
                        \/ OnlyMemory /\ Prepare(w)
                        \/ OnlyMemory /\ Save(w)
                        \/ OnlyMemory /\ Die(w)
  \/ OnlyRatchet /\ Begin
  \/ OnlyRatchet /\ WriteCandidate
  \/ OnlyRatchet /\ Attach
  \/ OnlyRatchet /\ Evaluate
  \/ OnlyRatchet /\ Restore
  \/ OnlyRatchet /\ Keep
  \/ OnlyRatchet /\ Revert
  \/ OnlyRatchet /\ Use
  \/ OnlyRatchet /\ Crash
  \/ OnlyRatchet /\ Recover
  \/ OnlyPlan /\ LayOut
  \/ OnlyPlan /\ Assess

suiteVars == <<part, vars, gateVars, graphVars, ratchetVars, planVars>>
SuiteSpec == SuiteInit /\ [][SuiteNext]_suiteVars
-----------------------------------------------------------------------------
(* Every component's state is well formed, whichever of them a behaviour   *)
(* exercises.                                                              *)
SuiteTypeOK == /\ TypeOK /\ GateTypeOK /\ GraphTypeOK /\ RatchetTypeOK
               /\ PlanTypeOK
=============================================================================
