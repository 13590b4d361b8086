--------------------------- MODULE GateLifecycle ---------------------------
(***************************************************************************)
(* The life of a slice under the gate (gate-engine.mjs): every transition  *)
(* is asked of evaluateGate, over approvals that are given, a graph memory *)
(* that grows, a context pack built of it under a node budget, linked      *)
(* evidence, a permission and a delivery graph.                            *)
(*                                                                         *)
(* The policy is a constant; the instance is that of delivery/gates.json,  *)
(* governance.json and the authority of pes-v2.json.  What contradicts     *)
(* what near the objective is a number of pairs; a pack names those pairs  *)
(* of which both nodes fit (buildRankedContext).  An approval that is      *)
(* revoked later is not modelled: the gate asks again at each state.       *)
(***************************************************************************)
EXTENDS Naturals, Sequences, FiniteSets

CONSTANTS
  Lifecycle,        \* governance.lifecycle
  Exceptions,       \* governance.exceptionStates
  Required,         \* approvals of each state, with those of changed paths
  HumanOnly,        \* authority.humanApprovalRequired
  ContextFrom, EvidenceFrom, BlockContradictionsFrom, DeliveryFrom,
  Permission,       \* least permission of each state, as its index
  Triggered,        \* risk, signals or paths ask for a delivery graph
  ByAgent,          \* types an agent signs approvals of
  EvidenceFloor,    \* evidence the risk of the slice asks for
  Fits,             \* contradicting pairs that fit into a pack
  MaxPairs          \* bound: contradictions recorded

States == {Lifecycle[i]: i \in DOMAIN Lifecycle} \cup Exceptions
Types == UNION {Required[s]: s \in States}
MaxPermission == 4
Min2(a, b) == IF a < b THEN a ELSE b

ASSUME GateAssumption ==
  /\ Len(Lifecycle) \in Nat \ {0} /\ DOMAIN Lifecycle = 1..Len(Lifecycle)
  /\ \A i, j \in DOMAIN Lifecycle: Lifecycle[i] = Lifecycle[j] => i = j
  /\ \A i \in DOMAIN Lifecycle: Lifecycle[i] \notin Exceptions
  /\ Required[Lifecycle[1]] = {}
  /\ Lifecycle[1] \notin EvidenceFrom \cup DeliveryFrom
  /\ {ContextFrom, EvidenceFrom, BlockContradictionsFrom, DeliveryFrom}
       \subseteq SUBSET States
  /\ ByAgent \subseteq Types /\ Permission \in [States -> 0..MaxPermission]
  /\ Triggered \in BOOLEAN /\ {EvidenceFloor, Fits, MaxPairs} \subseteq Nat

VARIABLES
  state,     \* of the slice
  approved,  \* approvals on file: type and kind of actor
  pairs,     \* contradicting pairs in the graph near the objective
  pack,      \* the pack: graph revision it was built of, pairs it shows
  evidence, permission, delivery

GraphRevision == pairs + evidence  \* of the graph, by what is appended to it

gateVars == <<state, approved, pairs, pack, evidence, permission, delivery>>

GateInit ==
  /\ state = Lifecycle[1] /\ approved = {} /\ pairs = 0
  /\ pack = [rev |-> 0, shown |-> 0]
  /\ evidence = 0 /\ permission = 0 /\ delivery = FALSE
-----------------------------------------------------------------------------
(* validateTransitionShape: nothing follows an exception state but another *)
TransitionShape(to) ==
  \/ to \in Exceptions
  \/ \E i \in 1..(Len(Lifecycle) - 1):
       state = Lifecycle[i] /\ to = Lifecycle[i + 1]

(* (mutant) nobody asks who approved *)
ApprovedByAnyone(to) ==
  \A t \in Required[to]: \E a \in approved: a[1] = t

(* validateApprovals, where agentMaySelfApprove is false                   *)
Approved(to) ==
  \A t \in Required[to]: \E a \in approved:
    a[1] = t /\ a[2] # "agent" /\ (t \in HumanOnly => a[2] = "human")

(* (mutant) an older pack will do *)
AnyContext(to) == to \in BlockContradictionsFrom => pack.shown = 0

(* validateContextForGate, and the contradictions the pack names        *)
ContextReady(to) ==
  /\ to \in ContextFrom => pack.rev = GraphRevision
  /\ to \in BlockContradictionsFrom => pack.shown = 0

(* evaluateGate *)
Allowed(to) ==
  /\ TransitionShape(to) /\ Approved(to) /\ ContextReady(to)
  /\ Triggered /\ to \in DeliveryFrom => delivery
  /\ to \in EvidenceFrom => evidence >= EvidenceFloor
  /\ permission >= Permission[to]

Transition(to) ==
  /\ Allowed(to)
  /\ state' = to
  /\ UNCHANGED <<approved, pairs, pack, evidence, permission, delivery>>

FileApproval(type, actor) ==
  /\ approved' = approved \cup {<<type, actor>>}
  /\ UNCHANGED <<state, pairs, pack, evidence, permission, delivery>>

Contradict ==
  /\ pairs < MaxPairs /\ pairs' = pairs + 1
  /\ UNCHANGED <<state, approved, pack, evidence, permission, delivery>>

BuildPack ==
  /\ pack' = [rev |-> GraphRevision, shown |-> Min2(pairs, Fits)]
  /\ UNCHANGED <<state, approved, pairs, evidence, permission, delivery>>

LinkEvidence ==
  /\ evidence < EvidenceFloor /\ evidence' = evidence + 1
  /\ UNCHANGED <<state, approved, pairs, pack, permission, delivery>>

Permit ==
  /\ permission < MaxPermission /\ permission' = permission + 1
  /\ UNCHANGED <<state, approved, pairs, pack, evidence, delivery>>

DeliveryReady ==
  /\ delivery' = TRUE
  /\ UNCHANGED <<state, approved, pairs, pack, evidence, permission>>

GateNext ==
  \/ \E to \in States: Transition(to)
  \/ \E t \in Types: FileApproval(t, "human")
  \/ \E t \in ByAgent: FileApproval(t, "agent")
  \/ Contradict \/ BuildPack \/ LinkEvidence \/ Permit \/ DeliveryReady

GateSpec == GateInit /\ [][GateNext]_gateVars
-----------------------------------------------------------------------------
(* The state is well formed, and no pack is ahead of the graph. *)
GateTypeOK ==
  /\ state \in States /\ approved \subseteq Types \X {"human", "agent"}
  /\ pairs \in 0..MaxPairs /\ pack.rev <= GraphRevision
  /\ evidence \in 0..EvidenceFloor /\ permission \in 0..MaxPermission
  /\ delivery \in BOOLEAN

Past(s) == {Lifecycle[i]: i \in {j \in DOMAIN Lifecycle:
                                   \E k \in DOMAIN Lifecycle:
                                     k >= j /\ Lifecycle[k] = s}}

(* Whatever order approvals, evidence and permissions came in, a slice     *)
(* has what every state up to its own asks for: an approval of each type,  *)
(* a human's where one is required, the evidence, and the delivery graph.  *)
Sanctioned ==
  \A s \in Past(state):
    /\ \A t \in Required[s]: <<t, "human">> \in approved
    /\ s \in EvidenceFrom => evidence >= EvidenceFloor
    /\ Triggered /\ s \in DeliveryFrom => delivery

(* VS-05, exit criterion 6: "relevant contradictions block certification". *)
ContradictionsBlock ==
  [][state' # state /\ state' \in BlockContradictionsFrom => pairs = 0]_gateVars
=============================================================================
