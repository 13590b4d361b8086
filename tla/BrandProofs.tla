---------------------------- MODULE BrandProofs ----------------------------
(***************************************************************************)
(* Proofs about the plan and the graph of a brand (BrandVersions) and about*)
(* its fields (BrandBrain).                                                *)
(*                                                                         *)
(* The versions, for any fields, sources, transactions, requests and       *)
(* editors.  A revision is appended after the latest only, so a plan that  *)
(* was edited stays customized and is never laid out anew; graph versions  *)
(* are 1..k without gaps, so the version after the latest read is either   *)
(* the next one or taken.                                                  *)
(*                                                                         *)
(* The last part is reading a public reference (ReferenceReader), for any  *)
(* hosts, addresses, answers and limits.                                   *)
(***************************************************************************)
EXTENDS BrandVersions, BrandBrain, TLAPS

\* A request and an edit are records of these fields.
RequestShape(q) == q = [pc |-> q.pc, brain |-> q.brain, sources |-> q.sources,
                        version |-> q.version, plan |-> q.plan, graph |-> q.graph]
EditShape(d) == d = [pc |-> d.pc, revision |-> d.revision]
PlanShape(p) == p = [version |-> p.version, state |-> p.state, from |-> p.from,
                     edits |-> p.edits]

Shaped ==
  /\ req = [r \in Requests |-> req[r]] /\ edit = [e \in Editors |-> edit[e]]
  /\ \A r \in Requests: RequestShape(req[r])
  /\ \A e \in Editors: EditShape(edit[e])
  /\ \E S: plans \in Seq(S)
  /\ \A n \in 1..Len(plans): PlanShape(plans[n])

GraphVersions == {g.version: g \in graphs}

PlanKnown ==
  /\ \A n \in 1..Len(plans): plans[n].edits # {} => plans[n].state = "customized"
  /\ \A r \in Requests: req[r].plan \in 0..Len(plans)
  /\ \A e \in Editors: /\ edit[e].revision \in 0..Len(plans)
                       /\ edit[e].pc # "idle" => edit[e].revision # 0

GraphKnown ==
  /\ \E k \in Nat: /\ GraphVersions = 1..k
                   /\ \A r \in Requests: req[r].graph \in 0..k
  /\ \A g, h \in graphs: g.version = h.version => g = h
  /\ \A r \in Requests: req[r].pc = "done" =>
       \E g \in graphs: g.version = req[r].graph /\ g.print = Content(req[r].brain)

VersionsInv == /\ Shaped /\ PlanKnown /\ GraphKnown
               /\ EditsSurvive /\ RefusedForAReason

\* Everything is known of what did not change.
LEMMA Unmoved ==
  ASSUME VersionsInv, UNCHANGED <<req, edit, plans, graphs>>
  PROVE  VersionsInv'
  BY DEF VersionsInv, Shaped, PlanKnown, GraphKnown, GraphVersions, EditsSurvive,
         RefusedForAReason

(* A request that goes on without writing.                                  *)
LEMMA RequestMoves ==
  ASSUME VersionsInv, NEW r \in Requests, NEW q, RequestShape(q),
         req' = [req EXCEPT ![r] = q], UNCHANGED <<edit, plans, graphs>>,
         q.plan \in 0..Len(plans),
         q.graph = 0 \/ q.graph \in GraphVersions,
         q.pc = "done" => \E g \in graphs: g.version = q.graph /\ g.print = Content(q.brain),
         q.pc = "planRefused" => Len(plans) > q.plan,
         q.pc = "graphRefused" => \E g \in graphs: g.version > q.graph
  PROVE  VersionsInv'
  <1>1. /\ req' = [x \in Requests |-> req'[x]] /\ req'[r] = q
        /\ \A x \in Requests: x # r => req'[x] = req[x]
    BY DEF VersionsInv, Shaped
  <1>2. Shaped'
    BY <1>1 DEF VersionsInv, Shaped
  <1>3. PlanKnown'
    BY <1>1 DEF VersionsInv, PlanKnown
  <1>4. GraphKnown'
    <2>1. PICK k \in Nat: GraphVersions = 1..k /\ \A x \in Requests: req[x].graph \in 0..k
      BY DEF VersionsInv, GraphKnown
    <2>2. q.graph \in 0..k
      BY <2>1
    <2>3. GraphVersions' = 1..k /\ \A x \in Requests: req'[x].graph \in 0..k
      BY <1>1, <2>1, <2>2 DEF GraphVersions
    <2>4. \A x \in Requests: req'[x].pc = "done" =>
            \E g \in graphs: g.version = req'[x].graph /\ g.print = Content(req'[x].brain)
      BY <1>1 DEF VersionsInv, GraphKnown
    <2>5. QED
      BY <2>3, <2>4 DEF VersionsInv, GraphKnown
  <1>5. EditsSurvive' /\ RefusedForAReason'
    BY <1>1 DEF VersionsInv, EditsSurvive, RefusedForAReason
  <1>6. QED
    BY <1>2, <1>3, <1>4, <1>5 DEF VersionsInv

(* A revision appended after the latest keeps the edits of the latest.      *)
LEMMA Appended ==
  ASSUME VersionsInv, NEW p, PlanShape(p), plans' = Append(plans, p),
         p.edits # {} => p.state = "customized",
         Len(plans) > 0 => plans[Len(plans)].edits \subseteq p.edits
  PROVE  /\ \E S: plans' \in Seq(S)
         /\ Len(plans) \in Nat /\ Len(plans') = Len(plans) + 1
         /\ \A n \in 1..Len(plans'):
              /\ PlanShape(plans'[n])
              /\ plans'[n].edits # {} => plans'[n].state = "customized"
         /\ plans'[Len(plans) + 1] = p
         /\ \A e \in Editors: edit[e].pc = "saved" =>
              \A n \in edit[e].revision..Len(plans'): e \in plans'[n].edits
  <1>1. PICK S: plans \in Seq(S)
    BY DEF VersionsInv, Shaped
  <1>2. plans \in Seq(S \cup {p}) /\ p \in S \cup {p}
    BY <1>1
  <1>3. plans' \in Seq(S \cup {p})
    BY <1>2
  <1>4. /\ Len(plans) \in Nat /\ Len(plans') = Len(plans) + 1
        /\ plans'[Len(plans) + 1] = p
        /\ \A n \in 1..Len(plans): plans'[n] = plans[n]
    BY <1>2
  <1>5. \A n \in 1..Len(plans'): n \in 1..Len(plans) \/ n = Len(plans) + 1
    BY <1>4
  <1>6. \A n \in 1..Len(plans'):
          PlanShape(plans'[n]) /\ (plans'[n].edits # {} => plans'[n].state = "customized")
    BY <1>4, <1>5 DEF VersionsInv, Shaped, PlanKnown
  <1>7. ASSUME NEW e \in Editors, edit[e].pc = "saved",
               NEW n \in edit[e].revision..Len(plans')
        PROVE  e \in plans'[n].edits
    <2>1. edit[e].revision \in 1..Len(plans)
      BY <1>4, <1>7 DEF VersionsInv, PlanKnown
    <2>2. \A m \in edit[e].revision..Len(plans): e \in plans[m].edits
      BY <1>7 DEF VersionsInv, EditsSurvive
    <2>3. n \in 1..Len(plans')
      BY <1>4, <2>1
    <2>4. CASE n \in 1..Len(plans)
      BY <1>4, <2>1, <2>2, <2>4
    <2>5. CASE n = Len(plans) + 1
      <3>1. Len(plans) \in edit[e].revision..Len(plans) /\ Len(plans) > 0
        BY <1>4, <2>1
      <3>2. e \in plans[Len(plans)].edits
        BY <2>2, <3>1
      <3>3. QED
        BY <1>4, <2>5, <3>1, <3>2
    <2>6. QED
      BY <1>5, <2>3, <2>4, <2>5
  <1>8. QED
    BY <1>3, <1>4, <1>6, <1>7

LEMMA EnsurePlanKeeps ==
  ASSUME VersionsInv, NEW r \in Requests, EnsurePlan(r)
  PROVE  VersionsInv'
  <1> DEFINE q == req[r]
             read == q.plan
             p == [version |-> q.version, state |-> "initial",
                   from |-> Content(q.brain), edits |-> {}]
             Moved(pc, plan) == [pc |-> pc, brain |-> q.brain, sources |-> q.sources,
                                 version |-> q.version, plan |-> plan, graph |-> q.graph]
  <1>1. /\ RequestShape(q) /\ q.pc = "planRead" /\ read \in 0..Len(plans)
        /\ Len(plans) \in Nat /\ (q.graph = 0 \/ q.graph \in GraphVersions)
    <2>1. PICK k \in Nat: GraphVersions = 1..k /\ \A x \in Requests: req[x].graph \in 0..k
      BY DEF VersionsInv, GraphKnown
    <2>2. q.graph = 0 \/ q.graph \in GraphVersions
      BY <2>1
    <2>3. PICK S: plans \in Seq(S)
      BY DEF VersionsInv, Shaped
    <2>4. QED
      BY <2>2, <2>3 DEF VersionsInv, Shaped, PlanKnown, EnsurePlan
  <1>2. CASE read > 0 /\ Follows(plans[IF read > 0 THEN read ELSE 1], q.version)
    <2>1. req' = [req EXCEPT ![r] = Moved("planned", read)] /\ UNCHANGED <<edit, plans, graphs>>
      BY <1>1, <1>2 DEF EnsurePlan, Goes, RequestShape, VersionsInv, Shaped
    <2>2. RequestShape(Moved("planned", read))
      BY DEF RequestShape
    <2>3. QED
      BY <1>1, <2>1, <2>2, RequestMoves
  <1>3. CASE ~(read > 0 /\ Follows(plans[IF read > 0 THEN read ELSE 1], q.version))
             /\ ~MayAppend(read + 1)
    <2>1. req' = [req EXCEPT ![r] = Moved("planRefused", read)] /\ UNCHANGED <<edit, plans, graphs>>
      BY <1>1, <1>3 DEF EnsurePlan, Goes, RequestShape, VersionsInv, Shaped
    <2>2. RequestShape(Moved("planRefused", read))
      BY DEF RequestShape
    <2>3. Len(plans) > read
      BY <1>1, <1>3 DEF MayAppend
    <2>4. QED
      BY <1>1, <2>1, <2>2, <2>3, RequestMoves
  <1>4. CASE ~(read > 0 /\ Follows(plans[IF read > 0 THEN read ELSE 1], q.version))
             /\ MayAppend(read + 1)
    <2>1. /\ plans' = Append(plans, p) /\ UNCHANGED <<edit, graphs>>
          /\ req' = [req EXCEPT ![r] = Moved("planned", read + 1)]
      BY <1>1, <1>4 DEF EnsurePlan, RequestShape, VersionsInv, Shaped
    <2>2. read = Len(plans)
      BY <1>1, <1>4 DEF MayAppend
    <2>3. Len(plans) > 0 => plans[Len(plans)].edits = {}
      BY <1>1, <1>4, <2>2 DEF Follows, VersionsInv, PlanKnown
    <2>4. /\ \E S: plans' \in Seq(S)
          /\ Len(plans) \in Nat /\ Len(plans') = Len(plans) + 1
          /\ \A n \in 1..Len(plans'):
               /\ PlanShape(plans'[n])
               /\ plans'[n].edits # {} => plans'[n].state = "customized"
          /\ \A e \in Editors: edit[e].pc = "saved" =>
               \A n \in edit[e].revision..Len(plans'): e \in plans'[n].edits
      <3>1. PlanShape(p) /\ p.edits = {}
        BY DEF PlanShape
      <3> HIDE DEF p
      <3>2. QED
        BY <2>1, <2>3, <3>1, Appended
    <2>5. /\ req' = [x \in Requests |-> req'[x]] /\ req'[r] = Moved("planned", read + 1)
          /\ \A x \in Requests: x # r => req'[x] = req[x]
      BY <2>1 DEF VersionsInv, Shaped
    <2> DEFINE m == Moved("planned", read + 1)
    <2>6. RequestShape(m) /\ m.pc = "planned" /\ m.plan = Len(plans') /\ m.graph = q.graph
      BY <2>2, <2>4 DEF RequestShape
    <2> HIDE DEF m
    <2>7. \A x \in Requests: /\ RequestShape(req'[x]) /\ req'[x].plan \in 0..Len(plans')
                             /\ req'[x].graph = req[x].graph
                             /\ x = r \/ req'[x] = req[x]
      BY <2>4, <2>5, <2>6 DEF m, VersionsInv, Shaped, PlanKnown
    <2>8. Shaped' /\ PlanKnown'
      <3>1. Shaped'
        BY <2>1, <2>4, <2>5, <2>7 DEF VersionsInv, Shaped
      <3>2. \A x \in Editors: /\ edit[x].revision \in 0..Len(plans')
                              /\ edit[x].pc # "idle" => edit[x].revision # 0
        BY <2>4 DEF VersionsInv, PlanKnown
      <3>3. QED
        <4>1. edit' = edit
          BY <2>1
        <4>2. \A n \in 1..Len(plans'): plans'[n].edits # {} => plans'[n].state = "customized"
          BY <2>4
        <4>3. \A x \in Requests: req'[x].plan \in 0..Len(plans')
          BY <2>7
        <4>4. \A x \in Editors: /\ edit'[x].revision \in 0..Len(plans')
                                /\ edit'[x].pc # "idle" => edit'[x].revision # 0
          BY <3>2, <4>1
        <4>5. PlanKnown'
          BY <4>2, <4>3, <4>4 DEF PlanKnown
        <4>6. QED
          BY <3>1, <4>5
    <2>9. GraphKnown'
      <3>1. PICK k \in Nat: GraphVersions = 1..k /\ \A x \in Requests: req[x].graph \in 0..k
        BY DEF VersionsInv, GraphKnown
      <3>2. GraphVersions' = 1..k /\ \A x \in Requests: req'[x].graph \in 0..k
        BY <2>1, <2>7, <3>1 DEF GraphVersions
      <3>3. ASSUME NEW x \in Requests, req'[x].pc = "done"
            PROVE  \E g \in graphs: g.version = req'[x].graph /\ g.print = Content(req'[x].brain)
        <4>1. x # r
          BY <2>5, <2>6, <3>3 DEF m
        <4>2. req'[x] = req[x]
          BY <2>5, <4>1
        <4>3. QED
          BY <3>3, <4>2 DEF VersionsInv, GraphKnown
      <3>4. QED
        BY <2>1, <3>2, <3>3 DEF VersionsInv, GraphKnown
    <2>10. EditsSurvive' /\ RefusedForAReason'
      <3>1. EditsSurvive'
        BY <2>1, <2>4 DEF EditsSurvive
      <3>2. RefusedForAReason'
        BY <2>1, <2>4, <2>5, <2>6, <2>7 DEF m, VersionsInv, RefusedForAReason, PlanKnown
      <3>3. QED
        BY <3>1, <3>2
    <2>11. QED
      BY <2>8, <2>9, <2>10 DEF VersionsInv
  <1>5. QED
    BY <1>2, <1>3, <1>4

LEMMA NewestOf ==
  ASSUME NEW k \in Nat
  PROVE  Newest(1..k) = k
  <1>1. CASE k = 0
    BY <1>1 DEF Newest
  <1>2. CASE k # 0
    <2>1. k \in 1..k /\ (\A u \in 1..k: u <= k) /\ 1..k # {}
      BY <1>2
    <2>2. \A t \in 1..k: (\A u \in 1..k: u <= t) => t = k
      BY <2>1
    <2>3. QED
      BY <2>1, <2>2 DEF Newest
  <1>3. QED
    BY <1>1, <1>2

LEMMA ReadKeeps ==
  ASSUME VersionsInv, NEW r \in Requests,
         ReadBrain(r) \/ ReadSources(r) \/ Snapshot(r) \/ ReadGraph(r)
  PROVE  VersionsInv'
  <1> DEFINE q == req[r]
             n == req'[r]
  <1>1. PICK k \in Nat: GraphVersions = 1..k /\ \A x \in Requests: req[x].graph \in 0..k
    BY DEF VersionsInv, GraphKnown
  <1>2. Newest({g.version : g \in graphs}) = k
    BY <1>1, NewestOf DEF GraphVersions
  <1>3. RequestShape(q) /\ q.plan \in 0..Len(plans) /\ q.graph \in 0..k /\ Len(plans) \in Nat
    <2>1. PICK S: plans \in Seq(S)
      BY DEF VersionsInv, Shaped
    <2>2. QED
      BY <1>1, <2>1 DEF VersionsInv, Shaped, PlanKnown
  <1>4. /\ RequestShape(n) /\ n.plan \in 0..Len(plans) /\ n.graph \in 0..k
        /\ n.pc \in {"brainRead", "sourcesRead", "read", "notReady", "planRead", "graphRead"}
        /\ req' = [req EXCEPT ![r] = n]
    <2>1. CASE ReadBrain(r)
      <3>1. n = [pc |-> n.pc, brain |-> FieldRows(field), sources |-> q.sources,
                 version |-> q.version, plan |-> q.plan, graph |-> q.graph]
            /\ n.pc \in {"brainRead", "read"} /\ req' = [req EXCEPT ![r] = n]
        BY <1>3, <2>1 DEF ReadBrain, RequestShape, VersionsInv, Shaped
      <3> HIDE DEF n
      <3>2. QED
        BY <1>3, <3>1 DEF RequestShape
    <2>2. CASE ReadSources(r)
      <3>1. n = [pc |-> n.pc, brain |-> q.brain, sources |-> n.sources,
                 version |-> q.version, plan |-> q.plan, graph |-> q.graph]
            /\ n.pc \in {"sourcesRead", "read"} /\ req' = [req EXCEPT ![r] = n]
        BY <1>3, <2>2 DEF ReadSources, RequestShape, VersionsInv, Shaped
      <3> HIDE DEF n
      <3>2. QED
        BY <1>3, <3>1 DEF RequestShape
    <2>3. CASE Snapshot(r)
      <3>1. n = [pc |-> n.pc, brain |-> q.brain, sources |-> q.sources,
                 version |-> n.version, plan |-> Len(plans), graph |-> q.graph]
            /\ n.pc \in {"notReady", "planRead"} /\ req' = [req EXCEPT ![r] = n]
        BY <1>3, <2>3 DEF Snapshot, RequestShape, VersionsInv, Shaped
      <3> HIDE DEF n
      <3>2. QED
        BY <1>3, <3>1 DEF RequestShape
    <2>4. CASE ReadGraph(r)
      <3>1. n = [pc |-> "graphRead", brain |-> q.brain, sources |-> q.sources,
                 version |-> q.version, plan |-> q.plan, graph |-> k]
            /\ req' = [req EXCEPT ![r] = n]
        BY <1>2, <1>3, <2>4 DEF ReadGraph, RequestShape, VersionsInv, Shaped
      <3> HIDE DEF n
      <3>2. QED
        BY <1>3, <3>1 DEF RequestShape
    <2>5. QED
      BY <2>1, <2>2, <2>3, <2>4
  <1>5. UNCHANGED <<edit, plans, graphs>>
    BY DEF ReadBrain, ReadSources, Snapshot, ReadGraph
  <1>6. n.graph = 0 \/ n.graph \in GraphVersions
    BY <1>1, <1>4
  <1> HIDE DEF n
  <1>7. QED
    BY <1>4, <1>5, <1>6, RequestMoves

LEMMA InsertGraphKeeps ==
  ASSUME VersionsInv, NEW r \in Requests, InsertGraph(r)
  PROVE  VersionsInv'
  <1> DEFINE q == req[r]
             print == Content(q.brain)
             next == q.graph + 1
             Moved(pc, graph) == [pc |-> pc, brain |-> q.brain, sources |-> q.sources,
                                  version |-> q.version, plan |-> q.plan, graph |-> graph]
  <1>1. PICK k \in Nat: GraphVersions = 1..k /\ \A x \in Requests: req[x].graph \in 0..k
    BY DEF VersionsInv, GraphKnown
  <1>2. /\ RequestShape(q) /\ q.pc = "graphRead" /\ q.plan \in 0..Len(plans)
        /\ q.graph \in 0..k /\ UNCHANGED <<edit, plans>>
    BY <1>1 DEF VersionsInv, Shaped, PlanKnown, InsertGraph
  <1>3. CASE Stored(print) # {}
    <2> DEFINE g == CHOOSE x \in Stored(print): TRUE
    <2>1. g \in graphs /\ g.print = print
      BY <1>3 DEF Stored
    <2>2. req' = [req EXCEPT ![r] = Moved("done", g.version)] /\ UNCHANGED graphs
      BY <1>2, <1>3 DEF InsertGraph, RequestShape, VersionsInv, Shaped
    <2> HIDE DEF g
    <2> DEFINE n == Moved("done", g.version)
    <2>3. /\ RequestShape(n) /\ n.plan = q.plan /\ n.graph = g.version /\ n.pc = "done"
          /\ n.brain = q.brain
      BY DEF RequestShape
    <2>4. g.version \in GraphVersions
      BY <2>1 DEF GraphVersions
    <2> HIDE DEF n
    <2>5. req' = [req EXCEPT ![r] = n]
      BY <2>2 DEF n
    <2>6. \E x \in graphs: x.version = n.graph /\ x.print = Content(n.brain)
      BY <2>1, <2>3
    <2>7. n.pc # "planRefused" /\ n.pc # "graphRefused"
      BY <2>3
    <2>8. QED
      BY <1>2, <2>2, <2>3, <2>4, <2>5, <2>6, <2>7, RequestMoves
  <1>4. CASE Stored(print) = {} /\ \E g \in graphs: g.version = next
    <2> DEFINE n == Moved("graphRefused", q.graph)
    <2>1. req' = [req EXCEPT ![r] = n] /\ UNCHANGED graphs
      BY <1>2, <1>4 DEF InsertGraph, NextGraphVersion, Goes, RequestShape, VersionsInv, Shaped
    <2>2. /\ RequestShape(n) /\ n.plan = q.plan /\ n.graph = q.graph /\ n.pc = "graphRefused"
      BY DEF RequestShape
    <2> HIDE DEF n
    <2>3. \E g \in graphs: g.version > q.graph
      BY <1>2, <1>4
    <2>4. q.graph = 0 \/ q.graph \in GraphVersions
      BY <1>1, <1>2
    <2>5. QED
      BY <1>2, <2>1, <2>2, <2>3, <2>4, RequestMoves
  <1>5. CASE Stored(print) = {} /\ ~\E g \in graphs: g.version = next
    <2> DEFINE n == Moved("done", next)
               new == [version |-> next, print |-> print]
    <2>1. req' = [req EXCEPT ![r] = n] /\ graphs' = graphs \cup {new}
      BY <1>2, <1>5 DEF InsertGraph, NextGraphVersion, RequestShape, VersionsInv, Shaped
    <2>2. /\ RequestShape(n) /\ n.plan = q.plan /\ n.graph = next /\ n.pc = "done"
          /\ n.brain = q.brain /\ new.version = next /\ new.print = print
      BY DEF RequestShape
    <2> HIDE DEF n, new
    <2>3. /\ req' = [x \in Requests |-> req'[x]] /\ req'[r] = n
          /\ \A x \in Requests: x # r => req'[x] = req[x]
      BY <2>1 DEF VersionsInv, Shaped
    <2>4. next = k + 1
      <3>1. next \notin GraphVersions
        BY <1>5 DEF GraphVersions
      <3>2. QED
        BY <1>1, <1>2, <3>1
    <2>5. GraphVersions' = 1..(k + 1)
      <3>1. GraphVersions' = GraphVersions \cup {next}
        BY <2>1, <2>2 DEF GraphVersions
      <3>2. QED
        BY <1>1, <2>4, <3>1
    <2>6. \A x \in Requests: req'[x].graph \in 0..(k + 1)
      BY <1>1, <2>2, <2>3, <2>4
    <2>7. \A g, h \in graphs': g.version = h.version => g = h
      BY <1>5, <2>1, <2>2 DEF VersionsInv, GraphKnown
    <2>8. ASSUME NEW x \in Requests, req'[x].pc = "done"
          PROVE  \E g \in graphs': g.version = req'[x].graph /\ g.print = Content(req'[x].brain)
      <3>1. CASE x = r
        BY <2>1, <2>2, <2>3, <3>1
      <3>2. CASE x # r
        BY <2>1, <2>3, <2>8, <3>2 DEF VersionsInv, GraphKnown
      <3>3. QED
        BY <3>1, <3>2
    <2>9. GraphKnown'
      <3>1. k + 1 \in Nat
        OBVIOUS
      <3>2. QED
        BY <2>5, <2>6, <2>7, <2>8, <3>1 DEF GraphKnown
    <2>10. Shaped' /\ PlanKnown'
      BY <1>2, <2>2, <2>3 DEF VersionsInv, Shaped, PlanKnown
    <2>11. EditsSurvive' /\ RefusedForAReason'
      BY <1>2, <2>1, <2>2, <2>3 DEF VersionsInv, EditsSurvive, RefusedForAReason
    <2>12. QED
      BY <2>9, <2>10, <2>11 DEF VersionsInv
  <1>6. QED
    BY <1>3, <1>4, <1>5

LEMMA EditKeeps ==
  ASSUME VersionsInv, NEW e \in Editors, Open(e) \/ CheckRevision(e) \/ SaveEdit(e)
  PROVE  VersionsInv'
  <1> DEFINE d == edit[e]
             n == edit'[e]
             p == [plans[d.revision] EXCEPT !.state = "customized", !.edits = @ \cup {e}]
  <1>1. PICK S: plans \in Seq(S)
    BY DEF VersionsInv, Shaped
  <1>2. /\ Len(plans) \in Nat /\ EditShape(d) /\ d.revision \in 0..Len(plans)
        /\ d.pc # "idle" => d.revision # 0
        /\ UNCHANGED <<req, graphs>>
    BY <1>1 DEF VersionsInv, Shaped, PlanKnown, Open, CheckRevision, SaveEdit
  <1>3. CASE Open(e) \/ CheckRevision(e) \/ (SaveEdit(e) /\ ~MayAppend(d.revision + 1))
    <2>1. /\ EditShape(n) /\ n.revision \in 1..Len(plans)
          /\ n.pc \in {"shown", "checked", "refused"}
          /\ n.pc = "refused" => Len(plans) > n.revision
          /\ edit' = [edit EXCEPT ![e] = n] /\ UNCHANGED plans
      <3>1. CASE Open(e)
        <4>1. n = [pc |-> "shown", revision |-> Len(plans)] /\ edit' = [edit EXCEPT ![e] = n]
              /\ Len(plans) > 0 /\ UNCHANGED plans
          BY <3>1 DEF Open, VersionsInv, Shaped
        <4> HIDE DEF n
        <4>2. QED
          BY <1>2, <4>1 DEF EditShape
      <3>2. CASE CheckRevision(e)
        <4>1. n = [pc |-> IF Len(plans) = d.revision THEN "checked" ELSE "refused",
                   revision |-> d.revision]
              /\ edit' = [edit EXCEPT ![e] = n] /\ UNCHANGED plans /\ d.revision # 0
          BY <1>2, <3>2 DEF CheckRevision, VersionsInv, Shaped, EditShape
        <4> HIDE DEF n
        <4>2. QED
          BY <1>2, <4>1 DEF EditShape
      <3>3. CASE SaveEdit(e) /\ ~MayAppend(d.revision + 1)
        <4>1. n = [pc |-> "refused", revision |-> d.revision]
              /\ edit' = [edit EXCEPT ![e] = n] /\ UNCHANGED plans /\ d.revision # 0
          BY <1>2, <3>3 DEF SaveEdit, VersionsInv, Shaped, EditShape
        <4> HIDE DEF n
        <4>2. Len(plans) > d.revision
          BY <1>2, <3>3 DEF MayAppend
        <4>3. QED
          BY <1>2, <4>1, <4>2 DEF EditShape
      <3>4. QED
        BY <1>3, <3>1, <3>2, <3>3
    <2> HIDE DEF n
    <2>2. /\ edit' = [x \in Editors |-> edit'[x]] /\ edit'[e] = n
          /\ \A x \in Editors: x # e => edit'[x] = edit[x]
      BY <2>1 DEF VersionsInv, Shaped
    <2>3. Shaped' /\ PlanKnown'
      BY <1>2, <2>1, <2>2 DEF VersionsInv, Shaped, PlanKnown
    <2>4. GraphKnown'
      BY <1>2 DEF VersionsInv, GraphKnown, GraphVersions
    <2>5. EditsSurvive' /\ RefusedForAReason'
      BY <1>2, <2>1, <2>2 DEF VersionsInv, EditsSurvive, RefusedForAReason
    <2>6. QED
      BY <2>3, <2>4, <2>5 DEF VersionsInv
  <1>4. CASE SaveEdit(e) /\ MayAppend(d.revision + 1)
    <2>1. /\ plans' = Append(plans, p) /\ d.revision = Len(plans) /\ Len(plans) > 0
          /\ edit' = [edit EXCEPT ![e] = [pc |-> "saved", revision |-> Len(plans) + 1]]
      BY <1>2, <1>4 DEF SaveEdit, MayAppend
    <2>2. /\ PlanShape(p) /\ p.state = "customized"
          /\ p.edits = plans[Len(plans)].edits \cup {e}
      <3>1. Len(plans) \in 1..Len(plans)
        BY <1>2, <2>1
      <3>2. PlanShape(plans[Len(plans)])
        BY <3>1 DEF VersionsInv, Shaped
      <3>3. p = [plans[Len(plans)] EXCEPT !.state = "customized", !.edits = @ \cup {e}]
        BY <2>1
      <3> HIDE DEF p
      <3> DEFINE last == plans[Len(plans)]
      <3>4. last = [version |-> last.version, state |-> last.state, from |-> last.from,
                    edits |-> last.edits]
        BY <3>2 DEF PlanShape
      <3>5. p = [last EXCEPT !.state = "customized", !.edits = last.edits \cup {e}]
        BY <3>3
      <3> HIDE DEF last
      <3>6. p = [version |-> last.version, state |-> "customized", from |-> last.from,
                 edits |-> last.edits \cup {e}]
        BY <3>4, <3>5
      <3>7. QED
        BY <3>6 DEF PlanShape, last
    <2> HIDE DEF p
    <2>3. /\ \E R: plans' \in Seq(R)
          /\ Len(plans') = Len(plans) + 1 /\ plans'[Len(plans) + 1] = p
          /\ \A m \in 1..Len(plans'):
               /\ PlanShape(plans'[m])
               /\ plans'[m].edits # {} => plans'[m].state = "customized"
          /\ \A x \in Editors: edit[x].pc = "saved" =>
               \A m \in edit[x].revision..Len(plans'): x \in plans'[m].edits
      BY <2>1, <2>2, Appended
    <2>4. /\ edit' = [x \in Editors |-> edit'[x]]
          /\ edit'[e] = [pc |-> "saved", revision |-> Len(plans) + 1]
          /\ \A x \in Editors: x # e => edit'[x] = edit[x]
      BY <2>1 DEF VersionsInv, Shaped
    <2>5. Shaped' /\ PlanKnown'
      <3>1. \A x \in Editors: EditShape(edit'[x])
        BY <2>4 DEF VersionsInv, Shaped, EditShape
      <3>2. Shaped'
        BY <1>2, <2>3, <2>4, <3>1 DEF VersionsInv, Shaped
      <3>3. \A x \in Requests: req[x].plan \in 0..Len(plans')
        BY <1>2, <2>3 DEF VersionsInv, PlanKnown
      <3>4. \A x \in Editors: /\ edit'[x].revision \in 0..Len(plans')
                              /\ edit'[x].pc # "idle" => edit'[x].revision # 0
        BY <1>2, <2>3, <2>4 DEF VersionsInv, PlanKnown
      <3>5. QED
        <4>1. \A m \in 1..Len(plans'): plans'[m].edits # {} => plans'[m].state = "customized"
          BY <2>3
        <4>2. \A x \in Requests: req'[x].plan \in 0..Len(plans')
          BY <1>2, <3>3
        <4>3. PlanKnown'
          BY <3>4, <4>1, <4>2 DEF PlanKnown
        <4>4. QED
          BY <3>2, <4>3
    <2>6. GraphKnown'
      BY <1>2 DEF VersionsInv, GraphKnown, GraphVersions
    <2>7. EditsSurvive'
      <3>1. ASSUME NEW m \in (Len(plans) + 1)..Len(plans') PROVE e \in plans'[m].edits
        <4>1. m = Len(plans) + 1
          BY <1>2, <2>3
        <4>2. QED
          BY <2>2, <2>3, <4>1
      <3>2. QED
        BY <2>3, <2>4, <3>1 DEF EditsSurvive
    <2>8. RefusedForAReason'
      BY <1>2, <2>3, <2>4 DEF VersionsInv, RefusedForAReason, PlanKnown
    <2>9. QED
      BY <2>5, <2>6, <2>7, <2>8 DEF VersionsInv
  <1>5. QED
    BY <1>3, <1>4

LEMMA VersionsStep == VersionsInv /\ [VersionsNext]_versionVars => VersionsInv'
  <1> SUFFICES ASSUME VersionsInv, [VersionsNext]_versionVars PROVE VersionsInv'
    OBVIOUS
  <1>1. ASSUME NEW w \in Writers,
               \/ Begin(w) \/ Rollback(w) \/ Confirm(w)
               \/ CheckSources(w) \/ Infer(w) \/ Toggle(w) \/ Remove(w)
        PROVE  VersionsInv'
    BY <1>1, Unmoved DEF Begin, Rollback, Confirm, CheckSources, Infer, Toggle, Remove
  <1>2. ASSUME NEW r \in Requests,
               \/ ReadBrain(r) \/ ReadSources(r) \/ Snapshot(r)
               \/ EnsurePlan(r) \/ ReadGraph(r) \/ InsertGraph(r)
        PROVE  VersionsInv'
    BY <1>2, ReadKeeps, EnsurePlanKeeps, InsertGraphKeeps
  <1>3. ASSUME NEW e \in Editors, Open(e) \/ CheckRevision(e) \/ SaveEdit(e)
        PROVE  VersionsInv'
    BY <1>3, EditKeeps
  <1>4. CASE UNCHANGED versionVars
    BY <1>4, Unmoved DEF versionVars
  <1>5. QED
    BY <1>1, <1>2, <1>3, <1>4 DEF VersionsNext

LEMMA VersionsInitInv == VersionsInit => VersionsInv
  <1> SUFFICES ASSUME VersionsInit PROVE VersionsInv
    OBVIOUS
  <1>1. plans = <<>> /\ Len(plans) = 0 /\ plans \in Seq({}) /\ graphs = {}
    BY DEF VersionsInit
  <1>2. \A r \in Requests: req[r] = IdleRequest
    BY DEF VersionsInit
  <1>3. \A e \in Editors: edit[e] = [pc |-> "idle", revision |-> 0]
    BY DEF VersionsInit
  <1>4. Shaped
    BY <1>1, <1>2, <1>3 DEF Shaped, VersionsInit, RequestShape, EditShape, IdleRequest
  <1>5. PlanKnown
    BY <1>1, <1>2, <1>3 DEF PlanKnown, IdleRequest
  <1>6. GraphKnown
    <2>1. GraphVersions = 1..0 /\ 0 \in Nat
      BY <1>1 DEF GraphVersions
    <2>2. \A r \in Requests: req[r].graph \in 0..0 /\ req[r].pc # "done"
      BY <1>2 DEF IdleRequest
    <2>3. \E k \in Nat: GraphVersions = 1..k /\ \A r \in Requests: req[r].graph \in 0..k
      BY <2>1, <2>2
    <2>4. QED
      BY <1>1, <2>2, <2>3 DEF GraphKnown
  <1>7. EditsSurvive /\ RefusedForAReason
    BY <1>2, <1>3 DEF EditsSurvive, RefusedForAReason, IdleRequest
  <1>8. QED
    BY <1>4, <1>5, <1>6, <1>7 DEF VersionsInv

(* Whatever transactions, requests and editors interleave on the brain, the *)
(* plan and the graph: no saved edit is lost, nobody is refused but for     *)
(* somebody else, and a graph version names the graph of the fields read.   *)
THEOREM VersionsHold == VersionsSpec => []VersionsHonest
  <1>1. VersionsInv => VersionsHonest
    BY DEF VersionsInv, VersionsHonest, GraphKnown, GraphVersionNamesGraph
  <1>2. QED
    BY <1>1, VersionsInitInv, VersionsStep, PTL DEF VersionsSpec

-----------------------------------------------------------------------------
(***************************************************************************)
(* The brain.  Every write of a field counts its version, except that a    *)
(* removal may take a link away: a tab that names the present version shows*)
(* the present state and value.  What a build still has to write was gated *)
(* when it was proposed, and nothing that happens later undoes that.       *)
(***************************************************************************)
RowKeys == {"state", "value", "version", "links"}

FieldRow(x) ==
  /\ DOMAIN x = RowKeys /\ x.version \in Nat
  /\ x.state = "confirmed" => x.value = "owner"

Rows == DOMAIN fields = Keys /\ \A k \in Keys: FieldRow(fields[k])

\* What a tab shows of a field, given the rows.
Showing(t, rows) ==
  t # None =>
    /\ t = <<t[1], t[2], t[3], t[4]>> /\ t[1] \in Keys /\ t[4] \in Nat
    /\ t[4] <= rows[t[1]].version
    /\ t[4] = rows[t[1]].version =>
         t[2] = rows[t[1]].state /\ t[3] = rows[t[1]].value

Tabs == DOMAIN tab = Owners /\ \A o \in Owners: Showing(tab[o], fields)

\* A proposal past the gate of its build.
Sound(q, p) ==
  /\ p.key \in Keys
  /\ p.key \in SourceRequired \/ q.synthetic = FALSE => p.from # {}

JobFields == {"asked", "before", "listed", "url", "refs", "synthetic", "live",
              "held", "fresh", "todo", "now"}

\* What a build has to write, at the stage it is in.
Knowing(q, at) ==
  /\ DOMAIN q = JobFields /\ q.fresh \in BOOLEAN /\ q.synthetic \in BOOLEAN
  /\ \A p \in q.todo: Sound(q, p)
  /\ at \notin {"pick", "check", "write"} => q.todo = {}
  /\ at \in {"check", "write"} => Sound(q, q.now)

Jobs == /\ DOMAIN stage = Builds /\ DOMAIN job = Builds
        /\ \A b \in Builds: Knowing(job[b], stage[b])

BrainInv == Rows /\ RequiredFieldsAreSourced /\ Tabs /\ Jobs

LEMMA NothingToWrite == \A at: at \notin {"pick", "check", "write"} => Knowing(NoBuild, at)
  BY DEF Knowing, NoBuild, JobFields

\* A build moves on.
LEMMA Proceeds ==
  ASSUME Jobs, NEW b \in Builds, NEW to, NEW q, Proceed(b, to, q),
         to # "idle" => Knowing(q, to)
  PROVE  /\ Jobs' /\ stage'[b] = to
         /\ \A c \in Builds: c # b => stage'[c] = stage[c]
  <1> DEFINE n == IF to = "idle" THEN NoBuild ELSE q
  <1>1. Knowing(n, to)
    BY NothingToWrite
  <1>2. stage' = [stage EXCEPT ![b] = to] /\ job' = [job EXCEPT ![b] = n]
    BY DEF Proceed
  <1> HIDE DEF n
  <1>3. QED
    BY <1>1, <1>2 DEF Jobs

\* A field gets a new version.
LEMMA Written ==
  ASSUME BrainInv, NEW k \in Keys, NEW row, FieldRow(row),
         row.version = fields[k].version + 1,
         k \in SourceRequired /\ row.state = "inferred" => row.links # {},
         fields' = [fields EXCEPT ![k] = row],
         \/ tab' = tab
         \/ \E o \in Owners: tab' = [tab EXCEPT ![o] = None]
  PROVE  Rows' /\ RequiredFieldsAreSourced' /\ Tabs'
  <1>1. /\ DOMAIN fields' = Keys /\ fields'[k] = row
        /\ \A i \in Keys: i # k => fields'[i] = fields[i]
    BY DEF BrainInv, Rows
  <1>2. Rows'
    BY <1>1 DEF BrainInv, Rows
  <1>3. RequiredFieldsAreSourced'
    BY <1>1 DEF BrainInv, RequiredFieldsAreSourced, Keys
  <1>4. DOMAIN tab' = Owners
        /\ \A o \in Owners: tab'[o] = tab[o] \/ tab'[o] = None
    BY DEF BrainInv, Tabs
  <1>5. fields[k].version \in Nat
    BY DEF BrainInv, Rows, FieldRow
  <1>6. ASSUME NEW o \in Owners PROVE Showing(tab'[o], fields')
    <2>1. CASE tab'[o] = None
      BY <2>1 DEF Showing
    <2>2. CASE tab'[o] # None
      <3>1. tab'[o] = tab[o] /\ Showing(tab[o], fields)
        BY <1>4, <2>2 DEF BrainInv, Tabs
      <3>2. QED
        BY <1>1, <1>5, <2>2, <3>1 DEF Showing
    <2>3. QED
      BY <2>1, <2>2
  <1>7. QED
    BY <1>2, <1>3, <1>4, <1>6 DEF Tabs

\* The fields are left alone.
LEMMA Untouched ==
  ASSUME BrainInv, fields' = fields,
         \/ tab' = tab
         \/ \E o \in Owners: tab' = [tab EXCEPT ![o] = None]
  PROVE  Rows' /\ RequiredFieldsAreSourced' /\ Tabs'
  <1>1. DOMAIN tab' = Owners
        /\ \A o \in Owners: tab'[o] = tab[o] \/ tab'[o] = None
    BY DEF BrainInv, Tabs
  <1>2. QED
    BY <1>1 DEF BrainInv, Rows, RequiredFieldsAreSourced, Tabs, Showing

\* What a step may not do, where it leaves the fields alone, or no write of a
\* build ends in it.
OwnerFirstStep == ConfirmedKept /\ OwnerReplacesWhatSheSaw /\ ReadinessKept

LEMMA NothingWritten == ASSUME fields' = fields PROVE OwnerFirstStep
  <1>1. ConfirmedKept /\ OwnerReplacesWhatSheSaw
    BY DEF ConfirmedKept, OwnerReplacesWhatSheSaw
  <1>2. HunterReady' = HunterReady
    BY DEF HunterReady, Gap, Review, Usable, Weak
  <1>3. QED
    BY <1>1, <1>2 DEF OwnerFirstStep, ReadinessKept

LEMMA NoWriteEnds ==
  ASSUME \A b \in Builds: stage[b] = "write" => stage'[b] = "write"
  PROVE  ReadinessKept
  BY DEF ReadinessKept

LEMMA TabsStay == ASSUME tab' = tab PROVE OwnerReplacesWhatSheSaw
  BY DEF OwnerReplacesWhatSheSaw

\* The owner writes a field.
LEMMA ConfirmWrites ==
  ASSUME BrainInv, NEW k \in Keys, fields' = Confirmed(k),
         \/ tab' = tab
         \/ \E o \in Owners: tab' = [tab EXCEPT ![o] = None]
  PROVE  /\ Rows' /\ RequiredFieldsAreSourced' /\ Tabs' /\ ConfirmedKept
         /\ \A i \in Keys: i # k => fields'[i] = fields[i]
  <1> DEFINE row == [state |-> "confirmed", value |-> "owner",
                     version |-> fields[k].version + 1, links |-> {}]
  <1>1. fields[k].version \in Nat
    BY DEF BrainInv, Rows, FieldRow
  <1>2. FieldRow(row) /\ row.version = fields[k].version + 1
        /\ row.state = "confirmed" /\ row.value = "owner"
    BY <1>1 DEF FieldRow, RowKeys
  <1>3. fields' = [fields EXCEPT ![k] = row]
    BY DEF Confirmed
  <1> HIDE DEF row
  <1>4. Rows' /\ RequiredFieldsAreSourced' /\ Tabs'
    BY <1>2, <1>3, Written
  <1>5. /\ fields'[k] = row
        /\ \A i \in Keys: i # k => fields'[i] = fields[i]
    BY <1>3 DEF BrainInv, Rows
  <1>6. ConfirmedKept
    BY <1>2, <1>5 DEF ConfirmedKept, BrainInv, Rows, FieldRow
  <1>7. QED
    BY <1>4, <1>5, <1>6

LEMMA OwnerLoadKeeps ==
  ASSUME BrainInv, NEW o \in Owners, NEW k \in Keys, OwnerLoad(o, k)
  PROVE  BrainInv' /\ OwnerFirstStep
  <1> DEFINE t == <<k, fields[k].state, fields[k].value, fields[k].version>>
  <1>1. UNCHANGED <<fields, stage, job>> /\ tab' = [tab EXCEPT ![o] = t]
    BY DEF OwnerLoad
  <1>2. fields[k].version \in Nat
    BY DEF BrainInv, Rows, FieldRow
  <1>3. Showing(t, fields)
    BY <1>2 DEF Showing
  <1> HIDE DEF t
  <1>4. Tabs'
    BY <1>1, <1>3 DEF BrainInv, Tabs
  <1>5. Rows' /\ RequiredFieldsAreSourced' /\ Jobs'
    BY <1>1 DEF BrainInv, Rows, RequiredFieldsAreSourced, Jobs
  <1>6. QED
    BY <1>1, <1>4, <1>5, NothingWritten DEF BrainInv

LEMMA OwnerConfirmKeeps ==
  ASSUME BrainInv, NEW o \in Owners, OwnerConfirm(o)
  PROVE  BrainInv' /\ OwnerFirstStep
  <1> DEFINE k == tab[o][1]
  <1>1. tab[o] # None /\ UNCHANGED <<knowledge, stage, job>>
        /\ tab' = [tab EXCEPT ![o] = None]
    BY DEF OwnerConfirm
  <1>2. Showing(tab[o], fields) /\ k \in Keys
    BY <1>1 DEF BrainInv, Tabs, Showing
  <1>3. Jobs'
    BY <1>1 DEF BrainInv, Jobs
  <1>4. CASE fields' = fields
    BY <1>1, <1>3, <1>4, Untouched, NothingWritten DEF BrainInv
  <1>5. CASE fields' # fields
    <2>1. Agrees(k, tab[o][4]) /\ fields' = Confirmed(k)
      BY <1>5 DEF OwnerConfirm
    <2>2. /\ Rows' /\ RequiredFieldsAreSourced' /\ Tabs' /\ ConfirmedKept
          /\ \A i \in Keys: i # k => fields'[i] = fields[i]
      BY <1>1, <1>2, <2>1, ConfirmWrites
    <2>3. ReadinessKept
      BY <1>1, NoWriteEnds
    <2>4. ASSUME NEW w \in Owners, NEW i \in Keys, tab[w] # None,
                 tab'[w] = None, fields'[i] # fields[i]
          PROVE  \/ tab[w][4] = 0
                 \/ tab[w] = <<i, fields[i].state, fields[i].value, fields[i].version>>
      <3>1. w = o
        BY <1>1, <2>4 DEF BrainInv, Tabs
      <3>2. i = k
        BY <2>2, <2>4
      <3>3. QED
        BY <1>1, <1>2, <2>1, <3>1, <3>2 DEF Agrees, Showing
    <2>5. OwnerReplacesWhatSheSaw
      BY <2>4 DEF OwnerReplacesWhatSheSaw
    <2>6. QED
      BY <1>3, <2>2, <2>3, <2>5 DEF BrainInv, OwnerFirstStep
  <1>6. QED
    BY <1>4, <1>5

\* A removal leaves a row alone, takes a link away, or makes it stale.
LEMMA RemoveSourceKeeps ==
  ASSUME BrainInv, NEW s \in Ids, RemoveSource(s)
  PROVE  BrainInv' /\ OwnerFirstStep
  <1>1. UNCHANGED <<tab, stage, job>> /\ DOMAIN fields' = Keys
    BY DEF RemoveSource
  <1>2. ASSUME NEW k \in Keys
        PROVE  /\ FieldRow(fields'[k])
               /\ \/ /\ fields'[k].version = fields[k].version
                     /\ fields'[k].state = fields[k].state
                     /\ fields'[k].value = fields[k].value
                     /\ ~Orphaned(s, k) /\ fields'[k].links = fields[k].links \ {s}
                  \/ /\ fields'[k].version = fields[k].version + 1
                     /\ fields'[k].state = "stale" /\ fields[k].state = "inferred"
    <2> DEFINE row == [fields[k] EXCEPT !.links = @ \ {s},
                         !.state = IF Orphaned(s, k) THEN "stale" ELSE @,
                         !.version = IF Orphaned(s, k) THEN @ + 1 ELSE @]
    <2>1. FieldRow(fields[k])
      BY DEF BrainInv, Rows
    <2>2. fields'[k] = row
      BY DEF RemoveSource
    <2>3. DOMAIN row = RowKeys /\ row.links = fields[k].links \ {s}
          /\ row.value = fields[k].value
          /\ row.state = (IF Orphaned(s, k) THEN "stale" ELSE fields[k].state)
          /\ row.version = (IF Orphaned(s, k) THEN fields[k].version + 1
                            ELSE fields[k].version)
      BY <2>1 DEF FieldRow, RowKeys
    <2> HIDE DEF row
    <2>4. CASE Orphaned(s, k)
      BY <2>1, <2>2, <2>3, <2>4 DEF FieldRow, Orphaned
    <2>5. CASE ~Orphaned(s, k)
      BY <2>1, <2>2, <2>3, <2>5 DEF FieldRow
    <2>6. QED
      BY <2>4, <2>5
  <1>3. Rows'
    BY <1>1, <1>2 DEF Rows
  <1>4. ASSUME NEW k \in SourceRequired, fields'[k].state = "inferred"
        PROVE  fields'[k].links # {}
    <2>1. k \in Keys
      BY DEF Keys
    <2>2. fields[k].state = "inferred" /\ ~Orphaned(s, k)
          /\ fields'[k].links = fields[k].links \ {s}
      BY <1>2, <1>4, <2>1
    <2>3. fields[k].links # {} /\ fields[k].links # {s}
      BY <2>2 DEF BrainInv, RequiredFieldsAreSourced, Orphaned
    <2>4. QED
      BY <2>2, <2>3
  <1>5. RequiredFieldsAreSourced'
    BY <1>4 DEF RequiredFieldsAreSourced
  <1>6. ASSUME NEW o \in Owners PROVE Showing(tab[o], fields')
    <2>1. Showing(tab[o], fields)
      BY DEF BrainInv, Tabs
    <2>2. CASE tab[o] # None
      <3>1. tab[o][1] \in Keys /\ fields[tab[o][1]].version \in Nat
        BY <2>1, <2>2 DEF Showing, BrainInv, Rows, FieldRow
      <3>2. QED
        BY <1>2, <2>1, <2>2, <3>1 DEF Showing
    <2>3. QED
      BY <2>2 DEF Showing
  <1>7. Tabs' /\ Jobs'
    BY <1>1, <1>6 DEF BrainInv, Tabs, Jobs
  <1>8. ConfirmedKept
    BY <1>2 DEF ConfirmedKept
  <1>9. QED
    BY <1>1, <1>3, <1>5, <1>7, <1>8, TabsStay, NoWriteEnds DEF BrainInv, OwnerFirstStep

\* A build that writes no field.
LEMMA BuildGoesOn ==
  ASSUME BrainInv, NEW b \in Builds, NEW to, NEW q, Proceed(b, to, q),
         to # "idle" => Knowing(q, to), UNCHANGED <<fields, tab>>
  PROVE  BrainInv' /\ OwnerFirstStep
  BY Proceeds, Untouched, NothingWritten DEF BrainInv

\* A build that has nothing to write keeps it that way, whatever it reads.
LEMMA Reads ==
  ASSUME NEW q, Knowing(q, "read"), NEW n, DOMAIN n = JobFields,
         n.fresh \in BOOLEAN, n.synthetic \in BOOLEAN, n.todo = q.todo,
         NEW to, to \notin {"pick", "check", "write"}
  PROVE  Knowing(n, to)
  BY DEF Knowing

LEMMA NothingYet ==
  ASSUME BrainInv, NEW b \in Builds, stage[b] \notin {"pick", "check", "write"}
  PROVE  Knowing(job[b], "read")
  BY DEF BrainInv, Jobs, Knowing

LEMMA BeginBuildKeeps ==
  ASSUME BrainInv, NEW b \in Builds, BeginBuild(b)
  PROVE  BrainInv' /\ OwnerFirstStep
  <1>1. Knowing(job[b], "read") /\ UNCHANGED <<fields, tab>>
    BY NothingYet DEF BeginBuild
  <1>2. PICK asked \in SUBSET Asked:
          Proceed(b, IF asked = {} THEN "list" ELSE "asked",
               [job[b] EXCEPT !.asked = asked,
                  !.before = [k \in Asked |-> IF k \in asked THEN Seen(k) ELSE 0]])
    BY DEF BeginBuild
  <1> DEFINE before == [k \in Asked |-> IF k \in asked THEN Seen(k) ELSE 0]
             n == [job[b] EXCEPT !.asked = asked, !.before = before]
             to == IF asked = {} THEN "list" ELSE "asked"
  <1>3. Proceed(b, to, n)
    BY <1>2
  <1> HIDE DEF before
  <1>4. DOMAIN n = JobFields /\ n.fresh \in BOOLEAN /\ n.synthetic \in BOOLEAN
        /\ n.todo = job[b].todo
    BY <1>1 DEF Knowing, JobFields
  <1>5. to \in {"list", "asked"}
    OBVIOUS
  <1> HIDE DEF n, to
  <1>6. Knowing(n, to)
    BY <1>1, <1>4, <1>5 DEF Knowing
  <1>7. QED
    BY <1>1, <1>3, <1>6, BuildGoesOn

LEMMA PutAskedKeeps ==
  ASSUME BrainInv, NEW b \in Builds, PutAsked(b)
  PROVE  BrainInv' /\ OwnerFirstStep
  <1>1. Knowing(job[b], "read") /\ tab' = tab /\ stage[b] = "asked"
    BY NothingYet DEF PutAsked
  <1>2. PICK k \in Asked:
          LET ok   == Agrees(k, job[b].before[k])
              rest == job[b].asked \ {k}
          IN /\ Proceed(b, IF ~ok THEN "idle" ELSE IF rest = {} THEN "list" ELSE "asked",
                     [job[b] EXCEPT !.asked = rest, !.before[k] = 0])
             /\ fields' = IF ok THEN Confirmed(k) ELSE fields
    BY DEF PutAsked
  <1> DEFINE ok == Agrees(k, job[b].before[k])
             rest == job[b].asked \ {k}
             n == [job[b] EXCEPT !.asked = rest, !.before[k] = 0]
             to == IF ~ok THEN "idle" ELSE IF rest = {} THEN "list" ELSE "asked"
  <1>3. Proceed(b, to, n) /\ fields' = (IF ok THEN Confirmed(k) ELSE fields)
    BY <1>2
  <1>4. DOMAIN n = JobFields /\ n.fresh \in BOOLEAN /\ n.synthetic \in BOOLEAN
        /\ n.todo = job[b].todo
    BY <1>1 DEF Knowing, JobFields
  <1>5. to \in {"idle", "list", "asked"}
    OBVIOUS
  <1> HIDE DEF n, to, ok
  <1>6. Knowing(n, to)
    BY <1>1, <1>4, <1>5 DEF Knowing
  <1>7. CASE ok
    <2>1. k \in Keys
      BY DEF Keys
    <2>2. Rows' /\ RequiredFieldsAreSourced' /\ Tabs' /\ ConfirmedKept
      BY <1>1, <1>3, <1>7, <2>1, ConfirmWrites
    <2>3. /\ Jobs' /\ stage'[b] = to
          /\ \A c \in Builds: c # b => stage'[c] = stage[c]
      BY <1>3, <1>6, Proceeds DEF BrainInv
    <2>4. ReadinessKept
      BY <1>1, <2>3, NoWriteEnds
    <2>5. QED
      BY <1>1, <2>2, <2>3, <2>4, TabsStay DEF BrainInv, OwnerFirstStep
  <1>8. CASE ~ok
    BY <1>1, <1>3, <1>6, <1>8, BuildGoesOn
  <1>9. QED
    BY <1>7, <1>8

LEMMA ListSourcesKeeps ==
  ASSUME BrainInv, NEW b \in Builds, ListSources(b)
  PROVE  BrainInv' /\ OwnerFirstStep
  <1> DEFINE n == Listed(b)
  <1>1. Knowing(job[b], "read") /\ UNCHANGED <<fields, tab>>
    BY NothingYet DEF ListSources
  <1>2. DOMAIN n = JobFields /\ n.fresh \in BOOLEAN /\ n.synthetic \in BOOLEAN
        /\ n.todo = job[b].todo
    BY <1>1 DEF Knowing, JobFields, Listed
  <1> HIDE DEF n
  <1>3. PICK to \in {"extracts", "read", "synthetic"}: Proceed(b, to, n)
    BY DEF ListSources, n
  <1>4. Knowing(n, to)
    BY <1>1, <1>2, <1>3 DEF Knowing
  <1>5. QED
    BY <1>1, <1>3, <1>4, BuildGoesOn

\* A build takes a reference as a source, or makes one of it.
LEMMA EnsureKeeps ==
  ASSUME BrainInv, NEW b \in Builds, NEW url, NEW to \in {"read", "extracts", "propose"},
         NEW how \in BOOLEAN, Ensure(b, url, to, how), Knowing(job[b], "read"),
         UNCHANGED <<fields, tab>>
  PROVE  BrainInv' /\ OwnerFirstStep
  <1>1. PICK s: Proceed(b, to, Took(b, s, url, how))
    BY DEF Ensure
  <1> DEFINE n == Took(b, s, url, how)
  <1>2. DOMAIN n = JobFields /\ n.fresh \in BOOLEAN /\ n.synthetic \in BOOLEAN
        /\ n.todo = job[b].todo
    BY DEF Knowing, JobFields, Took
  <1>3. Proceed(b, to, n)
    BY <1>1
  <1> HIDE DEF n
  <1>4. Knowing(n, to)
    BY <1>2 DEF Knowing
  <1>5. QED
    BY <1>3, <1>4, BuildGoesOn

LEMMA ReadReferenceKeeps ==
  ASSUME BrainInv, NEW b \in Builds, ReadReference(b)
  PROVE  BrainInv' /\ OwnerFirstStep
  <1> DEFINE n == [job[b] EXCEPT !.url = @ + 1]
             to == IF job[b].url < Len(References) THEN "read" ELSE "extracts"
  <1>1. Knowing(job[b], "read") /\ UNCHANGED <<fields, tab>>
    BY NothingYet DEF ReadReference
  <1>2. DOMAIN n = JobFields /\ n.fresh \in BOOLEAN /\ n.synthetic \in BOOLEAN
        /\ n.todo = job[b].todo
    BY <1>1 DEF Knowing, JobFields
  <1>3. to \in {"read", "extracts"}
    OBVIOUS
  <1>4. \/ Ensure(b, References[job[b].url], to, FALSE)
        \/ Proceed(b, to, n)
    BY DEF ReadReference
  <1> HIDE DEF n, to
  <1>5. Knowing(n, to)
    BY <1>1, <1>2, <1>3 DEF Knowing
  <1>6. QED
    BY <1>1, <1>3, <1>4, <1>5, EnsureKeeps, BuildGoesOn

LEMMA ReadExtractsKeeps ==
  ASSUME BrainInv, NEW b \in Builds, ReadExtracts(b)
  PROVE  BrainInv' /\ OwnerFirstStep
  <1> DEFINE notes == {s \in Ids : Active(s) /\ knowledge[s].extract} \ job[b].refs
             refs == job[b].refs \cup notes
             n == [job[b] EXCEPT !.refs = refs, !.listed = {}, !.url = 1]
             to == IF refs = {} /\ References # <<>> THEN "relist" ELSE "propose"
  <1>1. Knowing(job[b], "read") /\ UNCHANGED <<fields, tab>>
    BY NothingYet DEF ReadExtracts
  <1>2. DOMAIN n = JobFields /\ n.fresh \in BOOLEAN /\ n.synthetic \in BOOLEAN
        /\ n.todo = job[b].todo
    BY <1>1 DEF Knowing, JobFields
  <1>3. to \in {"relist", "propose"}
    OBVIOUS
  <1>4. Proceed(b, to, n)
    BY DEF ReadExtracts
  <1> HIDE DEF n, to
  <1>5. Knowing(n, to)
    BY <1>1, <1>2, <1>3 DEF Knowing
  <1>6. QED
    BY <1>1, <1>4, <1>5, BuildGoesOn

LEMMA SynthesizeKeeps ==
  ASSUME BrainInv, NEW b \in Builds, Synthesize(b)
  PROVE  BrainInv' /\ OwnerFirstStep
  <1>1. Knowing(job[b], "read") /\ UNCHANGED <<fields, tab>>
    BY NothingYet DEF Synthesize
  <1>2. Knowing(job[b], "propose")
    BY <1>1 DEF Knowing
  <1>3. \/ Ensure(b, References[1], "propose", TRUE)
        \/ Proceed(b, "propose", job[b])
    BY DEF Synthesize
  <1>4. QED
    BY <1>1, <1>2, <1>3, EnsureKeeps, BuildGoesOn

\* A build begins to write proposals that are past its gate.
LEMMA BeginsToWrite ==
  ASSUME NEW b \in Builds, Knowing(job[b], "read"), NEW all, NEW fresh \in BOOLEAN,
         NEW live, NEW held,
         \A p \in all: /\ p.key \in Keys
                       /\ p.key \in SourceRequired \/ job[b].synthetic = FALSE
                            => p.from # {}
  PROVE  Knowing(Writing(b, all, fresh, live, held), "pick")
  <1> DEFINE n == Writing(b, all, fresh, live, held)
  <1>1. DOMAIN n = JobFields /\ n.fresh = fresh /\ n.synthetic = job[b].synthetic
        /\ n.todo = all
    BY DEF Writing, NoBuild, JobFields
  <1>2. job[b].synthetic \in BOOLEAN
    BY DEF Knowing
  <1> HIDE DEF n
  <1>3. Knowing(n, "pick")
    BY <1>1, <1>2 DEF Knowing, Sound
  <1>4. QED
    BY <1>3 DEF n

LEMMA FallBackKeeps ==
  ASSUME BrainInv, NEW b \in Builds, FallBack(b)
  PROVE  BrainInv' /\ OwnerFirstStep
  <1>1. Knowing(job[b], "read") /\ UNCHANGED <<fields, tab>>
    BY NothingYet DEF FallBack
  <1>2. CASE Proceed(b, "idle", NoBuild)
    BY <1>1, <1>2, BuildGoesOn
  <1>3. ASSUME NEW s \in job[b].refs, NEW chosen \in SUBSET (Keys \ Asked),
               Proceed(b, IF chosen = {} THEN "idle" ELSE "pick",
                       Writing(b, Fallback(s, chosen), TRUE, NoBuild.live, {}))
        PROVE  BrainInv' /\ OwnerFirstStep
    <2> DEFINE live == NoBuild.live
               all == Fallback(s, chosen)
               to == IF chosen = {} THEN "idle" ELSE "pick"
    <2>1. \A p \in all: p.key \in Keys /\ p.from # {}
      BY DEF Fallback
    <2>2. Proceed(b, to, Writing(b, all, TRUE, live, {})) /\ to \in {"idle", "pick"}
      BY <1>3
    <2> HIDE DEF all, live, to
    <2>3. Knowing(Writing(b, all, TRUE, live, {}), "pick")
      BY <1>1, <2>1, BeginsToWrite
    <2>4. QED
      BY <1>1, <2>2, <2>3, BuildGoesOn
  <1>4. QED
    BY <1>2, <1>3 DEF FallBack

LEMMA ProposeKeeps ==
  ASSUME BrainInv, NEW b \in Builds, Propose(b)
  PROVE  BrainInv' /\ OwnerFirstStep
  <1>1. Knowing(job[b], "read") /\ UNCHANGED <<fields, tab>>
    BY NothingYet DEF Propose
  <1> DEFINE live == [k \in Keys |-> Seen(k)]
             held == {k \in Keys : fields[k].state = "confirmed"}
  <1>2. PICK chosen \in SUBSET (Keys \ {Directive}) \ {{}}:
          \E from \in [chosen -> SUBSET Ids]:
            LET all == {[key |-> k, from |-> from[k]] : k \in chosen}
                ok  == \A p \in all : Gated(b, p)
            IN  Proceed(b, IF ok THEN "pick" ELSE "idle", Writing(b, all, FALSE, live, held))
    BY DEF Propose
  <1>3. PICK from \in [chosen -> SUBSET Ids]:
          LET all == {[key |-> k, from |-> from[k]] : k \in chosen}
              ok  == \A p \in all : Gated(b, p)
          IN  Proceed(b, IF ok THEN "pick" ELSE "idle", Writing(b, all, FALSE, live, held))
    BY <1>2
  <1> DEFINE all == {[key |-> k, from |-> from[k]] : k \in chosen}
             ok == \A p \in all : Gated(b, p)
  <1>4. Proceed(b, IF ok THEN "pick" ELSE "idle", Writing(b, all, FALSE, live, held))
    BY <1>3
  <1>5. \A p \in all: p.key \in Keys
    OBVIOUS
  <1>6. CASE ok
    <2>1. \A p \in all: p.from = {} => job[b].synthetic /\ p.key \notin SourceRequired
      BY <1>6 DEF Gated
    <2>2. Proceed(b, "pick", Writing(b, all, FALSE, live, held))
      BY <1>4, <1>6
    <2> HIDE DEF all, live, held
    <2>3. Knowing(Writing(b, all, FALSE, live, held), "pick")
      BY <1>1, <1>5, <2>1, BeginsToWrite
    <2>4. QED
      BY <1>1, <2>2, <2>3, BuildGoesOn
  <1>7. CASE ~ok
    <2>1. Proceed(b, "idle", Writing(b, all, FALSE, live, held))
      BY <1>4, <1>7
    <2> HIDE DEF all, live, held
    <2>2. QED
      BY <1>1, <2>1, BuildGoesOn
  <1>8. QED
    BY <1>6, <1>7

LEMMA PickKeeps ==
  ASSUME BrainInv, NEW b \in Builds, Pick(b)
  PROVE  BrainInv' /\ OwnerFirstStep
  <1> DEFINE q == job[b]
  <1>1. Knowing(q, "pick")
    BY DEF BrainInv, Jobs, Pick
  <1>2. PICK p \in q.todo:
          LET held == IF q.fresh THEN fields[p.key].state = "confirmed"
                      ELSE p.key \in q.held
              rest == q.todo \ {p}
          IN  /\ Proceed(b, IF ~held THEN "check" ELSE IF rest = {} THEN "idle" ELSE "pick",
                   [q EXCEPT !.todo = rest, !.now = IF held THEN None ELSE p,
                      !.live = IF q.fresh THEN [@ EXCEPT ![p.key] = Seen(p.key)] ELSE @])
              /\ UNCHANGED <<fields, tab>>
    BY DEF Pick
  <1> DEFINE held == IF q.fresh THEN fields[p.key].state = "confirmed"
                     ELSE p.key \in q.held
             rest == q.todo \ {p}
             to == IF ~held THEN "check" ELSE IF rest = {} THEN "idle" ELSE "pick"
             n == [q EXCEPT !.todo = rest, !.now = IF held THEN None ELSE p,
                     !.live = IF q.fresh THEN [@ EXCEPT ![p.key] = Seen(p.key)] ELSE @]
  <1>3. Proceed(b, to, n) /\ UNCHANGED <<fields, tab>>
    BY <1>2
  <1>4. DOMAIN n = JobFields /\ n.fresh = q.fresh /\ n.synthetic = q.synthetic
        /\ n.todo = q.todo \ {p} /\ (~held => n.now = p)
    BY <1>1 DEF Knowing, JobFields
  <1>5. (to = "check" /\ ~held) \/ to = "idle" \/ to = "pick"
    OBVIOUS
  <1> HIDE DEF n, to, held
  <1>6. \A x \in n.todo: Sound(n, x)
    BY <1>1, <1>4 DEF Knowing, Sound
  <1>7. ~held => Sound(n, n.now)
    BY <1>1, <1>4 DEF Knowing, Sound
  <1>8. to # "idle" => Knowing(n, to)
    BY <1>1, <1>4, <1>5, <1>6, <1>7 DEF Knowing
  <1>9. QED
    BY <1>3, <1>8, BuildGoesOn

LEMMA CheckProvenanceKeeps ==
  ASSUME BrainInv, NEW b \in Builds, CheckProvenance(b)
  PROVE  BrainInv' /\ OwnerFirstStep
  <1>1. Knowing(job[b], "check") /\ UNCHANGED <<fields, tab>>
    BY DEF BrainInv, Jobs, CheckProvenance
  <1>2. Proceed(b, "write", job[b]) \/ Proceed(b, "idle", job[b])
    BY DEF CheckProvenance
  <1>3. Knowing(job[b], "write")
    BY <1>1 DEF Knowing
  <1>4. QED
    BY <1>1, <1>2, <1>3, BuildGoesOn

\* A field that is written from a source, and not as a placeholder, is there and
\* not weak.
LEMMA WriteIsUsable ==
  ASSUME HunterReady, NEW k \in Keys, DOMAIN fields = Keys, DOMAIN fields' = Keys,
         fields'[k].state = "inferred", fields'[k].value # "placeholder",
         fields'[k].links # {},
         \A i \in Keys: i # k => fields'[i] = fields[i]
  PROVE  HunterReady'
  <1> SUFFICES ASSUME NEW g \in DOMAIN Groups PROVE ~Gap(g)' /\ ~Review(g)'
    BY DEF HunterReady
  <1>1. Groups[g] \subseteq Keys
    BY DEF Keys
  <1>2. ~Gap(g) /\ ~Review(g)
    BY DEF HunterReady
  <1>3. CASE k \in Groups[g]
    BY <1>3 DEF Gap, Review, Usable, Weak
  <1>4. CASE k \notin Groups[g]
    BY <1>1, <1>2, <1>4 DEF Gap, Review, Usable, Weak
  <1>5. QED
    BY <1>3, <1>4

LEMMA WriteProposalKeeps ==
  ASSUME BrainInv, NEW b \in Builds, WriteProposal(b)
  PROVE  BrainInv' /\ OwnerFirstStep
  <1> DEFINE q == job[b]
             p == q.now
             ok == Agrees(p.key, q.live[p.key])
             to == IF ok /\ q.todo # {} THEN "pick" ELSE "idle"
             n == [q EXCEPT !.now = None, !.live[p.key] = 0]
  <1>1. Knowing(q, "write") /\ stage[b] = "write" /\ tab' = tab
    BY DEF BrainInv, Jobs, WriteProposal
  <1>2. /\ Proceed(b, to, n)
        /\ \E text \in Writable: fields' = IF ok THEN Inferred(p, text) ELSE fields
    BY DEF WriteProposal
  <1>3. Sound(q, p) /\ p.key \in Keys
    BY <1>1 DEF Knowing, Sound
  <1>4. DOMAIN n = JobFields /\ n.fresh = q.fresh /\ n.synthetic = q.synthetic
        /\ n.todo = q.todo
    BY <1>1 DEF Knowing, JobFields
  <1>5. to \in {"pick", "idle"}
    OBVIOUS
  <1> HIDE DEF n, to
  <1>6. Knowing(n, "pick")
    BY <1>1, <1>4 DEF Knowing, Sound
  <1>7. /\ Jobs' /\ stage'[b] = to
        /\ \A c \in Builds: c # b => stage'[c] = stage[c]
    BY <1>2, <1>5, <1>6, Proceeds DEF BrainInv
  <1>8. CASE fields' = fields
    BY <1>1, <1>7, <1>8, Untouched, NothingWritten DEF BrainInv
  <1>9. CASE fields' # fields
    <2>0. PICK text \in Writable: fields' = IF ok THEN Inferred(p, text) ELSE fields
      BY <1>2
    <2> DEFINE row == [state |-> "inferred", value |-> text,
                       version |-> fields[p.key].version + 1, links |-> p.from]
    <2>1. fields[p.key].state # "confirmed" /\ fields' = [fields EXCEPT ![p.key] = row]
      BY <1>9, <2>0 DEF Inferred
    <2>2. fields[p.key].version \in Nat
      BY <1>3 DEF BrainInv, Rows, FieldRow
    <2>3. /\ FieldRow(row) /\ row.version = fields[p.key].version + 1
          /\ row.state = "inferred" /\ row.links = p.from
      BY <2>2 DEF FieldRow, RowKeys
    <2> HIDE DEF row
    <2>4. Rows' /\ RequiredFieldsAreSourced' /\ Tabs'
      BY <1>1, <1>3, <2>1, <2>3, Written DEF Sound
    <2>5. /\ DOMAIN fields = Keys /\ DOMAIN fields' = Keys /\ fields'[p.key] = row
          /\ \A i \in Keys: i # p.key => fields'[i] = fields[i]
      BY <1>3, <2>1 DEF BrainInv, Rows
    <2>6. ConfirmedKept
      BY <2>1, <2>5 DEF ConfirmedKept
    <2>7. ASSUME NEW c \in Builds, stage[c] = "write", stage'[c] # "write",
                 fields'[job[c].now.key].value # "placeholder",
                 ~job[c].synthetic, HunterReady
          PROVE  HunterReady'
      <3>1. c = b
        BY <1>7, <2>7
      <3>2. q.synthetic = FALSE
        BY <1>1, <2>7, <3>1 DEF Knowing
      <3>3. p.from # {}
        BY <1>3, <3>2 DEF Sound
      <3>4. fields'[p.key].value # "placeholder"
        BY <2>7, <3>1
      <3>5. QED
        BY <1>3, <2>3, <2>5, <2>7, <3>3, <3>4, WriteIsUsable
    <2>8. ReadinessKept
      BY <2>7 DEF ReadinessKept
    <2>9. QED
      BY <1>1, <1>7, <2>4, <2>6, <2>8, TabsStay DEF BrainInv, OwnerFirstStep
  <1>10. QED
    BY <1>8, <1>9

LEMMA SourcesAside ==
  ASSUME BrainInv, UNCHANGED <<fields, tab, stage, job>>
  PROVE  BrainInv' /\ OwnerFirstStep
  <1>1. Jobs'
    BY DEF BrainInv, Jobs
  <1>2. QED
    BY <1>1, Untouched, NothingWritten DEF BrainInv

LEMMA BrainStep ==
  ASSUME BrainInv, [BrainNext]_brainVars
  PROVE  BrainInv' /\ OwnerFirstStep
  <1>1. CASE UNCHANGED brainVars
    BY <1>1, SourcesAside DEF brainVars
  <1>2. ASSUME NEW b \in Builds, BuildStep(b) PROVE BrainInv' /\ OwnerFirstStep
    BY <1>2, BeginBuildKeeps, PutAskedKeeps, ListSourcesKeeps, ReadReferenceKeeps,
       ReadExtractsKeeps, SynthesizeKeeps, FallBackKeeps, ProposeKeeps, PickKeeps,
       CheckProvenanceKeeps, WriteProposalKeeps DEF BuildStep
  <1>3. ASSUME NEW o \in Owners, (\E k \in Keys: OwnerLoad(o, k)) \/ OwnerConfirm(o)
        PROVE  BrainInv' /\ OwnerFirstStep
    BY <1>3, OwnerLoadKeeps, OwnerConfirmKeeps
  <1>4. CASE AddNote
    BY <1>4, SourcesAside DEF AddNote
  <1>5. ASSUME NEW s \in Ids,
               (\E status \in {"active", "disabled"}: SetStatus(s, status)) \/ RemoveSource(s)
        PROVE  BrainInv' /\ OwnerFirstStep
    BY <1>5, SourcesAside, RemoveSourceKeeps DEF SetStatus
  <1>6. QED
    BY <1>1, <1>2, <1>3, <1>4, <1>5 DEF BrainNext

LEMMA BrainBegins == BrainInit => BrainInv
  <1> SUFFICES ASSUME BrainInit PROVE BrainInv
    OBVIOUS
  <1>1. \A k \in Keys: fields[k] = Absent
    BY DEF BrainInit
  <1>2. FieldRow(Absent) /\ Absent.state = "absent"
    BY DEF FieldRow, Absent, RowKeys
  <1>3. Rows
    BY <1>1, <1>2 DEF Rows, BrainInit
  <1>4. RequiredFieldsAreSourced
    BY <1>1, <1>2 DEF RequiredFieldsAreSourced, Keys
  <1>5. Tabs
    BY DEF Tabs, Showing, BrainInit
  <1>6. Jobs
    BY NothingToWrite DEF Jobs, BrainInit
  <1>7. QED
    BY <1>3, <1>4, <1>5, <1>6 DEF BrainInv

(***************************************************************************)
(* A field that needs a source and is inferred has one, however sources    *)
(* are removed and whatever builds write meanwhile.                        *)
(***************************************************************************)
THEOREM FieldsAreSourced == BrainSpec => []RequiredFieldsAreSourced
  <1>1. BrainInv /\ [BrainNext]_brainVars => BrainInv'
    BY BrainStep
  <1>2. BrainInv => RequiredFieldsAreSourced
    BY DEF BrainInv
  <1>3. QED
    BY <1>1, <1>2, BrainBegins, PTL DEF BrainSpec

(***************************************************************************)
(* No build overwrites what the owner confirmed, she replaces only what    *)
(* she saw, and a build that read its references takes readiness away by   *)
(* nothing but a placeholder, for any builds and owners at once.           *)
(***************************************************************************)
THEOREM OwnerComesFirst == BrainSpec => OwnerFirst
  <1>1. BrainInv /\ [BrainNext]_brainVars => BrainInv'
    BY BrainStep
  <1>2. BrainInv /\ [BrainNext]_brainVars =>
          [ConfirmedKept /\ OwnerReplacesWhatSheSaw /\ ReadinessKept]_brainVars
    BY BrainStep DEF OwnerFirstStep
  <1>3. QED
    BY <1>1, <1>2, BrainBegins, PTL DEF BrainSpec, OwnerFirst

-----------------------------------------------------------------------------
(* Reading a public reference, for any hosts, addresses, answers and       *)
(* limits.                                                                 *)
CONSTANTS Hosts, LocalHosts, Addresses, Public, MaxBytes, MaxRedirects, MaxLookups,
          Nobody
VARIABLES rHost, rRedirects, rTarget, rPeer, rResponse, rSize, rSent, rSettled,
          rTruncated, rPc, rAnswer

Reader == INSTANCE ReferenceReader WITH
  host <- rHost, redirects <- rRedirects, target <- rTarget, peer <- rPeer,
  response <- rResponse, size <- rSize, sent <- rSent, settled <- rSettled,
  truncated <- rTruncated, pc <- rPc, answer <- rAnswer

\* The body so far: all of what was sent is kept, unless text was cut at the
\* limit, after which nothing arrives.
Arriving ==
  /\ rSize \in 0..MaxBytes /\ rSent \in Nat /\ rTruncated \in BOOLEAN
  /\ rSettled \in {"pending", "resolved"} /\ ~rTruncated => rSent = rSize
  /\ rTruncated => Reader!Truncatable
  /\ rSettled = "pending" => ~rTruncated

ReaderInv ==
  /\ rPc \in {"resolve", "request", "body", "done"}
  /\ rPc = "request" => rTarget \in Public
  /\ rPeer # Nobody => rPeer \in Public
  /\ rPc = "body" => Arriving
  /\ rPc # "done" => rAnswer = "none"
  /\ Reader!EvidenceWhole

\* An answer of which nothing was cut.
LEMMA Uncut ==
  ASSUME rTruncated' = FALSE, rSize' \in 0..MaxBytes, rSent' \in Nat,
         rSettled' \in {"pending", "resolved"} => rSent' = rSize'
  PROVE  Arriving'
  <1>1. rTruncated' \in BOOLEAN /\ ~rTruncated'
    OBVIOUS
  <1>2. QED
    BY <1>1, Zenon DEF Arriving

LEMMA ErrorsEnd ==
  ASSUME ReaderInv, NEW code, code # "evidence", Reader!Fail(code)
  PROVE  ReaderInv'
  BY DEF ReaderInv, Reader!Fail, Reader!EvidenceWhole

LEMMA Chunk ==
  ASSUME Reader!ReaderAssumption, ReaderInv, NEW n \in Reader!Chunks, Reader!Data(n)
  PROVE  ReaderInv'
  <1>1. /\ rPc = "body" /\ rSettled = "pending" /\ Arriving /\ rAnswer = "none"
        /\ MaxBytes \in Nat /\ n \in Nat
        /\ rPc' = "body" /\ rAnswer' = "none" /\ rSent' = rSent + n
        /\ UNCHANGED <<rPeer, rTarget, rResponse>>
    BY DEF ReaderInv, Reader!Data, Reader!Chunks, Reader!ReaderAssumption
  <1>2. Reader!Truncatable' <=> Reader!Truncatable
    BY <1>1 DEF Reader!Truncatable, Reader!Text
  <1>3. CASE n > MaxBytes - rSize /\ Reader!Truncatable
    <2>1. rTruncated' = TRUE /\ rSettled' = "resolved" /\ rSize' = MaxBytes
      BY <1>3 DEF Reader!Data, Reader!Kept
    <2>2. Arriving'
      BY <1>1, <1>2, <1>3, <2>1 DEF Arriving
    <2>3. QED
      BY <1>1, <2>2 DEF ReaderInv, Reader!EvidenceWhole
  <1>4. CASE n > MaxBytes - rSize /\ ~Reader!Truncatable
    <2>1. rTruncated' = FALSE /\ rSettled' = "too-large" /\ rSize' = rSize
      <3>1. rTruncated' = FALSE
        BY <1>4, Zenon DEF Reader!Data
      <3>2. QED
        BY <1>4, <3>1 DEF Reader!Data
    <2>2. Arriving'
      <3>1. rSize' \in 0..MaxBytes /\ rSent' \in Nat
        BY <1>1, <2>1 DEF Arriving
      <3>2. QED
        BY <2>1, <3>1, Uncut
    <2>3. QED
      BY <1>1, <2>2 DEF ReaderInv, Reader!EvidenceWhole
  <1>5. CASE ~(n > MaxBytes - rSize)
    <2>1. rTruncated' = FALSE /\ rSettled' = "pending" /\ rSize' = rSize + n
      <3>1. rTruncated' = FALSE
        BY <1>5, Zenon DEF Reader!Data
      <3>2. QED
        BY <1>5, <3>1 DEF Reader!Data, Reader!Kept
    <2>2. Arriving'
      <3>1. rSize' \in 0..MaxBytes /\ rSent' \in Nat
        BY <1>1, <1>5, <2>1 DEF Arriving
      <3>2. rSent = rSize
        BY <1>1 DEF Arriving
      <3>3. QED
        BY <1>1, <2>1, <3>1, <3>2, Uncut
    <2>3. QED
      BY <1>1, <2>2 DEF ReaderInv, Reader!EvidenceWhole
  <1>6. QED
    BY <1>3, <1>4, <1>5

LEMMA Judging ==
  ASSUME Reader!ReaderAssumption, ReaderInv, NEW n \in 0..(MaxBytes + 1), Reader!Judge(n)
  PROVE  ReaderInv'
  <1>1. /\ rPc = "body" /\ Arriving /\ MaxBytes \in Nat /\ n \in Nat
        /\ rSettled = "resolved" /\ rResponse.status = "ok"
        /\ rPc' = "done" /\ rSize' = n /\ Reader!Decoded(n)
        /\ UNCHANGED <<rPeer, rTarget, rResponse, rSent, rSettled, rTruncated>>
    BY DEF ReaderInv, Reader!Judge, Reader!Resolved, Reader!ReaderAssumption
  <1>2. Reader!EvidenceWhole'
    <2> SUFFICES ASSUME rAnswer' = "evidence"
                 PROVE  /\ n \in 1..MaxBytes
                        /\ rSent > n /\ rResponse.encoding = "identity" => rTruncated
                        /\ rTruncated => /\ rResponse.type \in Reader!Text
                                         /\ rResponse.encoding = "identity"
                                         /\ rResponse.body = "text"
      BY <1>1 DEF Reader!EvidenceWhole, Reader!Text
    <2>1. /\ ~(rResponse.encoding # "identity" /\ n > MaxBytes)
          /\ Reader!Judged(n) = "evidence"
      BY DEF Reader!Judge
    <2>2. n > 0 /\ (rTruncated => /\ rResponse.type \in Reader!Text
                                  /\ rResponse.body = "text")
      BY <1>1, <2>1 
         DEF Reader!Judged, Reader!Sanitized, Reader!IsPdf, Reader!OfPdf, Reader!HasWords
    <2>3. rTruncated => rResponse.encoding = "identity"
      BY <1>1 DEF Arriving, Reader!Truncatable
    <2>4. rResponse.encoding = "identity" => n = rSize
      BY <1>1 DEF Reader!Decoded
    <2>5. QED
      BY <1>1, <2>1, <2>2, <2>3, <2>4 DEF Arriving
  <1>3. QED
    BY <1>1, <1>2 DEF ReaderInv

LEMMA ReaderStep ==
  ASSUME Reader!ReaderAssumption, ReaderInv, [Reader!Next]_(Reader!vars)
  PROVE  ReaderInv'
  <1>1. ASSUME NEW found \in Reader!Lookups, Reader!Resolve(found) PROVE ReaderInv'
    <2>1. found # <<>> /\ \A k \in DOMAIN found: found[k] \in Public
      BY <1>1 DEF Reader!Resolve, Reader!Safe
    <2>2. found[1] \in Public
      <3>1. PICK k \in Nat: found \in [1..k -> Addresses]
        BY DEF Reader!Lookups
      <3>2. k # 0
        BY <2>1, <3>1
      <3>3. QED
        BY <2>1, <3>1, <3>2
    <2>3. QED
      BY <1>1, <2>2 DEF Reader!Resolve, ReaderInv, Reader!EvidenceWhole
  <1>2. ASSUME NEW found \in Reader!Lookups, Reader!RefuseTarget(found) PROVE ReaderInv'
    BY <1>2, ErrorsEnd DEF Reader!RefuseTarget
  <1>3. CASE Reader!LookupFails \/ Reader!ConnectFails
    BY <1>3, ErrorsEnd DEF Reader!LookupFails, Reader!ConnectFails
  <1>4. CASE Reader!Connect
    <2>1. Arriving'
      <3>1. rSize' = 0 /\ rSent' = 0 /\ rSettled' = "pending" /\ rTruncated' = FALSE
        BY <1>4 DEF Reader!Connect
      <3>2. MaxBytes \in Nat
        BY DEF Reader!ReaderAssumption
      <3>3. QED
        <4>1. rSize' \in 0..MaxBytes /\ rSent' \in Nat /\ rSent' = rSize'
          BY <3>1, <3>2
        <4>2. QED
          BY <3>1, <4>1, Uncut
    <2>2. QED
      BY <1>4, <2>1 DEF Reader!Connect, ReaderInv, Reader!EvidenceWhole
  <1>5. ASSUME NEW n \in Reader!Chunks, Reader!Data(n) PROVE ReaderInv'
    BY <1>5, Chunk
  <1>6. ASSUME NEW s \in {"resolved", "unavailable", "timeout"}, rPc = "body",
               rSettled' = s \/ (rSettled' = rSettled /\ rSettled # "pending"),
               rSettled' = s => rSettled = "pending",
               UNCHANGED <<rPeer, rTarget, rResponse, rSize, rSent, rTruncated, rPc, rAnswer>>
        PROVE  ReaderInv'
    <2>1. Arriving'
      BY <1>6 DEF ReaderInv, Arriving, Reader!Truncatable, Reader!Text
    <2>2. QED
      BY <1>6, <2>1 DEF ReaderInv, Reader!EvidenceWhole
  <1>7. CASE Reader!End
    BY <1>6, <1>7 DEF Reader!End
  <1>8. ASSUME NEW code \in {"unavailable", "timeout"}, Reader!Broken(code) PROVE ReaderInv'
    <2>1. CASE rSettled = "pending"
      BY <1>6, <1>8, <2>1 DEF Reader!Broken
    <2>2. CASE rSettled # "pending"
      BY <1>8, <2>2 DEF Reader!Broken, ReaderInv, Arriving, Reader!EvidenceWhole,
         Reader!Truncatable, Reader!Text
    <2>3. QED
      BY <2>1, <2>2
  <1>9. CASE Reader!Rejected
    BY <1>9, ErrorsEnd DEF Reader!Rejected, Reader!Codes
  <1>10. ASSUME NEW to \in Hosts, Reader!Redirect(to) PROVE ReaderInv'
    BY <1>10 DEF Reader!Redirect, ReaderInv, Reader!EvidenceWhole, Reader!Resolved
  <1>11. CASE \/ Reader!RedirectTooFar \/ Reader!BadTarget \/ Reader!Refused
              \/ Reader!DecodeFails
    BY <1>11, ErrorsEnd DEF Reader!RedirectTooFar, Reader!BadTarget, Reader!Refused,
       Reader!DecodeFails
  <1>12. ASSUME NEW n \in 0..(MaxBytes + 1), Reader!Judge(n) PROVE ReaderInv'
    BY <1>12, Judging
  <1>13. CASE UNCHANGED Reader!vars
    BY <1>13 DEF Reader!vars, ReaderInv, Arriving, Reader!EvidenceWhole,
       Reader!Truncatable, Reader!Text
  <1>14. QED
    BY <1>1, <1>2, <1>3, <1>4, <1>5, <1>7, <1>8, <1>9, <1>10, <1>11, <1>12, <1>13
       DEF Reader!Next

(* Every request of every hop goes to an address that was checked for that *)
(* hop, and what becomes evidence arrived whole or is text cut at the      *)
(* limit, for any hosts, lookups, answers, chunks and limits               *)
(* (resolveSafeTarget, nodeTransport, readUrl, decodeResponseBody).        *)
THEOREM ReadingHolds ==
  ASSUME Reader!ReaderAssumption
  PROVE  Reader!Spec => [](Reader!OnlyChecked /\ Reader!EvidenceWhole)
  <1>1. Reader!Init => ReaderInv
    BY DEF Reader!Init, ReaderInv, Reader!EvidenceWhole
  <1>2. ReaderInv /\ [Reader!Next]_(Reader!vars) => ReaderInv'
    BY ReaderStep
  <1>3. ReaderInv => Reader!OnlyChecked /\ Reader!EvidenceWhole
    BY DEF ReaderInv, Reader!OnlyChecked
  <1>4. QED
    BY <1>1, <1>2, <1>3, PTL DEF Reader!Spec

=============================================================================
