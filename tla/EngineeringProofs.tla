-------------------------- MODULE EngineeringProofs --------------------------
(***************************************************************************)
(* The certification, for every graph, set of commits, references and      *)
(* number of files.  The invariant carries the shape of the files through  *)
(* the edits between the commands: an edit changes a commit or references, *)
(* so the hashes and the approval a bundle was finalized with stay what    *)
(* they were, and the check before the append is what makes the rest of    *)
(* the bundle agree with them.                                             *)
(*                                                                         *)
(* The gate, for every policy that satisfies GateAssumption: any lifecycle,*)
(* any approvals, floors and permissions of its states, any number of      *)
(* contradictions.  What makes Sanctioned inductive is that nothing the    *)
(* gate asked for is taken back and that a state is entered from the one   *)
(* before it only, so that the past of a state grows by the state itself.  *)
(*                                                                         *)
(* The graph file, for any nodes and writers: AppendOnly is inductive with *)
(* what a draft, made in memory a while ago, still knows of the file.      *)
(*                                                                         *)
(* The ratchet run, for any scores and budgets, crashing at any step: what *)
(* the attempt under way goes back to is what was last accepted.           *)
(*                                                                         *)
(* The plan, for any number of tasks: what the layers of a plan and the    *)
(* taking of a wave compute is by induction over the tasks (UpTo), which   *)
(* the well-foundedness of the naturals gives.                             *)
(*                                                                         *)
(* The five of them in one suite: a step of the suite is a step of one     *)
(* component and leaves the others alone, so each stays well formed.       *)
(***************************************************************************)
EXTENDS MCEngineering,
        NaturalsInduction, WellFoundedInduction, FiniteSetTheorems, TLAPS

Graphs == SUBSET (Links \cup NewLinks)
Traces == {Trace(es, refs): es \in Graphs, refs \in Refs}
Contents == [bundle: Bundles, sha: Shas, rev: Nat, refs: Refs, trace: Traces]
Files == [content: Contents, hash: Contents]
ApprovalFiles == [actor: {"human", "agent"}, sha: Shas, hash: Contents]
BundleFiles == [content: Contents, hash: Contents, approval: ApprovalFiles,
                certifiedHash: Contents \X Contents \X ApprovalFiles]

Shaped ==
  /\ links \in Graphs /\ head \in Shas /\ context \in Nat
  /\ candidates \subseteq Files /\ approvals \subseteq ApprovalFiles
  /\ certified \subseteq BundleFiles /\ store \subseteq BundleFiles

Backed ==
  /\ \A c \in candidates: c.hash.rev <= Revision
  /\ \A b \in certified \cup store: b.approval \in approvals

CertInv == Shaped /\ Backed /\ StoredIsApproved

-----------------------------------------------------------------------------
(* The revision is a number, and an append of the graph never lowers it.   *)

LEMMA FiniteGraphs == \A es \in Graphs: IsFiniteSet(es)
  <1>1. IsFiniteSet(Ids \X Ids)
    BY CertificationAssumption, FS_Product
  <1>2. ASSUME NEW es \in Graphs PROVE es \subseteq Ids \X Ids
    BY CertificationAssumption DEF Graphs
  <1>3. QED
    BY <1>1, <1>2, FS_Subset

LEMMA Revisions ==
  /\ \A es \in Graphs: Cardinality(es) \in Nat
  /\ \A es, fs \in Graphs: es \subseteq fs => Cardinality(es) <= Cardinality(fs)
  BY FiniteGraphs, FS_CardinalityType, FS_Subset

(* An edited file keeps its shape, its hash and its approval.              *)
LEMMA EditedFile ==
  ASSUME NEW f \in Files, NEW g \in Edited(f)
  PROVE g \in Files /\ g.hash = f.hash
  BY DEF Edited, Files, Contents

LEMMA EditedBundle ==
  ASSUME NEW f \in BundleFiles, NEW g \in Edited(f)
  PROVE g \in BundleFiles /\ g.approval = f.approval
  BY DEF Edited, BundleFiles, Contents

-----------------------------------------------------------------------------
LEMMA CertInitInv == Init => CertInv
  <1> SUFFICES ASSUME Init PROVE CertInv
    OBVIOUS
  <1>1. Links \in Graphs
    BY DEF Graphs
  <1>2. Shaped
    BY <1>1, Revisions DEF Init, Shaped
  <1>3. QED
    BY <1>2 DEF Init, CertInv, Backed, StoredIsApproved

(* Whatever does not touch the graph leaves its revision.                  *)
LEMMA CertNextInv == CertInv /\ [Next]_vars => CertInv'
  <1> SUFFICES ASSUME CertInv, [Next]_vars PROVE CertInv'
    OBVIOUS
  <1> USE DEF CertInv, Shaped, Backed
  <1>r. Revision \in Nat
    BY Revisions DEF Revision
  <1>1. ASSUME NEW b \in Bundles, NEW refs \in Refs, Candidate(b, refs)
        PROVE CertInv'
    <2>1. UNCHANGED <<links, head, context, approvals, certified, store>>
      BY <1>1 DEF Candidate
    <2>2. Content(b, refs) \in Contents
      BY <1>r DEF Content, Contents, Traces
    <2>3. Content(b, refs).rev = Revision
      BY DEF Content
    <2>4. /\ candidates' \subseteq Files
          /\ \A c \in candidates': c.hash.rev <= Revision
      BY <1>1, <1>r, <2>2, <2>3 DEF Candidate, Files
    <2>5. QED
      BY <2>1, <2>4 DEF StoredIsApproved, Revision
  <1>2. ASSUME NEW c \in candidates, NEW actor \in {"human", "agent"}, Approve(c, actor)
        PROVE CertInv'
    <2>1. UNCHANGED <<links, head, context, candidates, certified, store>>
      BY <1>2 DEF Approve
    <2>2. approvals' \subseteq ApprovalFiles /\ approvals \subseteq approvals'
      BY <1>2 DEF Approve, ApprovalFiles, Files, Contents
    <2>3. QED
      BY <2>1, <2>2 DEF StoredIsApproved, Revision
  <1>3. ASSUME NEW c \in candidates, NEW a \in approvals, Finalize(c, a)
        PROVE CertInv'
    <2>1. UNCHANGED <<links, head, context, candidates, approvals, store>>
      BY <1>3 DEF Finalize
    <2>2. certified' = certified \cup
            {[content |-> c.content, hash |-> c.hash, approval |-> a,
              certifiedHash |-> <<c.content, c.hash, a>>]}
      BY <1>3 DEF Finalize
    <2>3. /\ certified' \subseteq BundleFiles
          /\ \A b \in certified': b.approval \in approvals
      BY <2>2 DEF BundleFiles, Files
    <2>4. QED
      BY <2>1, <2>3 DEF StoredIsApproved, Revision
  <1>4. ASSUME NEW b \in certified, AppendBundle(b)
        PROVE CertInv'
    <2>1. UNCHANGED <<links, head, context, candidates, approvals, certified>>
      BY <1>4 DEF AppendBundle
    <2>2. /\ store' = store \cup {b}
          /\ \A s \in store: s.content.sha # b.content.sha
      BY <1>4 DEF AppendBundle
    <2>3. /\ b.approval \in approvals /\ b.approval.actor = "human"
          /\ b.approval.hash = b.content /\ b.approval.sha = b.content.sha
      BY <1>4 DEF AppendBundle, VerifyBundle, Verify, FinalApproval
    <2>4. StoredIsApproved'
      BY <2>1, <2>2, <2>3 DEF StoredIsApproved
    <2>5. QED
      BY <2>1, <2>2, <2>4 DEF Revision
  <1>5. ASSUME NEW e \in NewLinks, AppendLink(e)
        PROVE CertInv'
    <2>1. UNCHANGED <<head, context, candidates, approvals, certified, store>>
      BY <1>5 DEF AppendLink
    <2>2. links' \in Graphs /\ links \subseteq links'
      BY <1>5 DEF AppendLink, Graphs
    <2>3. Revision \in Nat /\ Revision' \in Nat /\ Revision <= Revision'
      BY <2>2, Revisions DEF Revision
    <2>4. \A c \in candidates: c.hash.rev \in Nat
      BY DEF Files, Contents
    <2>5. QED
      BY <2>1, <2>2, <2>3, <2>4 DEF StoredIsApproved
  <1>6. ASSUME NEW s \in Shas, Commit(s)
        PROVE CertInv'
    BY <1>6 DEF Commit, StoredIsApproved, Revision
  <1>7. ASSUME Edit
        PROVE CertInv'
    <2>1. UNCHANGED <<links, head, context, approvals, store>>
      BY <1>7 DEF Edit
    <2>2. CASE \E c \in candidates: \E f \in Edited(c):
                  /\ candidates' = (candidates \ {c}) \cup {f}
                  /\ UNCHANGED certified
      <3>1. PICK c \in candidates: \E f \in Edited(c):
              candidates' = (candidates \ {c}) \cup {f} /\ UNCHANGED certified
        BY <2>2
      <3>2. PICK f \in Edited(c):
              candidates' = (candidates \ {c}) \cup {f} /\ UNCHANGED certified
        BY <3>1
      <3>3. f \in Files /\ f.hash = c.hash
        BY EditedFile
      <3>4. QED
        BY <2>1, <3>2, <3>3 DEF StoredIsApproved, Revision
    <2>3. CASE \E c \in certified: \E f \in Edited(c):
                  /\ certified' = (certified \ {c}) \cup {f}
                  /\ UNCHANGED candidates
      <3>1. PICK c \in certified: \E f \in Edited(c):
              certified' = (certified \ {c}) \cup {f} /\ UNCHANGED candidates
        BY <2>3
      <3>2. PICK f \in Edited(c):
              certified' = (certified \ {c}) \cup {f} /\ UNCHANGED candidates
        BY <3>1
      <3>3. f \in BundleFiles /\ f.approval = c.approval
        BY EditedBundle
      <3>4. QED
        BY <2>1, <3>2, <3>3 DEF StoredIsApproved, Revision
    <2>4. QED
      BY <1>7, <2>2, <2>3 DEF Edit
  <1>8. ASSUME BuildContext
        PROVE CertInv'
    BY <1>r, <1>8 DEF BuildContext, StoredIsApproved, Revision
  <1>9. CASE UNCHANGED vars
    BY <1>9 DEF vars, StoredIsApproved, Revision
  <1>10. QED
    BY <1>1, <1>2, <1>3, <1>4, <1>5, <1>6, <1>7, <1>8, <1>9 DEF Next

LEMMA CertInvariance == Spec => []CertInv
  BY CertInitInv, CertNextInv, PTL DEF Spec

-----------------------------------------------------------------------------
(* The state of every certification is well formed: the files the commands *)
(* read have the shape the commands before gave them.                      *)
THEOREM CertificationTyped == Spec => []TypeOK
  <1>1. CertInv => TypeOK
    BY DEF CertInv, Shaped, Backed, TypeOK, Graphs, Files, Contents, ApprovalFiles
  <1>2. QED
    BY <1>1, CertInvariance, PTL

(* Whatever was edited between the commands, and however the graph and the *)
(* branch went on, a stored bundle is what a human approval binds by its   *)
(* commit and its hash, and no commit has two.                             *)
THEOREM StoredHolds == Spec => []StoredIsApproved
  <1>1. CertInv => StoredIsApproved
    BY DEF CertInv
  <1>2. QED
    BY <1>1, CertInvariance, PTL

-----------------------------------------------------------------------------
(* The links that may be appended leave the distances of the nodes that    *)
(* candidates name as they are, as the edges of new nodes do.              *)
KeepsTraces ==
  \A es \in Graphs, e \in NewLinks, refs \in Refs:
    Trace(es \cup {e}, refs) = Trace(es, refs)

(* The nodes a candidate names are linked in any graph of the same trace.  *)
LEMMA SameTrace ==
  ASSUME NEW es, NEW fs, NEW refs, Trace(es, refs) = Trace(fs, refs), LinkedNodes(es, refs)
  PROVE LinkedNodes(fs, refs)
  <1>1. \A n \in refs: Distance(es, n) = Distance(fs, n)
    <2>1. ASSUME NEW n \in refs PROVE Distance(es, n) = Distance(fs, n)
      <3>1. Trace(es, refs)[n] = Distance(es, n) /\ Trace(fs, refs)[n] = Distance(fs, n)
        BY DEF Trace
      <3>2. QED
        BY <3>1
    <2>2. QED
      BY <2>1
  <1>2. ASSUME NEW t \in DOMAIN Floor
        PROVE {n \in refs: Type[n] = t /\ n \in Accepted /\ Distance(es, n) # Far}
                = {n \in refs: Type[n] = t /\ n \in Accepted /\ Distance(fs, n) # Far}
    BY <1>1
  <1>3. QED
    BY <1>2 DEF LinkedNodes

LEMMA StandsStep ==
  ASSUME KeepsTraces, CertInv, HistoryStands, [Next]_vars
  PROVE HistoryStands'
  <1> USE DEF CertInv, Shaped
  <1>1. ASSUME NEW e \in NewLinks, AppendLink(e) PROVE HistoryStands'
    <2>1. store' = store /\ links' = links \cup {e} /\ links' \in Graphs
      BY <1>1 DEF AppendLink, Graphs
    <2>2. Revision \in Nat /\ Revision' \in Nat /\ Revision <= Revision'
      BY <2>1, Revisions DEF Revision
    <2>3. ASSUME NEW b \in store PROVE VerifyBundle(b)'
      <3>1. VerifyBundle(b) /\ b \in BundleFiles
        BY DEF HistoryStands
      <3>2. b.content.refs \in Refs /\ b.content.rev \in Nat
        BY <3>1 DEF BundleFiles, Contents
      <3>3. Trace(links', b.content.refs) = Trace(links, b.content.refs)
        BY <2>1, <3>2 DEF KeepsTraces
      <3>4. LinkedNodes(links', b.content.refs)
        BY <3>1, <3>3, SameTrace DEF VerifyBundle, Verify
      <3>5. b.content.rev <= Revision'
        BY <2>2, <3>1, <3>2 DEF VerifyBundle, Verify
      <3>6. QED
        BY <3>1, <3>3, <3>4, <3>5 DEF VerifyBundle, Verify, FinalApproval
    <2>4. QED
      BY <2>1, <2>3 DEF HistoryStands
  <1>2. ASSUME NEW b \in certified, AppendBundle(b) PROVE HistoryStands'
    <2>1. store' = store \cup {b} /\ links' = links /\ VerifyBundle(b)
      BY <1>2 DEF AppendBundle
    <2>2. \A s \in store': VerifyBundle(s)
      BY <2>1 DEF HistoryStands
    <2>3. QED
      BY <2>1, <2>2 DEF HistoryStands, VerifyBundle, Verify, FinalApproval, Revision
  <1>3. CASE UNCHANGED <<links, store>>
    BY <1>3 DEF HistoryStands, VerifyBundle, Verify, FinalApproval, Revision
  <1>4. QED
    BY <1>1, <1>2, <1>3
    DEF Next, vars, Candidate, Approve, Finalize, Commit, Edit, BuildContext

(* VS-06, exit criterion 9, and what it rests on: a stored certification   *)
(* goes on verifying as the graph grows, provided that no appended link    *)
(* changes the distance of a node a candidate names.  The run of the       *)
(* shortcut shows that the proviso is needed.                              *)
THEOREM HistoryHolds == ASSUME KeepsTraces PROVE Spec => []HistoryStands
  <1>1. Init => HistoryStands
    BY DEF Init, HistoryStands
  <1>2. CertInv /\ HistoryStands /\ [Next]_vars => HistoryStands'
    BY StandsStep
  <1>3. QED
    BY <1>1, <1>2, CertInvariance, PTL DEF Spec

-----------------------------------------------------------------------------
(* A pack is that of a graph there was: what it shows it saw then.         *)
PackOfThePast ==
  \E p \in 0..pairs, e \in 0..evidence:
    pack = [rev |-> p + e, shown |-> Min2(p, Fits)]

GateInv == GateTypeOK /\ PackOfThePast /\ Sanctioned

-----------------------------------------------------------------------------
(* What the lifecycle leaves behind a state, at its start, one step on, and *)
(* outside of it.                                                          *)

LEMMA PastOfTheFirst == Past(Lifecycle[1]) = {Lifecycle[1]}
  BY GateAssumption DEF Past

LEMMA PastOfTheNext ==
  ASSUME NEW i \in 1..(Len(Lifecycle) - 1)
  PROVE Past(Lifecycle[i + 1]) \subseteq Past(Lifecycle[i]) \cup {Lifecycle[i + 1]}
  <1> SUFFICES ASSUME NEW s \in Past(Lifecycle[i + 1]), s # Lifecycle[i + 1]
               PROVE s \in Past(Lifecycle[i])
    OBVIOUS
  <1>1. PICK j \in DOMAIN Lifecycle, k \in DOMAIN Lifecycle:
          s = Lifecycle[j] /\ k >= j /\ Lifecycle[k] = Lifecycle[i + 1]
    BY DEF Past
  <1>2. i \in DOMAIN Lifecycle /\ i + 1 \in DOMAIN Lifecycle
    BY GateAssumption
  <1>3. k = i + 1
    BY <1>1, <1>2, GateAssumption
  <1>4. i >= j
    BY <1>1, <1>3, GateAssumption
  <1>5. QED
    BY <1>1, <1>2, <1>4 DEF Past

LEMMA PastOfAnException ==
  ASSUME NEW x \in Exceptions
  PROVE Past(x) = {}
  BY GateAssumption DEF Past

-----------------------------------------------------------------------------
LEMMA SumsGrow ==
  ASSUME NEW a \in Nat, NEW b \in Nat, NEW c \in Nat, NEW d \in Nat,
         a <= c, b <= d
  PROVE a + b <= c + d
  OBVIOUS

LEMMA GateInitInv == GateInit => GateInv
  <1> SUFFICES ASSUME GateInit PROVE GateInv
    OBVIOUS
  <1>1. GateTypeOK
    <2>1. state \in States
      BY GateAssumption DEF GateInit, States
    <2>2. pairs \in 0..MaxPairs /\ evidence \in 0..EvidenceFloor /\ permission \in 0..MaxPermission
      BY GateAssumption DEF GateInit, MaxPermission
    <2>3. pack.rev <= GraphRevision
      BY DEF GateInit, GraphRevision
    <2>4. approved \subseteq Types \X {"human", "agent"} /\ delivery \in BOOLEAN
      BY DEF GateInit
    <2>5. QED
      BY <2>1, <2>2, <2>3, <2>4 DEF GateTypeOK
  <1>2. PackOfThePast
    <2>1. pack = [rev |-> 0 + 0, shown |-> Min2(0, Fits)] /\ 0 \in 0..pairs /\ 0 \in 0..evidence
      BY GateAssumption DEF GateInit, Min2
    <2>2. QED
      BY <2>1 DEF PackOfThePast
  <1>3. Sanctioned
    BY PastOfTheFirst, GateAssumption DEF GateInit, Sanctioned
  <1>4. QED
    BY <1>1, <1>2, <1>3 DEF GateInv

(* A transition adds the state entered to what was passed, and the gate    *)
(* asked for all of that state.                                            *)
LEMMA TransitionSanctioned ==
  ASSUME GateInv, NEW to \in States, Transition(to)
  PROVE Sanctioned'
  <1>1. Past(to) \subseteq Past(state) \cup {to}
    <2>1. CASE to \in Exceptions
      BY <2>1, PastOfAnException
    <2>2. CASE \E i \in 1..(Len(Lifecycle) - 1): state = Lifecycle[i] /\ to = Lifecycle[i + 1]
      BY <2>2, PastOfTheNext
    <2>3. QED
      BY <2>1, <2>2 DEF Transition, Allowed, TransitionShape
  <1>2. \A t \in Required[to]: <<t, "human">> \in approved
    <2> SUFFICES ASSUME NEW t \in Required[to]
                 PROVE <<t, "human">> \in approved
      OBVIOUS
    <2>1. PICK a \in approved: a[1] = t /\ a[2] # "agent"
      BY DEF Transition, Allowed, Approved
    <2>2. a \in Types \X {"human", "agent"}
      BY DEF GateInv, GateTypeOK
    <2>3. a = <<t, "human">>
      BY <2>1, <2>2
    <2>4. QED
      BY <2>1, <2>3
  <1>3. /\ to \in EvidenceFrom => evidence >= EvidenceFloor
        /\ Triggered /\ to \in DeliveryFrom => delivery
    BY DEF Transition, Allowed
  <1>4. state' = to /\ UNCHANGED <<approved, evidence, delivery>>
    BY DEF Transition
  <1>5. SUFFICES ASSUME NEW s \in Past(to)
                 PROVE /\ \A t \in Required[s]: <<t, "human">> \in approved
                       /\ s \in EvidenceFrom => evidence >= EvidenceFloor
                       /\ Triggered /\ s \in DeliveryFrom => delivery
    BY <1>4 DEF Sanctioned, Past
  <1>6. CASE s = to
    BY <1>2, <1>3, <1>6
  <1>7. CASE s \in Past(state)
    BY <1>7 DEF GateInv, Sanctioned
  <1>8. QED
    BY <1>1, <1>6, <1>7

(* What leaves the state alone and takes nothing back keeps it sanctioned. *)
LEMMA StandingSanctioned ==
  ASSUME GateInv, state' = state, approved \subseteq approved', evidence' \in Nat,
         evidence <= evidence', delivery => delivery'
  PROVE Sanctioned'
  <1>1. Past(state)' = Past(state)
    BY DEF Past
  <1>2. evidence \in Nat /\ EvidenceFloor \in Nat
    BY GateAssumption DEF GateInv, GateTypeOK
  <1>3. SUFFICES ASSUME NEW s \in Past(state)
                 PROVE /\ \A t \in Required[s]: <<t, "human">> \in approved'
                       /\ s \in EvidenceFrom => evidence' >= EvidenceFloor
                       /\ Triggered /\ s \in DeliveryFrom => delivery'
    BY <1>1 DEF Sanctioned
  <1>4. QED
    BY <1>2 DEF GateInv, Sanctioned

(* A pack that is kept while the graph grows is still one of the past.     *)
LEMMA PackKept ==
  ASSUME GateInv, pack' = pack, pairs' \in Nat, evidence' \in Nat,
         pairs <= pairs', evidence <= evidence'
  PROVE PackOfThePast' /\ (pack.rev <= GraphRevision)'
  <1>1. PICK p \in 0..pairs, e \in 0..evidence:
          pack = [rev |-> p + e, shown |-> Min2(p, Fits)]
    BY DEF GateInv, PackOfThePast
  <1>2. pairs \in Nat /\ evidence \in Nat
    BY GateAssumption DEF GateInv, GateTypeOK
  <1>3. p \in 0..pairs' /\ e \in 0..evidence'
    BY <1>2
  <1>4. pack' = [rev |-> p + e, shown |-> Min2(p, Fits)]
    BY <1>1
  <1>5. PackOfThePast'
    BY <1>3, <1>4 DEF PackOfThePast
  <1>6. pack'.rev = p + e
    BY <1>4
  <1>7. (pack.rev <= GraphRevision)'
    <2>1. p \in Nat /\ e \in Nat /\ p <= pairs' /\ e <= evidence'
      BY <1>2, <1>3
    <2>2. p + e <= pairs' + evidence'
      BY <2>1, SumsGrow
    <2>3. pack'.rev <= pairs' + evidence'
      BY <1>6, <2>2
    <2>4. QED
      BY <2>3 DEF GraphRevision
  <1>8. QED
    BY <1>5, <1>7

LEMMA GateNextInv == GateInv /\ [GateNext]_gateVars => GateInv'
  <1> SUFFICES ASSUME GateInv, [GateNext]_gateVars PROVE GateInv'
    OBVIOUS
  <1> USE DEF GateTypeOK
  <1>0. /\ pairs \in Nat /\ evidence \in Nat /\ {EvidenceFloor, MaxPairs} \subseteq Nat
        /\ pairs \in 0..MaxPairs /\ evidence \in 0..EvidenceFloor
        /\ permission \in 0..MaxPermission /\ delivery \in BOOLEAN /\ state \in States
        /\ approved \subseteq Types \X {"human", "agent"}
    BY GateAssumption DEF GateInv
  <1>1. ASSUME NEW to \in States, Transition(to) PROVE GateInv'
    <2>1. Sanctioned'
      BY <1>1, TransitionSanctioned
    <2>2. PackOfThePast' /\ (pack.rev <= GraphRevision)'
      BY <1>0, <1>1, PackKept DEF Transition
    <2>3. QED
      BY <1>0, <1>1, <2>1, <2>2 DEF Transition, GateInv
  <1>2. ASSUME NEW t \in Types, NEW actor \in {"human", "agent"}, FileApproval(t, actor)
        PROVE GateInv'
    <2>1. Sanctioned'
      BY <1>0, <1>2, StandingSanctioned DEF FileApproval
    <2>2. PackOfThePast' /\ (pack.rev <= GraphRevision)'
      BY <1>0, <1>2, PackKept DEF FileApproval
    <2>3. QED
      BY <1>0, <1>2, <2>1, <2>2 DEF FileApproval, GateInv
  <1>3. ASSUME Contradict PROVE GateInv'
    <2>0. pairs' \in Nat /\ pairs <= pairs' /\ pairs' \in 0..MaxPairs
      BY <1>0, <1>3 DEF Contradict
    <2>1. Sanctioned'
      BY <1>0, <1>3, StandingSanctioned DEF Contradict
    <2>2. PackOfThePast' /\ (pack.rev <= GraphRevision)'
      BY <1>0, <1>3, <2>0, PackKept DEF Contradict
    <2>3. QED
      BY <1>0, <1>3, <2>0, <2>1, <2>2 DEF Contradict, GateInv
  <1>4. ASSUME BuildPack PROVE GateInv'
    <2>1. Sanctioned'
      BY <1>0, <1>4, StandingSanctioned DEF BuildPack
    <2>2. /\ pack' = [rev |-> pairs' + evidence', shown |-> Min2(pairs', Fits)]
          /\ pairs' \in 0..pairs' /\ evidence' \in 0..evidence'
      BY <1>0, <1>4 DEF BuildPack, GraphRevision
    <2>3. PackOfThePast'
      BY <2>2 DEF PackOfThePast
    <2>4. (pack.rev <= GraphRevision)'
      BY <1>0, <1>4, <2>2 DEF BuildPack, GraphRevision
    <2>5. QED
      BY <1>0, <1>4, <2>1, <2>3, <2>4 DEF BuildPack, GateInv
  <1>5. ASSUME LinkEvidence PROVE GateInv'
    <2>0. evidence' \in Nat /\ evidence <= evidence' /\ evidence' \in 0..EvidenceFloor
      BY <1>0, <1>5 DEF LinkEvidence
    <2>1. Sanctioned'
      BY <1>0, <1>5, <2>0, StandingSanctioned DEF LinkEvidence
    <2>2. PackOfThePast' /\ (pack.rev <= GraphRevision)'
      BY <1>0, <1>5, <2>0, PackKept DEF LinkEvidence
    <2>3. QED
      BY <1>0, <1>5, <2>0, <2>1, <2>2 DEF LinkEvidence, GateInv
  <1>6. ASSUME Permit PROVE GateInv'
    <2>0. permission' \in 0..MaxPermission
      BY <1>0, <1>6 DEF Permit, MaxPermission
    <2>1. Sanctioned'
      BY <1>0, <1>6, StandingSanctioned DEF Permit
    <2>2. PackOfThePast' /\ (pack.rev <= GraphRevision)'
      BY <1>0, <1>6, PackKept DEF Permit
    <2>3. QED
      BY <1>0, <1>6, <2>0, <2>1, <2>2 DEF Permit, GateInv
  <1>7. ASSUME DeliveryReady PROVE GateInv'
    <2>1. Sanctioned'
      BY <1>0, <1>7, StandingSanctioned DEF DeliveryReady
    <2>2. PackOfThePast' /\ (pack.rev <= GraphRevision)'
      BY <1>0, <1>7, PackKept DEF DeliveryReady
    <2>3. QED
      BY <1>0, <1>7, <2>1, <2>2 DEF DeliveryReady, GateInv
  <1>8. ASSUME UNCHANGED gateVars PROVE GateInv'
    BY <1>8 DEF gateVars, GateInv, PackOfThePast, Sanctioned, Past, GraphRevision
  <1>9. ByAgent \subseteq Types
    BY GateAssumption
  <1>10. QED
    BY <1>1, <1>2, <1>3, <1>4, <1>5, <1>6, <1>7, <1>8, <1>9 DEF GateNext

-----------------------------------------------------------------------------
LEMMA GateInvariance == GateSpec => []GateInv
  BY GateInitInv, GateNextInv, PTL DEF GateSpec

(* The state is well formed, and no pack is ahead of the graph, whatever   *)
(* the policy (gate-engine.mjs).                                           *)
THEOREM GateTyped == GateSpec => []GateTypeOK
  <1>1. GateInv => GateTypeOK
    BY DEF GateInv
  <1>2. QED
    BY <1>1, GateInvariance, PTL

(* No order of approvals, evidence, permissions and transitions brings a   *)
(* slice past a state without what that state asks for (evaluateGate).     *)
THEOREM GateHolds == GateSpec => []Sanctioned
  <1>1. GateInv => Sanctioned
    BY DEF GateInv
  <1>2. QED
    BY <1>1, GateInvariance, PTL

(* Where a contradiction that matters fits a pack, and the states that     *)
(* block on contradictions ask for a current pack, as in gates.json, no    *)
(* slice enters one of them while a contradiction stands (evaluateGate).   *)
THEOREM ContradictionsHold ==
  ASSUME Fits > 0, BlockContradictionsFrom \subseteq ContextFrom
  PROVE GateSpec => ContradictionsBlock
  <1>1. ASSUME GateInv, [GateNext]_gateVars
        PROVE [state' # state /\ state' \in BlockContradictionsFrom => pairs = 0]_gateVars
    <2> SUFFICES ASSUME state' # state, state' \in BlockContradictionsFrom
                 PROVE pairs = 0
      OBVIOUS
    <2>1. PICK to \in States: Transition(to)
      BY <1>1 DEF GateNext, FileApproval, Contradict, BuildPack, LinkEvidence, Permit,
                  DeliveryReady, gateVars
    <2>2. pack.rev = GraphRevision /\ pack.shown = 0
      BY <2>1 DEF Transition, Allowed, ContextReady
    <2>3. PICK p \in 0..pairs, e \in 0..evidence:
            pack = [rev |-> p + e, shown |-> Min2(p, Fits)]
      BY <1>1 DEF GateInv, PackOfThePast
    <2>4. pairs \in Nat /\ evidence \in Nat /\ Fits \in Nat
      BY <1>1, GateAssumption DEF GateInv, GateTypeOK
    <2>5. p + e = pairs + evidence /\ Min2(p, Fits) = 0
      BY <2>2, <2>3 DEF GraphRevision
    <2>6. p = 0
      BY <2>4, <2>5 DEF Min2
    <2>7. QED
      BY <2>4, <2>5, <2>6
  <1>2. QED
    BY <1>1, GateInvariance, PTL DEF GateSpec, ContradictionsBlock
-----------------------------------------------------------------------------
(* The graph file.                                                         *)

(* An update of a state is a state that has all of it, one revision on.    *)
LEMMA UpdatesAppend ==
  ASSUME NEW s \in State, NEW t \in Updates(s)
  PROVE  /\ t \in State /\ t.rev = s.rev + 1
         /\ s.nodes \subseteq t.nodes /\ s.sup \subseteq t.sup
  <1>1. PICK new \in SUBSET Nodes, sup \in SUBSET (Nodes \X Nodes): t = With(s, new, sup)
    <2>1. CASE t \in Appended(s)
      <3>1. PICK new \in SUBSET (Nodes \ s.nodes),
                 sup \in IF AppendsEdges THEN SUBSET ((Nodes \X Nodes) \ s.sup) ELSE {{}}:
              t = With(s, new, sup)
        BY <2>1 DEF Appended
      <3>2. new \in SUBSET Nodes /\ sup \in SUBSET (Nodes \X Nodes)
        BY <3>1
      <3>3. QED
        BY <3>1, <3>2
    <2>2. CASE t \in Superseded(s)
      <3>1. PICK new \in Nodes \ s.nodes, target \in s.nodes:
              t = With(s, {new}, {<<new, target>>})
        BY <2>2, SMT DEF Superseded, With
      <3>2. new \in Nodes /\ target \in Nodes
        BY <3>1 DEF State
      <3>3. {new} \in SUBSET Nodes /\ {<<new, target>>} \in SUBSET (Nodes \X Nodes)
        BY <3>2
      <3>4. QED
        BY <3>1, <3>3
    <2>3. QED
      BY <2>1, <2>2 DEF Updates
  <1>2. s.nodes \in SUBSET Nodes /\ s.sup \in SUBSET (Nodes \X Nodes) /\ s.rev \in Nat
    BY DEF State
  <1>3. t = [nodes |-> s.nodes \cup new, sup |-> s.sup \cup sup, rev |-> s.rev + 1]
    BY <1>1 DEF With
  <1>4. t.rev <= MaxRevision
    BY DEF Updates
  <1>5. t.rev \in 0..MaxRevision
    BY <1>2, <1>3, <1>4
  <1>6. s.nodes \cup new \in SUBSET Nodes /\ s.sup \cup sup \in SUBSET (Nodes \X Nodes)
    BY <1>1, <1>2
  <1>7. t \in State
    BY <1>3, <1>5, <1>6 DEF State
  <1>8. QED
    BY <1>3, <1>7

(* What a draft was made of: a revision the file had, and while the file is *)
(* still at it, all that the file holds.                                    *)
DraftOfThePast ==
  \A w \in Writers: draft[w] # None =>
    /\ draft[w].base <= file.rev /\ draft[w].state.rev = draft[w].base + 1
    /\ draft[w].base = file.rev =>
         file.nodes \subseteq draft[w].state.nodes /\ file.sup \subseteq draft[w].state.sup

GraphInv == GraphTypeOK /\ DraftOfThePast

LEMMA DraftNotNone ==
  ASSUME GraphInv, NEW w \in Writers, draft[w] # None
  PROVE  draft[w] \in Draft
  BY DEF GraphInv, GraphTypeOK

(* A file that is replaced by a state with all of it and a greater revision *)
(* leaves every draft of the past one.                                      *)
LEMMA Grown ==
  ASSUME GraphInv, file' \in State, file.rev < file'.rev,
         NEW w \in Writers, draft[w] # None, draft'[w] = draft[w]
  PROVE  /\ draft'[w].base <= file'.rev /\ draft'[w].state.rev = draft'[w].base + 1
         /\ draft'[w].base # file'.rev
  <1>1. draft[w] \in Draft
    BY DraftNotNone
  <1>2. draft[w].base \in Nat /\ file.rev \in Nat /\ file'.rev \in Nat
    BY <1>1 DEF Draft, State, GraphInv, GraphTypeOK
  <1>3. draft[w].base <= file.rev /\ draft[w].state.rev = draft[w].base + 1
    BY DEF GraphInv, DraftOfThePast
  <1>4. QED
    BY <1>2, <1>3

(* What a step of a writer leaves true, and what it makes of the file.     *)
LEMMA WriterStep ==
  ASSUME Checks, GraphInv, NEW w \in Writers,
         Open(w) \/ Release(w) \/ Write(w) \/ Prepare(w) \/ Save(w) \/ Die(w)
  PROVE  /\ GraphInv'
         /\ file.nodes \subseteq file'.nodes /\ file.sup \subseteq file'.sup
         /\ file' # file => file'.rev > file.rev
  <1>0. /\ file \in State /\ lock \in Writers \cup {None}
        /\ seen \in [Writers -> State \cup {Written, None}]
        /\ draft \in [Writers -> Draft \cup {None}]
        /\ \A v \in Writers: seen[v] # None => lock = v /\ seen[v] \in {file, Written}
        /\ None \notin Writers
    BY GraphAssumption DEF GraphInv, GraphTypeOK
  <1>1. CASE Open(w)
    <2>1. GraphTypeOK'
      BY <1>0, <1>1 DEF Open, MayOpen, GraphTypeOK
    <2>2. QED
      BY <1>1, <2>1 DEF Open, GraphInv, DraftOfThePast
  <1>2. CASE Release(w)
    <2>1. GraphTypeOK'
      BY <1>0, <1>2 DEF Release, GraphTypeOK
    <2>2. QED
      BY <1>2, <2>1 DEF Release, GraphInv, DraftOfThePast
  <1>3. CASE Write(w)
    <2>1. seen[w] = file /\ lock = w
      BY <1>0, <1>3 DEF Write, Loaded
    <2>2. file' \in Updates(file)
      BY <1>3, <2>1 DEF Write
    <2>3. /\ file' \in State /\ file'.rev = file.rev + 1
          /\ file.nodes \subseteq file'.nodes /\ file.sup \subseteq file'.sup
      BY <1>0, <2>2, UpdatesAppend
    <2>4. file.rev \in Nat /\ file.rev < file'.rev
      BY <1>0, <2>3 DEF State
    <2>5. GraphTypeOK'
      BY <1>0, <1>3, <2>1, <2>3 DEF Write, GraphTypeOK
    <2>6. draft' = draft
      BY <1>3 DEF Write
    <2>7. DraftOfThePast'
      BY <2>3, <2>4, <2>6, Grown DEF DraftOfThePast
    <2>8. QED
      BY <2>3, <2>4, <2>5, <2>7 DEF GraphInv
  <1>4. CASE Prepare(w)
    <2>1. PICK s \in Updates(file): draft' = [draft EXCEPT ![w] = [base |-> file.rev, state |-> s]]
      BY <1>4 DEF Prepare
    <2>2. /\ s \in State /\ s.rev = file.rev + 1
          /\ file.nodes \subseteq s.nodes /\ file.sup \subseteq s.sup
      BY <1>0, <2>1, UpdatesAppend
    <2>3. file.rev \in 0..MaxRevision
      BY <1>0 DEF State
    <2>4. [base |-> file.rev, state |-> s] \in Draft
      BY <2>2, <2>3 DEF Draft
    <2>5. file' = file /\ lock' = lock /\ seen' = seen
      BY <1>4 DEF Prepare
    <2>6. draft' \in [Writers -> Draft \cup {None}]
      BY <1>0, <2>1, <2>4
    <2>7. GraphTypeOK'
      BY <1>0, <2>5, <2>6 DEF GraphTypeOK
    <2>8. draft'[w] = [base |-> file.rev, state |-> s]
      BY <1>0, <2>1
    <2>9. ASSUME NEW v \in Writers, v # w PROVE draft'[v] = draft[v]
      BY <1>0, <2>1, <2>9
    <2>10. DraftOfThePast'
      BY <2>2, <2>3, <2>5, <2>8, <2>9 DEF DraftOfThePast, GraphInv
    <2>11. QED
      BY <2>5, <2>7, <2>10 DEF GraphInv
  <1>5. CASE Save(w)
    <2>1. seen[w] = file /\ lock = w /\ draft[w] # None
      BY <1>0, <1>5 DEF Save, Loaded
    <2>2. draft[w] \in Draft /\ file' = draft[w].state
      BY <1>5, <2>1, DraftNotNone DEF Save
    <2>3. draft[w].base = file.rev
      BY <1>5, <2>1 DEF Save, NotStale
    <2>4. /\ file' \in State /\ file'.rev = file.rev + 1
          /\ file.nodes \subseteq file'.nodes /\ file.sup \subseteq file'.sup
      BY <2>1, <2>2, <2>3 DEF GraphInv, DraftOfThePast, Draft
    <2>5. file.rev \in Nat /\ file.rev < file'.rev
      BY <1>0, <2>4 DEF State
    <2>6. GraphTypeOK'
      BY <1>0, <1>5, <2>1, <2>4 DEF Save, GraphTypeOK
    <2>7. draft'[w] = None /\ \A v \in Writers \ {w}: draft'[v] = draft[v]
      BY <1>0, <1>5 DEF Save
    <2>8. DraftOfThePast'
      BY <2>4, <2>5, <2>7, Grown DEF DraftOfThePast
    <2>9. QED
      BY <2>4, <2>5, <2>6, <2>8 DEF GraphInv
  <1>6. CASE Die(w)
    <2>1. GraphTypeOK'
      BY <1>0, <1>6 DEF Die, GraphTypeOK
    <2>2. file' = file /\ draft'[w] = None /\ \A v \in Writers \ {w}: draft'[v] = draft[v]
      BY <1>0, <1>6 DEF Die
    <2>3. DraftOfThePast'
      BY <2>2 DEF DraftOfThePast, GraphInv
    <2>4. QED
      BY <2>1, <2>2, <2>3 DEF GraphInv
  <1>7. QED
    BY <1>1, <1>2, <1>3, <1>4, <1>5, <1>6

LEMMA GraphInvariance ==
  ASSUME Checks
  PROVE  GraphSpec => []GraphInv
  <1>1. GraphInit => GraphInv
    <2> SUFFICES ASSUME GraphInit PROVE GraphInv
      OBVIOUS
    <2>1. file \in State
      BY GraphAssumption DEF GraphInit, State
    <2>2. QED
      BY <2>1 DEF GraphInit, GraphInv, GraphTypeOK, DraftOfThePast
  <1>2. ASSUME GraphInv, [GraphNext]_graphVars PROVE GraphInv'
    <2>1. CASE UNCHANGED graphVars
      BY <1>2, <2>1 DEF graphVars, GraphInv, GraphTypeOK, DraftOfThePast
    <2>2. CASE GraphNext
      BY <1>2, <2>2, WriterStep DEF GraphNext
    <2>3. QED
      BY <1>2, <2>1, <2>2
  <1>3. QED
    BY <1>1, <1>2, PTL DEF GraphSpec

(* The file is well formed, and only the holder of the lock file is between *)
(* loading and writing it (GraphMemoryStore.withLock).                      *)
THEOREM GraphTyped ==
  ASSUME Checks
  PROVE  GraphSpec => []GraphTypeOK
  <1>1. GraphInv => GraphTypeOK
    BY DEF GraphInv
  <1>2. QED
    BY <1>1, GraphInvariance, PTL

(* Where every caller of save names the revision it expects, no write takes *)
(* back what another recorded, whoever writes and dies when                 *)
(* (GraphMemoryStore.save, VS-03).                                          *)
THEOREM AppendsHold ==
  ASSUME Checks
  PROVE  GraphSpec => AppendOnly
  <1>1. ASSUME GraphInv, [GraphNext]_graphVars
        PROVE  [/\ file.nodes \subseteq file'.nodes /\ file.sup \subseteq file'.sup
                /\ file' # file => file'.rev > file.rev]_graphVars
    <2>1. CASE UNCHANGED graphVars
      BY <2>1
    <2>2. CASE GraphNext
      BY <1>1, <2>2, WriterStep DEF GraphNext
    <2>3. QED
      BY <1>1, <2>1, <2>2
  <1>2. QED
    BY <1>1, GraphInvariance, PTL DEF GraphSpec, AppendOnly

-----------------------------------------------------------------------------
(* The ratchet run.                                                        *)

AttemptState == [status: {"running", "evaluated"} \cup Terminal, base: Int,
                 before: 0..MaxAttempts, artifact: BOOLEAN, score: Int,
                 decision: {"none", "keep", "revert"}]
RunState == [status: {"running", "stopped"}, attempts: Seq(AttemptState),
             usage: 0..(MaxUsage + 1), score: Int, accepted: 0..MaxAttempts]

RatchetTyped ==
  /\ run \in RunState /\ Current <= MaxAttempts
  /\ disk \in 0..MaxAttempts /\ alive \in BOOLEAN

(* Only the last attempt is under way; it goes back to what was accepted    *)
(* and is kept for a score above it only.                                   *)
AttemptRests ==
  /\ \A i \in 1..Current: i # Current => run.attempts[i].status \in Terminal
  /\ ~Active => disk = run.accepted
  /\ Active => Attempt.before = run.accepted /\ Attempt.base = run.score
  /\ Active /\ Attempt.decision = "keep" => Attempt.score > Attempt.base

RatchetInv == RatchetTyped /\ AttemptRests /\ OnlyImproves

LEMMA AttemptTyped ==
  ASSUME RatchetTyped
  PROVE  /\ Current \in 0..MaxAttempts /\ run.attempts \in Seq(AttemptState)
         /\ Current = Len(run.attempts)
         /\ \A i \in 1..Current: run.attempts[i] \in AttemptState
         /\ Current > 0 => Attempt \in AttemptState
  <1>1. run.attempts \in Seq(AttemptState) /\ Current = Len(run.attempts)
    BY DEF RatchetTyped, RunState, Current
  <1>2. Current \in Nat /\ Current <= MaxAttempts
    BY <1>1 DEF RatchetTyped
  <1>3. \A i \in 1..Current: run.attempts[i] \in AttemptState
    BY <1>1
  <1>4. QED
    BY <1>1, <1>2, <1>3, RatchetAssumption DEF Attempt

(* The score of a run is no less than that of any attempt it kept.          *)
LEMMA KeptScores ==
  ASSUME RatchetTyped, OnlyImproves
  PROVE  /\ run.score \in Int /\ run.score >= Baseline
         /\ \A i \in Kept: i \in 1..Current /\ run.attempts[i].score \in Int
                           /\ run.attempts[i].score <= run.score
  <1>1. \A i \in Kept: i \in 1..Current /\ run.attempts[i].score \in Int
    BY AttemptTyped DEF Kept, AttemptState
  <1>2. run.score \in Int
    BY DEF RatchetTyped, RunState
  <1>3. CASE Kept = {}
    BY <1>2, <1>3, RatchetAssumption DEF OnlyImproves
  <1>4. CASE Kept # {}
    <2>1. PICK last \in Kept: /\ \A j \in Kept: j <= last
                              /\ run.score = run.attempts[last].score
      BY <1>4 DEF OnlyImproves
    <2>2. ASSUME NEW i \in Kept PROVE run.attempts[i].score <= run.score
      <3>1. i <= last /\ i \in Int /\ last \in Int
        BY <1>1, <2>1
      <3>2. CASE i = last
        BY <1>1, <2>1, <3>2
      <3>3. CASE i < last
        BY <1>1, <2>1, <3>3 DEF OnlyImproves
      <3>4. QED
        BY <3>1, <3>2, <3>3
    <2>3. run.score >= Baseline
      BY <1>1, <1>2, <2>1, RatchetAssumption DEF OnlyImproves
    <2>4. QED
      BY <1>1, <1>2, <2>2, <2>3
  <1>5. QED
    BY <1>3, <1>4

(* An attempt that goes on without being kept leaves the record of scores.  *)
LEMMA ScoresStay ==
  ASSUME RatchetInv, Active, NEW a \in AttemptState, a.status # "kept",
         run'.attempts = [run.attempts EXCEPT ![Current] = a],
         run'.score = run.score
  PROVE  OnlyImproves'
  <1>1. /\ Current \in Nat /\ run.attempts \in Seq(AttemptState) /\ Current = Len(run.attempts)
        /\ Current > 0
    BY AttemptTyped DEF RatchetInv, Active
  <1>2. Current' = Current
    BY <1>1 DEF Current
  <1>3. \A i \in 1..Current: i # Current => run'.attempts[i] = run.attempts[i]
    BY <1>1
  <1>4. run'.attempts[Current].status # "kept" /\ run.attempts[Current].status # "kept"
    BY <1>1 DEF Active, Terminal
  <1>5. Kept' = Kept /\ \A i \in Kept: i # Current
    BY <1>1, <1>2, <1>3, <1>4 DEF Kept
  <1>6. \A i \in Kept: run'.attempts[i] = run.attempts[i]
    BY <1>3, <1>5 DEF Kept
  <1>7. QED
    BY <1>5, <1>6 DEF RatchetInv, OnlyImproves

(* A step that replaces the current attempt, in terms of its fields.        *)
LEMMA RevisedFields ==
  ASSUME RatchetTyped, Active, NEW a \in AttemptState
  PROVE  /\ Revised(a) \in RunState
         /\ Revised(a).attempts = [run.attempts EXCEPT ![Current] = a]
         /\ Len(Revised(a).attempts) = Current
         /\ Revised(a).attempts[Current] = a
         /\ \A i \in 1..Current: i # Current => Revised(a).attempts[i] = run.attempts[i]
         /\ Revised(a).status = run.status /\ Revised(a).usage = run.usage
         /\ Revised(a).score = run.score /\ Revised(a).accepted = run.accepted
  <1>1. /\ Current \in 1..Len(run.attempts) /\ run.attempts \in Seq(AttemptState)
        /\ Current = Len(run.attempts)
    BY AttemptTyped DEF Active
  <1>2. run \in RunState
    BY DEF RatchetTyped
  <1>3. Revised(a) = [run EXCEPT !.attempts = [run.attempts EXCEPT ![Current] = a]]
    BY <1>2 DEF Revised, RunState
  <1>4. /\ [run.attempts EXCEPT ![Current] = a] \in Seq(AttemptState)
        /\ Len([run.attempts EXCEPT ![Current] = a]) = Current
        /\ [run.attempts EXCEPT ![Current] = a][Current] = a
        /\ \A i \in 1..Current: i # Current =>
             [run.attempts EXCEPT ![Current] = a][i] = run.attempts[i]
    BY <1>1
  <1>5. QED
    BY <1>2, <1>3, <1>4 DEF RunState

(* An attempt under way that is revised is the last one, and what rests    *)
(* behind it stays.                                                        *)
LEMMA RevisedRests ==
  ASSUME RatchetInv, Active, NEW a \in AttemptState,
         run'.attempts = Revised(a).attempts
  PROVE  /\ Current' = Current /\ Attempt' = a
         /\ Active' <=> a.status \notin Terminal
         /\ \A i \in 1..Current: i # Current => run'.attempts[i].status \in Terminal
  <1>1. /\ Len(run'.attempts) = Current /\ run'.attempts[Current] = a
        /\ \A i \in 1..Current: i # Current => run'.attempts[i] = run.attempts[i]
    <2>1. RatchetTyped
      BY DEF RatchetInv
    <2>2. /\ Len(Revised(a).attempts) = Current
          /\ Revised(a).attempts[Current] = a
          /\ \A i \in 1..Current: i # Current => Revised(a).attempts[i] = run.attempts[i]
      BY <2>1, RevisedFields
    <2>3. QED
      BY <2>2
  <1>2. Current' = Current /\ Current > 0
    BY <1>1 DEF Current, Active
  <1>3. Attempt' = a
    BY <1>1, <1>2 DEF Attempt
  <1>4. Active' <=> a.status \notin Terminal
    BY <1>2, <1>3 DEF Active, Attempt
  <1>5. QED
    BY <1>1, <1>2, <1>3, <1>4 DEF RatchetInv, AttemptRests

(* The run goes on with the same attempts, its disk perhaps written.        *)
LEMMA BeginKeeps == RatchetInv /\ Begin => RatchetInv'
  <1> SUFFICES ASSUME RatchetInv, Begin PROVE RatchetInv'
    OBVIOUS
  <1>1. /\ run \in RunState /\ disk \in 0..MaxAttempts /\ alive \in BOOLEAN
        /\ run.attempts \in Seq(AttemptState) /\ Current = Len(run.attempts)
        /\ Current \in Nat /\ run.score \in Int /\ disk = run.accepted
    BY AttemptTyped DEF RatchetInv, RatchetTyped, RunState, AttemptRests, Begin
  <1>2. NewAttempt \in AttemptState
    BY <1>1 DEF NewAttempt, AttemptState
  <1>3. run' = [run EXCEPT !.attempts = Append(run.attempts, NewAttempt)]
    BY DEF Begin
  <1>4. /\ run'.attempts = Append(run.attempts, NewAttempt)
        /\ run'.score = run.score /\ run'.accepted = run.accepted
        /\ disk' = disk /\ alive' = alive
    BY <1>1, <1>3 DEF RunState, Begin
  <1>5. /\ run'.attempts \in Seq(AttemptState) /\ Len(run'.attempts) = Current + 1
        /\ run'.attempts[Current + 1] = NewAttempt
        /\ \A i \in 1..Current: run'.attempts[i] = run.attempts[i]
    BY <1>1, <1>2, <1>4
  <1>6. run' \in RunState
    BY <1>1, <1>3, <1>5 DEF RunState
  <1>7. Current' = Current + 1
    BY <1>5 DEF Current
  <1>8. RatchetTyped'
    BY <1>1, <1>4, <1>6, <1>7, RatchetAssumption DEF RatchetTyped, Begin
  <1>9. \A i \in 1..Current: run.attempts[i].status \in Terminal
    BY <1>1 DEF RatchetInv, AttemptRests, Begin, Active, Attempt
  <1>10. Attempt' = NewAttempt
    BY <1>5, <1>7 DEF Attempt
  <1>11. AttemptRests'
    <2>1. \A i \in 1..Current': i # Current' => run'.attempts[i].status \in Terminal
      BY <1>1, <1>5, <1>7, <1>9
    <2>2. Active'
      BY <1>1, <1>5, <1>7 DEF Active, NewAttempt, Terminal
    <2>3. QED
      BY <1>1, <1>4, <1>10, <2>1, <2>2 DEF AttemptRests, NewAttempt
  <1>12. Kept' = Kept
    <2>1. run'.attempts[Current + 1].status # "kept"
      BY <1>5 DEF NewAttempt
    <2>2. QED
      BY <1>1, <1>5, <1>7, <2>1 DEF Kept
  <1>13. \A i \in Kept: run'.attempts[i] = run.attempts[i]
    BY <1>5 DEF Kept
  <1>14. OnlyImproves'
    BY <1>4, <1>12, <1>13 DEF RatchetInv, OnlyImproves
  <1>15. QED
    BY <1>8, <1>11, <1>14 DEF RatchetInv

(* A revision of the current attempt that leaves score, accepted content    *)
(* and disk as they are, or restores the disk and ends the attempt.         *)
LEMMA RevisionKeeps ==
  ASSUME RatchetInv, Active, NEW a \in AttemptState, a.status # "kept",
         run' \in RunState, run'.attempts = Revised(a).attempts,
         run'.score = run.score, run'.accepted = run.accepted,
         a.before = Attempt.before, a.base = Attempt.base,
         a.decision = "keep" /\ a.status \notin Terminal => a.score > a.base,
         disk' \in 0..MaxAttempts, alive' \in BOOLEAN,
         a.status \in Terminal => disk' = run.accepted
  PROVE  RatchetInv'
  <1>1. /\ Current' = Current /\ Attempt' = a
        /\ Active' <=> a.status \notin Terminal
        /\ \A i \in 1..Current: i # Current => run'.attempts[i].status \in Terminal
    BY RevisedRests
  <1>2. RatchetTyped'
    BY <1>1 DEF RatchetInv, RatchetTyped
  <1>3. AttemptRests'
    BY <1>1 DEF RatchetInv, AttemptRests
  <1>4. run'.attempts = [run.attempts EXCEPT ![Current] = a]
    BY RevisedFields DEF RatchetInv
  <1>5. OnlyImproves'
    BY <1>4, ScoresStay
  <1>6. QED
    BY <1>2, <1>3, <1>5 DEF RatchetInv

LEMMA AttachKeeps == RatchetInv /\ Attach => RatchetInv'
  <1> SUFFICES ASSUME RatchetInv, Attach PROVE RatchetInv'
    OBVIOUS
  <1> DEFINE a == [Attempt EXCEPT !.artifact = TRUE]
  <1>1. Active /\ Attempt \in AttemptState /\ Attempt.status = "running"
    BY AttemptTyped DEF RatchetInv, Attach, InState, Active
  <1>2. /\ a \in AttemptState /\ a.status = "running" /\ a.before = Attempt.before
        /\ a.base = Attempt.base /\ a.decision = Attempt.decision /\ a.score = Attempt.score
    BY <1>1 DEF AttemptState
  <1>3. run' = Revised(a) /\ disk' = disk /\ alive' = alive
    BY DEF Attach
  <1> HIDE DEF a
  <1>4. /\ run' \in RunState /\ run'.attempts = Revised(a).attempts
        /\ run'.score = run.score /\ run'.accepted = run.accepted
    BY <1>1, <1>2, <1>3, RevisedFields DEF RatchetInv
  <1>5. a.decision = "keep" => a.score > a.base
    BY <1>1, <1>2 DEF RatchetInv, AttemptRests
  <1>6. disk' \in 0..MaxAttempts /\ alive' \in BOOLEAN /\ a.status \notin Terminal
    BY <1>2, <1>3 DEF RatchetInv, RatchetTyped, Terminal
  <1>7. QED
    BY <1>1, <1>2, <1>4, <1>5, <1>6, RevisionKeeps DEF Terminal

LEMMA EvaluateKeeps == RatchetInv /\ Evaluate => RatchetInv'
  <1> SUFFICES ASSUME RatchetInv, Evaluate PROVE RatchetInv'
    OBVIOUS
  <1>1. Active /\ Attempt \in AttemptState
    BY AttemptTyped DEF RatchetInv, Evaluate, InState, Active
  <1>2. \E a \in AttemptState:
          /\ run' = Revised(a) /\ a.status = "evaluated" /\ a.before = Attempt.before
          /\ a.base = Attempt.base /\ (a.decision = "keep" => a.score > a.base)
    <2>1. CASE \E s \in Scores:
                 run' = Revised([Attempt EXCEPT !.status = "evaluated", !.score = s,
                                   !.decision = IF s > Attempt.base THEN "keep" ELSE "revert"])
      <3>1. PICK s \in Scores:
                 run' = Revised([Attempt EXCEPT !.status = "evaluated", !.score = s,
                                   !.decision = IF s > Attempt.base THEN "keep" ELSE "revert"])
        BY <2>1
      <3> DEFINE a == [Attempt EXCEPT !.status = "evaluated", !.score = s,
                         !.decision = IF s > Attempt.base THEN "keep" ELSE "revert"]
      <3>2. s \in Int
        BY RatchetAssumption
      <3>3. /\ a \in AttemptState /\ a.status = "evaluated" /\ a.before = Attempt.before
            /\ a.base = Attempt.base /\ (a.decision = "keep" => a.score > a.base)
        BY <1>1, <3>2 DEF AttemptState
      <3>4. run' = Revised(a)
        BY <3>1
      <3> HIDE DEF a
      <3>5. QED
        BY <3>3, <3>4
    <2>2. CASE run' = Revised([Attempt EXCEPT !.status = "evaluated", !.decision = "revert"])
      <3> DEFINE a == [Attempt EXCEPT !.status = "evaluated", !.decision = "revert"]
      <3>1. /\ a \in AttemptState /\ a.status = "evaluated" /\ a.before = Attempt.before
            /\ a.base = Attempt.base /\ a.decision # "keep"
        BY <1>1 DEF AttemptState
      <3>2. run' = Revised(a)
        BY <2>2
      <3> HIDE DEF a
      <3>3. QED
        BY <3>1, <3>2
    <2>3. QED
      BY <2>1, <2>2 DEF Evaluate
  <1>3. PICK a \in AttemptState:
          /\ run' = Revised(a) /\ a.status = "evaluated" /\ a.before = Attempt.before
          /\ a.base = Attempt.base /\ (a.decision = "keep" => a.score > a.base)
    BY <1>2
  <1>4. /\ run' \in RunState /\ run'.attempts = Revised(a).attempts
        /\ run'.score = run.score /\ run'.accepted = run.accepted
    BY <1>1, <1>3, RevisedFields DEF RatchetInv
  <1>5. disk' \in 0..MaxAttempts /\ alive' \in BOOLEAN /\ a.status \notin Terminal
    BY <1>3 DEF RatchetInv, RatchetTyped, Terminal, Evaluate
  <1>6. QED
    BY <1>1, <1>3, <1>4, <1>5, RevisionKeeps DEF Terminal

(* A run that has had all its attempts stops, and nothing else of it changes. *)
LEMMA StoppedFields ==
  ASSUME NEW r \in RunState
  PROVE  /\ Stopped(r) \in RunState /\ Stopped(r).attempts = r.attempts
         /\ Stopped(r).score = r.score /\ Stopped(r).accepted = r.accepted
  BY DEF Stopped, RunState

LEMMA RevertKeeps == RatchetInv /\ Revert => RatchetInv'
  <1> SUFFICES ASSUME RatchetInv, Revert PROVE RatchetInv'
    OBVIOUS
  <1> DEFINE a == [Attempt EXCEPT !.status = "reverted"]
  <1>1. Active /\ Attempt \in AttemptState /\ disk = Attempt.before
    BY AttemptTyped DEF RatchetInv, Revert, InState, Active
  <1>2. /\ a \in AttemptState /\ a.status = "reverted" /\ a.before = Attempt.before
        /\ a.base = Attempt.base
    BY <1>1 DEF AttemptState, Terminal
  <1>3. run' = Stopped(Revised(a)) /\ disk' = disk /\ alive' = alive
    BY DEF Revert
  <1> HIDE DEF a
  <1>4. /\ run' \in RunState /\ run'.attempts = Revised(a).attempts
        /\ run'.score = run.score /\ run'.accepted = run.accepted
    BY <1>1, <1>2, <1>3, RevisedFields, StoppedFields DEF RatchetInv
  <1>5. disk' = run.accepted /\ a.status \in Terminal
    BY <1>1, <1>2, <1>3 DEF RatchetInv, AttemptRests, Terminal
  <1>6. disk' \in 0..MaxAttempts /\ alive' \in BOOLEAN
    BY <1>3 DEF RatchetInv, RatchetTyped
  <1>7. QED
    BY <1>1, <1>2, <1>4, <1>5, <1>6, RevisionKeeps DEF Terminal

LEMMA RecoverKeeps == RatchetInv /\ Recover => RatchetInv'
  <1> SUFFICES ASSUME RatchetInv, Recover PROVE RatchetInv'
    OBVIOUS
  <1>1. alive' = TRUE /\ disk' = Recovered
    BY DEF Recover
  <1>2. CASE ~Active
    <2>1. run' = run /\ disk' = disk
      BY <1>1, <1>2 DEF Recover, Recovered
    <2>2. QED
      BY <1>1, <2>1 DEF RatchetInv, RatchetTyped, AttemptRests, OnlyImproves,
                        Active, Attempt, Current, Kept
  <1>3. CASE Active
    <2> DEFINE a == [Attempt EXCEPT !.status = "recovered-reverted", !.decision = "revert"]
    <2>1. Attempt \in AttemptState
      BY <1>3, AttemptTyped DEF RatchetInv, Active
    <2>2. /\ a \in AttemptState /\ a.status = "recovered-reverted"
          /\ a.before = Attempt.before /\ a.base = Attempt.base
      BY <2>1 DEF AttemptState, Terminal
    <2>3. run' = [Revised(a) EXCEPT !.status = "running"]
      BY <1>3 DEF Recover
    <2> HIDE DEF a
    <2>4. Revised(a) \in RunState /\ Revised(a).score = run.score
          /\ Revised(a).accepted = run.accepted
      BY <1>3, <2>2, RevisedFields DEF RatchetInv
    <2>5. /\ run' \in RunState /\ run'.attempts = Revised(a).attempts
          /\ run'.score = run.score /\ run'.accepted = run.accepted
      BY <2>3, <2>4 DEF RunState
    <2>6. disk' = run.accepted /\ a.status \in Terminal
      BY <1>1, <1>3, <2>2 DEF RatchetInv, AttemptRests, Terminal, Recovered
    <2>7. disk' \in 0..MaxAttempts /\ alive' \in BOOLEAN
      BY <1>1, <2>6 DEF RatchetInv, RatchetTyped, RunState
    <2>8. QED
      BY <1>3, <2>2, <2>5, <2>6, <2>7, RevisionKeeps DEF Terminal
  <1>4. QED
    BY <1>2, <1>3

(* A kept attempt becomes the last one kept, above all before it.           *)
LEMMA KeepKeeps == RatchetInv /\ Keep => RatchetInv'
  <1> SUFFICES ASSUME RatchetInv, Keep PROVE RatchetInv'
    OBVIOUS
  <1> DEFINE a == [Attempt EXCEPT !.status = "kept"]
  <1>1. Active /\ Attempt \in AttemptState /\ Attempt.decision = "keep"
    BY AttemptTyped DEF RatchetInv, Keep, InState, Active
  <1>2. a \in AttemptState /\ a.status = "kept" /\ a.score = Attempt.score /\ a.score \in Int
    BY <1>1 DEF AttemptState, Terminal
  <1>3. a.score > run.score
    BY <1>1, <1>2 DEF RatchetInv, AttemptRests
  <1>4. /\ run' = Stopped([Revised(a) EXCEPT !.score = Attempt.score, !.accepted = disk])
        /\ disk' = disk /\ alive' = alive
    BY DEF Keep
  <1> HIDE DEF a
  <1>5. Revised(a) \in RunState
    BY <1>1, <1>2, RevisedFields DEF RatchetInv
  <1> DEFINE r == [Revised(a) EXCEPT !.score = Attempt.score, !.accepted = disk]
  <1>6. /\ r \in RunState /\ r.attempts = Revised(a).attempts
        /\ r.score = a.score /\ r.accepted = disk
    BY <1>2, <1>5 DEF RunState, RatchetInv, RatchetTyped
  <1>7. run' = Stopped(r)
    BY <1>4
  <1> HIDE DEF r
  <1>8. /\ run' \in RunState /\ run'.attempts = Revised(a).attempts
        /\ run'.score = a.score /\ run'.accepted = disk
    BY <1>6, <1>7, StoppedFields
  <1>9. /\ Current' = Current /\ Attempt' = a /\ ~Active'
        /\ \A i \in 1..Current: i # Current => run'.attempts[i].status \in Terminal
    BY <1>1, <1>2, <1>8, RevisedRests DEF Terminal
  <1>10. RatchetTyped'
    BY <1>4, <1>8, <1>9 DEF RatchetInv, RatchetTyped
  <1>11. AttemptRests'
    BY <1>4, <1>8, <1>9 DEF AttemptRests
  <1>12. /\ Current \in Nat /\ Current > 0 /\ Current = Len(run.attempts)
         /\ run'.attempts[Current] = a
         /\ \A i \in 1..Current: i # Current => run'.attempts[i] = run.attempts[i]
    <2>1. Current \in Nat /\ Current > 0 /\ Current = Len(run.attempts)
      BY <1>1, AttemptTyped DEF RatchetInv, Active
    <2>2. /\ Revised(a).attempts[Current] = a
          /\ \A i \in 1..Current: i # Current => Revised(a).attempts[i] = run.attempts[i]
      BY <1>1, <1>2, RevisedFields DEF RatchetInv
    <2>3. QED
      BY <1>8, <2>1, <2>2
  <1>13. Kept' = Kept \cup {Current}
    BY <1>2, <1>9, <1>12 DEF Kept
  <1>14. /\ Current \notin Kept
         /\ \A i \in Kept: i < Current /\ run'.attempts[i] = run.attempts[i]
    <2>1. Current \notin Kept
      BY <1>1, <1>12 DEF Kept, Active, Attempt, Terminal
    <2>2. ASSUME NEW i \in Kept PROVE i < Current /\ run'.attempts[i] = run.attempts[i]
      <3>1. i \in 1..Current /\ i # Current
        BY <2>1 DEF Kept
      <3>2. QED
        BY <1>12, <3>1
    <2>3. QED
      BY <2>1, <2>2
  <1>15. /\ run.score \in Int /\ run.score >= Baseline
         /\ \A i \in Kept: i \in 1..Current /\ run.attempts[i].score \in Int
                           /\ run.attempts[i].score <= run.score
    BY KeptScores DEF RatchetInv
  <1>16. \A i \in Kept: run'.attempts[i].score < a.score /\ run'.attempts[i].score > Baseline
    BY <1>2, <1>3, <1>14, <1>15 DEF RatchetInv, OnlyImproves
  <1>17. a.score > Baseline
    BY <1>2, <1>3, <1>15, RatchetAssumption
  <1>18. OnlyImproves'
    <2>1. \A i \in Kept': run'.attempts[i].score > Baseline
      BY <1>12, <1>13, <1>16, <1>17
    <2>2. ASSUME NEW i \in Kept', NEW j \in Kept', i < j
          PROVE  run'.attempts[i].score < run'.attempts[j].score
      <3>1. i \in Kept
        <4>1. Kept \subseteq 1..Current
          BY DEF Kept
        <4>2. i \in Int /\ j \in Int /\ j <= Current
          BY <1>12, <1>13, <4>1
        <4>3. i # Current
          BY <1>12, <2>2, <4>2
        <4>4. QED
          BY <1>13, <4>3
      <3>2. CASE j = Current
        BY <1>12, <1>16, <3>1, <3>2
      <3>3. CASE j # Current
        <4>1. j \in Kept
          BY <1>13, <3>3
        <4>2. run.attempts[i].score < run.attempts[j].score
          BY <2>2, <3>1, <4>1 DEF RatchetInv, OnlyImproves
        <4>3. QED
          BY <1>14, <3>1, <4>1, <4>2
      <3>4. QED
        BY <3>2, <3>3
    <2>3. \A j \in Kept': j <= Current
      BY <1>12, <1>13, <1>14, <1>15
    <2>4. Current \in Kept' /\ run'.score = run'.attempts[Current].score
      BY <1>8, <1>12, <1>13
    <2>5. QED
      BY <2>1, <2>2, <2>3, <2>4 DEF OnlyImproves
  <1>19. QED
    BY <1>10, <1>11, <1>18 DEF RatchetInv

(* Steps that leave the attempts of the run alone.                         *)
LEMMA OthersKeep ==
  RatchetInv /\ (WriteCandidate \/ Restore \/ Use \/ Crash \/ UNCHANGED ratchetVars)
    => RatchetInv'
  <1> SUFFICES ASSUME RatchetInv, WriteCandidate \/ Restore \/ Use \/ Crash \/ UNCHANGED ratchetVars
               PROVE RatchetInv'
    OBVIOUS
  <1>1. /\ run' \in RunState /\ run'.attempts = run.attempts /\ run'.score = run.score
        /\ run'.accepted = run.accepted /\ alive' \in BOOLEAN
    <2>1. run \in RunState /\ alive \in BOOLEAN
      BY DEF RatchetInv, RatchetTyped
    <2>2. CASE Use
      <3>1. run.usage \in 0..(MaxUsage + 1) /\ run.usage <= MaxUsage
        BY <2>1, <2>2 DEF Use, RunState
      <3>2. run.usage + 1 \in 0..(MaxUsage + 1)
        BY <3>1, RatchetAssumption
      <3>3. QED
        BY <2>1, <2>2, <3>2 DEF Use, RunState
    <2>3. CASE run' = run /\ alive' \in BOOLEAN
      BY <2>1, <2>3
    <2>4. QED
      BY <2>1, <2>2, <2>3 DEF WriteCandidate, Restore, Crash, ratchetVars
  <1>2. Current' = Current /\ Attempt' = Attempt /\ (Active' <=> Active) /\ Kept' = Kept
    BY <1>1 DEF Current, Attempt, Active, Kept
  <1>3. disk' \in 0..MaxAttempts /\ (~Active => disk' = disk)
    <2>1. disk \in 0..MaxAttempts
      BY DEF RatchetInv, RatchetTyped
    <2>2. CASE WriteCandidate
      BY <2>2, AttemptTyped DEF WriteCandidate, InState, RatchetInv
    <2>3. CASE Restore
      BY <2>3, AttemptTyped DEF Restore, InState, RatchetInv, Active, AttemptState
    <2>4. CASE disk' = disk
      BY <2>1, <2>4
    <2>5. QED
      BY <2>2, <2>3, <2>4 DEF Use, Crash, ratchetVars
  <1>4. RatchetTyped'
    BY <1>1, <1>2, <1>3 DEF RatchetInv, RatchetTyped
  <1>5. AttemptRests'
    BY <1>1, <1>2, <1>3 DEF RatchetInv, AttemptRests
  <1>6. OnlyImproves'
    BY <1>1, <1>2 DEF RatchetInv, OnlyImproves
  <1>7. QED
    BY <1>4, <1>5, <1>6 DEF RatchetInv

LEMMA RatchetInvariance == RatchetSpec => []RatchetInv
  <1>1. RatchetInit => RatchetInv
    <2> SUFFICES ASSUME RatchetInit PROVE RatchetInv
      OBVIOUS
    <2>1. /\ run = [status |-> "running", attempts |-> <<>>, usage |-> 0,
                    score |-> Baseline, accepted |-> 0]
          /\ disk = 0 /\ alive = TRUE
      BY DEF RatchetInit
    <2>2. run.attempts = <<>> /\ Current = 0 /\ ~Active /\ Kept = {}
      BY <2>1 DEF Current, Active, Kept
    <2>3. run \in RunState
      BY <2>1, RatchetAssumption DEF RunState
    <2>4. QED
      BY <2>1, <2>2, <2>3, RatchetAssumption
         DEF RatchetInv, RatchetTyped, AttemptRests, OnlyImproves
  <1>2. RatchetInv /\ [RatchetNext]_ratchetVars => RatchetInv'
    BY BeginKeeps, AttachKeeps, EvaluateKeeps, RevertKeeps, RecoverKeeps, KeepKeeps, OthersKeep
       DEF RatchetNext
  <1>3. QED
    BY <1>1, <1>2, PTL DEF RatchetSpec

(* The stored run, the workspace and the process of a ratchet run are well *)
(* formed (ratchet-engine.mjs).                                            *)
THEOREM RatchetIsTyped == RatchetSpec => []RatchetTypeOK
  <1>1. RatchetInv => RatchetTypeOK
    BY DEF RatchetInv, RatchetTyped, RatchetTypeOK, RunState
  <1>2. QED
    BY <1>1, RatchetInvariance, PTL

(* For any scores and number of attempts, through crashes at any step:      *)
(* between attempts the workspace is what was last accepted, and only an    *)
(* improvement over it is (finalizeAttempt, recoverInterruptedRun).         *)
THEOREM RatchetHolds == RatchetSpec => []RatchetSound
  <1>1. RatchetInv => RatchetSound
    BY DEF RatchetInv, AttemptRests, RatchetSound, WorkspaceIsAccepted
  <1>2. QED
    BY <1>1, RatchetInvariance, PTL

-----------------------------------------------------------------------------
(* Induction over the numbers up to n, for the members of a set.            *)
Less == OpToRel(<, Nat)

LEMMA LessIs == \A x, y \in Nat: <<x, y>> \in Less <=> x < y
  BY DEF Less, OpToRel

LEMMA UpTo ==
  ASSUME NEW n \in Nat, NEW P, 0 \in P, \A k \in 1..n: k - 1 \in P => k \in P
  PROVE  \A k \in 0..n: k \in P
  <1> DEFINE Rest == {k \in 0..n: k \notin P}
  <1> SUFFICES ASSUME Rest # {} PROVE FALSE
    OBVIOUS
  <1>1. IsWellFoundedOn(Less, Nat)
    BY NatLessThanWellFounded DEF Less
  <1>2. Rest \subseteq Nat
    OBVIOUS
  <1>3. PICK k \in Rest: \A y \in Rest: ~(<<y, k>> \in Less)
    BY <1>1, <1>2, WFMin
  <1>4. k \in 1..n
    BY <1>3
  <1>5. k - 1 \in 0..n /\ k - 1 < k /\ k \in Nat /\ k - 1 \in Nat
    BY <1>4
  <1>6. <<k - 1, k>> \in Less
    BY <1>5, LessIs, Zenon
  <1>7. k - 1 \in P
    BY <1>3, <1>5, <1>6
  <1>8. QED
    BY <1>3, <1>4, <1>7

(* A set can be built step by step.                                         *)
Steps(n, S, G) == G \in [(1..n) \X SUBSET S -> SUBSET S]
Builds(n, S, G, f) == /\ f \in [0..n -> SUBSET S]
                      /\ f[0] = {} /\ \A k \in 1..n: f[k] = G[<<k, f[k - 1]>>]

LEMMA BuiltUp ==
  ASSUME NEW n \in Nat, NEW S, NEW G, Steps(n, S, G)
  PROVE  \E f: Builds(n, S, G, f)
  <1> USE DEF Steps, Builds
  <1> DEFINE Reached(m) == \E f \in [0..m -> SUBSET S]:
                             f[0] = {} /\ \A k \in 1..m: f[k] = G[<<k, f[k - 1]>>]
             P == {m \in 0..n: Reached(m)}
  <1>1. 0 \in P
    <2> DEFINE z == [x \in 0..0 |-> {}]
    <2>1. z \in [0..0 -> SUBSET S] /\ z[0] = {} /\ \A k \in 1..0: FALSE
      OBVIOUS
    <2> HIDE DEF z
    <2>2. Reached(0)
      BY <2>1
    <2>3. QED
      BY <2>2
  <1>2. ASSUME NEW m \in 1..n, m - 1 \in P PROVE m \in P
    <2>1. PICK f \in [0..(m - 1) -> SUBSET S]:
            f[0] = {} /\ \A k \in 1..(m - 1): f[k] = G[<<k, f[k - 1]>>]
      BY <1>2
    <2> DEFINE g == [k \in 0..m |-> IF k = m THEN G[<<m, f[m - 1]>>] ELSE f[k]]
    <2>2. m - 1 \in 0..(m - 1) /\ f[m - 1] \in SUBSET S /\ m \in Nat
      BY <2>1
    <2>3. G[<<m, f[m - 1]>>] \in SUBSET S
      BY <2>2
    <2>4. \A k \in 0..m: k # m => k \in 0..(m - 1)
      BY <2>2
    <2>5. g \in [0..m -> SUBSET S]
      BY <2>1, <2>3, <2>4
    <2>6. g[0] = {}
      BY <2>1, <2>2
    <2>7. \A k \in 1..m: g[k] = G[<<k, g[k - 1]>>]
      <3> SUFFICES ASSUME NEW k \in 1..m PROVE g[k] = G[<<k, g[k - 1]>>]
        OBVIOUS
      <3>1. k - 1 \in 0..m /\ k - 1 # m /\ k \in 0..m
        BY <2>2
      <3>2. g[k - 1] = f[k - 1]
        BY <3>1
      <3>3. CASE k = m
        BY <3>1, <3>2, <3>3
      <3>4. CASE k # m
        <4>1. k \in 1..(m - 1)
          BY <2>2, <3>4
        <4>2. g[k] = f[k]
          BY <3>1, <3>4
        <4>3. QED
          BY <2>1, <3>2, <4>1, <4>2
      <3>5. QED
        BY <3>3, <3>4
    <2> HIDE DEF g
    <2>8. Reached(m)
      BY <2>5, <2>6, <2>7
    <2>9. QED
      BY <2>8
  <1> HIDE DEF P
  <1>3. n \in P
    BY <1>1, <1>2, UpTo
  <1>4. QED
    BY <1>3 DEF P

-----------------------------------------------------------------------------
(* What the layout of a wave and the layers of a plan compute.              *)

LEMMA TasksAre ==
  \E n \in Nat \ {0}: /\ Tasks = 1..n /\ Max(Tasks) = n /\ Cardinality(Tasks) = n
                      /\ IsFiniteSet(Tasks)
  <1> DEFINE n == Cardinality(Tasks)
  <1>1. n \in Nat \ {0} /\ Tasks = 1..n
    BY PlanAssumption, FS_CardinalityType, FS_EmptySet
  <1> HIDE DEF n
  <1>2. IsFiniteSet(Tasks) /\ Cardinality(Tasks) = n
    BY PlanAssumption DEF n
  <1>3. n \in Tasks /\ \A y \in Tasks: n >= y
    BY <1>1
  <1>4. \A x \in Tasks: (\A y \in Tasks: x >= y) => x = n
    BY <1>1, <1>3
  <1>5. Max(Tasks) = n
    BY <1>3, <1>4 DEF Max
  <1>6. QED
    BY <1>1, <1>2, <1>5

LEMMA ShallowIs ==
  ASSUME NEW deps \in [Tasks -> SUBSET Tasks]
  PROVE  /\ Shallow(deps)[0] = {}
         /\ \A k \in 1..Cardinality(Tasks):
              Shallow(deps)[k] = {t \in Tasks: deps[t] \subseteq Shallow(deps)[k - 1]}
  <1> DEFINE n == Cardinality(Tasks)
             G == [p \in (1..n) \X SUBSET Tasks |-> {t \in Tasks: deps[t] \subseteq p[2]}]
             Is(f) == f = [k \in 0..n |-> IF k = 0 THEN {}
                                           ELSE {t \in Tasks: deps[t] \subseteq f[k - 1]}]
  <1>1. n \in Nat
    BY TasksAre
  <1>2. Shallow(deps) = CHOOSE f: Is(f)
    BY DEF Shallow
  <1> HIDE DEF n
  <1>3. Steps(n, Tasks, G)
    BY DEF Steps
  <1>4. PICK f: Builds(n, Tasks, G, f)
    <2> HIDE DEF G
    <2>1. QED
      BY <1>1, <1>3, BuiltUp
  <1>5. ASSUME NEW k \in 1..n PROVE f[k] = {t \in Tasks: deps[t] \subseteq f[k - 1]}
    <2>1. k - 1 \in 0..n
      BY <1>1
    <2>2. <<k, f[k - 1]>> \in (1..n) \X SUBSET Tasks
      BY <1>4, <2>1 DEF Builds
    <2>3. QED
      BY <1>4, <2>2 DEF Builds
  <1>6. Is(f)
    BY <1>1, <1>4, <1>5 DEF Builds
  <1> HIDE DEF Is
  <1>7. Is(Shallow(deps))
    BY <1>2, <1>6
  <1>8. /\ Shallow(deps)[0] = {}
        /\ \A k \in 1..n: Shallow(deps)[k] = {t \in Tasks: deps[t] \subseteq Shallow(deps)[k - 1]}
    <2> DEFINE g == Shallow(deps)
    <2>1. g = [k \in 0..n |-> IF k = 0 THEN {} ELSE {t \in Tasks: deps[t] \subseteq g[k - 1]}]
      BY <1>7 DEF Is
    <2> HIDE DEF g
    <2>2. g[0] = {}
      BY <1>1, <2>1
    <2>3. ASSUME NEW k \in 1..n PROVE g[k] = {t \in Tasks: deps[t] \subseteq g[k - 1]}
      <3>1. k \in 0..n /\ k # 0
        BY <1>1
      <3>2. QED
        BY <2>1, <3>1
    <2>4. QED
      BY <2>2, <2>3 DEF g
  <1>9. QED
    BY <1>8 DEF n

LEMMA TookIs ==
  /\ Took[0] = {}
  /\ \A t \in 1..Max(Tasks):
       Took[t] = IF MayJoin(t, Took[t - 1]) THEN Took[t - 1] \cup {t} ELSE Took[t - 1]
  <1> DEFINE n == Max(Tasks)
             Step(t, wave) == IF MayJoin(t, wave) THEN wave \cup {t} ELSE wave
             G == [p \in (1..n) \X SUBSET Tasks |-> Step(p[1], p[2])]
             Is(f) == f = [t \in 0..n |-> IF t = 0 THEN {} ELSE Step(t, f[t - 1])]
  <1>1. n \in Nat /\ Tasks = 1..n
    BY TasksAre
  <1>2. Took = CHOOSE f: Is(f)
    BY DEF Took
  <1> HIDE DEF n
  <1>3. Steps(n, Tasks, G)
    BY <1>1 DEF Steps
  <1>4. PICK f: Builds(n, Tasks, G, f)
    <2> HIDE DEF G
    <2>1. QED
      BY <1>1, <1>3, BuiltUp
  <1>5. ASSUME NEW k \in 1..n PROVE f[k] = Step(k, f[k - 1])
    <2> HIDE DEF Step
    <2>1. k - 1 \in 0..n
      BY <1>1
    <2>2. <<k, f[k - 1]>> \in (1..n) \X SUBSET Tasks
      BY <1>4, <2>1 DEF Builds
    <2>3. QED
      BY <1>4, <2>2 DEF Builds
  <1>6. Is(f)
    <2> HIDE DEF Step
    <2>1. QED
      BY <1>1, <1>4, <1>5 DEF Builds
  <1> HIDE DEF Is
  <1>7. Is(Took)
    BY <1>2, <1>6
  <1>8. /\ Took[0] = {}
        /\ \A t \in 1..n: Took[t] = Step(t, Took[t - 1])
    <2> HIDE DEF Step
    <2>1. Took = [t \in 0..n |-> IF t = 0 THEN {} ELSE Step(t, Took[t - 1])]
      BY <1>7 DEF Is
    <2>2. Took[0] = {}
      BY <1>1, <2>1
    <2>3. ASSUME NEW t \in 1..n PROVE Took[t] = Step(t, Took[t - 1])
      <3>1. t \in 0..n /\ t # 0
        BY <1>1
      <3>2. QED
        BY <2>1, <3>1
    <2>4. QED
      BY <2>2, <2>3
  <1>9. QED
    BY <1>8 DEF n

-----------------------------------------------------------------------------
(* Waves that can run.                                                      *)

\* A wave laid out as far as task t.
Runnable(t, wave) ==
  /\ wave \subseteq Ready /\ wave \subseteq 1..t
  /\ IsFiniteSet(wave) /\ Cardinality(wave) <= MaxWorkers
  /\ RejectsOverlap => \A a, b \in wave: a # b => writes[a] \cap writes[b] = {}
  /\ Ready \cap (1..t) # {} => wave # {}

(* Taking the ready tasks in order gives a runnable wave, whatever the plan  *)
(* and whatever has been laid out.                                          *)
LEMMA WaveRunnable ==
  /\ Wave \subseteq Ready
  /\ Cardinality(Wave) <= MaxWorkers
  /\ RejectsOverlap => \A a, b \in Wave: a # b => writes[a] \cap writes[b] = {}
  /\ Ready # {} => Wave # {}
  <1>1. PICK n \in Nat \ {0}: Tasks = 1..n /\ Max(Tasks) = n
    BY TasksAre
  <1> DEFINE P == {t \in 0..n: Runnable(t, Took[t])}
  <1>2. 0 \in P
    <2>1. IsFiniteSet({}) /\ Cardinality({}) = 0
      BY FS_EmptySet
    <2>2. Runnable(0, {})
      BY <2>1, PlanAssumption DEF Runnable
    <2>3. QED
      BY <1>1, <2>2, TookIs
  <1>3. ASSUME NEW t \in 1..n, t - 1 \in P PROVE t \in P
    <2> DEFINE w == Took[t - 1]
    <2>1. Runnable(t - 1, w)
      BY <1>3
    <2>2. Took[t] = IF MayJoin(t, w) THEN w \cup {t} ELSE w
      BY <1>1, TookIs
    <2>3. t \in Nat /\ t # 0 /\ 1..t = 1..(t - 1) \cup {t} /\ t \notin 1..(t - 1)
      OBVIOUS
    <2> HIDE DEF w
    <2>4. CASE MayJoin(t, w)
      <3>1. t \notin w /\ IsFiniteSet(w)
        BY <2>1, <2>3 DEF Runnable
      <3>2. /\ IsFiniteSet(w \cup {t}) /\ Cardinality(w \cup {t}) = Cardinality(w) + 1
            /\ Cardinality(w) \in Nat
        BY <3>1, FS_AddElement, FS_CardinalityType
      <3>3. Cardinality(w \cup {t}) <= MaxWorkers
        BY <2>4, <3>2, PlanAssumption DEF MayJoin
      <3>4. w \cup {t} \subseteq Ready /\ w \cup {t} \subseteq 1..t
        BY <2>1, <2>3, <2>4 DEF Runnable, MayJoin
      <3>5. RejectsOverlap => \A a, b \in w \cup {t}: a # b => writes[a] \cap writes[b] = {}
        <4>1. RejectsOverlap => \A u \in w: writes[t] \cap writes[u] = {}
          BY <2>4 DEF MayJoin, Conflicts
        <4>2. QED
          BY <4>1, <2>1 DEF Runnable
      <3>6. Runnable(t, w \cup {t})
        BY <3>2, <3>3, <3>4, <3>5 DEF Runnable
      <3>7. QED
        BY <2>2, <2>4, <3>6
    <2>5. CASE ~MayJoin(t, w)
      <3>1. Ready \cap (1..t) # {} => w # {}
        <4> SUFFICES ASSUME w = {}, Ready \cap (1..t) # {} PROVE FALSE
          OBVIOUS
        <4>1. Ready \cap (1..(t - 1)) = {}
          BY <2>1 DEF Runnable
        <4>2. t \in Ready
          BY <4>1, <2>3
        <4>3. Cardinality(w) < MaxWorkers /\ ~Conflicts(t, w)
          BY FS_EmptySet, PlanAssumption DEF Conflicts
        <4>4. QED
          BY <2>5, <4>2, <4>3 DEF MayJoin
      <3>2. Runnable(t, w)
        BY <2>1, <2>3, <3>1 DEF Runnable
      <3>3. QED
        BY <2>2, <2>5, <3>2
    <2>6. QED
      BY <2>4, <2>5
  <1> HIDE DEF P
  <1>4. n \in P
    <2>1. n \in Nat /\ \A k \in 0..n: k \in P
      BY <1>2, <1>3, UpTo
    <2>2. QED
      BY <2>1
  <1>5. Runnable(n, Took[n]) /\ Wave = Took[n]
    BY <1>1, <1>4 DEF P, Wave
  <1>6. Ready \cap (1..n) = Ready
    BY <1>1 DEF Ready, Pending
  <1>7. QED
    BY <1>5, <1>6 DEF Runnable

(* In a plan without a cycle something can always be started: of the tasks   *)
(* not done, the shallowest waits for none of the others.                    *)
LEMMA SomethingReady ==
  ASSUME NEW deps \in Plans, NEW done, Tasks \ done # {}
  PROVE  \E t \in Tasks \ done: deps[t] \subseteq done
  <1> SUFFICES ASSUME \A t \in Tasks \ done: ~(deps[t] \subseteq done) PROVE FALSE
    OBVIOUS
  <1> DEFINE n == Cardinality(Tasks)
             layer(k) == Shallow(deps)[k]
             P == {k \in 0..n: layer(k) \subseteq done}
  <1>1. n \in Nat
    BY TasksAre
  <1>2. deps \in [Tasks -> SUBSET Tasks] /\ layer(n) = Tasks
    BY DEF Plans, Acyclic
  <1>3. /\ layer(0) = {}
        /\ \A k \in 1..n: layer(k) = {t \in Tasks: deps[t] \subseteq layer(k - 1)}
    BY <1>2, ShallowIs
  <1> HIDE DEF layer, n
  <1>4. 0 \in P
    BY <1>1, <1>3
  <1>5. ASSUME NEW k \in 1..n, k - 1 \in P PROVE k \in P
    <2>1. layer(k - 1) \subseteq done /\ k \in 0..n
      BY <1>1, <1>5
    <2>2. ASSUME NEW t \in layer(k), t \notin done PROVE FALSE
      <3>1. t \in Tasks /\ deps[t] \subseteq layer(k - 1)
        BY <1>3, <2>2
      <3>2. QED
        BY <2>1, <2>2, <3>1
    <2>3. QED
      BY <2>1, <2>2
  <1> HIDE DEF P
  <1>6. n \in P
    <2>1. \A k \in 0..n: k \in P
      BY <1>1, <1>4, <1>5, UpTo
    <2>2. QED
      BY <1>1, <2>1
  <1>7. QED
    BY <1>2, <1>6 DEF P

\* What every state of a plan is: the plan has no cycle, its waves can run.
PlanInv == /\ dependsOn \in Plans /\ writes \in [Tasks -> SUBSET Paths]
           /\ PlanTypeOK /\ WavesRunnable

LEMMA PlanStep ==
  ASSUME PlanInv, [PlanNext]_planVars
  PROVE  PlanInv'
  <1> USE DEF PlanInv, PlanTypeOK
  <1>1. CASE LayOut
    <2> DEFINE n == Len(waves)
    <2>1. /\ waves' = Append(waves, Wave)
          /\ dependsOn' = dependsOn /\ writes' = writes /\ verdict' = verdict
      BY <1>1 DEF LayOut
    <2>2. Pending # {} /\ Ready # {}
      BY <1>1 DEF LayOut, WavesRunnable
    <2>3. /\ Wave \subseteq Ready /\ Wave # {} /\ Cardinality(Wave) <= MaxWorkers
          /\ RejectsOverlap => \A a, b \in Wave: a # b => writes[a] \cap writes[b] = {}
      BY <2>2, WaveRunnable
    <2>4. Wave \subseteq Tasks
      BY <2>3 DEF Ready, Pending
    <2> HIDE DEF n
    <2>5. /\ n \in Nat /\ Len(waves') = n + 1
          /\ waves'[n + 1] = Wave /\ \A i \in 1..n: waves'[i] = waves[i]
      BY <2>1, <2>4 DEF n
    <2>6. waves' \in Seq(SUBSET Tasks)
      BY <2>1, <2>4
    <2>7. Completed = UNION {waves[j]: j \in 1..n}
      BY DEF Completed, n
    <2>8. ASSUME NEW i \in 1..n
          PROVE  /\ waves'[i] # {} /\ Cardinality(waves'[i]) <= MaxWorkers
                 /\ \A t \in waves'[i]:
                      dependsOn'[t] \subseteq UNION {waves'[j] : j \in 1..(i - 1)}
                 /\ RejectsOverlap =>
                      \A t, u \in waves'[i]: t # u => writes'[t] \cap writes'[u] = {}
                 /\ \A j \in 1..(i - 1): waves'[i] \cap waves'[j] = {}
      <3>1. \A j \in 1..(i - 1): j \in 1..n
        BY <2>5
      <3>2. {waves'[j] : j \in 1..(i - 1)} = {waves[j] : j \in 1..(i - 1)}
        BY <2>5, <3>1
      <3>3. QED
        BY <2>1, <2>5, <3>1, <3>2 DEF WavesRunnable, n
    <2>9. /\ waves'[n + 1] # {} /\ Cardinality(waves'[n + 1]) <= MaxWorkers
          /\ \A t \in waves'[n + 1]:
               dependsOn'[t] \subseteq UNION {waves'[j] : j \in 1..n}
          /\ RejectsOverlap =>
               \A t, u \in waves'[n + 1]: t # u => writes'[t] \cap writes'[u] = {}
          /\ \A j \in 1..n: waves'[n + 1] \cap waves'[j] = {}
      <3>1. {waves'[j] : j \in 1..n} = {waves[j] : j \in 1..n}
        BY <2>5
      <3>2. \A t \in Wave: dependsOn[t] \subseteq Completed /\ t \notin Completed
        BY <2>3 DEF Ready, Pending
      <3>3. \A j \in 1..n: Wave \cap waves[j] = {}
        BY <2>7, <3>2
      <3>4. QED
        BY <2>1, <2>3, <2>5, <2>7, <3>1, <3>2, <3>3
    <2>10. Pending' # {} => Ready' # {}
      BY <2>1, SomethingReady DEF Pending, Ready
    <2>11. WavesRunnable'
      <3>1. \A i \in 1..(n + 1): i \in 1..n \/ (i = n + 1 /\ i - 1 = n)
        BY <2>5
      <3>2. QED
        BY <2>5, <2>8, <2>9, <2>10, <3>1 DEF WavesRunnable
    <2>12. QED
      BY <2>1, <2>6, <2>11
  <1>2. CASE Assess
    BY <1>2 DEF Assess, WavesRunnable, Pending, Ready, Completed
  <1>3. CASE UNCHANGED planVars
    BY <1>3 DEF planVars, WavesRunnable, Pending, Ready, Completed
  <1>4. QED
    BY <1>1, <1>2, <1>3 DEF PlanNext

LEMMA PlanInvariance == PlanSpec => []PlanInv
  <1>1. PlanInit => PlanInv
    <2> SUFFICES ASSUME PlanInit PROVE PlanInv
      OBVIOUS
    <2>1. waves = <<>> /\ Len(waves) = 0 /\ waves \in Seq(SUBSET Tasks)
      BY DEF PlanInit
    <2>2. Pending # {} => Ready # {}
      BY SomethingReady DEF PlanInit, Pending, Ready
    <2>3. QED
      BY <2>1, <2>2 DEF PlanInit, PlanInv, PlanTypeOK, WavesRunnable
  <1>2. QED
    BY <1>1, PlanStep, PTL DEF PlanSpec

(* The waves are sets of tasks and the verdict is one of the three.          *)
THEOREM PlanIsTyped == PlanSpec => []PlanTypeOK
  <1>1. PlanInv => PlanTypeOK
    BY DEF PlanInv
  <1>2. QED
    BY <1>1, PlanInvariance, PTL

(* The layout of multi-agent-engine.mjs ends and gives waves whose tasks can *)
(* run at once, whatever plan passes detectCycle.                            *)
THEOREM WavesHold == PlanSpec => []WavesRunnable
  <1>1. PlanInv => WavesRunnable
    BY DEF PlanInv
  <1>2. QED
    BY <1>1, PlanInvariance, PTL

-----------------------------------------------------------------------------
(* The suite the run checks: a step is one of the component it exercises   *)
(* and leaves the others as they are, so that each component of it behaves *)
(* as the component does alone.                                            *)
LEMMA SuiteSteps ==
  ASSUME [SuiteNext]_suiteVars
  PROVE  /\ [Next]_vars /\ [GateNext]_gateVars /\ [GraphNext]_graphVars
         /\ [RatchetNext]_ratchetVars /\ [PlanNext]_planVars
  <1>1. CASE OnlyCertification /\ Next
    BY <1>1 DEF OnlyCertification
  <1>2. CASE OnlyGate /\ GateNext
    BY <1>2 DEF OnlyGate
  <1>3. CASE OnlyMemory /\ GraphNext
    BY <1>3 DEF OnlyMemory
  <1>4. CASE OnlyRatchet /\ RatchetNext
    BY <1>4 DEF OnlyRatchet
  <1>5. CASE OnlyPlan /\ PlanNext
    BY <1>5 DEF OnlyPlan
  <1>6. CASE UNCHANGED suiteVars
    BY <1>6 DEF suiteVars
  <1>7. QED
    BY <1>1, <1>2, <1>3, <1>4, <1>5, <1>6
       DEF SuiteNext, Next, GateNext, GraphNext, RatchetNext, PlanNext

LEMMA SuiteIsEach ==
  SuiteSpec => Spec /\ GateSpec /\ GraphSpec /\ RatchetSpec /\ PlanSpec
  <1>1. SuiteInit => Init /\ GateInit /\ GraphInit /\ RatchetInit /\ PlanInit
    BY DEF SuiteInit
  <1>2. [SuiteNext]_suiteVars =>
          /\ [Next]_vars /\ [GateNext]_gateVars /\ [GraphNext]_graphVars
          /\ [RatchetNext]_ratchetVars /\ [PlanNext]_planVars
    BY SuiteSteps
  <1>3. QED
    BY <1>1, <1>2, PTL DEF SuiteSpec, Spec, GateSpec, GraphSpec, RatchetSpec, PlanSpec

(* Every component of the suite is well formed in all of its behaviours,   *)
(* whichever of them is exercised, where every caller of save names the    *)
(* revision it expects (delivery/graph, certification, ratchet, swarm).    *)
THEOREM SuiteIsTyped ==
  ASSUME Checks
  PROVE  SuiteSpec => []SuiteTypeOK
  <1>1. Spec => []TypeOK
    BY CertificationTyped
  <1>2. GateSpec => []GateTypeOK
    BY GateTyped
  <1>3. GraphSpec => []GraphTypeOK
    BY GraphTyped
  <1>4. RatchetSpec => []RatchetTypeOK
    BY RatchetIsTyped
  <1>5. PlanSpec => []PlanTypeOK
    BY PlanIsTyped
  <1>6. TypeOK /\ GateTypeOK /\ GraphTypeOK /\ RatchetTypeOK /\ PlanTypeOK
          => SuiteTypeOK
    BY DEF SuiteTypeOK
  <1>7. QED
    BY SuiteIsEach, <1>1, <1>2, <1>3, <1>4, <1>5, <1>6, PTL
=============================================================================
