--------------------------- MODULE Certification ---------------------------
(***************************************************************************)
(* Exact-SHA certification of the engineering system                       *)
(* (certification-engine.mjs and its command line): a candidate binds a    *)
(* commit to objects of the graph memory, a human approves the exact       *)
(* candidate, it is finalized against the current commit, and the bundle   *)
(* is verified and stored, each by a command of its own on files that may  *)
(* be edited in between, while the graph and the branch go on.             *)
(*                                                                         *)
(* A hash is the content it was taken of.  One slice and one objective; an *)
(* input that the gate, its approvals or an open risk block builds no      *)
(* candidate and is not enumerated.  Node types and statuses are fixed, as *)
(* nodes of the graph memory are immutable.                                *)
(***************************************************************************)
EXTENDS Naturals, FiniteSets

CONSTANTS
  Objective,
  Type,       \* type of each node: "Artifact", "Evaluation", "Evidence", ...
  Accepted,   \* nodes with a status of acceptedGraphStatuses
  Links,      \* edges the graph starts with, pairs of nodes
  NewLinks,   \* edges that may be appended to it
  Refs,       \* sets of nodes a candidate may name
  Floor,      \* least number of accepted nodes of each certified type
  MaxTraceHops,
  Shas,       \* commits the branch may be at
  Bundles,    \* bundle ids
  Editors,    \* bound: files may be edited between the commands
  MaxFiles,   \* bound: candidate, approval and certified files, each
  Far         \* distance of a node that is not linked within MaxTraceHops

Ids == DOMAIN Type

ASSUME CertificationAssumption ==
  /\ IsFiniteSet(Ids) /\ Objective \in Ids /\ Accepted \subseteq Ids
  /\ Links \cup NewLinks \subseteq Ids \X Ids
  /\ Refs \subseteq SUBSET Ids /\ MaxTraceHops \in Nat \ {0}
  /\ \A t \in DOMAIN Floor: Floor[t] \in Nat
  /\ Editors \in BOOLEAN /\ MaxFiles \in Nat /\ Far \notin Nat

VARIABLES
  links,      \* edges of the graph; every append raises its revision
  head,       \* commit of the branch
  context,    \* revision of the context pack last built
  candidates, \* candidate files
  approvals,  \* approval files
  certified,  \* certified bundle files
  store       \* state/certifications.json

vars == <<links, head, context, candidates, approvals, certified, store>>

Revision == Cardinality(links)

Init ==
  /\ links = Links /\ head \in Shas /\ context = Cardinality(Links)
  /\ candidates = {} /\ approvals = {} /\ certified = {} /\ store = {}
-----------------------------------------------------------------------------
Within(es, k) ==
  LET near[i \in 0..k] ==
        IF i = 0 THEN {Objective}
        ELSE LET last == near[i - 1]
             IN last \cup {n \in Ids: \E m \in last:
                             {<<m, n>>, <<n, m>>} \cap es # {}}
  IN near[k]

(* graphDistance from the objective, in edges taken in either direction    *)
Distance(es, n) ==
  IF n \notin Within(es, MaxTraceHops) THEN Far
  ELSE CHOOSE k \in 0..MaxTraceHops:
         n \in Within(es, k) /\ (k > 0 => n \notin Within(es, k - 1))

(* buildTraceSummary: what of it a later graph may change                  *)
Trace(es, refs) == [n \in refs |-> Distance(es, n)]

(* validateLinkedNodes, with the floor of each type                        *)
LinkedNodes(es, refs) ==
  \A t \in DOMAIN Floor:
    Cardinality({n \in refs: Type[n] = t /\ n \in Accepted
                             /\ Distance(es, n) # Far}) >= Floor[t]

(* (mutant) the revision that the next write will have *)
ContentAhead(b, refs) == [bundle |-> b, sha |-> head, rev |-> Revision + 1,
                          refs |-> refs, trace |-> Trace(links, refs)]

Content(b, refs) == [bundle |-> b, sha |-> head, rev |-> Revision,
                     refs |-> refs, trace |-> Trace(links, refs)]

(* buildCertificationCandidate: the context must be of this very revision. *)
Candidate(b, refs) ==
  /\ context = Revision
  /\ LinkedNodes(links, refs)
  /\ candidates' = candidates \cup
       {[content |-> Content(b, refs), hash |-> Content(b, refs)]}
  /\ Cardinality(candidates') <= MaxFiles
  /\ UNCHANGED <<links, head, context, approvals, certified, store>>

(* (mutant) a later graph revision is refused for a certified bundle too *)
VerifyCurrent(c, historical) ==
  /\ c.hash = c.content
  /\ LinkedNodes(links, c.content.refs)
  /\ c.content.rev = Revision
  /\ c.content.trace = Trace(links, c.content.refs)

(* verifyCertificationCandidate, on the snapshots the candidate carries    *)
Verify(c, historical) ==
  /\ c.hash = c.content
  /\ LinkedNodes(links, c.content.refs)
  /\ IF historical THEN c.content.rev <= Revision ELSE c.content.rev = Revision
  /\ c.content.trace = Trace(links, c.content.refs)

Approve(c, actor) ==
  /\ approvals' = approvals \cup
       {[actor |-> actor, sha |-> c.content.sha, hash |-> c.hash]}
  /\ Cardinality(approvals') <= MaxFiles
  /\ UNCHANGED <<links, head, context, candidates, certified, store>>

(* (mutant) the approval names the slice, not the commit or the hash *)
FinalApprovalOfSlice(a, c) == a.actor = "human"

(* validateFinalApproval *)
FinalApproval(a, c) ==
  /\ a.actor = "human" /\ a.sha = c.content.sha /\ a.hash = c.hash

(* finalizeCertification, given the current commit                         *)
Finalize(c, a) ==
  /\ c.content.sha = head
  /\ Verify(c, FALSE) /\ FinalApproval(a, c)
  /\ certified' = certified \cup
       {[content |-> c.content, hash |-> c.hash, approval |-> a,
         certifiedHash |-> <<c.content, c.hash, a>>]}
  /\ Cardinality(certified') <= MaxFiles
  /\ UNCHANGED <<links, head, context, candidates, approvals, store>>

VerifyBundle(b) ==
  /\ Verify(b, TRUE) /\ FinalApproval(b.approval, b)
  /\ b.certifiedHash = <<b.content, b.hash, b.approval>>

(* The command verifies the bundle, and appends it under the lock.         *)
AppendBundle(b) ==
  /\ VerifyBundle(b)
  /\ \A s \in store: /\ s.content.bundle # b.content.bundle
                     /\ s.content.sha # b.content.sha
  /\ store' = store \cup {b}
  /\ UNCHANGED <<links, head, context, candidates, approvals, certified>>

(* A file is edited: the commit or the references, not the hashes.         *)
Edited(f) ==
  {[f EXCEPT !.content.sha = s]: s \in Shas} \cup
  {[f EXCEPT !.content.refs = r]: r \in Refs}

Edit ==
  /\ Editors
  /\ \/ /\ \E c \in candidates: \E f \in Edited(c):
             candidates' = (candidates \ {c}) \cup {f}
        /\ UNCHANGED certified
     \/ /\ \E c \in certified: \E f \in Edited(c):
             certified' = (certified \ {c}) \cup {f}
        /\ UNCHANGED candidates
  /\ UNCHANGED <<links, head, context, approvals, store>>

AppendLink(e) ==
  /\ links' = links \cup {e}
  /\ UNCHANGED <<head, context, candidates, approvals, certified, store>>

BuildContext ==
  /\ context' = Revision
  /\ UNCHANGED <<links, head, candidates, approvals, certified, store>>

Commit(s) ==
  /\ head' = s
  /\ UNCHANGED <<links, context, candidates, approvals, certified, store>>

Next ==
  \/ \E b \in Bundles, refs \in Refs: Candidate(b, refs)
  \/ \E c \in candidates, actor \in {"human", "agent"}: Approve(c, actor)
  \/ \E c \in candidates, a \in approvals: Finalize(c, a)
  \/ \E b \in certified: AppendBundle(b)
  \/ \E e \in NewLinks: AppendLink(e)
  \/ \E s \in Shas: Commit(s)
  \/ Edit \/ BuildContext

Spec == Init /\ [][Next]_vars
-----------------------------------------------------------------------------
(* The state is well formed; what was certified is of the shape            *)
(* finalizeCertification gives it.                                         *)
TypeOK ==
  /\ links \subseteq Links \cup NewLinks /\ head \in Shas /\ context \in Nat
  /\ \A c \in candidates: c.content.sha \in Shas /\ c.hash.rev <= Revision
  /\ \A a \in approvals: a.actor \in {"human", "agent"}
  /\ \A b \in certified \cup store: b.approval \in approvals

(* A stored bundle is, field for field, what a human approval binds by its *)
(* commit and its hash, whatever was edited between the commands, and no   *)
(* commit has two.                                                         *)
StoredIsApproved ==
  /\ \A b \in store: \E a \in approvals:
       a.actor = "human" /\ a.hash = b.content /\ a.sha = b.content.sha
  /\ \A b, c \in store: b # c => b.content.sha # c.content.sha

(* VS-06, exit criterion 9: a stored certification goes on verifying when  *)
(* the graph grows, as its nodes cannot change.                            *)
HistoryStands == \A b \in store: VerifyBundle(b)
=============================================================================
