---------------------------- MODULE GraphMemory ----------------------------
(***************************************************************************)
(* The graph memory of the engineering system (graph-memory.mjs): nodes    *)
(* and SUPERSEDES edges in one JSON file, with a revision, written under a *)
(* lock file by processes that may die in between.  A writer either has    *)
(* the store apply an update to the file as it is, or loads a state,       *)
(* applies the update to it by itself, and has the store save the result.  *)
(*                                                                         *)
(* A node stands for its id and its content: a second content under one id *)
(* is refused as a "conflicting node rewrite".  Edges of other types only  *)
(* accumulate and are left out.                                            *)
(***************************************************************************)
EXTENDS Naturals, FiniteSets

CONSTANTS
  Nodes,         \* ids that may come to be written
  First,         \* nodes of the file at the start
  Writers,       \* processes
  AppendsEdges,  \* updates of append may carry SUPERSEDES edges of their own
  Checks,        \* callers of save pass expectedRevision
  MaxRevision,   \* bound: revisions
  MayDie,        \* writers may die with the lock in hand
  Written,       \* what a writer has seen once it has written
  None

State == [nodes: SUBSET Nodes, sup: SUBSET (Nodes \X Nodes),
          rev: 0..MaxRevision]

ASSUME GraphAssumption ==
  /\ First \subseteq Nodes /\ MaxRevision \in Nat
  /\ {AppendsEdges, Checks, MayDie} \subseteq BOOLEAN
  /\ None \notin Writers /\ {Written, None} \cap State = {}

VARIABLES
  file,   \* the graph: nodes, edges <<from, to>>, revision
  lock,   \* whose the lock file is
  seen,   \* what each lock holder loaded, None without the lock
  draft   \* state each writer made by itself, and the revision it is from

graphVars == <<file, lock, seen, draft>>

Draft == [base: 0..MaxRevision, state: State]

GraphInit ==
  /\ file = [nodes |-> First, sup |-> {}, rev |-> 0]
  /\ lock = None
  /\ seen = [w \in Writers |-> None]
  /\ draft = [w \in Writers |-> None]
-----------------------------------------------------------------------------
Superseders(sup, n) == {m \in Nodes: <<m, n>> \in sup}

(* n and all that supersedes it, directly or not *)
Upward(sup, n) ==
  LET up[k \in 0..Cardinality(Nodes)] ==
        IF k = 0 THEN {n}
        ELSE LET last == up[k - 1]
             IN last \cup UNION {Superseders(sup, m): m \in last}
  IN up[Cardinality(Nodes)]

(* validateSupersessionCycles: from no node does the walk up meet a node   *)
(* twice, by a cycle or by two paths.                                      *)
NoneSeenTwice(sup) ==
  \A n \in Nodes: \A m \in Upward(sup, n):
    Cardinality({k \in Upward(sup, n): <<m, k>> \in sup})
      <= IF m = n THEN 0 ELSE 1

(* validateGraphMemoryState, which every write passes                      *)
Valid(s) == s.sup \subseteq s.nodes \X s.nodes /\ NoneSeenTwice(s.sup)

With(s, new, sup) ==
  [nodes |-> s.nodes \cup new, sup |-> s.sup \cup sup, rev |-> s.rev + 1]

(* appendGraphUpdate: nothing new is no write *)
Appended(s) ==
  {With(s, new, sup):
     new \in {N \in SUBSET (Nodes \ s.nodes): Cardinality(N) <= 1},
     sup \in IF AppendsEdges
               THEN {E \in SUBSET ((Nodes \X Nodes) \ s.sup):
                       Cardinality(E) <= 2}
               ELSE {{}}}
  \ {With(s, {}, {})}

(* supersedeNode, correctNode: a new node over one nothing supersedes yet  *)
Superseded(s) ==
  {With(s, {new}, {<<new, target>>}):
     new \in Nodes \ s.nodes,
     target \in {n \in s.nodes: Superseders(s.sup, n) = {}}}

Updates(s) == {t \in Appended(s) \cup Superseded(s):
                 Valid(t) /\ t.rev <= MaxRevision}
-----------------------------------------------------------------------------
MayOpen(w) == lock = None /\ seen[w] = None

(* withLock, and the load its body begins with; a lock that exists throws. *)
Open(w) ==
  /\ MayOpen(w)
  /\ lock' = w
  /\ seen' = [seen EXCEPT ![w] = file]
  /\ UNCHANGED <<file, draft>>

(* The lock is removed, whether the body wrote, refused or threw.          *)
Release(w) ==
  /\ seen[w] # None
  /\ seen' = [seen EXCEPT ![w] = None]
  /\ lock' = None
  /\ UNCHANGED <<file, draft>>

Loaded(w) == seen[w] \notin {None, Written}

(* append, supersede, correct: the update of what was loaded               *)
Write(w) ==
  /\ Loaded(w)
  /\ \E s \in Updates(seen[w]): file' = s
  /\ seen' = [seen EXCEPT ![w] = Written]
  /\ UNCHANGED <<lock, draft>>

(* load, and a pure update of it in memory                                 *)
Prepare(w) ==
  /\ seen[w] = None
  /\ \E s \in Updates(file):
       draft' = [draft EXCEPT ![w] = [base |-> file.rev, state |-> s]]
  /\ UNCHANGED <<file, lock, seen>>

(* (mutant) the revision that was expected is not compared *)
NeverStale(w) == TRUE

NotStale(w) ==
  /\ Checks => seen[w].rev = draft[w].base
  /\ draft[w].state.rev >= seen[w].rev

Save(w) ==
  /\ Loaded(w) /\ draft[w] # None
  /\ NotStale(w)
  /\ file' = draft[w].state
  /\ seen' = [seen EXCEPT ![w] = Written]
  /\ draft' = [draft EXCEPT ![w] = None]
  /\ UNCHANGED lock

(* The process dies; its lock file stays, and nothing removes it.          *)
Die(w) ==
  /\ MayDie /\ seen[w] # None
  /\ seen' = [seen EXCEPT ![w] = None]
  /\ draft' = [draft EXCEPT ![w] = None]
  /\ UNCHANGED <<file, lock>>

GraphNext ==
  \E w \in Writers:
    Open(w) \/ Release(w) \/ Write(w) \/ Prepare(w) \/ Save(w) \/ Die(w)

GraphSpec == GraphInit /\ [][GraphNext]_graphVars
-----------------------------------------------------------------------------
(* The state is well formed, and only the holder of the lock is between    *)
(* loading the file and writing it.                                        *)
GraphTypeOK ==
  /\ file \in State /\ lock \in Writers \cup {None}
  /\ seen \in [Writers -> State \cup {Written, None}]
  /\ draft \in [Writers -> Draft \cup {None}]
  /\ \A w \in Writers: seen[w] # None => lock = w /\ seen[w] \in {file, Written}

(* VS-03: nodes and edges are immutable and writes only append: no write   *)
(* takes back what another one recorded, and none leaves the revision, by  *)
(* which a stale writer is told, as it was.                                *)
AppendOnly ==
  [][/\ file.nodes \subseteq file'.nodes /\ file.sup \subseteq file'.sup
     /\ file' # file => file'.rev > file.rev]_graphVars
=============================================================================
