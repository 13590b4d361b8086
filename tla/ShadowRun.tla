------------------------------- MODULE ShadowRun -------------------------------
(***************************************************************************)
(* A shadow evidence run of the Hunter: it screens the persisted brands    *)
(* for a comparable control, falls back on a disposable brand row it       *)
(* creates itself and on public fixtures, measures the planned pairs, and  *)
(* reports; nine one-pair reports of a 3-by-3 plan are combined later.     *)
(* Brands are numbers, listed in order as the query does by id; those left *)
(* to screen are a set, of which the least is next.  What a brand says     *)
(* (profile, learned goals, topics) is one number, 0 while it is not ready *)
(* for the Hunter; owners and the web change it at any time.               *)
(***************************************************************************)
EXTENDS Naturals, Sequences, FiniteSets

CONSTANTS Procs,        \* server processes, each running at its start
          Customers,    \* persisted brands
          Spare,        \* ids that a disposable brand may get
          Publics,      \* the public fixtures, numbered in their order
          CohortSize, Repeats, Plans, Cases,
          Pinned,       \* the pinned anchor, 0 when none
          Disposable, Public,
          MaxContent, MaxRuns, MaxChanges, MayCrash, MayKeep

VARIABLES content, changes, rows, runs, run, reports

vars == <<content, changes, rows, runs, run, reports>>

Idle == [pc |-> "idle", plan |-> "none", case |-> 0, todo |-> {}, some |-> FALSE,
         cohort |-> <<>>, anchor |-> 0, pairs |-> <<>>, done |-> <<>>]
Whole == 0               \* no case index: the run measures every pair

ASSUME ShadowAssumption ==
  /\ CohortSize \in Nat \ {0} /\ Repeats \in Nat \ {0}
  /\ Cases \subseteq 0..(CohortSize * Repeats)
  /\ Customers \cup Spare \cup Publics \subseteq Nat \ {0}
  /\ Customers \cap Spare = {} /\ (Customers \cup Spare) \cap Publics = {}
  /\ Pinned # 0 => Public
  /\ MaxContent \in Nat \ {0} /\ {MaxRuns, MaxChanges} \subseteq Nat

Init == /\ content \in [Customers \cup Publics -> {0, 1}]
        /\ changes = 0 /\ rows = {} /\ runs = 0
        /\ run = [p \in Procs |-> Idle] /\ reports = {}

(* An owner edits a brand, or a public page changes. *)
Changes(b, v) ==
  /\ changes < MaxChanges /\ v # content[b]
  /\ content' = [content EXCEPT ![b] = v] /\ changes' = changes + 1
  /\ UNCHANGED <<rows, runs, run, reports>>
-----------------------------------------------------------------------------
Me(p, r) == run' = [run EXCEPT ![p] = r]
Goto(p, pc) == Me(p, [run[p] EXCEPT !.pc = pc])
At(p, pc) == run[p].pc = pc
Short(p) == Len(run[p].cohort) < CohortSize

IsNext(p, b) == \A c \in run[p].todo: b <= c

(* A disposable row of another run is a brand like any other here. *)
listCandidateBrands == Customers \cup rows
Screened(S) == IF Pinned = 0 THEN S ELSE {Pinned}

Start(p, plan, case) ==
  /\ At(p, "idle") /\ runs < MaxRuns /\ runs' = runs + 1
  /\ Me(p, IF Pinned # 0 /\ Pinned \notin listCandidateBrands
           THEN [Idle EXCEPT !.pc = "ended"]
           ELSE [Idle EXCEPT !.pc = "screen", !.plan = plan, !.case = case,
                             !.todo = Screened(listCandidateBrands),
                             !.some = listCandidateBrands # {}])
  /\ UNCHANGED <<content, changes, rows, reports>>

Says(b) == IF b \in DOMAIN content THEN content[b] ELSE IF b \in rows THEN 1 ELSE 0

(* The control of a ready brand is run once before it counts. *)
WithCohort(p, origin, b, c, comparable) ==
  IF comparable
  THEN [run[p] EXCEPT !.cohort = Append(@, [origin |-> origin, brand |-> b, content |-> c])]
  ELSE run[p]

Screen(p, comparable) ==
  /\ At(p, "screen") /\ Short(p)
  /\ \E b \in run[p].todo:
       /\ IsNext(p, b)
       /\ Says(b) = 0 => ~comparable
       /\ Me(p, [WithCohort(p, "persisted", b, Says(b), comparable)
                  EXCEPT !.todo = @ \ {b}])
  /\ UNCHANGED <<content, changes, rows, runs, reports>>

Screened1(p) == At(p, "screen") /\ (~Short(p) \/ run[p].todo = {})

(* No persisted brand is comparable: the run makes a brand of its own.     *)
(* What fails on the way to its context removes the row again.             *)
CreateAnchor(p, d) ==
  /\ Screened1(p) /\ run[p].cohort = <<>> /\ Disposable /\ run[p].some
  /\ d \in Spare \ rows /\ rows' = rows \cup {d}
  /\ Me(p, [run[p] EXCEPT !.pc = "anchor", !.anchor = d])
  /\ UNCHANGED <<content, changes, runs, reports>>

PrepareAnchor(p, ok) ==
  /\ At(p, "anchor") /\ Goto(p, IF ok THEN "control" ELSE "undo")
  /\ UNCHANGED <<content, changes, rows, runs, reports>>

(* A refused control throws before the block whose end removes the row. *)
AfterRefusal == "ended"
ScreenAnchor(p, comparable) ==
  /\ At(p, "control")
  /\ Me(p, [WithCohort(p, "disposable", run[p].anchor, 1, comparable)
             EXCEPT !.pc = IF comparable THEN "public" ELSE AfterRefusal])
  /\ UNCHANGED <<content, changes, rows, runs, reports>>

NoAnchor(p) ==
  /\ Screened1(p)
  /\ run[p].cohort = <<>> => ~(Disposable /\ run[p].some)
  /\ Goto(p, IF run[p].cohort = <<>> THEN "ended" ELSE "public")
  /\ UNCHANGED <<content, changes, rows, runs, reports>>
-----------------------------------------------------------------------------
(* At least two fixtures are built, although one may do. *)
Limit(p) == LET n == CohortSize - Len(run[p].cohort) IN IF n < 2 THEN 2 ELSE n

(* A fixture is built when every page of it is read, and what its pages    *)
(* say makes a brand brain ready for the Hunter and a plan with topics.    *)
Buildable(f) == content[f] # 0

BuildPublic(p, S) ==
  /\ At(p, "public") /\ Short(p) /\ Public
  /\ S \subseteq {f \in Publics: Buildable(f)}
  /\ LET taken == {f \in S: Cardinality({g \in S: g < f}) < Limit(p)} IN
     Me(p, IF Cardinality(taken) < Limit(p)
           THEN [run[p] EXCEPT !.pc = "undo"]
           ELSE [run[p] EXCEPT !.pc = "fixtures",
                                !.todo = taken,
                                !.pairs = [f \in Publics |-> content[f]]])
  /\ UNCHANGED <<content, changes, rows, runs, reports>>

Built(p, f) == run[p].pairs[f]
ScreenPublic(p, comparable) ==
  /\ At(p, "fixtures") /\ Short(p)
  /\ \E f \in run[p].todo:
       /\ IsNext(p, f)
       /\ Me(p, [WithCohort(p, "public", f, Built(p, f), comparable)
                  EXCEPT !.todo = @ \ {f}])
  /\ UNCHANGED <<content, changes, rows, runs, reports>>

(* The pairs of the plan, or the one the case index names. *)
PairOf(cohort, i) ==
  LET b == cohort[((i - 1) \div Repeats) + 1] IN
  [repeat |-> ((i - 1) % Repeats) + 1, brand |-> b.brand, content |-> b.content]

Planned(p) ==
  IF run[p].case = Whole
  THEN [i \in 1..(CohortSize * Repeats) |-> PairOf(run[p].cohort, i)]
  ELSE <<PairOf(run[p].cohort, run[p].case)>>

Enough(p) ==
  /\ \/ At(p, "public") /\ ~(Short(p) /\ Public)
     \/ At(p, "fixtures") /\ (~Short(p) \/ run[p].todo = {})
  /\ Me(p, IF Short(p) THEN [run[p] EXCEPT !.pc = "undo", !.pairs = <<>>]
           ELSE [run[p] EXCEPT !.pc = "pairs", !.todo = {}, !.pairs = Planned(p)])
  /\ UNCHANGED <<content, changes, rows, runs, reports>>

(* The first pair that is not comparable ends the whole run. *)
Pair(p, comparable) ==
  /\ At(p, "pairs") /\ run[p].pairs # <<>>
  /\ Me(p, IF comparable
           THEN [run[p] EXCEPT !.done = Append(@, Head(run[p].pairs)), !.pairs = Tail(@)]
           ELSE [run[p] EXCEPT !.pc = "undo", !.done = <<>>])
  /\ UNCHANGED <<content, changes, rows, runs, reports>>

Redact(p) ==
  /\ At(p, "pairs") /\ run[p].pairs = <<>> /\ Goto(p, "report")
  /\ UNCHANGED <<content, changes, rows, runs, reports>>

(* The row is removed last; a failed removal loses the report as well. *)
Cleanup(p, removed) ==
  /\ run[p].pc \in {"undo", "report"}
  /\ run[p].anchor = 0 => removed
  /\ rows' = IF removed THEN rows \ {run[p].anchor} ELSE rows
  /\ reports' = IF removed /\ At(p, "report")
                THEN reports \cup {[plan |-> run[p].plan, case |-> run[p].case,
                                    cohort |-> run[p].cohort, pairs |-> run[p].done]}
                ELSE reports
  /\ Goto(p, "ended") /\ UNCHANGED <<content, changes, runs>>

(* A run is not resumed: the next start of the process begins a new one. *)
Restart(p) == /\ At(p, "ended") /\ Me(p, Idle)
              /\ UNCHANGED <<content, changes, rows, runs, reports>>
Crash(p) == /\ MayCrash /\ run[p].pc \notin {"idle", "ended"} /\ Me(p, Idle)
            /\ UNCHANGED <<content, changes, rows, runs, reports>>

Step(p) ==
  \/ \E ok \in BOOLEAN:
       \/ Screen(p, ok)
       \/ PrepareAnchor(p, ok)
       \/ ScreenAnchor(p, ok)
       \/ ScreenPublic(p, ok)
       \/ Pair(p, ok)
  \/ \E d \in Spare: CreateAnchor(p, d)
  \/ NoAnchor(p)
  \/ \E S \in SUBSET Publics: BuildPublic(p, S)
  \/ Enough(p)
  \/ Redact(p)
  \/ Cleanup(p, TRUE)

Next == \/ \E b \in Customers \cup Publics, v \in 0..MaxContent: Changes(b, v)
        \/ \E p \in Procs:
             \/ \E plan \in Plans, case \in Cases: Start(p, plan, case)
             \/ Step(p)
             \/ MayKeep /\ Cleanup(p, FALSE)
             \/ Restart(p)
             \/ Crash(p)

Spec == Init /\ [][Next]_vars
-----------------------------------------------------------------------------
(* What the combination of one-pair reports accepts. *)
\* (mutant) Reports of one plan are taken to be of one cohort.
SameCohortAny(r, q) == TRUE
SameCohort(r, q) == r.cohort = q.cohort
SameOrigins(r, q) ==
  \A o \in {"persisted", "disposable", "public"}:
    Cardinality({i \in DOMAIN r.cohort: r.cohort[i].origin = o})
      = Cardinality({i \in DOMAIN q.cohort: q.cohort[i].origin = o})
Position(r) == (r.case - 1) \div Repeats
Brand(r) == r.pairs[1].brand

Accepted(S) ==
  /\ Cardinality(S) = CohortSize * Repeats
  /\ \A r \in S: r.case # Whole /\ Len(r.pairs) = 1
                 /\ r.pairs[1].repeat = ((r.case - 1) % Repeats) + 1
  /\ \A r, q \in S: /\ r.plan = q.plan /\ SameCohort(r, q) /\ SameOrigins(r, q)
                    /\ r # q => r.case # q.case
                    /\ Position(r) = Position(q) => Brand(r) = Brand(q)
  /\ Cardinality({Brand(r): r \in S}) = CohortSize

(* The states of a run are well formed: every brand of its cohort said     *)
(* something when it was screened, none counts twice, and pairs are        *)
(* measured over a full cohort only.                                       *)
TypeOK ==
  /\ rows \subseteq Spare /\ runs \in 0..MaxRuns
  /\ \A p \in Procs:
       LET r == run[p] IN
       /\ Len(r.cohort) <= CohortSize
       /\ \A i \in DOMAIN r.cohort: r.cohort[i].content \in 1..MaxContent
       /\ \A i, j \in DOMAIN r.cohort: r.cohort[i].brand = r.cohort[j].brand => i = j
       /\ r.pc \in {"pairs", "report"} =>
            /\ Len(r.cohort) = CohortSize
            /\ \E i \in DOMAIN r.cohort: r.cohort[i].origin # "public"

(* Whatever set of reports is accepted measured one cohort: each of its    *)
(* brands as often as planned, always with the same content, under one     *)
(* plan, and a brand that stood in the database among them.                *)
CohortHonest ==
  \A S \in SUBSET reports:
    Accepted(S) =>
      LET pairs == {r.pairs[1]: r \in S} IN
      /\ Cardinality(pairs) = CohortSize * Repeats
      /\ \A x, y \in pairs: x.brand = y.brand => x.content = y.content
      /\ \E x \in pairs: x.brand \in Customers \cup Spare

(* A run that ended left no disposable brand behind. *)
AnchorRemoved == \A p \in Procs: At(p, "ended") => run[p].anchor \notin rows
=============================================================================
