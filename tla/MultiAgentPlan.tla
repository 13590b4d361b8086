---------------------------- MODULE MultiAgentPlan ----------------------------
(***************************************************************************)
(* The topology of a multi-agent plan (multi-agent-engine.mjs): tasks with *)
(* dependencies and write sets are laid out in waves of workers that run   *)
(* at the same time, and the plan is judged by it.  One wave is a step;    *)
(* task ids are numbers, in the order of their names.                      *)
(***************************************************************************)
EXTENDS Integers, Sequences, FiniteSets, FiniteSetsExt

CONSTANTS Tasks,            \* 1..n
          Paths,            \* files a task may write
          MaxWorkers,       \* of the policy
          MinIndependent,   \* minIndependentTasks
          Concurrency,      \* maxConcurrentWorkers of the budget
          RejectsOverlap    \* rejectConcurrentWriteOverlap

ASSUME PlanAssumption ==
  /\ IsFiniteSet(Tasks) /\ Tasks # {} /\ Tasks = 1..Cardinality(Tasks)
  /\ MaxWorkers \in Nat \ {0} /\ RejectsOverlap \in BOOLEAN

VARIABLES dependsOn, writes,   \* the plan
          waves,               \* the waves laid out so far
          verdict              \* of assessMultiAgentExecution

planVars == <<dependsOn, writes, waves, verdict>>

Completed == UNION {waves[i] : i \in 1..Len(waves)}
Pending == Tasks \ Completed

(* The tasks whose chains of dependencies are shorter than k, by k.         *)
Shallow(deps) ==
  LET down[k \in 0..Cardinality(Tasks)] ==
        IF k = 0 THEN {}
        ELSE {t \in Tasks : deps[t] \subseteq down[k - 1]}
  IN down

\* detectCycle: the plans that pass it have an order of their own.
Acyclic(deps) == Shallow(deps)[Cardinality(Tasks)] = Tasks

\* validateExecutionPlan
Plans == {deps \in [Tasks -> SUBSET Tasks] : Acyclic(deps)}

PlanInit == /\ dependsOn \in Plans
            /\ writes \in [Tasks -> SUBSET Paths]
            /\ waves = <<>>
            /\ verdict = "none"

\* (mutant) a dependency in the wave being laid out will do.
ReadyEarly == {t \in Pending : dependsOn[t] \subseteq
                 Completed \cup {u \in Pending : u < t /\ dependsOn[u] \subseteq Completed}}

Ready == {t \in Pending : dependsOn[t] \subseteq Completed}

Conflicts(t, wave) == RejectsOverlap /\ \E u \in wave : writes[t] \cap writes[u] # {}

\* The ready tasks are taken in order, as long as workers and files are free.
MayJoin(t, wave) == /\ t \in Ready /\ Cardinality(wave) < MaxWorkers
                    /\ ~Conflicts(t, wave)
Took ==
  LET took[t \in 0..Max(Tasks)] ==
        IF t = 0 THEN {}
        ELSE IF MayJoin(t, took[t - 1]) THEN took[t - 1] \cup {t} ELSE took[t - 1]
  IN took
Wave == Took[Max(Tasks)]

LayOut == /\ Pending # {}
          /\ waves' = Append(waves, Wave)
          /\ UNCHANGED <<dependsOn, writes, verdict>>

Width == Max({Cardinality(waves[i]) : i \in 1..Len(waves)})

\* assessMultiAgentExecution, as far as the topology decides it.
Assess == /\ Pending = {} /\ verdict = "none"
          /\ verdict' = IF MinIndependent <= Width /\ Width <= Concurrency
                          THEN "eligible" ELSE "blocked"
          /\ UNCHANGED <<dependsOn, writes, waves>>

PlanNext == LayOut \/ Assess
PlanSpec == PlanInit /\ [][PlanNext]_planVars
-----------------------------------------------------------------------------
\* The state is well formed.
PlanTypeOK == /\ waves \in Seq(SUBSET Tasks)
              /\ verdict \in {"none", "eligible", "blocked"}

(* Every wave can really run at once: its tasks wait for nothing of their    *)
(* own wave or a later one, write no file in common, are no more than the    *)
(* workers, and no task runs twice; and while tasks are pending one is       *)
(* ready, so the loop ends.                                                  *)
WavesRunnable ==
  /\ \A i \in 1..Len(waves) :
       /\ waves[i] # {} /\ Cardinality(waves[i]) <= MaxWorkers
       /\ \A t \in waves[i] :
            dependsOn[t] \subseteq UNION {waves[j] : j \in 1..(i - 1)}
       /\ RejectsOverlap =>
            \A t, u \in waves[i] : t # u => writes[t] \cap writes[u] = {}
       /\ \A j \in 1..(i - 1) : waves[i] \cap waves[j] = {}
  /\ Pending # {} => Ready # {}
=============================================================================
