----------------------------- MODULE CostBudget -----------------------------
(***************************************************************************)
(* The budget of one workflow of a brand and the model invocations charged *)
(* to it: ObservedAgentRuntime (apps/api/src/operations-runtime.ts) around *)
(* PgBudgetedOperationsTelemetrySink                                       *)
(* (apps/api/src/operations-budget-telemetry-postgres.ts).  A reservation  *)
(* is a pooled connection whose session holds the advisory lock of the     *)
(* workflow for as long as the model takes; the pool of each server and    *)
(* the lock are shared state.  What the runtime does inside invoke is      *)
(* RuntimeRouting's business: here it answers, with or without a measured  *)
(* cost, or it throws, and either way money may have been spent.           *)
(***************************************************************************)
EXTENDS Integers, FiniteSets, Folds

CONSTANTS Invocations,
          Servers, Home,      \* the server each invocation runs on
          Pool,               \* connections of a server's pool
          Limit,              \* limit_micros, in units of account
          MaxCost,            \* budget.maxCostUsd of an invocation
          Costs,              \* what a model call may cost
          Nobody,
          Faults              \* bound: crashes, refused events and failed transactions

ASSUME BudgetAssumption ==
  /\ IsFiniteSet(Invocations) /\ Home \in [Invocations -> Servers]
  /\ Pool \in Nat \ {0} /\ Limit \in Nat \ {0} /\ MaxCost \in Nat
  /\ Costs \subseteq Nat /\ Nobody \notin Invocations /\ Faults \in Nat

VARIABLES budget,   \* the row of workflow_budgets
          events,   \* workflow_cost_events
          lock,     \* the session that holds the advisory lock
          inv,      \* what each invocation is doing, and its connection
          paid,     \* history: what the providers charged for each invocation
          faults

vars == <<budget, events, lock, inv, paid, faults>>

Stages == {"idle", "check", "lock", "decide", "run", "record", "file", "stranded",
           "done", "refused", "failed", "dead"}
Ended  == {"done", "refused", "failed", "dead"}

Init ==
  /\ budget = [exists |-> FALSE, spent |-> 0]
  /\ events = {}
  /\ lock = Nobody
  /\ inv = [i \in Invocations |-> [stage |-> "idle", conn |-> FALSE, leased |-> FALSE, cost |-> 0]]
  /\ paid = [i \in Invocations |-> 0]
  /\ faults = 0

Held(s) == Cardinality({i \in Invocations : Home[i] = s /\ inv[i].conn})
Free(i) == Held(Home[i]) < Pool

\* (mutant) the column is not capped at the limit
LeastOfOne(a, b) == b

Least(a, b) == IF a <= b THEN a ELSE b

At(i, stage) == inv[i].stage = stage
Goto(i, stage) == inv' = [inv EXCEPT ![i].stage = stage]

\* The model answered and its cost was measured.
Costed(i, c) ==
  inv' = [inv EXCEPT ![i] = [stage |-> "record", conn |-> @.conn, leased |-> @.leased, cost |-> c]]

\* The lease is given back: the lock, then the connection.
Freed(i, stage) ==
  /\ inv' = [inv EXCEPT ![i] = [@ EXCEPT !.stage = stage, !.conn = FALSE, !.leased = FALSE]]
  /\ lock' = IF lock = i THEN Nobody ELSE lock

\* An operator gives the workflow a budget; no route of the API does.
Configure ==
  /\ ~budget.exists
  /\ budget' = [budget EXCEPT !.exists = TRUE]
  /\ UNCHANGED <<events, lock, inv, paid, faults>>

(***************************************************************************)
(* reserveBudget.                                                          *)
(***************************************************************************)
Connect(i) ==
  /\ At(i, "idle") /\ Free(i)
  /\ inv' = [inv EXCEPT ![i] = [@ EXCEPT !.stage = "check", !.conn = TRUE]]
  /\ UNCHANGED <<budget, events, lock, paid, faults>>

Check(i) ==
  /\ At(i, "check")
  /\ IF budget.exists
     THEN Goto(i, "lock") /\ UNCHANGED lock
     ELSE Freed(i, "run")
  /\ UNCHANGED <<budget, events, paid, faults>>

Lock(i) ==
  /\ At(i, "lock") /\ lock = Nobody
  /\ lock' = i
  /\ Goto(i, "decide")
  /\ UNCHANGED <<budget, events, paid, faults>>

\* (mutant) the lock covers the decision only
DecideAndUnlock(i) ==
  /\ At(i, "decide")
  /\ IF budget.spent + MaxCost > Limit
     THEN Freed(i, "refused")
     ELSE /\ inv' = [inv EXCEPT ![i].stage = "run", ![i].leased = TRUE]
          /\ lock' = Nobody
  /\ UNCHANGED <<budget, events, paid, faults>>

Decide(i) ==
  /\ At(i, "decide")
  /\ IF budget.spent + MaxCost > Limit
     THEN Freed(i, "refused")
     ELSE /\ inv' = [inv EXCEPT ![i].stage = "run", ![i].leased = TRUE]
          /\ UNCHANGED lock
  /\ UNCHANGED <<budget, events, paid, faults>>

(***************************************************************************)
(* invoke: the model is called while the lease is held.                    *)
(***************************************************************************)
\* (mutant) the failure is filed before the lease is given back
RunAndFileFirst(i) ==
  /\ At(i, "run")
  /\ \E c \in Costs :
       /\ paid' = [paid EXCEPT ![i] = c]
       /\ \/ Costed(i, c) /\ UNCHANGED lock
          \/ Freed(i, "done")
          \/ Goto(i, "file") /\ UNCHANGED lock
  /\ UNCHANGED <<budget, events, faults>>

Run(i) ==
  /\ At(i, "run")
  /\ \E c \in Costs :
       /\ paid' = [paid EXCEPT ![i] = c]
       /\ \/ Costed(i, c) /\ UNCHANGED lock
          \/ Freed(i, "done")      \* answered without a measured cost
          \/ Freed(i, "file")      \* the runtime threw
  /\ UNCHANGED <<budget, events, faults>>

\* createCostEvent refuses what the runtime measured (a provider without a name
\* or with too long a one, a cost that is no safe integer): the model has been
\* paid, and invoke throws outside its try, with the lease it may have.  Nobody
\* gives that back while the server lives.
EventRefused(i) ==
  /\ At(i, "run") /\ faults < Faults
  /\ \E c \in Costs : paid' = [paid EXCEPT ![i] = c]
  /\ Goto(i, "stranded")
  /\ faults' = faults + 1
  /\ UNCHANGED <<budget, events, lock>>

\* recordFailure takes a connection of the pool for each of its queries.
File(i) ==
  /\ At(i, "file") /\ Free(i)
  /\ Freed(i, "failed")
  /\ UNCHANGED <<budget, events, paid, faults>>

(***************************************************************************)
(* recordCost: one transaction, on the connection of the lease or on one   *)
(* of the pool.                                                            *)
(***************************************************************************)
\* (mutant) an event without a lease is counted too, but not the other way round
SpendUnleased(i) ==
  /\ events' = events \cup {[of |-> i, cost |-> inv[i].cost, counted |-> inv[i].leased]}
  /\ budget' = IF budget.exists
               THEN [budget EXCEPT !.spent = Least(Limit, budget.spent + inv[i].cost)]
               ELSE budget

Spend(i) ==
  /\ events' = events \cup {[of |-> i, cost |-> inv[i].cost, counted |-> inv[i].leased]}
  /\ budget' = IF inv[i].leased
               THEN [budget EXCEPT !.spent = Least(Limit, budget.spent + inv[i].cost)]
               ELSE budget

Record(i) ==
  /\ At(i, "record") /\ (inv[i].leased \/ Free(i))
  /\ Spend(i)
  /\ Freed(i, "done")
  /\ UNCHANGED <<paid, faults>>

RecordFails(i) ==     \* the transaction is rolled back and the answer is lost
  /\ At(i, "record") /\ faults < Faults
  /\ Freed(i, "failed")
  /\ faults' = faults + 1
  /\ UNCHANGED <<budget, events, paid>>

\* The end of a process ends its sessions, and with them their locks.
Crash(s) ==
  /\ faults < Faults
  /\ faults' = faults + 1
  /\ inv' = [i \in Invocations |->
               IF Home[i] = s /\ inv[i].stage \notin Ended \cup {"idle"}
               THEN [inv[i] EXCEPT !.stage = "dead", !.conn = FALSE, !.leased = FALSE]
               ELSE inv[i]]
  /\ lock' = IF lock # Nobody /\ Home[lock] = s THEN Nobody ELSE lock
  /\ UNCHANGED <<budget, events, paid>>

Step(i) ==
  \/ Connect(i) \/ Check(i) \/ Lock(i) \/ Decide(i)
  \/ Run(i) \/ File(i) \/ Record(i)

Next ==
  \/ Configure
  \/ \E i \in Invocations : Step(i) \/ EventRefused(i) \/ RecordFails(i)
  \/ \E s \in Servers : Crash(s)

Spec == Init /\ [][Next]_vars

(***************************************************************************)
(* Properties.                                                             *)
(***************************************************************************)
TypeOK ==
  /\ budget \in [exists : BOOLEAN, spent : 0..Limit]
  /\ events \subseteq [of : Invocations, cost : Costs, counted : BOOLEAN]
  /\ lock \in Invocations \cup {Nobody}
  /\ inv \in [Invocations -> [stage : Stages, conn : BOOLEAN, leased : BOOLEAN, cost : Costs \cup {0}]]
  /\ paid \in [Invocations -> Costs \cup {0}]
  /\ faults \in 0..Faults

Total(S) == MapThenFoldSet(+, 0, LAMBDA e : e.cost, LAMBDA T : CHOOSE e \in T : TRUE, S)

\* A reservation stays good until its invocation is settled: whatever the other
\* invocations and servers record meanwhile, the row still has room for the
\* whole of what was reserved.
ReservationHolds ==
  \A i \in Invocations : inv[i].leased => budget.spent + MaxCost <= Limit

\* What the row says was spent is what the counted events add up to, up to its
\* limit: no event is counted twice, lost with a crash or a rollback, or
\* overwritten by a settlement that read an older row.
SpentIsWhatWasRecorded ==
  budget.spent = Least(Limit, Total({e \in events : e.counted}))

\* A server gets its connections back: no more are out than the pool has, a
\* settled invocation has none, and the lock is held by a session at work.  The
\* one exception is what the code does: an invocation whose cost event was
\* refused keeps its lease, and all of it, until its server ends.
NothingLeaks ==
  /\ \A s \in Servers : Held(s) <= Pool
  /\ \A i \in Invocations : inv[i].stage \in Ended => ~inv[i].conn
  /\ lock # Nobody => inv[lock].conn /\ inv[lock].stage \in {"decide", "run", "record", "stranded"}

\* Both together: what was reserved can be spent, and what was lent comes back.
BudgetSound == ReservationHolds /\ NothingLeaks
=============================================================================
