------------------------------ MODULE MCOperations ------------------------------
(***************************************************************************)
(* The budget of a workflow on small instances: three invocations on two   *)
(* servers, which crash and fail to settle ("two"), and the three on one   *)
(* server whose pool has two connections ("one").  This module extends the *)
(* component of the first part.                                            *)
(***************************************************************************)
EXTENDS CostBudget, TLC

CONSTANTS i1, i2, i3, s1, s2

VARIABLES part

TwoServers == i1 :> s1 @@ i2 :> s1 @@ i3 :> s2
Charges == {0, 1, 2, 3}

One == INSTANCE CostBudget WITH
  Servers <- {s1}, Home <- [i \in Invocations |-> s1], Costs <- {1, 2}, Faults <- 0

ASSUME One!BudgetAssumption

suite == <<part, vars>>

SuiteInit == part \in {"two", "one"} /\ Init

OnlyTwo == part = "two" /\ UNCHANGED part
OnlyOne == part = "one" /\ UNCHANGED part

SuiteNext ==
  \/ OnlyTwo /\ Configure
  \/ \E i \in Invocations:
       \/ OnlyTwo /\ Connect(i)
       \/ OnlyTwo /\ Check(i)
       \/ OnlyTwo /\ Lock(i)
       \/ OnlyTwo /\ Decide(i)
       \/ OnlyTwo /\ Run(i)
       \/ OnlyTwo /\ File(i)
       \/ OnlyTwo /\ Record(i)
       \/ OnlyTwo /\ EventRefused(i)
       \/ OnlyTwo /\ RecordFails(i)
  \/ \E s \in Servers: OnlyTwo /\ Crash(s)
  \/ OnlyOne /\ One!Next

SuiteSpec ==
  /\ SuiteInit /\ [][SuiteNext]_suite
  /\ \A i \in Invocations:
       /\ WF_suite(OnlyOne /\ (One!Check(i) \/ One!Decide(i) \/ One!Run(i)))
       /\ SF_suite(OnlyOne /\ One!Connect(i)) /\ SF_suite(OnlyOne /\ One!Lock(i))
       /\ SF_suite(OnlyOne /\ One!File(i)) /\ SF_suite(OnlyOne /\ One!Record(i))

(* An invocation whose model answers ends, though the others of its        *)
(* workflow queue for its lock with the connections that its own           *)
(* settlement may need.                                                    *)
InvocationsSettle == \A i \in Invocations: <>(part = "one" => inv[i].stage \in Ended)
=============================================================================
