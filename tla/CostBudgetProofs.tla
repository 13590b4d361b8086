-------------------------- MODULE CostBudgetProofs --------------------------
(***************************************************************************)
(* The budget of a workflow, for any number of invocations, servers and    *)
(* connections and any limit.  What makes a reservation good is that the   *)
(* advisory lock is one with the lease: whoever holds a lease holds the    *)
(* lock, so no other invocation can raise the row between the decision and *)
(* the settlement.  The invariant says for each stage whether a connection *)
(* is out and whether the lock is held.                                    *)
(*                                                                         *)
(* The sum of the ledger is a fold over a finite set: that it exists, is   *)
(* the same in every order and grows by the event that is added is by      *)
(* induction over the number of events (UpTo).                             *)
(***************************************************************************)
EXTENDS CostBudget, TLAPS, FiniteSetTheorems, NaturalsInduction,
        WellFoundedInduction

Row == [stage: Stages, conn: BOOLEAN, leased: BOOLEAN, cost: Costs \cup {0}]

Placed(v, mine) ==
  /\ v.leased => mine /\ v.stage \in {"run", "record", "stranded"}
  /\ mine => v.conn /\ v.stage \in {"decide", "run", "record", "stranded"}
  /\ mine /\ v.stage # "decide" => v.leased
  /\ v.stage = "decide" => mine
  /\ v.conn => v.stage \in {"check", "lock", "decide", "run", "record", "stranded"}
  /\ v.stage \in {"check", "lock", "decide"} => v.conn
  /\ v.stage = "record" => v.cost \in Costs

Inv ==
  /\ TypeOK
  /\ \A i \in Invocations: Placed(inv[i], lock = i)
  /\ ReservationHolds
  /\ \A s \in Servers: Held(s) <= Pool

(* The connections a server has out are finitely many.                     *)
Out(s) == {i \in Invocations: Home[i] = s /\ inv[i].conn}

LEMMA OutFinite ==
  ASSUME NEW s PROVE IsFiniteSet(Out(s)) /\ Held(s) = Cardinality(Out(s)) /\ Held(s) \in Nat
  <1>1. Out(s) \subseteq Invocations
    BY DEF Out
  <1>2. IsFiniteSet(Out(s))
    BY <1>1, BudgetAssumption, FS_Subset
  <1>3. QED
    BY <1>2, FS_CardinalityType DEF Held, Out

(* The only step that takes a connection found one free.                   *)
LEMMA OutAfter ==
  ASSUME \A s \in Servers: Held(s) <= Pool,
         NEW i \in Invocations,
         \A j \in Invocations \ {i}: inv'[j].conn => inv[j].conn,
         inv'[i].conn => inv[i].conn \/ Free(i)
  PROVE  \A s \in Servers: Held(s)' <= Pool
  <1> SUFFICES ASSUME NEW s \in Servers PROVE Held(s)' <= Pool
    OBVIOUS
  <1> DEFINE New == {j \in Invocations: Home[j] = s /\ inv'[j].conn}
  <1>1. Held(s)' = Cardinality(New)
    BY DEF Held
  <1>2. IsFiniteSet(Out(s)) /\ Held(s) = Cardinality(Out(s)) /\ Held(s) \in Nat /\ Pool \in Nat
    BY OutFinite, BudgetAssumption
  <1>3. CASE Home[i] = s /\ inv'[i].conn /\ ~inv[i].conn
    <2>1. New \subseteq Out(s) \cup {i}
      BY DEF Out
    <2>2. IsFiniteSet(Out(s) \cup {i}) /\ Cardinality(Out(s) \cup {i}) = Held(s) + 1
      BY <1>2, <1>3, FS_AddElement DEF Out
    <2>3. IsFiniteSet(New) /\ Cardinality(New) <= Held(s) + 1
      BY <2>1, <2>2, FS_Subset
    <2>4. Cardinality(New) \in Nat
      BY <2>3, FS_CardinalityType
    <2>5. Held(s) < Pool
      BY <1>3 DEF Free
    <2>6. QED
      BY <1>1, <1>2, <2>3, <2>4, <2>5
  <1>4. CASE ~(Home[i] = s /\ inv'[i].conn /\ ~inv[i].conn)
    <2>1. New \subseteq Out(s)
      BY <1>4 DEF Out
    <2>2. IsFiniteSet(New) /\ Cardinality(New) <= Held(s)
      BY <1>2, <2>1, FS_Subset
    <2>3. Cardinality(New) \in Nat
      BY <2>2, FS_CardinalityType
    <2>4. Held(s) <= Pool
      OBVIOUS
    <2>5. QED
      BY <1>1, <1>2, <2>2, <2>3, <2>4
  <1>5. QED
    BY <1>3, <1>4

(* A step of one invocation: it writes its own row and the lock, and it    *)
(* takes the lock only when it is free and gives back only its own.        *)
LEMMA OneStep ==
  ASSUME Inv, NEW i \in Invocations, NEW v \in Row,
         inv' = [inv EXCEPT ![i] = v],
         \/ lock' = lock
         \/ lock = Nobody /\ lock' = i
         \/ lock = i /\ lock' = Nobody,
         Placed(v, lock' = i),
         v.conn => inv[i].conn \/ Free(i)
  PROVE  /\ inv' \in [Invocations -> Row]
         /\ lock' \in Invocations \cup {Nobody}
         /\ \A j \in Invocations: Placed(inv'[j], lock' = j)
         /\ \A s \in Servers: Held(s)' <= Pool
  <1> USE DEF Inv
  <1>1. inv \in [Invocations -> Row] /\ lock \in Invocations \cup {Nobody}
    BY DEF TypeOK, Row
  <1>2. inv' \in [Invocations -> Row] /\ inv'[i] = v
    BY <1>1
  <1>3. \A j \in Invocations \ {i}: inv'[j] = inv[j] /\ (lock' = j <=> lock = j)
    BY <1>1, BudgetAssumption
  <1>4. \A j \in Invocations: Placed(inv'[j], lock' = j)
    <2>1. Placed(inv'[i], lock' = i)
      BY <1>2
    <2>2. ASSUME NEW j \in Invocations \ {i} PROVE Placed(inv'[j], lock' = j)
      BY <1>3 DEF Placed
    <2>3. QED
      BY <2>1, <2>2
  <1>5. \A s \in Servers: Held(s)' <= Pool
    BY <1>2, <1>3, OutAfter
  <1>6. QED
    BY <1>1, <1>2, <1>4, <1>5

-----------------------------------------------------------------------------
LEMMA InitInv == Init => Inv
  <1> SUFFICES ASSUME Init PROVE Inv
    OBVIOUS
  <1>1. TypeOK
    BY BudgetAssumption DEF Init, TypeOK, Stages
  <1>2. ASSUME NEW s \in Servers PROVE Held(s) <= Pool
    <2>1. {i \in Invocations: Home[i] = s /\ inv[i].conn} = {}
      BY DEF Init
    <2>2. QED
      BY <2>1, FS_EmptySet, BudgetAssumption DEF Held
  <1>3. QED
    BY <1>1, <1>2, BudgetAssumption DEF Init, Inv, Placed, ReservationHolds

(* What a step leaves of the row it works on, field by field.              *)
LEMMA Rewritten ==
  ASSUME inv \in [Invocations -> Row], NEW i \in Invocations, NEW stage
  PROVE  /\ Goto(i, stage) =>
              inv' = [inv EXCEPT ![i] = [stage |-> stage, conn |-> inv[i].conn,
                                         leased |-> inv[i].leased, cost |-> inv[i].cost]]
         /\ Freed(i, stage) =>
              /\ inv' = [inv EXCEPT ![i] = [stage |-> stage, conn |-> FALSE,
                                            leased |-> FALSE, cost |-> inv[i].cost]]
              /\ lock' = IF lock = i THEN Nobody ELSE lock
  BY DEF Goto, Freed, Row

LEMMA Connected ==
  ASSUME inv \in [Invocations -> Row], NEW i \in Invocations, NEW stage
  PROVE  inv' = [inv EXCEPT ![i] = [@ EXCEPT !.stage = stage, !.conn = TRUE]] =>
              inv' = [inv EXCEPT ![i] = [stage |-> stage, conn |-> TRUE,
                                         leased |-> inv[i].leased, cost |-> inv[i].cost]]
  BY DEF Row

(* A settled or refused invocation gives back what it held.                *)
LEMMA FreedStep ==
  ASSUME Inv, NEW i \in Invocations, NEW stage \in Ended \cup {"run", "file"}, Freed(i, stage),
         UNCHANGED <<budget, events>>, paid' \in [Invocations -> Costs \cup {0}],
         faults' \in 0..Faults
  PROVE  Inv'
  <1> DEFINE v == [stage |-> stage, conn |-> FALSE, leased |-> FALSE, cost |-> inv[i].cost]
  <1>1. inv \in [Invocations -> Row] /\ lock \in Invocations \cup {Nobody}
    BY DEF Inv, TypeOK, Row
  <1>2. inv' = [inv EXCEPT ![i] = v] /\ lock' = IF lock = i THEN Nobody ELSE lock
    BY <1>1, Rewritten
  <1>3. v \in Row
    BY <1>1 DEF Row, Ended, Stages
  <1>4. Placed(v, lock' = i)
    BY <1>2, BudgetAssumption DEF Placed, Ended
  <1>5. /\ inv' \in [Invocations -> Row] /\ lock' \in Invocations \cup {Nobody}
        /\ \A j \in Invocations: Placed(inv'[j], lock' = j)
        /\ \A s \in Servers: Held(s)' <= Pool
    BY <1>2, <1>3, <1>4, OneStep
  <1>6. \A j \in Invocations: inv'[j].leased => inv[j].leased
    BY <1>1, <1>2
  <1>7. ReservationHolds'
    BY <1>6 DEF Inv, ReservationHolds
  <1>8. TypeOK'
    BY <1>5 DEF Inv, TypeOK, Row
  <1>9. QED
    BY <1>5, <1>7, <1>8 DEF Inv

(* So does one that has recorded, when it was leased over the whole of what*)
(* it spent, and else without touching the row.                            *)
LEMMA RecordStep ==
  ASSUME Inv, NEW i \in Invocations, Record(i)
  PROVE  Inv'
  <1> DEFINE v == [stage |-> "done", conn |-> FALSE, leased |-> FALSE, cost |-> inv[i].cost]
  <1>1. inv \in [Invocations -> Row] /\ lock \in Invocations \cup {Nobody}
    BY DEF Inv, TypeOK, Row
  <1>c. inv[i].cost \in Costs /\ inv[i].cost \in Nat /\ inv[i].leased \in BOOLEAN
    BY <1>1, BudgetAssumption DEF Inv, Placed, Record, At, Row
  <1>2. inv' = [inv EXCEPT ![i] = v] /\ lock' = IF lock = i THEN Nobody ELSE lock
    BY <1>1, Rewritten DEF Record
  <1>3. v \in Row
    BY <1>1 DEF Row, Stages
  <1>4. Placed(v, lock' = i)
    BY <1>2, BudgetAssumption DEF Placed
  <1>5. /\ inv' \in [Invocations -> Row] /\ lock' \in Invocations \cup {Nobody}
        /\ \A j \in Invocations: Placed(inv'[j], lock' = j)
        /\ \A s \in Servers: Held(s)' <= Pool
    BY <1>2, <1>3, <1>4, OneStep
  <1>6. ASSUME inv[i].leased PROVE ReservationHolds'
    <2>1. lock = i
      BY <1>6 DEF Inv, Placed
    <2>2. \A j \in Invocations: ~inv'[j].leased
      <3>1. \A j \in Invocations \ {i}: ~inv[j].leased
        BY <2>1 DEF Inv, Placed
      <3>2. QED
        BY <1>1, <1>2, <3>1
    <2>3. QED
      BY <2>2 DEF ReservationHolds
  <1>7. ASSUME ~inv[i].leased PROVE ReservationHolds'
    <2>1. budget' = budget
      BY <1>7 DEF Record, Spend
    <2>2. \A j \in Invocations: inv'[j].leased => inv[j].leased
      BY <1>1, <1>2
    <2>3. QED
      BY <2>1, <2>2 DEF Inv, ReservationHolds
  <1>8. budget' \in [exists: BOOLEAN, spent: 0..Limit]
    BY <1>1, <1>c, BudgetAssumption DEF Inv, TypeOK, Record, Spend, Least
  <1>9. events' \subseteq [of: Invocations, cost: Costs, counted: BOOLEAN]
    BY <1>c DEF Inv, TypeOK, Record, Spend
  <1>10. QED
    BY <1>5, <1>6, <1>7, <1>8, <1>9 DEF Inv, TypeOK, Row, Record

(* A step that keeps the connection, or takes one, and writes no row.      *)
LEMMA WorkStep ==
  ASSUME Inv, NEW i \in Invocations, NEW v \in Row, inv' = [inv EXCEPT ![i] = v],
         lock' = lock \/ (lock = Nobody /\ lock' = i), Placed(v, lock' = i),
         v.conn => inv[i].conn \/ Free(i),
         v.leased => inv[i].leased \/ budget.spent + MaxCost <= Limit,
         UNCHANGED <<budget, events>>, faults' \in 0..Faults,
         paid' \in [Invocations -> Costs \cup {0}]
  PROVE  Inv'
  <1>1. /\ inv' \in [Invocations -> Row] /\ lock' \in Invocations \cup {Nobody}
        /\ \A j \in Invocations: Placed(inv'[j], lock' = j)
        /\ \A s \in Servers: Held(s)' <= Pool
    BY OneStep
  <1>2. inv \in [Invocations -> Row]
    BY DEF Inv, TypeOK, Row
  <1>3. \A j \in Invocations: inv'[j].leased =>
           inv[j].leased \/ budget.spent + MaxCost <= Limit
    BY <1>2
  <1>4. ReservationHolds'
    BY <1>3 DEF Inv, ReservationHolds
  <1>5. TypeOK'
    BY <1>1 DEF Inv, TypeOK, Row
  <1>6. QED
    BY <1>1, <1>4, <1>5 DEF Inv

LEMMA ReserveStep ==
  ASSUME Inv, NEW i \in Invocations, Connect(i) \/ Check(i) \/ Lock(i) \/ Decide(i)
  PROVE  Inv'
  <1>1. /\ inv \in [Invocations -> Row] /\ lock \in Invocations \cup {Nobody}
        /\ Placed(inv[i], lock = i) /\ inv[i] \in Row
        /\ paid \in [Invocations -> Costs \cup {0}] /\ faults \in 0..Faults
    BY DEF Inv, TypeOK, Row
  <1>2. CASE Connect(i)
    <2> DEFINE v == [stage |-> "check", conn |-> TRUE,
                     leased |-> inv[i].leased, cost |-> inv[i].cost]
    <2>1. inv' = [inv EXCEPT ![i] = v]
      BY <1>1, <1>2, Connected DEF Connect
    <2>2. v \in Row
      BY <1>1 DEF Row, Stages
    <2>3. Placed(v, lock' = i)
      BY <1>1, <1>2 DEF Connect, At, Placed
    <2>4. QED
      BY <1>1, <1>2, <2>1, <2>2, <2>3, WorkStep DEF Connect
  <1>3. CASE Check(i) /\ budget.exists
    <2> DEFINE v == [stage |-> "lock", conn |-> inv[i].conn,
                     leased |-> inv[i].leased, cost |-> inv[i].cost]
    <2>1. inv' = [inv EXCEPT ![i] = v]
      BY <1>1, <1>3, Rewritten DEF Check
    <2>2. v \in Row
      BY <1>1 DEF Row, Stages
    <2>3. Placed(v, lock' = i)
      BY <1>1, <1>3 DEF Check, At, Placed
    <2>4. QED
      BY <1>1, <1>3, <2>1, <2>2, <2>3, WorkStep DEF Check
  <1>4. CASE Check(i) /\ ~budget.exists
    BY <1>1, <1>4, FreedStep DEF Check
  <1>5. CASE Lock(i)
    <2> DEFINE v == [stage |-> "decide", conn |-> inv[i].conn,
                     leased |-> inv[i].leased, cost |-> inv[i].cost]
    <2>1. inv' = [inv EXCEPT ![i] = v]
      BY <1>1, <1>5, Rewritten DEF Lock
    <2>2. v \in Row
      BY <1>1 DEF Row, Stages
    <2>3. Placed(v, lock' = i)
      BY <1>1, <1>5 DEF Lock, At, Placed
    <2>4. QED
      BY <1>1, <1>5, <2>1, <2>2, <2>3, WorkStep DEF Lock
  <1>6. CASE Decide(i) /\ budget.spent + MaxCost > Limit
    BY <1>1, <1>6, FreedStep DEF Decide, Ended
  <1>7. CASE Decide(i) /\ ~(budget.spent + MaxCost > Limit)
    <2> DEFINE v == [stage |-> "run", conn |-> inv[i].conn,
                     leased |-> TRUE, cost |-> inv[i].cost]
    <2>1. inv' = [inv EXCEPT ![i] = v]
      BY <1>1, <1>7 DEF Decide, Row
    <2>2. v \in Row
      BY <1>1 DEF Row, Stages
    <2>3. Placed(v, lock' = i)
      BY <1>1, <1>7 DEF Decide, At, Placed
    <2>4. budget.spent + MaxCost <= Limit
      BY <1>7, BudgetAssumption DEF Inv, TypeOK
    <2>5. QED
      BY <1>1, <1>7, <2>1, <2>2, <2>3, <2>4, WorkStep DEF Decide
  <1>8. QED
    BY <1>2, <1>3, <1>4, <1>5, <1>6, <1>7

LEMMA InvokeStep ==
  ASSUME Inv, NEW i \in Invocations, Run(i) \/ EventRefused(i) \/ File(i) \/ RecordFails(i)
  PROVE  Inv'
  <1>1. /\ inv \in [Invocations -> Row] /\ lock \in Invocations \cup {Nobody}
        /\ Placed(inv[i], lock = i) /\ inv[i] \in Row
        /\ paid \in [Invocations -> Costs \cup {0}] /\ faults \in 0..Faults
    BY DEF Inv, TypeOK, Row
  <1>2. CASE Run(i)
    <2>1. PICK c \in Costs:
            /\ paid' = [paid EXCEPT ![i] = c]
            /\ \/ Costed(i, c) /\ UNCHANGED lock
               \/ Freed(i, "done")
               \/ Freed(i, "file")
      BY <1>2 DEF Run
    <2>2. paid' \in [Invocations -> Costs \cup {0}]
      BY <1>1, <2>1
    <2>3. CASE Freed(i, "done") \/ Freed(i, "file")
      BY <1>1, <1>2, <2>2, <2>3, FreedStep DEF Run, Ended
    <2>4. CASE Costed(i, c) /\ UNCHANGED lock
      <3> DEFINE v == [stage |-> "record", conn |-> inv[i].conn,
                       leased |-> inv[i].leased, cost |-> c]
      <3>1. inv' = [inv EXCEPT ![i] = v]
        BY <2>4 DEF Costed
      <3>2. v \in Row
        BY <1>1 DEF Row, Stages
      <3>3. Placed(v, lock' = i)
        BY <1>1, <1>2, <2>4 DEF Run, At, Placed
      <3>4. QED
        BY <1>1, <1>2, <2>2, <2>4, <3>1, <3>2, <3>3, WorkStep DEF Run
    <2>5. QED
      BY <2>1, <2>3, <2>4
  <1>3. CASE File(i)
    BY <1>1, <1>3, FreedStep DEF File, Ended
  <1>4. CASE RecordFails(i)
    <2>1. faults' \in 0..Faults
      BY <1>1, <1>4, BudgetAssumption DEF RecordFails
    <2>2. QED
      BY <1>1, <1>4, <2>1, FreedStep DEF RecordFails, Ended
  <1>5. CASE EventRefused(i)
    <2> DEFINE v == [stage |-> "stranded", conn |-> inv[i].conn,
                     leased |-> inv[i].leased, cost |-> inv[i].cost]
    <2>1. inv' = [inv EXCEPT ![i] = v]
      BY <1>1, <1>5, Rewritten DEF EventRefused
    <2>2. v \in Row
      BY <1>1 DEF Row, Stages
    <2>3. Placed(v, lock' = i)
      BY <1>1, <1>5 DEF EventRefused, At, Placed
    <2>4. paid' \in [Invocations -> Costs \cup {0}] /\ faults' \in 0..Faults
      BY <1>1, <1>5, BudgetAssumption DEF EventRefused
    <2>5. QED
      BY <1>1, <1>5, <2>1, <2>2, <2>3, <2>4, WorkStep DEF EventRefused
  <1>6. QED
    BY <1>2, <1>3, <1>4, <1>5

(* A crash takes the sessions of one server, the lock with its holder.     *)
LEMMA CrashStep ==
  ASSUME Inv, NEW s \in Servers, Crash(s)
  PROVE  Inv'
  <1>1. /\ inv \in [Invocations -> Row] /\ lock \in Invocations \cup {Nobody}
        /\ faults \in 0..Faults
    BY DEF Inv, TypeOK, Row
  <1>2. ASSUME NEW j \in Invocations
        PROVE  /\ inv'[j] \in Row
               /\ inv'[j].conn => inv[j].conn
               /\ inv'[j].leased => inv[j].leased
               /\ Placed(inv'[j], lock' = j)
    <2>1. CASE Home[j] = s /\ inv[j].stage \notin Ended \cup {"idle"}
      <3>1. inv'[j] = [stage |-> "dead", conn |-> FALSE, leased |-> FALSE, cost |-> inv[j].cost]
        BY <1>1, <2>1 DEF Crash, Row
      <3>2. lock' # j
        BY <1>1, <2>1, BudgetAssumption DEF Crash
      <3>3. QED
        BY <1>1, <3>1, <3>2 DEF Row, Stages, Placed
    <2>2. CASE ~(Home[j] = s /\ inv[j].stage \notin Ended \cup {"idle"})
      <3>1. inv'[j] = inv[j] /\ inv[j] \in Row
        BY <1>1, <2>2 DEF Crash
      <3>2. Placed(inv[j], lock = j)
        BY DEF Inv
      <3>3. lock' = j <=> lock = j
        BY <1>1, <2>2, <3>2, BudgetAssumption DEF Crash, Placed, Ended
      <3>4. QED
        BY <3>1, <3>2, <3>3 DEF Placed
    <2>3. QED
      BY <2>1, <2>2
  <1>3. inv' = [j \in Invocations |-> inv'[j]]
    BY DEF Crash
  <1>4. inv' \in [Invocations -> Row]
    BY <1>2, <1>3
  <1>5. \A t \in Servers: Held(t)' <= Pool
    <2>1. CASE Invocations = {}
      <3>1. ASSUME NEW t \in Servers PROVE Held(t)' <= Pool
        <4>1. {j \in Invocations: Home[j] = t /\ inv'[j].conn} = {}
          BY <2>1
        <4>2. Held(t)' = Cardinality({j \in Invocations: Home[j] = t /\ inv'[j].conn})
          BY DEF Held
        <4>3. Held(t)' = 0
          BY <4>1, <4>2, FS_EmptySet
        <4>4. QED
          BY <4>3, BudgetAssumption
      <3>2. QED
        BY <3>1
    <2>2. CASE Invocations # {}
      <3>1. PICK j \in Invocations: TRUE
        BY <2>2
      <3>2. \A k \in Invocations: inv'[k].conn => inv[k].conn
        BY <1>2
      <3>3. \A t \in Servers: Held(t) <= Pool
        BY DEF Inv
      <3>4. QED
        BY <3>1, <3>2, <3>3, OutAfter
    <2>3. QED
      BY <2>1, <2>2
  <1>6. ReservationHolds'
    BY <1>2 DEF Inv, ReservationHolds, Crash
  <1>7. lock' \in Invocations \cup {Nobody} /\ faults' \in 0..Faults
    <2>1. lock' \in Invocations \cup {Nobody}
      BY <1>1 DEF Crash
    <2>2. faults < Faults /\ faults' = faults + 1
      BY DEF Crash
    <2>3. QED
      BY <1>1, <2>1, <2>2, BudgetAssumption
  <1>8. TypeOK'
    BY <1>4, <1>7 DEF Inv, TypeOK, Row, Crash
  <1>9. QED
    BY <1>2, <1>5, <1>6, <1>8 DEF Inv

LEMMA NextInv == Inv /\ [Next]_vars => Inv'
  <1> SUFFICES ASSUME Inv, [Next]_vars PROVE Inv'
    OBVIOUS
  <1>1. CASE Configure
    BY <1>1 DEF Configure, Inv, TypeOK, Placed, ReservationHolds, Held
  <1>2. ASSUME NEW i \in Invocations, Step(i) \/ EventRefused(i) \/ RecordFails(i) PROVE Inv'
    BY <1>2, ReserveStep, InvokeStep, RecordStep DEF Step
  <1>3. ASSUME NEW s \in Servers, Crash(s) PROVE Inv'
    BY <1>3, CrashStep
  <1>4. CASE UNCHANGED vars
    BY <1>4 DEF vars, Inv, TypeOK, Placed, ReservationHolds, Held
  <1>5. QED
    BY <1>1, <1>2, <1>3, <1>4 DEF Next

LEMMA Invariance == Spec => []Inv
  BY InitInv, NextInv, PTL DEF Spec

-----------------------------------------------------------------------------
(* The rows, the events and the lock are well formed; what was spent never *)
(* passes the limit of its column, with any charge of the providers.       *)
THEOREM BudgetTyped == Spec => []TypeOK
  <1>1. Inv => TypeOK
    BY DEF Inv
  <1>2. QED
    BY <1>1, Invariance, PTL

(* A reservation stays good until its invocation is settled, no server has *)
(* more connections out than its pool, a settled invocation has none, and  *)
(* the advisory lock is held by a session at work, through crashes and     *)
(* transactions that are rolled back.                                      *)
THEOREM BudgetHolds == Spec => []BudgetSound
  <1>1. Inv => BudgetSound
    <2> SUFFICES ASSUME Inv PROVE BudgetSound
      OBVIOUS
    <2>1. \A i \in Invocations: inv[i].stage \in Ended => ~inv[i].conn
      BY DEF Inv, Placed, Ended
    <2>2. lock # Nobody => inv[lock].conn /\ inv[lock].stage \in {"decide", "run", "record", "stranded"}
      BY DEF Inv, TypeOK, Placed
    <2>3. QED
      BY <2>1, <2>2 DEF Inv, BudgetSound, NothingLeaks
  <1>2. QED
    BY <1>1, Invariance, PTL

-----------------------------------------------------------------------------
(* The sum of a ledger.  It folds over the events in an order of its own;  *)
(* that every order gives the same is by induction over their number.      *)

Less == OpToRel(<, Nat)

LEMMA LessIs == \A x, y \in Nat: <<x, y>> \in Less <=> x < y
  BY DEF Less, OpToRel

LEMMA UpTo ==
  ASSUME NEW n \in Nat, NEW P, 0 \in P, \A k \in 1..n: k - 1 \in P => k \in P
  PROVE  \A k \in 0..n: k \in P
  <1> DEFINE Rest == {k \in 0..n: k \notin P}
  <1> SUFFICES ASSUME Rest # {} PROVE FALSE
    OBVIOUS
  <1>1. IsWellFoundedOn(Less, Nat)
    BY NatLessThanWellFounded DEF Less
  <1>2. Rest \subseteq Nat
    OBVIOUS
  <1>3. PICK k \in Rest: \A y \in Rest: ~(<<y, k>> \in Less)
    BY <1>1, <1>2, WFMin
  <1>4. k \in 1..n
    BY <1>3
  <1>5. k - 1 \in 0..n /\ k - 1 < k /\ k \in Nat /\ k - 1 \in Nat
    BY <1>4
  <1>6. <<k - 1, k>> \in Less
    BY <1>5, LessIs, Zenon
  <1>7. k - 1 \in P
    BY <1>3, <1>5, <1>6
  <1>8. QED
    BY <1>3, <1>4, <1>7

Costly(S) == IsFiniteSet(S) /\ \A e \in S: e.cost \in Nat
First(s) == CHOOSE e \in s: TRUE
Folds(S, g) == g = [s \in SUBSET S |->
                      IF s = {} THEN 0 ELSE First(s).cost + g[s \ {First(s)}]]

LEMMA TotalIs == ASSUME NEW S PROVE Total(S) = (CHOOSE g: Folds(S, g))[S]
  BY DEF Total, MapThenFoldSet, Folds, First

LEMMA FirstIn == ASSUME NEW s, s # {} PROVE First(s) \in s
  BY DEF First

LEMMA Smaller ==
  ASSUME NEW S, Costly(S), NEW s \in SUBSET S
  PROVE  /\ IsFiniteSet(s) /\ Cardinality(s) \in Nat /\ Cardinality(s) <= Cardinality(S)
         /\ Cardinality(s) = 0 <=> s = {}
         /\ \A e \in s: /\ s \ {e} \in SUBSET S
                        /\ Cardinality(s \ {e}) = Cardinality(s) - 1
  <1>1. IsFiniteSet(s) /\ Cardinality(s) <= Cardinality(S)
    BY FS_Subset DEF Costly
  <1>2. Cardinality(s) \in Nat /\ (Cardinality(s) = 0 <=> s = {})
    BY <1>1, FS_CardinalityType, FS_EmptySet
  <1>3. ASSUME NEW e \in s PROVE Cardinality(s \ {e}) = Cardinality(s) - 1
    BY <1>1, FS_RemoveElement
  <1>4. QED
    BY <1>1, <1>2, <1>3

\* What a fold gives on the subsets of no more than n events.
Partial(S, n, g) ==
  /\ g \in [{s \in SUBSET S: Cardinality(s) <= n} -> Nat]
  /\ \A s \in SUBSET S: Cardinality(s) <= n =>
       g[s] = IF s = {} THEN 0 ELSE First(s).cost + g[s \ {First(s)}]

LEMMA FoldExists ==
  ASSUME NEW S, Costly(S)
  PROVE  \E g: Folds(S, g) /\ g \in [SUBSET S -> Nat]
  <1> DEFINE n == Cardinality(S)
             P == {m \in 0..n: \E g: Partial(S, m, g)}
  <1>1. n \in Nat
    BY FS_CardinalityType DEF Costly
  <1>2. 0 \in P
    <2> DEFINE g == [s \in {x \in SUBSET S: Cardinality(x) <= 0} |-> 0]
    <2>1. \A s \in SUBSET S: Cardinality(s) <= 0 => s = {}
      BY Smaller
    <2>2. Partial(S, 0, g)
      BY <2>1 DEF Partial
    <2>3. QED
      BY <1>1, <2>2
  <1>3. ASSUME NEW m \in 1..n, m - 1 \in P PROVE m \in P
    <2>1. PICK g: Partial(S, m - 1, g)
      BY <1>3
    <2> DEFINE rest(s) == s \ {First(s)}
               h == [s \in {x \in SUBSET S: Cardinality(x) <= m} |->
                       IF Cardinality(s) = m THEN First(s).cost + g[rest(s)] ELSE g[s]]
    <2>2. m \in Nat /\ m # 0 /\ m - 1 \in Nat
      BY <1>1
    <2>3. ASSUME NEW s \in SUBSET S, Cardinality(s) <= m, s # {}
          PROVE  /\ rest(s) \in SUBSET S /\ Cardinality(rest(s)) <= m - 1
                 /\ Cardinality(rest(s)) # m /\ Cardinality(rest(s)) <= m
                 /\ First(s).cost \in Nat
      <3>1. First(s) \in s
        BY <2>3, FirstIn
      <3>2. Cardinality(s) \in Nat /\ Cardinality(rest(s)) = Cardinality(s) - 1 /\ rest(s) \in SUBSET S
        BY <3>1, Smaller
      <3>3. First(s).cost \in Nat
        BY <3>1 DEF Costly
      <3>4. QED
        BY <2>2, <2>3, <3>2, <3>3
    <2>4. \A s \in SUBSET S: Cardinality(s) <= m /\ Cardinality(s) # m => Cardinality(s) <= m - 1
      BY <2>2, Smaller
    <2>5. \A s \in SUBSET S: Cardinality(s) <= m - 1 => g[s] \in Nat
      BY <2>1 DEF Partial
    <2>6. \A s \in SUBSET S: Cardinality(s) = m => s # {}
      BY <2>2, Smaller
    <2> HIDE DEF rest
    <2>7. h \in [{s \in SUBSET S: Cardinality(s) <= m} -> Nat]
      <3>1. ASSUME NEW s \in SUBSET S, Cardinality(s) <= m
            PROVE  (IF Cardinality(s) = m THEN First(s).cost + g[rest(s)] ELSE g[s]) \in Nat
        BY <2>3, <2>4, <2>5, <2>6, <3>1
      <3>2. QED
        BY <3>1
    <2>8. ASSUME NEW s \in SUBSET S, Cardinality(s) <= m
          PROVE  h[s] = IF s = {} THEN 0 ELSE First(s).cost + h[rest(s)]
      <3>1. CASE s = {}
        <4>1. Cardinality(s) # m /\ Cardinality(s) <= m - 1
          BY <2>2, <2>4, <2>6, <2>8, <3>1
        <4>2. h[s] = g[s]
          BY <2>8, <4>1
        <4>3. g[s] = 0
          BY <2>1, <3>1, <4>1 DEF Partial
        <4>4. QED
          BY <3>1, <4>2, <4>3
      <3>2. CASE s # {}
        <4>1. h[rest(s)] = g[rest(s)]
          BY <2>3, <2>8, <3>2
        <4>2. CASE Cardinality(s) = m
          <5>1. h[s] = First(s).cost + g[rest(s)]
            BY <2>8, <4>2
          <5>2. QED
            BY <3>2, <4>1, <5>1
        <4>3. CASE Cardinality(s) # m
          <5>1. h[s] = g[s] /\ Cardinality(s) <= m - 1
            BY <2>4, <2>8, <4>3
          <5>2. g[s] = First(s).cost + g[rest(s)]
            BY <2>1, <3>2, <5>1 DEF Partial, rest
          <5>3. QED
            BY <3>2, <4>1, <5>1, <5>2
        <4>4. QED
          BY <4>2, <4>3
      <3>3. QED
        BY <3>1, <3>2
    <2> HIDE DEF h
    <2>9. Partial(S, m, h)
      BY <2>7, <2>8 DEF Partial, rest
    <2>10. QED
      BY <1>1, <2>9
  <1> HIDE DEF P
  <1>4. n \in P
    <2>1. \A k \in 0..n: k \in P
      BY <1>1, <1>2, <1>3, UpTo
    <2>2. QED
      BY <1>1, <2>1
  <1>5. PICK g: Partial(S, n, g)
    BY <1>4 DEF P
  <1>6. {s \in SUBSET S: Cardinality(s) <= n} = SUBSET S
    BY Smaller
  <1>7. g \in [SUBSET S -> Nat]
    BY <1>5, <1>6 DEF Partial
  <1>8. \A s \in SUBSET S: g[s] = IF s = {} THEN 0 ELSE First(s).cost + g[s \ {First(s)}]
    BY <1>5, <1>6 DEF Partial
  <1>9. Folds(S, g)
    BY <1>7, <1>8 DEF Folds
  <1>10. QED
    BY <1>7, <1>9

\* The fold of S, on its subsets.
Sums(S) == CHOOSE g: Folds(S, g)

LEMMA SumsAre ==
  ASSUME NEW S, Costly(S)
  PROVE  /\ Total(S) = Sums(S)[S]
         /\ \A s \in SUBSET S:
              Sums(S)[s] = IF s = {} THEN 0 ELSE First(s).cost + Sums(S)[s \ {First(s)}]
  <1> DEFINE g == Sums(S)
  <1>1. Folds(S, g)
    BY FoldExists DEF Sums
  <1>2. Total(S) = g[S]
    BY TotalIs DEF Sums
  <1> HIDE DEF g
  <1>3. \A s \in SUBSET S: g[s] = IF s = {} THEN 0 ELSE First(s).cost + g[s \ {First(s)}]
    <2> DEFINE body(s) == IF s = {} THEN 0 ELSE First(s).cost + g[s \ {First(s)}]
    <2>1. g = [s \in SUBSET S |-> body(s)]
      BY <1>1 DEF Folds
    <2> HIDE DEF body
    <2>2. \A s \in SUBSET S: g[s] = body(s)
      BY <2>1
    <2>3. QED
      BY <2>2 DEF body
  <1>4. QED
    BY <1>2, <1>3 DEF g

(* Whatever the order, one more event adds its cost.                       *)
LEMMA AnyOrder ==
  ASSUME NEW S, Costly(S)
  PROVE  \A s \in SUBSET S: /\ Sums(S)[s] \in Nat
                            /\ \A y \in s: Sums(S)[s] = y.cost + Sums(S)[s \ {y}]
  <1> DEFINE g == Sums(S)
             n == Cardinality(S)
             Good(s) == g[s] \in Nat /\ \A y \in s: g[s] = y.cost + g[s \ {y}]
             P == {m \in 0..n: \A s \in SUBSET S: Cardinality(s) <= m => Good(s)}
  <1>1. n \in Nat
    BY FS_CardinalityType DEF Costly
  <1>2. \A s \in SUBSET S: g[s] = IF s = {} THEN 0 ELSE First(s).cost + g[s \ {First(s)}]
    BY SumsAre
  <1> HIDE DEF g
  <1>3. 0 \in P
    <2>1. \A s \in SUBSET S: Cardinality(s) <= 0 => s = {}
      BY Smaller
    <2>2. g[{}] = 0
      BY <1>2
    <2>3. Good({})
      BY <2>2
    <2>4. \A s \in SUBSET S: Cardinality(s) <= 0 => Good(s)
      BY <2>1, <2>3
    <2> HIDE DEF Good
    <2>5. QED
      BY <1>1, <2>4
  <1>4. ASSUME NEW m \in 1..n, m - 1 \in P PROVE m \in P
    <2>1. m \in Nat /\ m - 1 \in Nat /\ m \in 0..n
      BY <1>1
    <2>2. \A s \in SUBSET S: Cardinality(s) <= m - 1 => Good(s)
      BY <1>4
    <2>3. ASSUME NEW s \in SUBSET S, Cardinality(s) <= m PROVE Good(s)
      <3>1. CASE s = {}
        BY <1>2, <3>1
      <3>2. CASE s # {}
        <4> DEFINE x == First(s)
        <4>1. x \in s /\ x.cost \in Nat
          BY <3>2, FirstIn DEF Costly
        <4>2. g[s] = x.cost + g[s \ {x}]
          BY <1>2, <3>2
        <4> HIDE DEF x
        <4>3. ASSUME NEW y \in s
              PROVE  s \ {y} \in SUBSET S /\ Cardinality(s \ {y}) <= m - 1
          BY <2>1, <2>3, Smaller
        <4>4. \A y \in s: Good(s \ {y})
          BY <2>2, <4>3
        <4>5. g[s \ {x}] \in Nat
          BY <4>1, <4>4
        <4>6. g[s] \in Nat
          BY <4>1, <4>2, <4>5
        <4>7. ASSUME NEW y \in s PROVE g[s] = y.cost + g[s \ {y}]
          <5>1. CASE y = x
            BY <4>2, <5>1
          <5>2. CASE y # x
            <6>1. y \in s \ {x} /\ x \in s \ {y}
              BY <4>1, <5>2
            <6>2. g[s \ {x}] = y.cost + g[(s \ {x}) \ {y}]
              BY <4>1, <4>4, <6>1
            <6>3. g[s \ {y}] = x.cost + g[(s \ {y}) \ {x}]
              BY <4>4, <6>1
            <6>4. (s \ {x}) \ {y} = (s \ {y}) \ {x}
              OBVIOUS
            <6>5. (s \ {y}) \ {x} \in SUBSET S /\ Cardinality((s \ {y}) \ {x}) <= m - 1
              <7>1. s \ {y} \in SUBSET S /\ Cardinality(s \ {y}) <= m - 1 /\ Cardinality(s \ {y}) \in Nat
                BY <4>3, Smaller
              <7>2. Cardinality((s \ {y}) \ {x}) = Cardinality(s \ {y}) - 1
                BY <6>1, <7>1, Smaller
              <7>3. QED
                BY <2>1, <7>1, <7>2
            <6>6. g[(s \ {y}) \ {x}] \in Nat
              BY <2>2, <6>5
            <6>7. y.cost \in Nat
              BY DEF Costly
            <6> DEFINE a == g[(s \ {y}) \ {x}]
            <6>8. g[s] = x.cost + (y.cost + a) /\ g[s \ {y}] = x.cost + a
              BY <4>2, <6>2, <6>3, <6>4
            <6>9. a \in Nat
              BY <6>6
            <6> HIDE DEF a
            <6>10. QED
              BY <4>1, <6>7, <6>8, <6>9
          <5>3. QED
            BY <5>1, <5>2
        <4>8. QED
          BY <4>6, <4>7
      <3>3. QED
        BY <3>1, <3>2
    <2>4. QED
      BY <2>1, <2>3
  <1> HIDE DEF P
  <1>5. n \in P
    <2>1. \A k \in 0..n: k \in P
      BY <1>1, <1>3, <1>4, UpTo
    <2>2. QED
      BY <1>1, <2>1
  <1>6. \A s \in SUBSET S: Cardinality(s) <= n
    BY Smaller
  <1>7. \A s \in SUBSET S: Good(s)
    BY <1>5, <1>6 DEF P
  <1>8. QED
    BY <1>7 DEF g

LEMMA SameSums ==
  ASSUME NEW S, Costly(S), NEW R \in SUBSET S
  PROVE  Total(R) = Sums(S)[R]
  <1> DEFINE n == Cardinality(R)
             P == {m \in 0..n: \A s \in SUBSET R: Cardinality(s) <= m => Sums(R)[s] = Sums(S)[s]}
  <1>1. Costly(R)
    BY FS_Subset DEF Costly
  <1>2. n \in Nat
    BY <1>1, FS_CardinalityType DEF Costly
  <1>3. \A s \in SUBSET R: s \in SUBSET S
    OBVIOUS
  <1>4. 0 \in P
    <2>1. \A s \in SUBSET R: Cardinality(s) <= 0 => s = {}
      BY <1>1, Smaller
    <2>2. Sums(R)[{}] = 0 /\ Sums(S)[{}] = 0
      BY <1>1, SumsAre
    <2>3. QED
      BY <1>2, <2>1, <2>2
  <1>5. ASSUME NEW m \in 1..n, m - 1 \in P PROVE m \in P
    <2>1. m \in Nat /\ m \in 0..n
      BY <1>2
    <2>2. ASSUME NEW s \in SUBSET R, Cardinality(s) <= m PROVE Sums(R)[s] = Sums(S)[s]
      <3>1. CASE s = {}
        BY <1>1, <3>1, SumsAre
      <3>2. CASE s # {}
        <4> DEFINE r == s \ {First(s)}
        <4>1. Sums(R)[s] = First(s).cost + Sums(R)[r] /\ Sums(S)[s] = First(s).cost + Sums(S)[r]
          BY <1>1, <1>3, <3>2, SumsAre
        <4>2. First(s) \in s
          BY <3>2, FirstIn
        <4>3. r \in SUBSET R /\ Cardinality(s) \in Nat /\ Cardinality(r) = Cardinality(s) - 1
          BY <1>1, <4>2, Smaller
        <4>4. Cardinality(r) <= m - 1
          BY <2>1, <2>2, <4>3
        <4> HIDE DEF r
        <4>5. Sums(R)[r] = Sums(S)[r]
          BY <1>5, <4>3, <4>4
        <4>6. QED
          BY <4>1, <4>5
      <3>3. QED
        BY <3>1, <3>2
    <2>3. QED
      BY <2>1, <2>2
  <1> HIDE DEF P
  <1>6. n \in P
    <2>1. \A k \in 0..n: k \in P
      BY <1>2, <1>4, <1>5, UpTo
    <2>2. QED
      BY <1>2, <2>1
  <1>7. Sums(R)[R] = Sums(S)[R]
    BY <1>2, <1>6 DEF P
  <1>8. QED
    BY <1>1, <1>7, SumsAre

(* The sum of a ledger to which an event is appended.                      *)
LEMMA OneMore ==
  ASSUME NEW S, Costly(S), NEW e, e \notin S, e.cost \in Nat
  PROVE  Total(S) \in Nat /\ Total(S \cup {e}) = Total(S) + e.cost
  <1> DEFINE T == S \cup {e}
  <1>1. Costly(T)
    BY FS_AddElement DEF Costly
  <1>2. T \ {e} = S /\ e \in T /\ S \in SUBSET T
    OBVIOUS
  <1> HIDE DEF T
  <1>3. Sums(T)[T] = e.cost + Sums(T)[S] /\ Sums(T)[S] \in Nat
    BY <1>1, <1>2, AnyOrder
  <1>4. Total(S) = Sums(T)[S] /\ Total(T) = Sums(T)[T]
    BY <1>1, <1>2, SameSums
  <1>5. QED
    BY <1>3, <1>4 DEF T

LEMMA NothingRecorded == Total({}) = 0
  <1>1. Costly({})
    BY FS_EmptySet DEF Costly
  <1>2. QED
    BY <1>1, SumsAre

-----------------------------------------------------------------------------
Counted(es) == {e \in es: e.counted}

\* An event is of an invocation that was settled by it.
LedgerInv == /\ Inv /\ IsFiniteSet(events)
             /\ \A e \in events: inv[e.of].stage = "done"
             /\ SpentIsWhatWasRecorded

LEMMA CountedCosts ==
  ASSUME LedgerInv PROVE Costly(Counted(events)) /\ Total(Counted(events)) \in Nat
  <1>1. IsFiniteSet(Counted(events))
    BY FS_Subset DEF LedgerInv, Counted
  <1>2. \A e \in events: e.cost \in Nat
    BY BudgetAssumption DEF LedgerInv, Inv, TypeOK
  <1>3. Costly(Counted(events))
    BY <1>1, <1>2 DEF Costly, Counted
  <1>4. Total(Counted(events)) \in Nat
    BY <1>3, SumsAre, AnyOrder
  <1>5. QED
    BY <1>3, <1>4

\* A settled invocation stays settled.
LEMMA DoneStays ==
  ASSUME LedgerInv, Next, NEW i \in Invocations, inv[i].stage = "done"
  PROVE  inv'[i].stage = "done"
  <1>1. inv \in [Invocations -> Row] /\ inv[i] \in Row
    BY DEF LedgerInv, Inv, TypeOK, Row
  <1>2. CASE Configure
    BY <1>2 DEF Configure
  <1>3. ASSUME NEW j \in Invocations, Step(j) \/ EventRefused(j) \/ RecordFails(j) PROVE inv'[i].stage = "done"
    <2>1. inv[j].stage # "done" /\ j # i
      BY <1>3 DEF Step, Connect, Check, Lock, Decide, Run, EventRefused, File, Record, RecordFails, At
    <2>2. \E v: inv' = [inv EXCEPT ![j] = v]
      BY <1>1, <1>3, Zenon DEF Step, Connect, Check, Lock, Decide, Run, EventRefused, File, Record, RecordFails,
                        Goto, Freed, Costed
    <2>3. inv'[i] = inv[i]
      BY <1>1, <2>1, <2>2
    <2>4. QED
      BY <2>3
  <1>4. ASSUME NEW s \in Servers, Crash(s) PROVE inv'[i].stage = "done"
    BY <1>4 DEF Crash, Ended
  <1>5. QED
    BY <1>2, <1>3, <1>4 DEF Next

LEMMA LedgerStep == LedgerInv /\ [Next]_vars => LedgerInv'
  <1> SUFFICES ASSUME LedgerInv, [Next]_vars PROVE LedgerInv'
    OBVIOUS
  <1>1. Inv'
    BY NextInv DEF LedgerInv
  <1>2. CASE UNCHANGED vars
    BY <1>1, <1>2 DEF vars, LedgerInv, SpentIsWhatWasRecorded
  <1>3. CASE Next /\ events' = events /\ budget'.spent = budget.spent
    <2>1. \A e \in events: e.of \in Invocations
      BY DEF LedgerInv, Inv, TypeOK
    <2>2. \A e \in events': inv'[e.of].stage = "done"
      BY <1>3, <2>1, DoneStays DEF LedgerInv
    <2>3. QED
      BY <1>1, <1>3, <2>2 DEF LedgerInv, SpentIsWhatWasRecorded
  <1>4. ASSUME NEW i \in Invocations, Record(i) PROVE LedgerInv'
    <2> DEFINE e == [of |-> i, cost |-> inv[i].cost, counted |-> inv[i].leased]
               C == Counted(events)
    <2>1. Next /\ inv \in [Invocations -> Row] /\ inv[i] \in Row
      BY <1>4 DEF Next, Step, LedgerInv, Inv, TypeOK, Row
    <2>2. inv[i].stage = "record" /\ events' = events \cup {e}
      BY <1>4 DEF Record, Spend, At
    <2>3. inv'[i].stage = "done"
      BY <1>4, <2>1 DEF Record, Freed, Row
    <2>4. e \notin events
      BY <2>2 DEF LedgerInv
    <2>5. \A d \in events': inv'[d.of].stage = "done"
      BY <2>1, <2>2, <2>3, DoneStays DEF LedgerInv, Inv, TypeOK
    <2>6. IsFiniteSet(events')
      BY <2>2, FS_AddElement DEF LedgerInv
    <2>7. inv[i].cost \in Nat /\ inv[i].leased \in BOOLEAN
      <3>1. inv[i].cost \in Costs \cup {0}
        BY <2>1 DEF Row
      <3>2. inv[i].leased \in BOOLEAN
        BY <2>1 DEF Row
      <3>3. Costs \cup {0} \subseteq Nat
        BY BudgetAssumption
      <3>4. inv[i].cost \in Nat
        BY <3>1, <3>3
      <3>5. QED
        BY <3>2, <3>4, Zenon
    <2>8. /\ Costly(C) /\ Total(C) \in Nat
          /\ budget.spent = Least(Limit, Total(C)) /\ Limit \in Nat
      BY CountedCosts, BudgetAssumption DEF LedgerInv, SpentIsWhatWasRecorded, Counted
    <2>9. CASE inv[i].leased
      <3>1. Counted(events') = C \cup {e} /\ e \notin C
        BY <2>2, <2>4, <2>9 DEF Counted
      <3>2. Total(Counted(events')) = Total(C) + inv[i].cost
        <4>1. e.cost = inv[i].cost
          OBVIOUS
        <4> HIDE DEF e, C
        <4>2. QED
          BY <2>7, <2>8, <3>1, <4>1, OneMore
      <3>3. budget'.spent = Least(Limit, budget.spent + inv[i].cost)
        BY <1>4, <2>9 DEF Record, Spend, LedgerInv, Inv, TypeOK
      <3>4. budget'.spent = Least(Limit, Total(Counted(events')))
        <4> DEFINE t == Total(C)
        <4>1. Least(Limit, Least(Limit, t) + inv[i].cost) = Least(Limit, t + inv[i].cost)
          <5>1. t \in Nat
            BY <2>8
          <5> HIDE DEF t
          <5>2. QED
            BY <2>7, <2>8, <5>1 DEF Least
        <4>2. QED
          BY <2>8, <3>2, <3>3, <4>1
      <3>5. QED
        BY <1>1, <2>5, <2>6, <3>4 DEF LedgerInv, SpentIsWhatWasRecorded, Counted
    <2>10. CASE ~inv[i].leased
      <3>1. Counted(events') = C
        BY <2>2, <2>10 DEF Counted
      <3>2. budget' = budget
        BY <1>4, <2>10 DEF Record, Spend
      <3>3. QED
        BY <1>1, <2>5, <2>6, <2>8, <3>1, <3>2 DEF LedgerInv, SpentIsWhatWasRecorded, Counted
    <2>11. QED
      BY <2>7, <2>9, <2>10
  <1>5. ASSUME Next, ~(\E i \in Invocations: Record(i))
        PROVE  events' = events /\ budget'.spent = budget.spent
    <2>1. CASE Configure
      BY <2>1 DEF Configure, LedgerInv, Inv, TypeOK
    <2>2. CASE \E i \in Invocations: Step(i) \/ EventRefused(i) \/ RecordFails(i)
      BY <1>5, <2>2 DEF Step, Connect, Check, Lock, Decide, Run, EventRefused, File, RecordFails
    <2>3. CASE \E s \in Servers: Crash(s)
      BY <2>3 DEF Crash
    <2>4. QED
      BY <1>5, <2>1, <2>2, <2>3 DEF Next
  <1>6. QED
    BY <1>2, <1>3, <1>4, <1>5

(* The row is the sum of its ledger: whatever the costs, however many      *)
(* invocations are settled at a time and whatever crashes or is rolled     *)
(* back, operations-budget-telemetry-postgres.ts counts each leased        *)
(* settlement once.                                                        *)
THEOREM SpentHolds == Spec => []SpentIsWhatWasRecorded
  <1>1. Init => LedgerInv
    <2> SUFFICES ASSUME Init PROVE LedgerInv
      OBVIOUS
    <2>1. Counted(events) = {} /\ IsFiniteSet(events) /\ budget.spent = 0
      BY FS_EmptySet DEF Init, Counted
    <2>2. budget.spent = Least(Limit, 0)
      BY <2>1, BudgetAssumption DEF Least
    <2>3. QED
      BY <2>1, <2>2, InitInv, NothingRecorded DEF Init, LedgerInv, SpentIsWhatWasRecorded, Counted
  <1>2. LedgerInv => SpentIsWhatWasRecorded
    BY DEF LedgerInv
  <1>3. QED
    BY <1>1, <1>2, LedgerStep, PTL DEF Spec
=============================================================================
