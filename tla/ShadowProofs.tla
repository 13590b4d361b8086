------------------------------ MODULE ShadowProofs ------------------------------
(***************************************************************************)
(* What holds of shadow evidence runs for any brands and fixtures, any     *)
(* cohort and number of repeats, any number of processes and starts, and   *)
(* wherever they crash: the invariant says of one run what its phase has   *)
(* established, and of one report what the run that wrote it established.  *)
(* Then the Marketing Lab's evidence, for any cases, processes and critics:*)
(* an authorization is used once, and its pairs are judged as they were.   *)
(* Then the analyses: every candidate has one outcome.  Last, the trends:  *)
(* a group is what its joins connect, which an argument by strong          *)
(* induction along a forest of signals shows.                              *)
(***************************************************************************)
EXTENDS ShadowRun, SequenceTheorems, FiniteSetTheorems, WellFoundedInduction,
        TLAPS

Kept == Customers \cup Spare
Phases == {"idle", "screen", "anchor", "control", "public", "fixtures", "pairs",
           "report", "undo", "ended"}
Entry == [origin: {"persisted", "disposable", "public"}, brand: Nat, content: 1..MaxContent]
Taken == [repeat: 1..Repeats, brand: Nat, content: 1..MaxContent]
Shape == [pc: Phases, plan: Plans \cup {"none"}, case: Cases \cup {Whole},
          todo: SUBSET (Kept \cup Publics), some: BOOLEAN, cohort: Seq(Entry),
          anchor: Nat, pairs: Seq(Taken) \cup [Publics -> 0..MaxContent],
          done: Seq(Taken)]

(* A cohort has room for its entries, none twice, and knows their origin.  *)
Brands(c) == {c[i].brand: i \in DOMAIN c}
Distinct(c) == \A i, j \in DOMAIN c: c[i].brand = c[j].brand => i = j
Sorted(c) == \A i \in DOMAIN c:
               IF c[i].origin = "public" THEN c[i].brand \in Publics ELSE c[i].brand \in Kept
Cohort(c) == c \in Seq(Entry) /\ Len(c) <= CohortSize /\ Distinct(c) /\ Sorted(c)
Persisted(c) == \A i \in DOMAIN c: c[i].origin # "public"
Headed(c) == c # <<>> /\ c[1].origin # "public"

(* What the phase of a run says of it. *)
One(r) == r.case # Whole =>
            \/ r.done = <<>> /\ r.pairs = <<PairOf(r.cohort, r.case)>>
            \/ r.done = <<PairOf(r.cohort, r.case)>> /\ r.pairs = <<>>
Phase(r) ==
  /\ r.pc \in {"screen", "public"} => Persisted(r.cohort)
  /\ r.pc = "screen" => r.todo \subseteq Kept \ Brands(r.cohort)
  /\ r.pc \in {"anchor", "control"} => r.cohort = <<>> /\ r.anchor \in Spare
  /\ r.pc \in {"public", "fixtures", "pairs", "report"} => Headed(r.cohort)
  /\ r.pc = "fixtures" =>
       /\ r.pairs \in [Publics -> 0..MaxContent]
       /\ r.todo \subseteq Publics \ Brands(r.cohort)
       /\ \A f \in r.todo: r.pairs[f] # 0
  /\ r.pc \notin {"pairs", "report", "ended"} => r.done = <<>>
  /\ r.pc \in {"pairs", "report"} =>
       Len(r.cohort) = CohortSize /\ r.pairs \in Seq(Taken) /\ One(r)
  /\ r.pc = "report" => r.pairs = <<>>
Going(r) == r \in Shape /\ Cohort(r.cohort) /\ Phase(r)

(* What a report says. *)
Measures(r) ==
  /\ Cohort(r.cohort) /\ Len(r.cohort) = CohortSize /\ Headed(r.cohort)
  /\ r.case \in 0..(CohortSize * Repeats)
  /\ r.case # Whole => r.pairs = <<PairOf(r.cohort, r.case)>>

World == /\ content \in [Customers \cup Publics -> 0..MaxContent]
         /\ changes \in Nat /\ rows \subseteq Spare /\ runs \in 0..MaxRuns
         /\ DOMAIN run = Procs
Runs == \A p \in Procs: Going(run[p])
Reports == IsFiniteSet(reports) /\ \A r \in reports: Measures(r)
Evidence == World /\ Runs /\ Reports
-----------------------------------------------------------------------------
(* Lemmas about the plan: each case names one pair of a cohort, and what   *)
(* the case is follows from the position and the repeat.                   *)
(* A number is its quotient's share and its remainder. *)
LEMMA Division ==
  ASSUME NEW n \in Nat, NEW k \in Nat \ {0}
  PROVE  /\ n \div k \in Nat /\ n % k \in 0..(k - 1)
         /\ n = k * (n \div k) + (n % k)
<1>1. k \in Nat /\ k # 0
  OBVIOUS
<1>2. n = k * (n \div k) + (n % k)
  BY <1>1, SMT
<1>3. n \div k \in Nat
  OBVIOUS
<1>4. n % k \in 0..(k - 1)
  OBVIOUS
<1> QED BY <1>2, <1>3, <1>4

(* A product grows with a factor. *)
LEMMA Product ==
  ASSUME NEW a \in Nat, NEW b \in Nat, NEW k \in Nat \ {0}, a >= b
  PROVE  a * k >= b * k
  OBVIOUS

(* What is less than m shares has a quotient less than m. *)
LEMMA Quotient ==
  ASSUME NEW n \in Nat, NEW k \in Nat \ {0}, NEW m \in Nat, n < m * k
  PROVE  n \div k < m
<1> DEFINE q == n \div k
<1>1. q \in Nat /\ n % k \in 0..(k - 1) /\ n = k * q + (n % k)
  BY Division
<1>2. CASE q >= m
  <2>1. q * k >= m * k
    BY <1>1, <1>2, Product
  <2>2. q * k = k * q /\ k * q \in Nat /\ m * k \in Nat
    BY <1>1
  <2> HIDE DEF q
  <2> QED BY <1>1, <2>1, <2>2
<1> QED BY <1>1, <1>2

(* A run's case is a number of the plan, 0 when it measures the whole. *)
LEMMA CasesNumber ==
  ASSUME NEW x \in Cases \cup {0}
  PROVE  x \in 0..(CohortSize * Repeats)
<1>1. CohortSize * Repeats \in Nat
  BY ShadowAssumption
<1>2. CASE x \in Cases
  BY <1>2, ShadowAssumption
<1>3. CASE x = 0
  <2> DEFINE n == CohortSize * Repeats
  <2>1. n \in Nat
    BY <1>1
  <2> HIDE DEF n
  <2>2. x \in 0..n
    BY <1>3, <2>1
  <2> QED BY <2>2 DEF n
<1> QED BY <1>2, <1>3

(* A case is a position and a repeat of the plan. *)
LEMMA CaseNames ==
  ASSUME NEW i \in 1..(CohortSize * Repeats)
  PROVE  /\ ((i - 1) \div Repeats) + 1 \in 1..CohortSize
         /\ ((i - 1) % Repeats) + 1 \in 1..Repeats
         /\ i = Repeats * ((i - 1) \div Repeats) + ((i - 1) % Repeats) + 1
  BY ShadowAssumption, Division, Quotient

(* The pair of a case is of an entry of the cohort, with its content. *)
LEMMA PairSays ==
  ASSUME NEW c \in Seq(Entry), Len(c) = CohortSize,
         NEW i \in 1..(CohortSize * Repeats)
  PROVE  /\ PairOf(c, i) \in Taken
         /\ PairOf(c, i).repeat = ((i - 1) % Repeats) + 1
         /\ \E j \in DOMAIN c: /\ j = ((i - 1) \div Repeats) + 1
                               /\ PairOf(c, i).brand = c[j].brand
                               /\ PairOf(c, i).content = c[j].content
<1> DEFINE j == ((i - 1) \div Repeats) + 1
           k == ((i - 1) % Repeats) + 1
<1>1. j \in 1..CohortSize /\ k \in 1..Repeats
  BY CaseNames
<1>2. PairOf(c, i) = [repeat |-> k, brand |-> c[j].brand, content |-> c[j].content]
  BY DEF PairOf
<1>3. j = ((i - 1) \div Repeats) + 1 /\ k = ((i - 1) % Repeats) + 1
  OBVIOUS
<1> HIDE DEF j, k
<1>4. j \in DOMAIN c /\ c[j] \in Entry
  BY <1>1
<1>5. PairOf(c, i) \in Taken
  BY <1>1, <1>2, <1>4 DEF Taken, Entry
<1> QED BY <1>2, <1>3, <1>4, <1>5

(* Two cases of one cohort that measure one brand measure one content, and *)
(* are one case when they are the same repeat of it.                       *)
LEMMA PairsAgree ==
  ASSUME NEW c, Cohort(c), Len(c) = CohortSize,
         NEW i \in 1..(CohortSize * Repeats), NEW n \in 1..(CohortSize * Repeats),
         PairOf(c, i).brand = PairOf(c, n).brand
  PROVE  /\ PairOf(c, i).content = PairOf(c, n).content
         /\ PairOf(c, i).repeat = PairOf(c, n).repeat => i = n
<1>1. c \in Seq(Entry) /\ Distinct(c)
  BY DEF Cohort
<1>2. PICK j \in DOMAIN c: /\ j = ((i - 1) \div Repeats) + 1
                           /\ PairOf(c, i).brand = c[j].brand
                           /\ PairOf(c, i).content = c[j].content
  BY <1>1, PairSays
<1>3. PICK k \in DOMAIN c: /\ k = ((n - 1) \div Repeats) + 1
                           /\ PairOf(c, n).brand = c[k].brand
                           /\ PairOf(c, n).content = c[k].content
  BY <1>1, PairSays
<1>4. j = k
  BY <1>1, <1>2, <1>3 DEF Distinct
<1>5. ASSUME PairOf(c, i).repeat = PairOf(c, n).repeat
      PROVE  i = n
  <2> DEFINE x == (i - 1) \div Repeats
             y == (n - 1) \div Repeats
             a == (i - 1) % Repeats
             b == (n - 1) % Repeats
  <2>1. i - 1 \in Nat /\ n - 1 \in Nat
    OBVIOUS
  <2>2. x \in Nat /\ y \in Nat /\ a \in Nat /\ b \in Nat
    <3>1. ASSUME NEW m \in Nat PROVE m \div Repeats \in Nat /\ m % Repeats \in Nat
      <4>1. Repeats \in Nat \ {0}
        BY ShadowAssumption
      <4>2. m \div Repeats \in Nat
        BY <4>1, Division
      <4>3. m % Repeats \in 0..(Repeats - 1)
        BY <4>1, Division
      <4> QED BY <4>1, <4>2, <4>3
    <3> QED BY <2>1, <3>1
  <2>3. x + 1 = y + 1 /\ a + 1 = b + 1
    BY <1>1, <1>2, <1>3, <1>4, <1>5, PairSays
  <2>4. i = Repeats * x + a + 1 /\ n = Repeats * y + b + 1
    BY CaseNames
  <2> HIDE DEF x, y, a, b
  <2>5. x = y /\ a = b
    BY <2>2, <2>3
  <2> QED BY <2>4, <2>5
<1> QED BY <1>2, <1>3, <1>4, <1>5

(* As many brands as a cohort has entries. *)
LEMMA BrandsCounted ==
  ASSUME NEW c, Cohort(c), Len(c) = CohortSize
  PROVE  IsFiniteSet(Brands(c)) /\ Cardinality(Brands(c)) = CohortSize
<1> DEFINE f == [i \in 1..CohortSize |-> c[i].brand]
<1>1. c \in Seq(Entry) /\ DOMAIN c = 1..CohortSize /\ CohortSize \in Nat
  BY ShadowAssumption DEF Cohort
<1>2. f \in Bijection(1..CohortSize, Brands(c))
  <2>1. f \in [1..CohortSize -> Brands(c)]
    BY <1>1 DEF Brands
  <2>2. \A i, j \in 1..CohortSize: f[i] = f[j] => i = j
    BY <1>1 DEF Cohort, Distinct
  <2>3. \A b \in Brands(c): \E i \in 1..CohortSize: f[i] = b
    BY <1>1 DEF Brands
  <2> HIDE DEF f
  <2> QED BY <2>1, <2>2, <2>3 DEF Bijection, Injection, Surjection, IsInjective
<1>3. IsFiniteSet(1..CohortSize) /\ Cardinality(1..CohortSize) = CohortSize
  BY <1>1, FS_Interval, ShadowAssumption
<1>4. ExistsBijection(1..CohortSize, Brands(c))
  BY <1>2 DEF ExistsBijection
<1> QED BY <1>3, <1>4, FS_Bijection

(* Reports that are accepted together measured one cohort, as planned. *)
LEMMA AcceptedHonest ==
  ASSUME NEW S, IsFiniteSet(S), \A r \in S: Measures(r), Accepted(S)
  PROVE  LET pairs == {r.pairs[1]: r \in S} IN
         /\ Cardinality(pairs) = CohortSize * Repeats
         /\ \A x, y \in pairs: x.brand = y.brand => x.content = y.content
         /\ \E x \in pairs: x.brand \in Customers \cup Spare
<1> DEFINE pairs == {r.pairs[1]: r \in S}
<1>1. /\ Cardinality(S) = CohortSize * Repeats
      /\ \A r \in S: r.case # Whole /\ r.pairs[1].repeat = ((r.case - 1) % Repeats) + 1
      /\ \A r, q \in S: r.cohort = q.cohort /\ (r # q => r.case # q.case)
      /\ Cardinality({Brand(r): r \in S}) = CohortSize
  BY DEF Accepted, SameCohort
<1>2. ASSUME NEW r \in S
      PROVE  /\ Cohort(r.cohort) /\ Len(r.cohort) = CohortSize /\ Headed(r.cohort)
             /\ r.case \in 1..(CohortSize * Repeats)
             /\ r.pairs[1] = PairOf(r.cohort, r.case)
  <2>1. r.case \in 0..(CohortSize * Repeats) /\ r.case # 0
    BY <1>1 DEF Measures, Whole
  <2>2. r.pairs = <<PairOf(r.cohort, r.case)>>
    BY <1>1 DEF Measures
  <2>3. CohortSize * Repeats \in Nat
    BY ShadowAssumption
  <2>4. r.case \in 1..(CohortSize * Repeats)
    BY <2>1, <2>3
  <2> QED BY <2>2, <2>4 DEF Measures
<1>3. ASSUME NEW r \in S, NEW q \in S, r.pairs[1].brand = q.pairs[1].brand
      PROVE  /\ r.pairs[1].content = q.pairs[1].content
             /\ r.pairs[1].repeat = q.pairs[1].repeat => r = q
  <2>1. r.cohort = q.cohort
    BY <1>1
  <2>2. /\ r.pairs[1] = PairOf(r.cohort, r.case)
        /\ q.pairs[1] = PairOf(r.cohort, q.case)
    BY <1>2, <2>1
  <2>3. PairOf(r.cohort, r.case).brand = PairOf(r.cohort, q.case).brand
    BY <1>3, <2>2
  <2>4. /\ PairOf(r.cohort, r.case).content = PairOf(r.cohort, q.case).content
        /\ PairOf(r.cohort, r.case).repeat = PairOf(r.cohort, q.case).repeat
             => r.case = q.case
    BY <1>2, <2>3, PairsAgree
  <2> QED BY <1>1, <2>2, <2>4
<1>4. Cardinality(pairs) = CohortSize * Repeats
  <2> DEFINE f == [r \in S |-> r.pairs[1]]
  <2>1. f \in Bijection(S, pairs)
    <3>1. f \in [S -> pairs]
      OBVIOUS
    <3>2. \A r, q \in S: f[r] = f[q] => r = q
      BY <1>3
    <3>3. \A x \in pairs: \E r \in S: f[r] = x
      OBVIOUS
    <3> HIDE DEF f, pairs
    <3> QED BY <3>1, <3>2, <3>3 DEF Bijection, Injection, Surjection, IsInjective
  <2>2. ExistsBijection(S, pairs)
    BY <2>1 DEF ExistsBijection
  <2> QED BY <1>1, <2>2, FS_Bijection
<1>5. \E x \in pairs: x.brand \in Customers \cup Spare
  <2>1. S # {}
    BY <1>1, ShadowAssumption, FS_EmptySet
  <2>2. PICK r \in S: TRUE
    BY <2>1
  <2> DEFINE c == r.cohort
  <2>3. Cohort(c) /\ Len(c) = CohortSize /\ Headed(c)
    BY <1>2
  <2>4. 1 \in DOMAIN c /\ c[1].brand \in Kept
    BY <2>3, ShadowAssumption DEF Headed, Cohort, Sorted
  <2>5. {Brand(q): q \in S} \subseteq Brands(c)
    <3>1. ASSUME NEW q \in S PROVE Brand(q) \in Brands(c)
      <4>1. /\ q.cohort = c /\ q.pairs[1] = PairOf(q.cohort, q.case)
            /\ q.case \in 1..(CohortSize * Repeats)
        BY <1>1, <1>2
      <4>2. c \in Seq(Entry) /\ Len(c) = CohortSize
        BY <2>3 DEF Cohort
      <4>3. \E j \in DOMAIN c: PairOf(c, q.case).brand = c[j].brand
        BY <4>1, <4>2, PairSays
      <4> QED BY <4>1, <4>3 DEF Brand, Brands
    <3> QED BY <3>1
  <2>6. {Brand(q): q \in S} = Brands(c)
    BY <1>1, <2>3, <2>5, BrandsCounted, FS_Subset
  <2>7. c[1].brand \in {Brand(q): q \in S}
    BY <2>4, <2>6 DEF Brands
  <2> QED BY <2>4, <2>7 DEF Brand, Kept
<1> QED BY <1>3, <1>4, <1>5

-----------------------------------------------------------------------------
(* What the actions of a run do to its record. *)
LEMMA Idles == Going(Idle)
<1>1. Idle \in Shape
  BY DEF Idle, Shape, Phases, Whole
<1>2. Cohort(<<>>) /\ Persisted(<<>>)
  BY ShadowAssumption DEF Cohort, Distinct, Sorted, Persisted
<1> QED BY <1>1, <1>2 DEF Going, Phase, Idle

(* A comparable control joins the cohort it has room in. *)
LEMMA Joins ==
  ASSUME NEW c, Cohort(c), Len(c) < CohortSize, NEW e \in Entry, e.brand \notin Brands(c),
         IF e.origin = "public" THEN e.brand \in Publics ELSE e.brand \in Kept
  PROVE  /\ Cohort(Append(c, e)) /\ Append(c, e) # <<>>
         /\ Brands(Append(c, e)) = Brands(c) \cup {e.brand}
         /\ Persisted(c) /\ e.origin # "public" =>
              Persisted(Append(c, e)) /\ Headed(Append(c, e))
         /\ Headed(c) => Headed(Append(c, e))
<1> DEFINE d == Append(c, e)
<1>1. c \in Seq(Entry) /\ Len(c) \in Nat /\ CohortSize \in Nat
  BY ShadowAssumption DEF Cohort
<1>2. /\ d \in Seq(Entry) /\ Len(d) = Len(c) + 1 /\ d[Len(c) + 1] = e
      /\ \A i \in DOMAIN c: d[i] = c[i]
  BY <1>1, AppendProperties
<1>3. DOMAIN d = DOMAIN c \cup {Len(c) + 1} /\ Len(c) + 1 \notin DOMAIN c
  BY <1>1, <1>2
<1> HIDE DEF d
<1>4. Brands(d) = Brands(c) \cup {e.brand}
  BY <1>2, <1>3 DEF Brands
<1>5. Distinct(d)
  BY <1>2, <1>3 DEF Brands, Cohort, Distinct
<1>6. Sorted(d)
  BY <1>2, <1>3 DEF Cohort, Sorted
<1>7. Cohort(d) /\ d # <<>>
  BY <1>1, <1>2, <1>5, <1>6 DEF Cohort
<1>8. ASSUME Persisted(c), e.origin # "public" PROVE Persisted(d) /\ Headed(d)
  <2>1. Persisted(d)
    BY <1>2, <1>3, <1>8 DEF Persisted
  <2>2. 1 \in DOMAIN d
    BY <1>1, <1>2
  <2> QED BY <1>7, <2>1, <2>2 DEF Persisted, Headed
<1>9. ASSUME Headed(c) PROVE Headed(d)
  <2>1. 1 \in DOMAIN c
    BY <1>1, <1>9 DEF Headed
  <2> QED BY <1>2, <1>7, <1>9, <2>1 DEF Headed
<1> QED BY <1>4, <1>7, <1>8, <1>9 DEF d

(* A step of one run concerns no other. *)
LEMMA Mine ==
  ASSUME Evidence, NEW p \in Procs, NEW r, Going(r), Me(p, r)
  PROVE  Runs' /\ (DOMAIN run)' = Procs
BY DEF Evidence, World, Runs, Me

LEMMA MineOnly ==
  ASSUME Evidence, NEW p \in Procs, NEW r, Going(r), Me(p, r),
         UNCHANGED <<content, changes, rows, runs, reports>>
  PROVE  Evidence'
BY Mine DEF Evidence, World, Reports

LEMMA ChangesKeeps ==
  ASSUME Evidence, NEW b \in Customers \cup Publics, NEW v \in 0..MaxContent, Changes(b, v)
  PROVE  Evidence'
BY DEF Changes, Evidence, World, Runs, Reports

LEMMA StartKeeps ==
  ASSUME Evidence, NEW p \in Procs, NEW plan \in Plans, NEW case \in Cases,
         Start(p, plan, case)
  PROVE  Evidence'
<1> DEFINE w == [Idle EXCEPT !.pc = "screen", !.plan = plan, !.case = case,
                             !.todo = Screened(listCandidateBrands),
                             !.some = listCandidateBrands # {}]
           e == [Idle EXCEPT !.pc = "ended"]
<1>1. Me(p, IF Pinned # 0 /\ Pinned \notin listCandidateBrands THEN e ELSE w)
  BY DEF Start
<1>2. Going(e)
  BY Idles DEF Going, Shape, Idle, Phase, Phases
<1>3. Cohort(<<>>) /\ Persisted(<<>>) /\ Brands(<<>>) = {}
  BY ShadowAssumption DEF Cohort, Distinct, Sorted, Persisted, Brands
<1>4. listCandidateBrands \subseteq Kept
  BY DEF listCandidateBrands, Kept, Evidence, World
<1>5. CASE Pinned # 0 /\ Pinned \notin listCandidateBrands
  <2>1. Me(p, e)
    BY <1>1, <1>5
  <2>2. Runs' /\ (DOMAIN run)' = Procs
    BY <1>2, <2>1, Mine
  <2> QED BY <2>2, ShadowAssumption DEF Start, Evidence, World, Reports
<1>6. CASE ~(Pinned # 0 /\ Pinned \notin listCandidateBrands)
  <2>1. Me(p, w)
    BY <1>1, <1>6
  <2>2. Screened(listCandidateBrands) \subseteq Kept
    BY <1>4, <1>6 DEF Screened
  <2>3. w \in Shape
    <3>1. Idle \in Shape
      BY Idles DEF Going
    <3>2. /\ "screen" \in Phases /\ plan \in Plans \cup {"none"}
          /\ case \in Cases \cup {Whole} /\ (listCandidateBrands # {}) \in BOOLEAN
          /\ Screened(listCandidateBrands) \in SUBSET (Kept \cup Publics)
      BY <2>2 DEF Phases
    <3> HIDE DEF Screened, listCandidateBrands, Phases
    <3> QED BY <3>1, <3>2 DEF Shape
  <2>4. /\ w.pc = "screen" /\ w.cohort = <<>> /\ w.done = <<>>
        /\ w.todo = Screened(listCandidateBrands)
    BY DEF Idle
  <2> HIDE DEF w
  <2>5. Going(w)
    BY <1>3, <2>2, <2>3, <2>4 DEF Going, Phase
  <2>6. Runs' /\ (DOMAIN run)' = Procs
    BY <2>1, <2>5, Mine
  <2> QED BY <2>6, ShadowAssumption DEF Start, Evidence, World, Reports
<1> QED BY <1>5, <1>6

LEMMA ScreenKeeps ==
  ASSUME Evidence, NEW p \in Procs, NEW ok \in BOOLEAN, Screen(p, ok)
  PROVE  Evidence'
<1> DEFINE r == run[p]
<1>1. Going(r) /\ r \in Shape /\ Cohort(r.cohort)
  BY DEF Evidence, Runs, Going
<1>2. r.pc = "screen" /\ Len(r.cohort) < CohortSize
  BY DEF Screen, At, Short
<1>3. PICK b \in r.todo:
        /\ Says(b) = 0 => ~ok
        /\ Me(p, [WithCohort(p, "persisted", b, Says(b), ok) EXCEPT !.todo = @ \ {b}])
  BY DEF Screen
<1> DEFINE e == [origin |-> "persisted", brand |-> b, content |-> Says(b)]
           v == WithCohort(p, "persisted", b, Says(b), ok)
           w == [v EXCEPT !.todo = @ \ {b}]
<1>4. /\ r.todo \subseteq Kept \ Brands(r.cohort) /\ Persisted(r.cohort) /\ r.done = <<>>
      /\ b \in Kept /\ b \notin Brands(r.cohort) /\ r.todo \in SUBSET (Kept \cup Publics)
  BY <1>1, <1>2 DEF Going, Phase, Shape
<1>5. CASE ok
  <2>1. e \in Entry
    <3>1. Says(b) \in 0..MaxContent
      BY ShadowAssumption DEF Says, Evidence, World
    <3>2. Says(b) \in 1..MaxContent
      BY <1>3, <1>5, <3>1, ShadowAssumption
    <3>3. b \in Nat
      BY <1>4, ShadowAssumption DEF Kept
    <3> QED BY <3>2, <3>3 DEF Entry
  <2>2. v = [r EXCEPT !.cohort = Append(@, e)]
    BY <1>5 DEF WithCohort
  <2>3. e.brand = b /\ e.origin = "persisted"
    OBVIOUS
  <2> HIDE DEF e
  <2>4. /\ Cohort(Append(r.cohort, e)) /\ Persisted(Append(r.cohort, e))
        /\ Brands(Append(r.cohort, e)) = Brands(r.cohort) \cup {b}
    BY <1>1, <1>2, <1>4, <2>1, <2>3, Joins
  <2>5. v \in Shape /\ v.pc = "screen" /\ v.done = <<>> /\ v.todo = r.todo
        /\ v.cohort = Append(r.cohort, e)
    BY <1>1, <1>2, <1>4, <2>2, <2>4 DEF Shape, Cohort
  <2> HIDE DEF v
  <2>6. w \in Shape /\ w.pc = "screen" /\ w.done = <<>> /\ w.todo = r.todo \ {b}
        /\ w.cohort = Append(r.cohort, e)
    BY <1>4, <2>5 DEF Shape
  <2> HIDE DEF w
  <2>7. Going(w)
    BY <1>4, <2>4, <2>6 DEF Going, Phase
  <2>8. Me(p, w)
    BY <1>3 DEF v, w
  <2> QED BY <2>7, <2>8, MineOnly DEF Screen
<1>6. CASE ~ok
  <2>1. v = r
    BY <1>6 DEF WithCohort
  <2> HIDE DEF v
  <2>2. w \in Shape /\ w.pc = "screen" /\ w.done = <<>> /\ w.todo = r.todo \ {b}
        /\ w.cohort = r.cohort
    BY <1>1, <1>2, <1>4, <2>1 DEF Shape
  <2> HIDE DEF w
  <2>3. Going(w)
    BY <1>1, <1>4, <2>2 DEF Going, Phase
  <2>4. Me(p, w)
    BY <1>3 DEF v, w
  <2> QED BY <2>3, <2>4, MineOnly DEF Screen
<1> QED BY <1>5, <1>6

LEMMA CreateAnchorKeeps ==
  ASSUME Evidence, NEW p \in Procs, NEW d \in Spare, CreateAnchor(p, d)
  PROVE  Evidence'
<1> DEFINE r == run[p]
           w == [r EXCEPT !.pc = "anchor", !.anchor = d]
<1>1. Going(r) /\ r \in Shape /\ Cohort(r.cohort) /\ r.pc = "screen" /\ r.cohort = <<>>
  BY DEF Evidence, Runs, Going, CreateAnchor, Screened1, At
<1>2. r.done = <<>> /\ d \in Nat
  BY <1>1, ShadowAssumption DEF Going, Phase
<1>3. w \in Shape /\ w.pc = "anchor" /\ w.anchor = d /\ w.cohort = <<>> /\ w.done = <<>>
  BY <1>1, <1>2 DEF Shape, Phases
<1>4. Me(p, w)
  BY DEF CreateAnchor
<1> HIDE DEF w
<1>5. Going(w)
  BY <1>1, <1>3 DEF Going, Phase
<1>6. Runs' /\ (DOMAIN run)' = Procs
  BY <1>4, <1>5, Mine
<1> QED BY <1>6 DEF CreateAnchor, Evidence, World, Reports

LEMMA PrepareAnchorKeeps ==
  ASSUME Evidence, NEW p \in Procs, NEW ok \in BOOLEAN, PrepareAnchor(p, ok)
  PROVE  Evidence'
<1> DEFINE r == run[p]
           w == [r EXCEPT !.pc = IF ok THEN "control" ELSE "undo"]
<1>1. Going(r) /\ r \in Shape /\ r.pc = "anchor"
  BY DEF Evidence, Runs, Going, PrepareAnchor, At
<1>2. w \in Shape /\ w.pc = (IF ok THEN "control" ELSE "undo") /\ w.anchor = r.anchor
      /\ w.cohort = r.cohort /\ w.done = r.done
  BY <1>1 DEF Shape, Phases
<1>3. Me(p, w)
  BY DEF PrepareAnchor, Goto
<1> HIDE DEF w
<1>4. Going(w)
  BY <1>1, <1>2 DEF Going, Phase
<1> QED BY <1>3, <1>4, MineOnly DEF PrepareAnchor

LEMMA ScreenAnchorKeeps ==
  ASSUME Evidence, NEW p \in Procs, NEW ok \in BOOLEAN, ScreenAnchor(p, ok)
  PROVE  Evidence'
<1> DEFINE r == run[p]
           e == [origin |-> "disposable", brand |-> r.anchor, content |-> 1]
           v == WithCohort(p, "disposable", r.anchor, 1, ok)
           w == [v EXCEPT !.pc = IF ok THEN "public" ELSE AfterRefusal]
<1>1. Going(r) /\ r \in Shape /\ r.pc = "control" /\ Cohort(r.cohort)
  BY DEF Evidence, Runs, Going, ScreenAnchor, At
<1>2. r.cohort = <<>> /\ r.anchor \in Spare /\ r.done = <<>>
  BY <1>1 DEF Going, Phase
<1>3. e \in Entry /\ e.brand = r.anchor /\ e.origin = "disposable"
  BY <1>2, ShadowAssumption DEF Entry
<1>4. Me(p, w)
  BY DEF ScreenAnchor
<1>5. CASE ok
  <2>1. v = [r EXCEPT !.cohort = Append(@, e)]
    BY <1>5 DEF WithCohort
  <2> HIDE DEF e
  <2>2. Cohort(Append(r.cohort, e)) /\ Persisted(Append(r.cohort, e)) /\ Headed(Append(r.cohort, e))
    <3>1. Persisted(<<>>) /\ Brands(<<>>) = {} /\ Len(<<>>) < CohortSize
      BY ShadowAssumption DEF Persisted, Brands
    <3> QED BY <1>1, <1>2, <1>3, <3>1, Joins DEF Kept
  <2>3. v \in Shape /\ v.pc = "control" /\ v.done = <<>> /\ v.cohort = Append(r.cohort, e)
    BY <1>1, <1>2, <2>1, <2>2 DEF Shape, Cohort
  <2> HIDE DEF v
  <2>4. w \in Shape /\ w.pc = "public" /\ w.done = <<>> /\ w.cohort = Append(r.cohort, e)
    BY <1>5, <2>3 DEF Shape, Phases
  <2> HIDE DEF w
  <2>5. Going(w)
    BY <2>2, <2>4 DEF Going, Phase
  <2> QED BY <1>4, <2>5, MineOnly DEF ScreenAnchor
<1>6. CASE ~ok
  <2>1. v = r
    BY <1>6 DEF WithCohort
  <2> HIDE DEF v
  <2>2. w \in Shape /\ w.pc = "ended" /\ w.done = <<>> /\ w.cohort = r.cohort
    BY <1>1, <1>2, <1>6, <2>1 DEF Shape, Phases, AfterRefusal
  <2> HIDE DEF w
  <2>3. Going(w)
    BY <1>1, <2>2 DEF Going, Phase
  <2> QED BY <1>4, <2>3, MineOnly DEF ScreenAnchor
<1> QED BY <1>5, <1>6

LEMMA NoAnchorKeeps ==
  ASSUME Evidence, NEW p \in Procs, NoAnchor(p)
  PROVE  Evidence'
<1> DEFINE r == run[p]
           w == [r EXCEPT !.pc = IF r.cohort = <<>> THEN "ended" ELSE "public"]
<1>1. Going(r) /\ r \in Shape /\ r.pc = "screen" /\ Cohort(r.cohort)
  BY DEF Evidence, Runs, Going, NoAnchor, Screened1, At
<1>2. Persisted(r.cohort) /\ r.done = <<>>
  BY <1>1 DEF Going, Phase
<1>3. w \in Shape /\ w.pc = (IF r.cohort = <<>> THEN "ended" ELSE "public")
      /\ w.cohort = r.cohort /\ w.done = r.done
  BY <1>1 DEF Shape, Phases
<1>4. Me(p, w)
  BY DEF NoAnchor, Goto
<1> HIDE DEF w
<1>5. r.cohort # <<>> => Headed(r.cohort)
  <2>1. r.cohort # <<>> => 1 \in DOMAIN r.cohort
    BY <1>1 DEF Cohort
  <2> QED BY <1>2, <2>1 DEF Persisted, Headed
<1>6. Going(w)
  BY <1>1, <1>2, <1>3, <1>5 DEF Going, Phase
<1> QED BY <1>4, <1>6, MineOnly DEF NoAnchor

LEMMA BuildPublicKeeps ==
  ASSUME Evidence, NEW p \in Procs, NEW S \in SUBSET Publics, BuildPublic(p, S)
  PROVE  Evidence'
<1> DEFINE r == run[p]
           taken == {f \in S: Cardinality({g \in S: g < f}) < Limit(p)}
           built == [f \in Publics |-> content[f]]
           u == [r EXCEPT !.pc = "undo"]
           w == [r EXCEPT !.pc = "fixtures", !.todo = taken, !.pairs = built]
<1>1. Going(r) /\ r \in Shape /\ r.pc = "public" /\ Cohort(r.cohort)
  BY DEF Evidence, Runs, Going, BuildPublic, At
<1>2. Persisted(r.cohort) /\ Headed(r.cohort) /\ r.done = <<>>
  BY <1>1 DEF Going, Phase
<1>3. Me(p, u) \/ Me(p, w)
  BY DEF BuildPublic, Buildable
<1>4. taken \subseteq Publics /\ \A f \in taken: built[f] # 0
  BY DEF BuildPublic, Buildable
<1>5. built \in [Publics -> 0..MaxContent]
  BY DEF Evidence, World
<1>6. taken \cap Brands(r.cohort) = {}
  BY <1>1, <1>2, <1>4, ShadowAssumption DEF Brands, Persisted, Cohort, Sorted, Kept
<1> HIDE DEF taken, built
<1>7. u \in Shape /\ u.pc = "undo" /\ u.cohort = r.cohort /\ u.done = <<>>
  BY <1>1, <1>2 DEF Shape, Phases
<1>8. w \in Shape /\ w.pc = "fixtures" /\ w.cohort = r.cohort /\ w.done = <<>>
      /\ w.todo = taken /\ w.pairs = built
  BY <1>1, <1>2, <1>4, <1>5 DEF Shape, Phases
<1> HIDE DEF u, w
<1>9. Going(u) /\ Going(w)
  BY <1>1, <1>2, <1>4, <1>5, <1>6, <1>7, <1>8 DEF Going, Phase
<1> QED BY <1>3, <1>9, MineOnly DEF BuildPublic

LEMMA ScreenPublicKeeps ==
  ASSUME Evidence, NEW p \in Procs, NEW ok \in BOOLEAN, ScreenPublic(p, ok)
  PROVE  Evidence'
<1> DEFINE r == run[p]
<1>1. Going(r) /\ r \in Shape /\ Cohort(r.cohort) /\ r.pc = "fixtures"
      /\ Len(r.cohort) < CohortSize
  BY DEF Evidence, Runs, Going, ScreenPublic, At, Short
<1>2. PICK f \in r.todo:
        Me(p, [WithCohort(p, "public", f, Built(p, f), ok) EXCEPT !.todo = @ \ {f}])
  BY DEF ScreenPublic
<1> DEFINE e == [origin |-> "public", brand |-> f, content |-> Built(p, f)]
           v == WithCohort(p, "public", f, Built(p, f), ok)
           w == [v EXCEPT !.todo = @ \ {f}]
<1>3. /\ r.pairs \in [Publics -> 0..MaxContent] /\ r.todo \subseteq Publics \ Brands(r.cohort)
      /\ \A g \in r.todo: r.pairs[g] # 0
      /\ Headed(r.cohort) /\ r.done = <<>> /\ r.todo \in SUBSET (Kept \cup Publics)
  BY <1>1 DEF Going, Phase, Shape
<1>4. Me(p, w)
  BY <1>2
<1>5. CASE ok
  <2>1. e \in Entry
    <3>1. r.pairs[f] \in 0..MaxContent /\ r.pairs[f] # 0
      BY <1>3
    <3>2. r.pairs[f] \in 1..MaxContent /\ f \in Nat
      BY <1>3, <3>1, ShadowAssumption
    <3> QED BY <3>2 DEF Entry, Built
  <2>2. v = [r EXCEPT !.cohort = Append(@, e)]
    BY <1>5 DEF WithCohort
  <2>3. e.brand = f /\ e.origin = "public"
    OBVIOUS
  <2> HIDE DEF e
  <2>4. /\ Cohort(Append(r.cohort, e)) /\ Headed(Append(r.cohort, e))
        /\ Brands(Append(r.cohort, e)) = Brands(r.cohort) \cup {f}
    BY <1>1, <1>3, <2>1, <2>3, Joins
  <2>5. v \in Shape /\ v.pc = "fixtures" /\ v.done = <<>> /\ v.todo = r.todo
        /\ v.cohort = Append(r.cohort, e) /\ v.pairs = r.pairs
    BY <1>1, <1>3, <2>2, <2>4 DEF Shape, Cohort
  <2> HIDE DEF v
  <2>6. w \in Shape /\ w.pc = "fixtures" /\ w.done = <<>> /\ w.todo = r.todo \ {f}
        /\ w.cohort = Append(r.cohort, e) /\ w.pairs = r.pairs
    BY <1>3, <2>5 DEF Shape
  <2> HIDE DEF w
  <2>7. Going(w)
    BY <1>3, <2>4, <2>6 DEF Going, Phase
  <2> QED BY <1>4, <2>7, MineOnly DEF ScreenPublic
<1>6. CASE ~ok
  <2>1. v = r
    BY <1>6 DEF WithCohort
  <2> HIDE DEF v
  <2>2. w \in Shape /\ w.pc = "fixtures" /\ w.done = <<>> /\ w.todo = r.todo \ {f}
        /\ w.cohort = r.cohort /\ w.pairs = r.pairs
    BY <1>1, <1>3, <2>1 DEF Shape
  <2> HIDE DEF w
  <2>3. Going(w)
    BY <1>1, <1>3, <2>2 DEF Going, Phase
  <2> QED BY <1>4, <2>3, MineOnly DEF ScreenPublic
<1> QED BY <1>5, <1>6

(* A full cohort plans its pairs, or the one its case names. *)
LEMMA PlannedPairs ==
  ASSUME NEW p, run[p] \in Shape, Cohort(run[p].cohort), Len(run[p].cohort) = CohortSize
  PROVE  /\ Planned(p) \in Seq(Taken)
         /\ run[p].case # Whole => Planned(p) = <<PairOf(run[p].cohort, run[p].case)>>
<1> DEFINE c == run[p].cohort
           n == CohortSize * Repeats
<1>0. n \in Nat
  BY ShadowAssumption
<1>1. c \in Seq(Entry) /\ n \in Nat /\ run[p].case \in 0..n
  <2>1. run[p].case \in Cases \cup {0}
    BY DEF Shape, Whole
  <2>2. c \in Seq(Entry)
    BY DEF Cohort
  <2>3. run[p].case \in 0..n
    BY <2>1, CasesNumber
  <2> QED BY <1>0, <2>2, <2>3
<1>2. \A i \in 1..n: PairOf(c, i) \in Taken
  BY <1>1, PairSays
<1>3. CASE run[p].case = Whole
  <2>1. Planned(p) = [i \in 1..n |-> PairOf(c, i)]
    BY <1>3 DEF Planned
  <2> HIDE DEF n, c
  <2> QED BY <1>1, <1>2, <1>3, <2>1
<1>4. CASE run[p].case # Whole
  <2>1. run[p].case \in 1..n
    BY <1>1, <1>4 DEF Whole
  <2>2. Planned(p) = <<PairOf(c, run[p].case)>>
    BY <1>4 DEF Planned
  <2> QED BY <1>2, <2>1, <2>2
<1> QED BY <1>3, <1>4

LEMMA EnoughKeeps ==
  ASSUME Evidence, NEW p \in Procs, Enough(p)
  PROVE  Evidence'
<1> DEFINE r == run[p]
           u == [r EXCEPT !.pc = "undo", !.pairs = <<>>]
           w == [r EXCEPT !.pc = "pairs", !.todo = {}, !.pairs = Planned(p)]
<1>1. Going(r) /\ r \in Shape /\ Cohort(r.cohort) /\ r.pc \in {"public", "fixtures"}
  BY DEF Evidence, Runs, Going, Enough, At
<1>2. Headed(r.cohort) /\ r.done = <<>>
  BY <1>1 DEF Going, Phase
<1>3. CASE Short(p)
  <2>1. Me(p, u)
    BY <1>3 DEF Enough
  <2>2. u \in Shape /\ u.pc = "undo" /\ u.cohort = r.cohort /\ u.done = <<>>
    BY <1>1, <1>2 DEF Shape, Phases
  <2> HIDE DEF u
  <2>3. Going(u)
    BY <1>1, <2>2 DEF Going, Phase
  <2> QED BY <2>1, <2>3, MineOnly DEF Enough
<1>4. CASE ~Short(p)
  <2>1. Me(p, w)
    BY <1>4 DEF Enough
  <2>2. Len(r.cohort) = CohortSize
    BY <1>1, <1>4, ShadowAssumption DEF Short, Cohort
  <2>3. /\ Planned(p) \in Seq(Taken)
        /\ r.case # Whole => Planned(p) = <<PairOf(r.cohort, r.case)>>
    BY <1>1, <2>2, PlannedPairs
  <2>4. w \in Shape /\ w.pc = "pairs" /\ w.cohort = r.cohort /\ w.done = <<>>
        /\ w.pairs = Planned(p) /\ w.case = r.case
    BY <1>1, <1>2, <2>3 DEF Shape, Phases
  <2> HIDE DEF w
  <2>5. One(w)
    BY <2>3, <2>4 DEF One
  <2>6. Going(w)
    BY <1>1, <1>2, <2>2, <2>3, <2>4, <2>5 DEF Going, Phase
  <2> QED BY <2>1, <2>6, MineOnly DEF Enough
<1> QED BY <1>3, <1>4

LEMMA PairKeeps ==
  ASSUME Evidence, NEW p \in Procs, NEW ok \in BOOLEAN, Pair(p, ok)
  PROVE  Evidence'
<1> DEFINE r == run[p]
           w == [r EXCEPT !.done = Append(@, Head(r.pairs)), !.pairs = Tail(@)]
           u == [r EXCEPT !.pc = "undo", !.done = <<>>]
<1>1. Going(r) /\ r \in Shape /\ Cohort(r.cohort) /\ r.pc = "pairs" /\ r.pairs # <<>>
  BY DEF Evidence, Runs, Going, Pair, At
<1>2. /\ Headed(r.cohort) /\ Len(r.cohort) = CohortSize /\ r.pairs \in Seq(Taken)
      /\ r.done \in Seq(Taken) /\ One(r)
  BY <1>1 DEF Going, Phase, Shape
<1>3. CASE ok
  <2>1. Me(p, w)
    BY <1>3 DEF Pair
  <2>2. Head(r.pairs) \in Taken /\ Tail(r.pairs) \in Seq(Taken)
    BY <1>1, <1>2, HeadTailProperties
  <2>3. Append(r.done, Head(r.pairs)) \in Seq(Taken)
    BY <1>2, <2>2, AppendProperties
  <2>4. w \in Shape /\ w.pc = "pairs" /\ w.cohort = r.cohort /\ w.case = r.case
        /\ w.done = Append(r.done, Head(r.pairs)) /\ w.pairs = Tail(r.pairs)
    BY <1>1, <2>2, <2>3 DEF Shape
  <2>5. One(w)
    <3>1. ASSUME r.case # Whole
          PROVE  w.done = <<PairOf(r.cohort, r.case)>> /\ w.pairs = <<>>
      <4>1. r.done = <<>> /\ r.pairs = <<PairOf(r.cohort, r.case)>>
        BY <1>1, <1>2, <3>1 DEF One
      <4> QED BY <2>4, <4>1
    <3> QED BY <2>4, <3>1 DEF One
  <2> HIDE DEF w
  <2>6. Going(w)
    BY <1>1, <1>2, <2>2, <2>4, <2>5 DEF Going, Phase
  <2> QED BY <2>1, <2>6, MineOnly DEF Pair
<1>4. CASE ~ok
  <2>1. Me(p, u)
    BY <1>4 DEF Pair
  <2>2. u \in Shape
    <3>1. "undo" \in Phases /\ <<>> \in Seq(Taken)
      BY DEF Phases
    <3> QED BY <1>1, <3>1 DEF Shape
  <2>3. u.pc = "undo" /\ u.cohort = r.cohort /\ u.done = <<>>
    BY <1>1 DEF Shape
  <2> HIDE DEF u
  <2>4. Going(u)
    BY <1>1, <2>2, <2>3 DEF Going, Phase
  <2> QED BY <2>1, <2>4, MineOnly DEF Pair
<1> QED BY <1>3, <1>4

LEMMA RedactKeeps ==
  ASSUME Evidence, NEW p \in Procs, Redact(p)
  PROVE  Evidence'
<1> DEFINE r == run[p]
           w == [r EXCEPT !.pc = "report"]
<1>1. Going(r) /\ r \in Shape /\ Cohort(r.cohort) /\ r.pc = "pairs" /\ r.pairs = <<>>
  BY DEF Evidence, Runs, Going, Redact, At
<1>2. /\ Headed(r.cohort) /\ Len(r.cohort) = CohortSize /\ One(r)
  BY <1>1 DEF Going, Phase
<1>3. w \in Shape /\ w.pc = "report" /\ w.cohort = r.cohort /\ w.case = r.case
      /\ w.done = r.done /\ w.pairs = r.pairs
  BY <1>1 DEF Shape, Phases
<1>4. Me(p, w)
  BY DEF Redact, Goto
<1> HIDE DEF w
<1>5. One(w)
  BY <1>2, <1>3 DEF One
<1>6. Going(w)
  BY <1>1, <1>2, <1>3, <1>5 DEF Going, Phase
<1> QED BY <1>4, <1>6, MineOnly DEF Redact

(* What a run reports is what its phase has established. *)
LEMMA CleanupKeeps ==
  ASSUME Evidence, NEW p \in Procs, NEW removed \in BOOLEAN, Cleanup(p, removed)
  PROVE  Evidence'
<1> DEFINE r == run[p]
           w == [r EXCEPT !.pc = "ended"]
           new == [plan |-> r.plan, case |-> r.case, cohort |-> r.cohort, pairs |-> r.done]
<1>1. Going(r) /\ r \in Shape /\ Cohort(r.cohort) /\ r.pc \in {"undo", "report"}
  BY DEF Evidence, Runs, Going, Cleanup
<1>2. ASSUME r.pc = "report" PROVE Measures(new)
  <2>1. Len(r.cohort) = CohortSize /\ Headed(r.cohort) /\ One(r) /\ r.pairs = <<>>
    BY <1>1, <1>2 DEF Going, Phase
  <2>2. r.case # Whole => r.done = <<PairOf(r.cohort, r.case)>>
    BY <2>1 DEF One
  <2>3. r.case \in Cases \cup {0}
    BY <1>1 DEF Shape, Whole
  <2>4. r.case \in 0..(CohortSize * Repeats)
    BY <2>3, CasesNumber
  <2>5. new.case = r.case /\ new.cohort = r.cohort /\ new.pairs = r.done
    OBVIOUS
  <2> HIDE DEF new
  <2> QED BY <1>1, <2>1, <2>2, <2>4, <2>5 DEF Measures
<1>3. Reports'
  <2>1. reports' = reports \/ (r.pc = "report" /\ reports' = reports \cup {new})
    BY DEF Cleanup, At
  <2> HIDE DEF new
  <2>2. IsFiniteSet(reports')
    BY <2>1, FS_AddElement DEF Evidence, Reports
  <2> QED BY <1>2, <2>1, <2>2 DEF Evidence, Reports
<1>4. w \in Shape /\ w.pc = "ended" /\ w.cohort = r.cohort
  BY <1>1 DEF Shape, Phases
<1>5. Me(p, w)
  BY DEF Cleanup, Goto
<1> HIDE DEF w
<1>6. Going(w)
  BY <1>1, <1>4 DEF Going, Phase
<1>7. Runs' /\ (DOMAIN run)' = Procs
  BY <1>5, <1>6, Mine
<1>8. World'
  BY <1>7 DEF Cleanup, Evidence, World
<1> QED BY <1>3, <1>7, <1>8 DEF Evidence

(* Whatever a run was doing, a start begins afresh. *)
LEMMA AfreshKeeps ==
  ASSUME Evidence, NEW p \in Procs, Restart(p) \/ Crash(p)
  PROVE  Evidence'
BY Idles, MineOnly DEF Restart, Crash
-----------------------------------------------------------------------------
LEMMA EvidenceHolds == Spec => []Evidence
<1>1. Init => Evidence
  <2> SUFFICES ASSUME Init PROVE Evidence
    OBVIOUS
  <2>1. World
    BY ShadowAssumption DEF Init, World
  <2>2. Runs
    BY Idles DEF Init, Runs
  <2>3. Reports
    BY FS_EmptySet DEF Init, Reports
  <2> QED BY <2>1, <2>2, <2>3 DEF Evidence
<1>2. Evidence /\ [Next]_vars => Evidence'
  <2> SUFFICES ASSUME Evidence, [Next]_vars PROVE Evidence'
    OBVIOUS
  <2>1. CASE UNCHANGED vars
    BY <2>1 DEF vars, Evidence, World, Runs, Reports
  <2>2. ASSUME NEW b \in Customers \cup Publics, NEW v \in 0..MaxContent, Changes(b, v)
        PROVE  Evidence'
    BY <2>2, ChangesKeeps
  <2>3. ASSUME NEW p \in Procs, NEW plan \in Plans, NEW case \in Cases,
               Start(p, plan, case)
        PROVE  Evidence'
    BY <2>3, StartKeeps
  <2>4. ASSUME NEW p \in Procs, Step(p)
        PROVE  Evidence'
    <3>1. ASSUME NEW ok \in BOOLEAN,
                 \/ Screen(p, ok)
                 \/ PrepareAnchor(p, ok)
                 \/ ScreenAnchor(p, ok)
                 \/ ScreenPublic(p, ok)
                 \/ Pair(p, ok)
          PROVE  Evidence'
      BY <3>1, ScreenKeeps, PrepareAnchorKeeps, ScreenAnchorKeeps, ScreenPublicKeeps, PairKeeps
    <3>2. ASSUME NEW d \in Spare, CreateAnchor(p, d) PROVE Evidence'
      BY <3>2, CreateAnchorKeeps
    <3>3. ASSUME NEW S \in SUBSET Publics, BuildPublic(p, S) PROVE Evidence'
      BY <3>3, BuildPublicKeeps
    <3>4. ASSUME NoAnchor(p) \/ Enough(p) \/ Redact(p) \/ Cleanup(p, TRUE)
          PROVE  Evidence'
      BY <3>4, NoAnchorKeeps, EnoughKeeps, RedactKeeps, CleanupKeeps
    <3> QED BY <2>4, <3>1, <3>2, <3>3, <3>4 DEF Step
  <2>5. ASSUME NEW p \in Procs, Cleanup(p, FALSE) PROVE Evidence'
    BY <2>5, CleanupKeeps
  <2>6. ASSUME NEW p \in Procs, Restart(p) \/ Crash(p) PROVE Evidence'
    BY <2>6, AfreshKeeps
  <2> QED BY <2>1, <2>2, <2>3, <2>4, <2>5, <2>6 DEF Next
<1> QED BY <1>1, <1>2, PTL DEF Spec

(* Every brand of a cohort said something when it was screened, none       *)
(* counts twice, and pairs are measured over a full cohort with a brand of *)
(* the database in it, whatever the runs do and wherever they crash.       *)
THEOREM ShadowTyped == Spec => []TypeOK
<1>1. Evidence => TypeOK
  <2> SUFFICES ASSUME Evidence PROVE TypeOK
    OBVIOUS
  <2>1. ASSUME NEW p \in Procs
        PROVE  LET r == run[p] IN
               /\ Len(r.cohort) <= CohortSize
               /\ \A i \in DOMAIN r.cohort: r.cohort[i].content \in 1..MaxContent
               /\ \A i, j \in DOMAIN r.cohort: r.cohort[i].brand = r.cohort[j].brand => i = j
               /\ r.pc \in {"pairs", "report"} =>
                    /\ Len(r.cohort) = CohortSize
                    /\ \E i \in DOMAIN r.cohort: r.cohort[i].origin # "public"
    <3> DEFINE r == run[p]
    <3>1. Cohort(r.cohort) /\ Phase(r)
      BY DEF Evidence, Runs, Going
    <3>2. ASSUME NEW i \in DOMAIN r.cohort PROVE r.cohort[i].content \in 1..MaxContent
      <4>1. r.cohort[i] \in Entry
        BY <3>1 DEF Cohort
      <4> QED BY <4>1 DEF Entry
    <3>3. ASSUME r.pc \in {"pairs", "report"}
          PROVE  Len(r.cohort) = CohortSize /\ \E i \in DOMAIN r.cohort: r.cohort[i].origin # "public"
      <4>1. Len(r.cohort) = CohortSize /\ Headed(r.cohort)
        BY <3>1, <3>3 DEF Phase
      <4>2. 1 \in DOMAIN r.cohort
        BY <3>1, <4>1 DEF Headed, Cohort
      <4> QED BY <4>1, <4>2 DEF Headed
    <3> QED BY <3>1, <3>2, <3>3 DEF Cohort, Distinct
  <2> QED BY <2>1 DEF TypeOK, Evidence, World
<1> QED BY <1>1, EvidenceHolds, PTL

(* Whatever reports are combined measured one cohort as often as planned,  *)
(* with one content per brand and a brand of the database among them.      *)
THEOREM CohortIsHonest == Spec => []CohortHonest
<1>1. Evidence => CohortHonest
  <2> SUFFICES ASSUME Evidence, NEW S \in SUBSET reports, Accepted(S)
               PROVE  LET pairs == {r.pairs[1]: r \in S} IN
                      /\ Cardinality(pairs) = CohortSize * Repeats
                      /\ \A x, y \in pairs: x.brand = y.brand => x.content = y.content
                      /\ \E x \in pairs: x.brand \in Customers \cup Spare
    BY DEF CohortHonest
  <2>1. IsFiniteSet(S) /\ \A r \in S: Measures(r)
    BY FS_Subset DEF Evidence, Reports
  <2> QED BY <2>1, AcceptedHonest
<1> QED BY <1>1, EvidenceHolds, PTL

-----------------------------------------------------------------------------
(***************************************************************************)
(* The Marketing Lab (MarketingEvidence), for any releases and fixtures    *)
(* and any number of processes, statements that fail or are not answered,  *)
(* crashes and deployments.  Who executes a run holds its row: the row is  *)
(* not there before the claim and is written once after it, so what a      *)
(* critic has read of the completed pairs stays what it was.               *)
(***************************************************************************)
CONSTANTS Ticking, Once, Releases, Source, Fixture, Routes, Tries,
          LabFaults, LabStarts, LabGrants
VARIABLES lAuthorization, lRow, lProcess, lSanctioned, lBegun, lFaults, lStarts

Lab == INSTANCE MarketingEvidence WITH
  authorization <- lAuthorization, row <- lRow, process <- lProcess,
  sanctioned <- lSanctioned, begun <- lBegun, faults <- lFaults, starts <- lStarts,
  Faults <- LabFaults, Starts <- LabStarts, Grants <- LabGrants

LabAnswers == Routes \cup {"none", "critic"}
LabEntries == Nat \X LabAnswers \X LabAnswers

LabRow(r) == /\ DOMAIN r = {"status", "release", "evidence"}
             /\ r.status \in {"none", "started", "completed", "failed"}
             /\ r.evidence \in Seq(LabEntries)
LabProcess(x) == /\ DOMAIN x = {"at", "release", "evidence", "left"}
                 /\ x.release \in Releases

\* What was measured so far is of the first fixtures, of pairs on one route or
\* of the pairs that are stored.
PairsAreThere(runRows) == runRows["pairs"].status = "completed" /\ runRows["pairs"].release = Source
Progress(runRows, p, x) ==
  LET fixtures == Fixture[x.release]  n == Len(x.evidence) IN
  /\ x.evidence \in Seq(LabEntries)
  /\ x.at = "measure" => n < Len(fixtures)
  /\ x.at = "complete" => n = Len(fixtures)
  /\ \A i \in 1..n: x.evidence[i][1] = fixtures[i]
  /\ IF p \in Once
     THEN PairsAreThere(runRows) /\ \A i \in 1..n: fixtures[i] = Fixture[Source][i]
     ELSE \A i, j \in 1..n: x.evidence[i][2] = x.evidence[j][3]

\* Who executes a run: its row is of his release, and as far as he is.
Serves(runRows, p, x) ==
  LET r == runRows[Lab!Run(p)] IN
  x.at \in Lab!Executing =>
    /\ r.release = x.release
    /\ x.at \in {"source", "measure"} => r.status = "started"
    /\ x.at = "complete" => r.status \in {"started", "completed"}
    /\ x.at = "fail" => r.status \in {"started", "failed"}
    /\ x.at \in {"measure", "complete"} => Progress(runRows, p, x)

LabShape ==
  /\ DOMAIN lRow = Lab!Runs /\ DOMAIN lBegun = Lab!Runs
  /\ DOMAIN lProcess = Lab!Processes
  /\ \A r \in Lab!Runs: LabRow(lRow[r])
  /\ \A p \in Lab!Processes: LabProcess(lProcess[p])

\* An authorization that stands was given, and a run without a row was not
\* executed.
LabGiven ==
  /\ lAuthorization # <<>> => lAuthorization \in lSanctioned
  /\ \A r \in Lab!Runs:
       /\ lBegun[r] \in {0, 1} /\ (lRow[r].status = "none" => lBegun[r] = 0)
       /\ lRow[r].status # "none" => <<r, lRow[r].release>> \in lSanctioned

LabServed == \A p \in Lab!Processes: Serves(lRow, p, lProcess[p])

Executes(p) == lProcess[p].at \in Lab!Executing
LabAlone ==
  \A p, q \in Lab!Processes:
    p # q /\ Lab!Run(p) = Lab!Run(q) /\ Executes(p) => ~Executes(q)

LabRowsInv == LabShape /\ LabGiven /\ Lab!PairsWhole /\ Lab!JudgedTheSame
LabInv == LabRowsInv /\ LabServed /\ LabAlone

-----------------------------------------------------------------------------
\* A step of one process: the rows are well, the others are served as before,
\* and it executes only if it did or nobody else does.
LEMMA LabMoves ==
  ASSUME LabInv, NEW p \in Lab!Processes, NEW x, LabProcess(x),
         lProcess' = [lProcess EXCEPT ![p] = x], Serves(lRow', p, x),
         \A q \in Lab!Processes: q # p => Serves(lRow', q, lProcess[q]),
         x.at \in Lab!Executing =>
           \/ Executes(p)
           \/ \A q \in Lab!Processes: Lab!Run(q) = Lab!Run(p) => ~Executes(q),
         DOMAIN lRow' = Lab!Runs, DOMAIN lBegun' = Lab!Runs,
         \A r \in Lab!Runs: LabRow(lRow'[r]),
         LabGiven', Lab!PairsWhole', Lab!JudgedTheSame'
  PROVE  LabInv'
  <1>1. /\ lProcess'[p] = x /\ DOMAIN lProcess' = Lab!Processes
        /\ \A q \in Lab!Processes: q # p => lProcess'[q] = lProcess[q]
    BY DEF LabInv, LabRowsInv, LabShape
  <1>2. LabShape'
    BY <1>1 DEF LabInv, LabRowsInv, LabShape, Lab!Runs, Lab!Processes
  <1>3. LabServed'
    BY <1>1 DEF LabServed, Lab!Processes
  <1>4. LabAlone'
    BY <1>1 DEF LabInv, LabAlone, Executes, Lab!Run, Lab!Processes, Lab!Executing
  <1>5. QED
    BY <1>2, <1>3, <1>4 DEF LabInv, LabRowsInv

\* The rows stay as they are.
LEMMA LabGoesOn ==
  ASSUME LabInv, NEW p \in Lab!Processes, NEW x, LabProcess(x),
         lProcess' = [lProcess EXCEPT ![p] = x], UNCHANGED <<lRow, lBegun, lSanctioned>>,
         lAuthorization' \in {lAuthorization, <<>>},
         x.at \in Lab!Executing => Executes(p) /\ Serves(lRow, p, x)
  PROVE  LabInv'
  <1>1. LabGiven' /\ Lab!PairsWhole' /\ Lab!JudgedTheSame'
    BY DEF LabInv, LabRowsInv, LabGiven, Lab!PairsWhole, Lab!JudgedTheSame, Lab!Usable,
           Lab!Stored, Lab!Runs
  <1>2. Serves(lRow', p, x)
    BY DEF Serves
  <1>3. \A q \in Lab!Processes: Serves(lRow', q, lProcess[q])
    BY DEF LabInv, LabServed
  <1>4. QED
    BY <1>1, <1>2, <1>3, LabMoves DEF LabInv, LabRowsInv, LabShape

\* Steps that change nothing but where a process is, which works on nothing
\* after it.
LEMMA LabTurns ==
  ASSUME LabInv, NEW p \in Lab!Processes, NEW step, step \notin Lab!Executing,
         Lab!Goes(p, step), UNCHANGED <<lRow, lBegun, lSanctioned>>,
         lAuthorization' \in {lAuthorization, <<>>}
  PROVE  LabInv'
  <1> DEFINE x == [lProcess[p] EXCEPT !.at = step]
  <1>1. LabProcess(lProcess[p])
    BY DEF LabInv, LabRowsInv, LabShape
  <1>2. LabProcess(x) /\ x.at = step
    BY <1>1 DEF LabProcess
  <1>3. lProcess' = [lProcess EXCEPT ![p] = x]
    BY DEF Lab!Goes, LabInv, LabRowsInv, LabShape
  <1> HIDE DEF x
  <1>4. QED
    BY <1>2, <1>3, LabGoesOn

-----------------------------------------------------------------------------
LEMMA LooksKeep ==
  ASSUME LabInv, NEW p \in Lab!Processes,
         \/ Lab!LookRow(p) \/ Lab!LookAuthorization(p) \/ Lab!Check(p)
         \/ Lab!LookFails(p) \/ Lab!CheckFails(p) \/ Lab!Crash(p)
  PROVE  LabInv'
  <1>1. /\ UNCHANGED <<lRow, lBegun, lSanctioned, lAuthorization>>
        /\ \E step \in {"looked", "over", "doubt", "idle", "authorized"}:
             Lab!Goes(p, step)
    BY DEF Lab!LookRow, Lab!LookAuthorization, Lab!Check, Lab!LookFails, Lab!CheckFails,
           Lab!Crash, Lab!Doubts, Lab!Rests
  <1>2. QED
    BY <1>1, LabTurns DEF Lab!Executing

\* Who wins the authorization finds no row, so nobody executes that run, and
\* no critic has read pairs that are not there.
LEMMA ConsumeKeeps ==
  ASSUME LabInv, NEW p \in Lab!Processes, Lab!Wins(p), Lab!Consume(p),
         UNCHANGED lSanctioned,
         NEW step \in {"source", "doubt", "over"}, Lab!Goes(p, step),
         lBegun' \in {lBegun, [lBegun EXCEPT ![Lab!Run(p)] = @ + 1]}
  PROVE  LabInv'
  <1> DEFINE x == [lProcess[p] EXCEPT !.at = step]
             u == Lab!Run(p)
             fresh == [Lab!NoRow EXCEPT !.status = "started",
                                        !.release = lProcess[p].release]
  <1>1. LabProcess(lProcess[p]) /\ u \in Lab!Runs
    BY DEF LabInv, LabRowsInv, LabShape, Lab!Run, Lab!Runs
  <1>2. LabProcess(x) /\ x.at = step /\ x.release = lProcess[p].release
    BY <1>1 DEF LabProcess
  <1>3. lProcess' = [lProcess EXCEPT ![p] = x]
    BY DEF Lab!Goes, LabInv, LabRowsInv, LabShape
  <1>4. /\ LabRow(fresh) /\ fresh.status = "started" /\ fresh.evidence = <<>>
        /\ fresh.release = x.release
    BY <1>2 DEF LabRow, Lab!NoRow
  <1>5. lRow' = [lRow EXCEPT ![u] = fresh]
    BY DEF Lab!Consume
  <1> HIDE DEF x, fresh
  <1>6. /\ lRow'[u] = fresh /\ DOMAIN lRow' = Lab!Runs
        /\ \A r \in Lab!Runs: r # u => lRow'[r] = lRow[r]
        /\ \A r \in Lab!Runs: LabRow(lRow'[r])
    BY <1>1, <1>4, <1>5 DEF LabInv, LabRowsInv, LabShape
  <1>7. /\ lRow[u].status = "none" /\ lAuthorization = <<u, x.release>>
        /\ lAuthorization' = <<>>
    BY <1>2 DEF Lab!Wins, Lab!Mine, Lab!Consume
  <1>8. <<u, x.release>> \in lSanctioned
    BY <1>7 DEF LabInv, LabRowsInv, LabGiven
  <1>9. /\ DOMAIN lBegun' = Lab!Runs
        /\ \A r \in Lab!Runs: /\ lBegun'[r] \in {0, 1}
                              /\ lRow'[r].status = "none" => lBegun'[r] = 0
    <2>1. DOMAIN lBegun = Lab!Runs /\ lBegun[u] = 0
      BY <1>1, <1>7 DEF LabInv, LabRowsInv, LabShape, LabGiven
    <2>2. /\ DOMAIN lBegun' = Lab!Runs /\ lBegun'[u] \in {0, 1}
          /\ \A r \in Lab!Runs: r # u => lBegun'[r] = lBegun[r]
      BY <1>1, <2>1
    <2>3. ASSUME NEW r \in Lab!Runs
          PROVE  lBegun'[r] \in {0, 1} /\ (lRow'[r].status = "none" => lBegun'[r] = 0)
      <3>1. CASE r = u
        BY <1>4, <1>6, <2>2, <3>1
      <3>2. CASE r # u
        BY <1>6, <2>2, <3>2 DEF LabInv, LabRowsInv, LabGiven
      <3>3. QED
        BY <3>1, <3>2
    <2>4. QED
      BY <2>2, <2>3
  <1>10. LabGiven'
    BY <1>4, <1>6, <1>7, <1>8, <1>9 DEF LabInv, LabRowsInv, LabGiven, Lab!Runs
  <1>11. Lab!PairsWhole'
    <2>1. "pairs" \in Lab!Runs
      BY DEF Lab!Runs
    <2>2. CASE u = "pairs"
      BY <1>4, <1>6, <2>2 DEF Lab!PairsWhole
    <2>3. CASE u # "pairs"
      BY <1>6, <2>1, <2>3 DEF LabInv, LabRowsInv, Lab!PairsWhole
    <2>4. QED
      BY <2>2, <2>3
  <1>12. Lab!JudgedTheSame'
    <2>1. {"pairs", "quality"} = Lab!Runs
      BY DEF Lab!Runs
    <2>2. CASE u = "quality"
      BY <1>4, <1>6, <2>2 DEF Lab!JudgedTheSame
    <2>3. CASE u = "pairs"
      <3>1. lRow'["quality"] = lRow["quality"] /\ ~Lab!Usable(lRow["pairs"])
        BY <1>6, <1>7, <2>1, <2>3 DEF Lab!Usable
      <3>2. QED
        BY <3>1 DEF LabInv, LabRowsInv, Lab!JudgedTheSame
    <2>4. QED
      BY <1>1, <2>1, <2>2, <2>3
  <1>13. \A q \in Lab!Processes: Lab!Run(q) = u => ~Executes(q)
    BY <1>7 DEF LabInv, LabServed, Serves, Executes, Lab!Executing
  <1>14. Serves(lRow', p, x)
    BY <1>2, <1>4, <1>6 DEF Serves, Lab!Executing
  <1>15. ASSUME NEW q \in Lab!Processes, q # p PROVE Serves(lRow', q, lProcess[q])
    <2>1. Serves(lRow, q, lProcess[q])
      BY DEF LabInv, LabServed
    <2>2. CASE ~Executes(q)
      BY <2>2 DEF Serves, Executes
    <2>3. CASE Executes(q)
      <3>1. Lab!Run(q) # u /\ Lab!Run(q) \in Lab!Runs /\ Lab!Runs = {"pairs", "quality"}
        BY <1>13, <2>3 DEF Lab!Run, Lab!Runs
      <3>2. lRow'[Lab!Run(q)] = lRow[Lab!Run(q)]
        BY <1>6, <3>1
      <3>3. PairsAreThere(lRow) => PairsAreThere(lRow')
        BY <1>6, <1>7, <3>1 DEF PairsAreThere
      <3>4. Progress(lRow, q, lProcess[q]) => Progress(lRow', q, lProcess[q])
        BY <3>3 DEF Progress
      <3>5. QED
        BY <2>1, <3>2, <3>4 DEF Serves
    <2>4. QED
      BY <2>2, <2>3
  <1>16. QED
    BY <1>2, <1>3, <1>6, <1>9, <1>10, <1>11, <1>12, <1>13, <1>14, <1>15, LabMoves

LEMMA ClaimsKeep ==
  ASSUME LabInv, NEW p \in Lab!Processes, Lab!Claim(p) \/ Lab!ClaimUnanswered(p)
  PROVE  LabInv'
  <1>1. CASE Lab!ClaimUnanswered(p)
    <2>1. \E step \in {"doubt", "over"}: Lab!Goes(p, step)
      BY <1>1 DEF Lab!ClaimUnanswered, Lab!Doubts
    <2>2. Lab!Wins(p) /\ Lab!Consume(p) /\ UNCHANGED <<lSanctioned, lBegun>>
      BY <1>1 DEF Lab!ClaimUnanswered
    <2>3. QED
      BY <2>1, <2>2, ConsumeKeeps
  <1>2. CASE Lab!Claim(p) /\ Lab!Wins(p)
    <2>1. /\ Lab!Consume(p) /\ UNCHANGED lSanctioned /\ Lab!Goes(p, "source")
          /\ lBegun' = [lBegun EXCEPT ![Lab!Run(p)] = @ + 1]
      BY <1>2 DEF Lab!Claim
    <2>2. QED
      BY <1>2, <2>1, ConsumeKeeps
  <1>3. CASE Lab!Claim(p) /\ ~Lab!Wins(p)
    <2>1. /\ UNCHANGED <<lAuthorization, lRow, lBegun, lSanctioned>>
          /\ \E step \in {"doubt", "over", "idle"}: Lab!Goes(p, step)
      BY <1>3 DEF Lab!Claim, Lab!Doubts, Lab!Rests
    <2>2. QED
      BY <2>1, LabTurns DEF Lab!Executing
  <1>4. QED
    BY <1>1, <1>2, <1>3

\* Giving up: the row that is started is about to be failed.
LEMMA FailsIsServed ==
  ASSUME LabInv, NEW p \in Lab!Processes, lProcess[p].at \in {"source", "measure"},
         Lab!Begins(p, "fail"), UNCHANGED <<lRow, lBegun, lSanctioned, lAuthorization>>
  PROVE  LabInv'
  <1> DEFINE x == [lProcess[p] EXCEPT !.at = "fail", !.left = Tries]
  <1>1. LabProcess(lProcess[p]) /\ Serves(lRow, p, lProcess[p])
    BY DEF LabInv, LabRowsInv, LabShape, LabServed
  <1>2. LabProcess(x) /\ x.at = "fail" /\ x.release = lProcess[p].release
    BY <1>1 DEF LabProcess
  <1>3. lProcess' = [lProcess EXCEPT ![p] = x]
    BY DEF Lab!Begins, LabInv, LabRowsInv, LabShape
  <1> HIDE DEF x
  <1>4. Executes(p) /\ Serves(lRow, p, x)
    BY <1>1, <1>2 DEF Executes, Serves, Lab!Executing
  <1>5. QED
    BY <1>2, <1>3, <1>4, LabGoesOn

LEMMA FetchKeeps ==
  ASSUME Lab!EvidenceAssumption, LabInv, NEW p \in Lab!Processes, NEW ok \in BOOLEAN,
         Lab!Fetch(p, ok)
  PROVE  LabInv'
  <1>1. lProcess[p].at = "source" /\ UNCHANGED <<lRow, lBegun, lSanctioned, lAuthorization>>
    BY DEF Lab!Fetch, Lab!At
  <1>2. CASE Lab!Begins(p, "fail")
    BY <1>1, <1>2, FailsIsServed
  <1>3. CASE /\ p \in Once => Lab!Usable(lRow["pairs"])
             /\ lProcess' = [lProcess EXCEPT ![p].at = "measure", ![p].evidence = <<>>]
    <2> DEFINE x == [lProcess[p] EXCEPT !.at = "measure", !.evidence = <<>>]
    <2>1. LabProcess(lProcess[p]) /\ Serves(lRow, p, lProcess[p])
      BY DEF LabInv, LabRowsInv, LabShape, LabServed
    <2>2. /\ LabProcess(x) /\ x.at = "measure" /\ x.release = lProcess[p].release
          /\ x.evidence = <<>>
      BY <2>1 DEF LabProcess
    <2>3. lProcess' = [lProcess EXCEPT ![p] = x]
      BY <1>3 DEF LabInv, LabRowsInv, LabShape
    <2> HIDE DEF x
    <2>4. x.release \in Releases
      BY <2>2 DEF LabProcess
    <2>5. Fixture[x.release] \in Seq(Nat) /\ Fixture[x.release] # <<>>
      BY <2>4 DEF Lab!EvidenceAssumption
    <2>6. 0 < Len(Fixture[x.release])
      BY <2>5, EmptySeq
    <2>7. x.evidence \in Seq(LabEntries) /\ Len(x.evidence) = 0
      BY <2>2
    <2>8. \A i \in 1..Len(x.evidence): FALSE
      BY <2>7
    <2>9. p \in Once => PairsAreThere(lRow)
      BY <1>3 DEF PairsAreThere, Lab!Usable
    <2>10. Progress(lRow, p, x)
      BY <2>2, <2>6, <2>7, <2>8, <2>9 DEF Progress
    <2>11. Serves(lRow, p, x) /\ Executes(p)
      BY <1>1, <2>1, <2>2, <2>10 DEF Serves, Executes, Lab!Executing
    <2>12. QED
      BY <1>1, <2>2, <2>3, <2>11, LabGoesOn
  <1>4. QED
    BY <1>2, <1>3 DEF Lab!Fetch

\* One more case is measured of the fixtures of the release.
LEMMA AppendKeeps ==
  ASSUME Lab!EvidenceAssumption, LabInv, NEW p \in Lab!Processes,
         lProcess[p].at = "measure", NEW entry \in LabEntries,
         entry[1] = Fixture[lProcess[p].release][Lab!Case(p)],
         IF p \in Once
         THEN Fixture[lProcess[p].release][Lab!Case(p)] = Fixture[Source][Lab!Case(p)]
         ELSE entry[2] = entry[3] /\ (lProcess[p].evidence # <<>> =>
                                        lProcess[p].evidence[1][2] = entry[2]),
         Lab!Appended(p, entry),
         UNCHANGED <<lRow, lBegun, lSanctioned, lAuthorization>>
  PROVE  LabInv'
  <1> DEFINE y == lProcess[p]
             e == Append(y.evidence, entry)
             step == IF Lab!Last(p) THEN "complete" ELSE "measure"
             x == [y EXCEPT !.evidence = e, !.left = Tries, !.at = step]
             n == Len(y.evidence)
             fixtures == Fixture[y.release]
  <1>1. LabProcess(y) /\ Serves(lRow, p, y)
    BY DEF LabInv, LabRowsInv, LabShape, LabServed
  <1>2. Progress(lRow, p, y)
    BY <1>1 DEF Serves, Lab!Executing
  <1>3. /\ LabProcess(x) /\ x.at = step /\ x.release = y.release /\ x.evidence = e
    BY <1>1 DEF LabProcess
  <1>4. lProcess' = [lProcess EXCEPT ![p] = x]
    <2>1. lProcess' = [lProcess EXCEPT ![p].evidence = Append(@, entry), ![p].left = Tries,
                                       ![p].at = step]
      BY DEF Lab!Appended
    <2>2. p \in DOMAIN lProcess
      BY DEF LabInv, LabRowsInv, LabShape
    <2>3. QED
      BY <2>1, <2>2
  <1>5. fixtures \in Seq(Nat) /\ Len(fixtures) \in Nat
    BY <1>1, LenProperties DEF Lab!EvidenceAssumption, LabProcess
  <1>6. y.evidence \in Seq(LabEntries) /\ n \in Nat /\ n < Len(fixtures)
    BY <1>2, LenProperties DEF Progress
  <1>7. /\ e \in Seq(LabEntries) /\ Len(e) = n + 1 /\ e[n + 1] = entry
        /\ \A i \in 1..n: e[i] = y.evidence[i]
    BY <1>6, AppendProperties
  <1>8. /\ Lab!Case(p) = n + 1 /\ (Lab!Last(p) <=> n + 1 = Len(fixtures))
    BY DEF Lab!Case, Lab!Last
  <1>9. /\ step = "measure" => Len(e) < Len(fixtures)
        /\ step = "complete" => Len(e) = Len(fixtures)
        /\ step \in {"measure", "complete"}
    BY <1>5, <1>6, <1>7, <1>8
  <1>10. \A i \in 1..(n + 1): i \in 1..n \/ i = n + 1
    BY <1>6
  <1>11. \A i \in 1..n: y.evidence[i][1] = fixtures[i]
    BY <1>2 DEF Progress
  <1>12. \A i \in 1..(n + 1): e[i][1] = fixtures[i]
    BY <1>7, <1>8, <1>10, <1>11
  <1>13. CASE p \in Once
    <2>1. PairsAreThere(lRow) /\ \A i \in 1..n: fixtures[i] = Fixture[Source][i]
      BY <1>2, <1>13 DEF Progress
    <2>2. \A i \in 1..(n + 1): fixtures[i] = Fixture[Source][i]
      BY <1>8, <1>10, <1>13, <2>1
    <2> HIDE DEF x, e, step, y, n, fixtures
    <2>3. Progress(lRow, p, x)
      BY <1>3, <1>7, <1>9, <1>12, <1>13, <2>1, <2>2 DEF Progress, fixtures
    <2>4. Serves(lRow, p, x) /\ Executes(p)
      BY <1>1, <1>3, <1>9, <2>3 DEF Serves, Executes, Lab!Executing, y
    <2>5. QED
      BY <1>3, <1>4, <2>4, LabGoesOn
  <1>14. CASE p \notin Once
    <2>1. \A i, j \in 1..n: y.evidence[i][2] = y.evidence[j][3]
      BY <1>2, <1>14 DEF Progress
    <2>2. entry[2] = entry[3] /\ (y.evidence # <<>> => y.evidence[1][2] = entry[2])
      BY <1>14
    <2>3. \A i \in 1..n: 1 \in 1..n /\ y.evidence # <<>>
      BY <1>6
    <2>4. \A i \in 1..n: y.evidence[i][2] = entry[3] /\ y.evidence[i][3] = entry[2]
      BY <2>1, <2>2, <2>3
    <2>5. \A i, j \in 1..(n + 1): e[i][2] = e[j][3]
      <3> SUFFICES ASSUME NEW i \in 1..(n + 1), NEW j \in 1..(n + 1) PROVE e[i][2] = e[j][3]
        OBVIOUS
      <3> HIDE DEF e, n, y
      <3>1. CASE i \in 1..n /\ j \in 1..n
        BY <1>7, <2>1, <3>1
      <3>2. CASE i = n + 1 /\ j \in 1..n
        BY <1>7, <2>4, <3>2
      <3>3. CASE i \in 1..n /\ j = n + 1
        BY <1>7, <2>4, <3>3
      <3>4. CASE i = n + 1 /\ j = n + 1
        BY <1>7, <2>2, <3>4
      <3>5. QED
        BY <1>10, <3>1, <3>2, <3>3, <3>4
    <2> HIDE DEF x, e, step, y, n, fixtures
    <2>6. Progress(lRow, p, x)
      BY <1>3, <1>7, <1>9, <1>12, <1>14, <2>5 DEF Progress, fixtures
    <2>7. Serves(lRow, p, x) /\ Executes(p)
      BY <1>1, <1>3, <1>9, <2>6 DEF Serves, Executes, Lab!Executing, y
    <2>8. QED
      BY <1>3, <1>4, <2>7, LabGoesOn
  <1>15. QED
    BY <1>13, <1>14

\* The fixtures of the releases are as many, and versions.
LEMMA FixturesAre ==
  ASSUME Lab!EvidenceAssumption, NEW r \in Releases, NEW i \in 1..Len(Fixture[r])
  PROVE  Fixture[r][i] \in Nat
  <1>1. Fixture[r] \in Seq(Nat)
    BY DEF Lab!EvidenceAssumption
  <1>2. QED
    BY <1>1, ElementOfSeq

LEMMA CaseIsIn ==
  ASSUME Lab!EvidenceAssumption, LabInv, NEW p \in Lab!Processes,
         lProcess[p].at = "measure"
  PROVE  /\ Lab!Case(p) \in 1..Len(Fixture[lProcess[p].release])
         /\ Fixture[lProcess[p].release][Lab!Case(p)] \in Nat
         /\ lProcess[p].release \in Releases
  <1>1. LabProcess(lProcess[p]) /\ Serves(lRow, p, lProcess[p])
    BY DEF LabInv, LabRowsInv, LabShape, LabServed
  <1>2. Progress(lRow, p, lProcess[p])
    BY <1>1 DEF Serves, Lab!Executing
  <1>3. /\ lProcess[p].release \in Releases /\ lProcess[p].evidence \in Seq(LabEntries)
        /\ Len(lProcess[p].evidence) < Len(Fixture[lProcess[p].release])
    BY <1>1, <1>2 DEF LabProcess, Progress
  <1>4. Fixture[lProcess[p].release] \in Seq(Nat)
    BY <1>3 DEF Lab!EvidenceAssumption
  <1>5. Len(lProcess[p].evidence) \in Nat /\ Len(Fixture[lProcess[p].release]) \in Nat
    BY <1>3, <1>4, LenProperties
  <1>6. Lab!Case(p) \in 1..Len(Fixture[lProcess[p].release])
    BY <1>3, <1>5 DEF Lab!Case
  <1>7. QED
    BY <1>3, <1>6, FixturesAre

LEMMA MeasureKeeps ==
  ASSUME Lab!EvidenceAssumption, LabInv, NEW p \in Lab!Processes,
         NEW native, NEW challenger, Lab!Measure(p, native, challenger)
  PROVE  LabInv'
  <1>1. /\ lProcess[p].at = "measure" /\ p \notin Once
        /\ UNCHANGED <<lRow, lBegun, lSanctioned, lAuthorization>>
    BY DEF Lab!Measure, Lab!At, Lab!EvidenceAssumption
  <1>2. CASE Lab!Begins(p, "fail")
    BY <1>1, <1>2, FailsIsServed
  <1> DEFINE entry == <<Fixture[lProcess[p].release][Lab!Case(p)], native, challenger>>
  <1>3. CASE /\ native \in Routes /\ challenger = native
             /\ lProcess[p].evidence # <<>> => lProcess[p].evidence[1][2] = native
             /\ Lab!Appended(p, entry)
    <2>1. Fixture[lProcess[p].release][Lab!Case(p)] \in Nat
      BY <1>1, CaseIsIn
    <2>2. /\ entry \in LabEntries /\ entry[2] = native /\ entry[3] = native
          /\ entry[1] = Fixture[lProcess[p].release][Lab!Case(p)]
      BY <1>3, <2>1 DEF LabEntries, LabAnswers
    <2> HIDE DEF entry
    <2>3. QED
      BY <1>1, <1>3, <2>2, AppendKeeps
  <1>4. QED
    BY <1>2, <1>3 DEF Lab!Measure

\* What a critic reads of the stored pairs is of the approved release.
LEMMA StoredIs ==
  ASSUME Lab!EvidenceAssumption, LabInv, PairsAreThere(lRow),
         NEW i \in 1..Len(Fixture[Source])
  PROVE  Lab!Stored[i][1] = Fixture[Source][i]
  <1>1. Fixture[Source] \in Seq(Nat)
    BY DEF Lab!EvidenceAssumption
  <1>2. [k \in DOMAIN Lab!Stored |-> Lab!Stored[k][1]] = Fixture[Source]
    BY DEF PairsAreThere, LabInv, LabRowsInv, Lab!PairsWhole, Lab!Stored
  <1>3. DOMAIN Lab!Stored = 1..Len(Fixture[Source])
    BY <1>1, <1>2, LenProperties
  <1>4. QED
    BY <1>2, <1>3

LEMMA EvaluateKeeps ==
  ASSUME Lab!EvidenceAssumption, LabInv, NEW p \in Lab!Processes, NEW ok,
         Lab!Evaluate(p, ok)
  PROVE  LabInv'
  <1> DEFINE fixtures == Fixture[lProcess[p].release]
  <1>1. /\ lProcess[p].at = "measure" /\ p \in Once
        /\ UNCHANGED <<lRow, lBegun, lSanctioned, lAuthorization>>
    BY DEF Lab!Evaluate, Lab!At
  <1>2. CASE Lab!Begins(p, "fail")
    BY <1>1, <1>2, FailsIsServed
  <1> DEFINE entry == <<fixtures[Lab!Case(p)], "critic", "critic">>
  <1>3. CASE /\ Lab!Stored[Lab!Case(p)][1] = fixtures[Lab!Case(p)]
             /\ Lab!Appended(p, entry)
    <2>1. /\ Lab!Case(p) \in 1..Len(fixtures) /\ fixtures[Lab!Case(p)] \in Nat
          /\ lProcess[p].release \in Releases
      BY <1>1, CaseIsIn
    <2>2. Serves(lRow, p, lProcess[p])
      BY DEF LabInv, LabServed
    <2>3. PairsAreThere(lRow)
      BY <1>1, <2>2 DEF Serves, Progress, Lab!Executing
    <2>4. Len(Fixture[Source]) = Len(fixtures)
      BY <2>1 DEF Lab!EvidenceAssumption
    <2>5. fixtures[Lab!Case(p)] = Fixture[Source][Lab!Case(p)]
      BY <1>3, <2>1, <2>3, <2>4, StoredIs
    <2>6. entry \in LabEntries /\ entry[1] = fixtures[Lab!Case(p)]
      BY <2>1 DEF LabEntries, LabAnswers
    <2> HIDE DEF entry
    <2>7. QED
      BY <1>1, <1>3, <2>5, <2>6, AppendKeeps
  <1>4. QED
    BY <1>2, <1>3 DEF Lab!Evaluate

-----------------------------------------------------------------------------
\* What a process about to store its outcome holds becomes the row's; where
\* the row is not as the claim left it, it already has the outcome.
LEMMA WrittenKeeps ==
  ASSUME Lab!EvidenceAssumption, LabInv, NEW p \in Lab!Processes,
         lProcess[p].at \in {"complete", "fail"},
         lRow[Lab!Run(p)].status = "started", lRow' = Lab!Written(p),
         UNCHANGED <<lBegun, lSanctioned, lAuthorization>>,
         NEW x, LabProcess(x), lProcess' = [lProcess EXCEPT ![p] = x],
         \/ x.at \notin Lab!Executing
         \/ /\ x.at = lProcess[p].at /\ x.release = lProcess[p].release
            /\ x.evidence = lProcess[p].evidence
  PROVE  LabInv'
  <1> DEFINE y == lProcess[p]
             u == Lab!Run(p)
             evidence == IF y.at = "complete" THEN y.evidence ELSE <<>>
             stored == [lRow[u] EXCEPT !.status = Lab!Status(p), !.evidence = evidence]
             fixtures == Fixture[y.release]
  <1>1. LabProcess(y) /\ Serves(lRow, p, y) /\ u \in Lab!Runs /\ LabRow(lRow[u])
        /\ Lab!Runs = {"pairs", "quality"} /\ DOMAIN lRow = Lab!Runs
    BY DEF LabInv, LabRowsInv, LabShape, LabServed, Lab!Run, Lab!Runs
  <1>2. /\ y.at = "complete" => Progress(lRow, p, y) /\ Lab!Status(p) = "completed"
        /\ y.at = "fail" => Lab!Status(p) = "failed"
        /\ lRow[u].release = y.release /\ y.release \in Releases
    BY <1>1 DEF Serves, Lab!Executing, Lab!Status, Lab!At, LabProcess
  <1>3. evidence \in Seq(LabEntries)
    BY <1>2 DEF Progress
  <1>4. lRow' = [lRow EXCEPT ![u] = stored]
    <2>1. lRow' = [lRow EXCEPT ![u].status = Lab!Status(p), ![u].evidence = evidence]
      BY DEF Lab!Written, Lab!At
    <2>2. QED
      BY <1>1, <2>1
  <1>5. /\ LabRow(stored) /\ stored.status = Lab!Status(p) /\ stored.evidence = evidence
        /\ stored.release = y.release
    <2> HIDE DEF evidence
    <2>1. QED
      BY <1>1, <1>2, <1>3 DEF LabRow
  <1> HIDE DEF stored
  <1>6. /\ lRow'[u] = stored /\ DOMAIN lRow' = Lab!Runs
        /\ \A r \in Lab!Runs: r # u => lRow'[r] = lRow[r]
        /\ \A r \in Lab!Runs: LabRow(lRow'[r])
    BY <1>1, <1>4, <1>5 DEF LabInv, LabRowsInv, LabShape
  <1>7. LabGiven'
    <2>1. ASSUME NEW r \in Lab!Runs
          PROVE  /\ lRow'[r].release = lRow[r].release
                 /\ lRow'[r].status = "none" <=> lRow[r].status = "none"
      <3>1. CASE r = u
        BY <1>2, <1>5, <1>6, <3>1
      <3>2. CASE r # u
        BY <1>6, <3>2
      <3>3. QED
        BY <3>1, <3>2
    <2>2. QED
      BY <2>1 DEF LabInv, LabRowsInv, LabGiven, Lab!Runs
  <1>8. fixtures \in Seq(Nat) /\ Fixture[Source] \in Seq(Nat)
        /\ Len(fixtures) = Len(Fixture[Source])
    BY <1>2 DEF Lab!EvidenceAssumption
  <1>9. ASSUME y.at = "complete"
        PROVE  /\ evidence \in Seq(LabEntries) /\ Len(evidence) = Len(fixtures)
               /\ \A i \in 1..Len(evidence): evidence[i][1] = fixtures[i]
               /\ p \in Once => /\ PairsAreThere(lRow)
                                /\ \A i \in 1..Len(evidence): fixtures[i] = Fixture[Source][i]
               /\ p \notin Once => \A i, j \in 1..Len(evidence):
                                     evidence[i][2] = evidence[j][3]
    BY <1>2, <1>9 DEF Progress
  <1> HIDE DEF fixtures, evidence, y
  <1>10. Lab!PairsWhole'
    <2>1. CASE u # "pairs"
      BY <1>1, <1>6, <2>1 DEF LabInv, LabRowsInv, Lab!PairsWhole
    <2>2. CASE u = "pairs" /\ y.at = "complete"
      <3>1. p \notin Once
        BY <2>2 DEF Lab!Run
      <3>2. DOMAIN evidence = 1..Len(evidence) /\ DOMAIN fixtures = 1..Len(fixtures)
        BY <1>8, <1>9, <2>2, LenProperties
      <3>3. [i \in DOMAIN evidence |-> evidence[i][1]] = [i \in 1..Len(fixtures) |-> fixtures[i]]
        BY <1>9, <2>2, <3>2
      <3>4. fixtures = [i \in 1..Len(fixtures) |-> fixtures[i]]
        BY <1>8, <3>2
      <3>5. lRow'["pairs"] = stored /\ stored.status = "completed"
        BY <1>2, <1>5, <1>6, <2>2 DEF y
      <3>6. Fixture[stored.release] = fixtures
        BY <1>5 DEF fixtures
      <3>7. [i \in DOMAIN stored.evidence |-> stored.evidence[i][1]] = Fixture[stored.release]
        BY <1>5, <3>3, <3>4, <3>6
      <3>8. \A i, j \in DOMAIN stored.evidence: stored.evidence[i][2] = stored.evidence[j][3]
        BY <1>5, <1>9, <2>2, <3>1, <3>2
      <3>9. QED
        BY <3>5, <3>7, <3>8 DEF Lab!PairsWhole
    <2>3. CASE u = "pairs" /\ y.at = "fail"
      <3>1. lRow'["pairs"] = stored /\ stored.status = "failed" /\ stored.evidence = <<>>
        BY <1>2, <1>5, <1>6, <2>3 DEF evidence
      <3>2. QED
        BY <3>1 DEF Lab!PairsWhole
    <2>4. QED
      BY <2>1, <2>2, <2>3 DEF y
  <1>11. Lab!JudgedTheSame'
    <2>1. CASE u = "pairs"
      <3>1. lRow'["quality"] = lRow["quality"] /\ ~Lab!Usable(lRow["pairs"])
        BY <1>1, <1>6, <2>1 DEF Lab!Usable
      <3>2. QED
        BY <3>1 DEF LabInv, LabRowsInv, Lab!JudgedTheSame
    <2>2. CASE u = "quality" /\ y.at = "complete"
      <3>1. p \in Once
        BY <2>2 DEF Lab!Run
      <3>2. PairsAreThere(lRow) /\ lRow'["pairs"] = lRow["pairs"]
        BY <1>1, <1>6, <1>9, <2>2, <3>1
      <3>3. fixtures = Fixture[Source]
        BY <1>8, <1>9, <2>2, <3>1, SeqEqual
      <3>4. lRow'["quality"] = stored /\ Fixture[stored.release] = fixtures
        BY <1>5, <1>6, <2>2 DEF fixtures
      <3>5. DOMAIN lRow["pairs"].evidence = DOMAIN Fixture[Source]
        BY <3>2 DEF PairsAreThere, LabInv, LabRowsInv, Lab!PairsWhole
      <3>6. lRow["pairs"].evidence \in Seq(LabEntries)
        BY DEF LabInv, LabRowsInv, LabShape, LabRow, Lab!Runs
      <3>7. /\ DOMAIN Fixture[Source] = 1..Len(Fixture[Source])
            /\ DOMAIN lRow["pairs"].evidence = 1..Len(lRow["pairs"].evidence)
            /\ {Len(Fixture[Source]), Len(lRow["pairs"].evidence)} \subseteq Nat
        BY <1>8, <3>6, LenProperties
      <3>8. Len(Fixture[Source]) = Len(lRow["pairs"].evidence)
        BY <3>5, <3>7
      <3>9. Len(lRow'["quality"].evidence) = Len(lRow'["pairs"].evidence)
        BY <1>5, <1>8, <1>9, <2>2, <3>2, <3>4, <3>8
      <3>10. QED
        BY <3>2, <3>3, <3>4, <3>9
           DEF Lab!JudgedTheSame, Lab!Usable, PairsAreThere, Lab!Stored
    <2>3. CASE u = "quality" /\ y.at = "fail"
      <3>1. lRow'["quality"].status = "failed"
        BY <1>2, <1>5, <1>6, <2>3
      <3>2. QED
        BY <3>1 DEF Lab!JudgedTheSame
    <2>4. QED
      BY <1>1, <2>1, <2>2, <2>3 DEF y
  <1>12. PairsAreThere(lRow) => PairsAreThere(lRow')
    BY <1>1, <1>6 DEF PairsAreThere
  <1>13. ASSUME NEW q \in Lab!Processes, NEW z
         PROVE  Progress(lRow, q, z) => Progress(lRow', q, z)
    BY <1>12 DEF Progress
  <1>14. ASSUME NEW q \in Lab!Processes, q # p PROVE Serves(lRow', q, lProcess[q])
    <2>1. Serves(lRow, q, lProcess[q])
      BY DEF LabInv, LabServed
    <2>2. CASE ~Executes(q)
      BY <2>2 DEF Serves, Executes
    <2>3. CASE Executes(q)
      <3>1. Lab!Run(q) # u /\ Lab!Run(q) \in Lab!Runs
        BY <1>14, <2>3 DEF LabInv, LabAlone, Executes, Lab!Executing, Lab!Run, Lab!Runs
      <3>2. lRow'[Lab!Run(q)] = lRow[Lab!Run(q)]
        BY <1>6, <3>1
      <3>3. QED
        BY <1>13, <2>1, <3>2 DEF Serves
    <2>4. QED
      BY <2>2, <2>3
  <1>15. Serves(lRow', p, x)
    <2>1. CASE x.at \notin Lab!Executing
      BY <2>1 DEF Serves
    <2>2. CASE x.at = y.at /\ x.release = y.release /\ x.evidence = y.evidence
      <3>1. y.at = "complete" => Progress(lRow, p, x)
        BY <1>2, <2>2 DEF Progress, y
      <3>2. y.at = "complete" => Progress(lRow', p, x)
        BY <1>13, <3>1
      <3>3. /\ lRow'[u].release = x.release
            /\ y.at = "complete" => lRow'[u].status = "completed"
            /\ y.at = "fail" => lRow'[u].status = "failed"
        BY <1>2, <1>5, <1>6, <2>2
      <3>4. y.at \in {"complete", "fail"}
        BY DEF y
      <3>5. QED
        BY <2>2, <3>2, <3>3, <3>4 DEF Serves
    <2>3. QED
      BY <2>1, <2>2 DEF y
  <1>16. Executes(p)
    BY DEF Executes, Lab!Executing
  <1>17. DOMAIN lBegun' = Lab!Runs
    BY DEF LabInv, LabRowsInv, LabShape
  <1>18. QED
    BY <1>6, <1>7, <1>10, <1>11, <1>14, <1>15, <1>16, <1>17, LabMoves

LEMMA StoresKeep ==
  ASSUME Lab!EvidenceAssumption, LabInv, NEW p \in Lab!Processes,
         Lab!Store(p) \/ \E committed \in BOOLEAN: Lab!StoreFails(p, committed)
  PROVE  LabInv'
  <1> DEFINE y == lProcess[p]
  <1>1. /\ y.at \in {"complete", "fail"} /\ UNCHANGED <<lBegun, lSanctioned, lAuthorization>>
        /\ lRow' \in {lRow, Lab!Written(p)}
        /\ \/ \E step \in {"over", "doubt"}: Lab!Goes(p, step)
           \/ lProcess' = [lProcess EXCEPT ![p].left = @ - 1]
    BY DEF Lab!Store, Lab!StoreFails, Lab!Again, Lab!Over, Lab!Doubts
  <1>2. LabProcess(y) /\ p \in DOMAIN lProcess
    BY DEF LabInv, LabRowsInv, LabShape
  <1>3. PICK x: /\ LabProcess(x) /\ lProcess' = [lProcess EXCEPT ![p] = x]
                /\ \/ x.at \notin Lab!Executing
                   \/ x.at = y.at /\ x.release = y.release /\ x.evidence = y.evidence
    <2>1. ASSUME NEW step \in {"over", "doubt"}, Lab!Goes(p, step)
          PROVE  \E x: /\ LabProcess(x) /\ lProcess' = [lProcess EXCEPT ![p] = x]
                       /\ x.at \notin Lab!Executing
      <3> DEFINE x == [y EXCEPT !.at = step]
      <3>1. LabProcess(x) /\ x.at = step
        BY <1>2 DEF LabProcess
      <3>2. lProcess' = [lProcess EXCEPT ![p] = x]
        BY <1>2, <2>1 DEF Lab!Goes
      <3> HIDE DEF x
      <3>3. x.at \notin Lab!Executing
        BY <3>1 DEF Lab!Executing
      <3>4. QED
        BY <3>1, <3>2, <3>3
    <2>2. ASSUME lProcess' = [lProcess EXCEPT ![p].left = @ - 1]
          PROVE  \E x: /\ LabProcess(x) /\ lProcess' = [lProcess EXCEPT ![p] = x]
                       /\ x.at = y.at /\ x.release = y.release /\ x.evidence = y.evidence
      <3> DEFINE x == [y EXCEPT !.left = @ - 1]
      <3>1. /\ LabProcess(x) /\ x.at = y.at /\ x.release = y.release
            /\ x.evidence = y.evidence
        BY <1>2 DEF LabProcess
      <3>2. lProcess' = [lProcess EXCEPT ![p] = x]
        BY <1>2, <2>2
      <3> HIDE DEF x
      <3>3. QED
        BY <3>1, <3>2
    <2>3. QED
      BY <1>1, <2>1, <2>2
  <1>4. CASE lRow' = lRow
    <2>1. Serves(lRow, p, y) /\ Executes(p)
      BY <1>1 DEF LabInv, LabServed, Executes, Lab!Executing
    <2>2. x.at \in Lab!Executing => Serves(lRow, p, x)
      <3>1. SUFFICES ASSUME x.at \in Lab!Executing PROVE Serves(lRow, p, x)
        OBVIOUS
      <3>2. x.at = y.at /\ x.release = y.release /\ x.evidence = y.evidence
        BY <1>3, <3>1
      <3>3. Progress(lRow, p, y) => Progress(lRow, p, x)
        BY <3>2 DEF Progress
      <3>4. QED
        BY <2>1, <3>2, <3>3 DEF Serves
    <2>3. QED
      BY <1>1, <1>3, <1>4, <2>1, <2>2, LabGoesOn
  <1>5. CASE lRow' # lRow
    <2>1. lRow[Lab!Run(p)].status = "started" /\ lRow' = Lab!Written(p)
      BY <1>1, <1>5 DEF Lab!Written
    <2>2. QED
      BY <1>1, <1>3, <2>1, WrittenKeeps
  <1>6. QED
    BY <1>4, <1>5

LEMMA RestartKeeps ==
  ASSUME LabInv, NEW p \in Lab!Processes, NEW release \in Releases,
         Lab!Restart(p, release)
  PROVE  LabInv'
  <1> DEFINE x == Lab!Fresh(release)
  <1>1. LabProcess(x) /\ x.at = "idle"
    BY DEF LabProcess, Lab!Fresh
  <1>2. /\ lProcess' = [lProcess EXCEPT ![p] = x]
        /\ UNCHANGED <<lRow, lBegun, lSanctioned, lAuthorization>>
    BY DEF Lab!Restart
  <1> HIDE DEF x
  <1>3. QED
    BY <1>1, <1>2, LabGoesOn DEF Lab!Executing

\* The operator's two steps leave the rows and the processes alone.
LEMMA OperatorKeeps ==
  ASSUME LabInv, UNCHANGED <<lRow, lBegun, lProcess>>,
         lSanctioned \subseteq lSanctioned',
         lAuthorization' # <<>> => lAuthorization' \in lSanctioned'
  PROVE  LabInv'
  <1>1. LabShape' /\ Lab!PairsWhole' /\ Lab!JudgedTheSame'
    BY DEF LabInv, LabRowsInv, LabShape, Lab!PairsWhole, Lab!JudgedTheSame, Lab!Usable,
           Lab!Stored, Lab!Runs, Lab!Processes
  <1>2. LabGiven'
    BY DEF LabInv, LabRowsInv, LabGiven, Lab!Runs
  <1>3. LabServed' /\ LabAlone'
    BY DEF LabInv, LabServed, LabAlone, Executes, Lab!Executing, Lab!Run, Lab!Processes
  <1>4. QED
    BY <1>1, <1>2, <1>3 DEF LabInv, LabRowsInv

LEMMA LabStep ==
  ASSUME Lab!EvidenceAssumption, LabInv, [Lab!Next]_(Lab!vars)
  PROVE  LabInv'
  <1>1. CASE UNCHANGED Lab!vars
    BY <1>1, OperatorKeeps DEF Lab!vars, LabInv, LabRowsInv, LabGiven
  <1>2. ASSUME NEW lab \in Lab!Runs, NEW release \in Releases,
               Lab!Authorize(lab, release)
        PROVE  LabInv'
    BY <1>2, OperatorKeeps DEF Lab!Authorize
  <1>3. CASE Lab!Withdraw
    BY <1>3, OperatorKeeps DEF Lab!Withdraw
  <1>4. ASSUME NEW p \in Lab!Processes, Lab!Step(p) PROVE LabInv'
    BY <1>4, LooksKeep, ClaimsKeep, StoresKeep, FetchKeeps, EvaluateKeeps, MeasureKeeps
    DEF Lab!Step, Lab!Judgements
  <1>5. ASSUME NEW p \in Lab!Processes, Lab!Fails(p) PROVE LabInv'
    BY <1>5, LooksKeep, ClaimsKeep, StoresKeep DEF Lab!Fails
  <1>6. QED
    BY <1>1, <1>2, <1>3, <1>4, <1>5, RestartKeeps DEF Lab!Next

LEMMA LabBegins ==
  ASSUME Lab!Init
  PROVE  LabInv
  <1>1. /\ lRow = [r \in Lab!Runs |-> Lab!NoRow] /\ lBegun = [r \in Lab!Runs |-> 0]
        /\ lProcess \in [Lab!Processes -> {Lab!Fresh(r): r \in Releases}]
        /\ lAuthorization = <<>>
    BY DEF Lab!Init
  <1>2. LabRow(Lab!NoRow) /\ Lab!NoRow.status = "none" /\ Lab!NoRow.evidence = <<>>
    BY DEF LabRow, Lab!NoRow
  <1>3. \A r \in Releases: LabProcess(Lab!Fresh(r)) /\ Lab!Fresh(r).at = "idle"
    BY DEF LabProcess, Lab!Fresh
  <1>4. \A p \in Lab!Processes: LabProcess(lProcess[p]) /\ lProcess[p].at = "idle"
    BY <1>1, <1>3
  <1>5. LabShape
    BY <1>1, <1>2, <1>4 DEF LabShape
  <1>6. LabGiven
    BY <1>1, <1>2 DEF LabGiven
  <1>7. Lab!PairsWhole /\ Lab!JudgedTheSame
    BY <1>1, <1>2 DEF Lab!PairsWhole, Lab!JudgedTheSame, Lab!Runs
  <1>8. LabServed /\ LabAlone
    BY <1>4 DEF LabServed, LabAlone, Serves, Executes, Lab!Executing
  <1>9. QED
    BY <1>5, <1>6, <1>7, <1>8 DEF LabInv, LabRowsInv

LEMMA LabFollows ==
  ASSUME LabInv
  PROVE  Lab!EvidenceSound
  <1>1. Lab!UsedOnce
    BY DEF LabInv, LabRowsInv, LabGiven, Lab!UsedOnce
  <1>2. Lab!OneExecutes
    BY DEF LabInv, LabServed, LabAlone, Serves, Executes, Lab!OneExecutes, Lab!At
  <1>3. QED
    BY <1>1, <1>2 DEF LabInv, LabRowsInv, Lab!EvidenceSound

(* An authorization is good for one execution of its release, by one       *)
(* process, stored pairs are of every case and on one route, and a critic  *)
(* judged the fixtures they were made of: for any releases, processes and  *)
(* faults (the claim, outcome and critic of the Marketing Lab's runs).     *)
THEOREM MarketingEvidenceHolds ==
  ASSUME Lab!EvidenceAssumption
  PROVE  Lab!EvidenceSpec => []Lab!EvidenceSound
  <1>1. Lab!Init => LabInv
    BY LabBegins
  <1>2. LabInv /\ [Lab!Next]_(Lab!vars) => LabInv'
    BY LabStep
  <1>3. LabInv => Lab!EvidenceSound
    BY LabFollows
  <1>4. QED
    BY <1>1, <1>2, <1>3, PTL DEF Lab!EvidenceSpec

-----------------------------------------------------------------------------
(* The analyses by the model (DeepAnalysis), for any clusters, limits,     *)
(* number of runners and ends of an invocation.  A candidate is with the   *)
(* runner that took it from the cursor or has its outcome, and a runner    *)
(* goes only when the cursor is past the list.                             *)
CONSTANTS DeepInputs, RankLimit, DeepLimit, Concurrency, Replies
VARIABLES dClusters, dRanked, dCursor, dRunner, dCalls, dOutcome, dAnalysed

Analysis == INSTANCE DeepAnalysis WITH
  Inputs <- DeepInputs, clusters <- dClusters, ranked <- dRanked, cursor <- dCursor,
  runner <- dRunner, calls <- dCalls, outcome <- dOutcome, analysed <- dAnalysed

\* The limits are counts, there is somebody to work, and every end of an
\* invocation is an outcome.
AnalysisAssumption ==
  /\ RankLimit \in Nat /\ DeepLimit \in Nat /\ Concurrency \in Nat \ {0}
  /\ \A S \in DeepInputs: IsFiniteSet(S)
  /\ "none" \notin Replies

AllAnswered ==
  dAnalysed # Analysis!Pending => \A i \in 1..Analysis!Deep: dOutcome[i] # "none"

RunnerShape(x) == {"at", "phase"} \subseteq DOMAIN x
Listed == dRanked # Analysis!Unranked
Counted == /\ Analysis!Deep \in Nat /\ dCursor \in Nat \ {0}
           /\ dClusters \in DeepInputs
           /\ \A i \in DOMAIN dCalls: dCalls[i] \in Seq(Replies) /\ Len(dCalls[i]) <= 2
           /\ Listed => DOMAIN dCalls = 1..Analysis!Deep /\ DOMAIN dOutcome = 1..Analysis!Deep
           /\ ~Listed => dCursor = 1 /\ dAnalysed = Analysis!Pending
                         /\ \A r \in Analysis!Runners: dRunner[r].phase = "free"
Busy(x, cur, out, cl) ==
  /\ x.at \in DOMAIN out /\ x.at # 0 /\ x.at < cur /\ x.phase \in {"calling", "waiting"}
  /\ out[x.at] = "none" /\ Len(cl[x.at]) <= 1
Resting(x, cur, n) == /\ x.at = 0 /\ x.phase \in {"free", "gone"}
                      /\ x.phase = "gone" => cur > n
Placed(x, cur, out, cl, n) ==
  RunnerShape(x) /\ (Busy(x, cur, out, cl) \/ Resting(x, cur, n))
Staffed ==
  /\ DOMAIN dRunner = Analysis!Runners
  /\ \A r \in Analysis!Runners:
       Placed(dRunner[r], dCursor, dOutcome, dCalls, Analysis!Deep)
  /\ \A r, q \in Analysis!Runners:
       r # q /\ dRunner[r].at # 0 => dRunner[q].at # dRunner[r].at
Covered ==
  Listed => \A i \in 1..Analysis!Deep:
    /\ i < dCursor => \/ dOutcome[i] # "none"
                      \/ \E r \in Analysis!Runners: dRunner[r].at = i
    /\ i >= dCursor => dOutcome[i] = "none" /\ dCalls[i] = <<>>
Leavers == {r \in Analysis!Runners: dRunner[r].phase = "gone"}
Few == dCursor <= Analysis!Deep + 1 + Cardinality(Leavers)
AnalysisInv == Counted /\ Staffed /\ Covered /\ Few /\ AllAnswered

LEMMA SmallerOf == ASSUME NEW a \in Nat, NEW b \in Nat
                   PROVE  /\ Analysis!Min({a, b}) \in Nat
                          /\ Analysis!Min({a, b}) <= a /\ Analysis!Min({a, b}) <= b
<1>1. \E x \in {a, b}: \A y \in {a, b}: x =< y
  OBVIOUS
<1>2. Analysis!Min({a, b}) \in {a, b} /\ \A y \in {a, b}: Analysis!Min({a, b}) =< y
  BY <1>1, Zenon DEF Analysis!Min
<1>3. QED
  BY <1>2

LEMMA CountsAlike == ASSUME NEW S PROVE Analysis!Cardinality(S) = Cardinality(S)
  BY DEF Cardinality, Analysis!Cardinality

LEMMA RunnersAreFew ==
  ASSUME AnalysisAssumption
  PROVE  IsFiniteSet(Analysis!Runners) /\ Cardinality(Analysis!Runners) = Concurrency
  BY FS_Interval DEF AnalysisAssumption, Analysis!Runners

LEMMA LeaversCount ==
  ASSUME AnalysisAssumption
  PROVE  /\ IsFiniteSet(Leavers) /\ Cardinality(Leavers) \in Nat
         /\ Cardinality(Leavers) <= Concurrency
<1>1. Leavers \subseteq Analysis!Runners
  BY DEF Leavers
<1>2. QED
  BY <1>1, RunnersAreFew, FS_Subset, FS_CardinalityType

LEMMA RankedIsCounted ==
  ASSUME AnalysisAssumption, dClusters \in DeepInputs
  PROVE  Len(Analysis!PreRank(dClusters)) \in Nat
<1> DEFINE n == Cardinality(dClusters)
           place == [k \in 1..n |->
                      CHOOSE c \in dClusters:
                        Analysis!Cardinality({d \in dClusters: Analysis!Before(d, c)}) = k - 1]
           m == Analysis!Min({RankLimit, n})
<1>1. n \in Nat
  BY FS_CardinalityType DEF AnalysisAssumption
<1>2. m \in Nat /\ m <= n
  BY <1>1, SmallerOf DEF AnalysisAssumption
<1>3. Analysis!PreRank(dClusters) = SubSeq(place, 1, m)
  BY CountsAlike DEF Analysis!PreRank
<1>4. SubSeq(place, 1, m) = [k \in 1..m |-> place[k]]
  <2> HIDE DEF n, m
  <2> DEFINE T == {place[k]: k \in 1..n}
  <2>1. place \in [1..n -> T]
    OBVIOUS
  <2> HIDE DEF place, T
  <2>2. place \in Seq(T) /\ Len(place) = n
    BY <2>1, <1>1
  <2>3. QED
    BY <2>2, <1>1, <1>2
<1> HIDE DEF place, m
<1>5. QED
  BY <1>2, <1>3, <1>4

LEMMA AnalysisStarts == ASSUME AnalysisAssumption, Analysis!Init PROVE AnalysisInv
<1>1. Analysis!Deep \in Nat
  <2>1. Len(dRanked) = 1
    BY DEF Analysis!Init, Analysis!Unranked
  <2>2. QED
    BY <2>1, SmallerOf DEF Analysis!Deep, AnalysisAssumption
<1>2. ~Listed /\ dCursor = 1 /\ dAnalysed = Analysis!Pending
      /\ dRunner = [r \in Analysis!Runners |-> Analysis!Free] /\ dClusters \in DeepInputs
      /\ DOMAIN dCalls = {}
  BY DEF Analysis!Init, Listed
<1>3. RunnerShape(Analysis!Free) /\ Analysis!Free.at = 0 /\ Analysis!Free.phase = "free"
  BY DEF RunnerShape, Analysis!Free
<1>4. Counted
  BY <1>1, <1>2, <1>3 DEF Counted
<1>5. Staffed
  BY <1>1, <1>2, <1>3 DEF Staffed, Placed, Resting
<1>6. Few
  BY <1>1, <1>2, LeaversCount DEF Few
<1>7. QED
  BY <1>2, <1>4, <1>5, <1>6 DEF AnalysisInv, Covered, AllAnswered

LEMMA RankKeeps ==
  ASSUME AnalysisAssumption, AnalysisInv, Analysis!Rank PROVE AnalysisInv'
<1> DEFINE n == Analysis!Deep'
<1>1. /\ ~Listed /\ dCursor = 1 /\ dAnalysed = Analysis!Pending /\ dClusters \in DeepInputs
      /\ \A r \in Analysis!Runners: dRunner[r].phase = "free"
      /\ UNCHANGED <<dClusters, dCursor, dRunner, dAnalysed>>
  BY DEF Analysis!Rank, AnalysisInv, Counted, Listed
<1>2. n \in Nat
  <2>1. Len(dRanked') \in Nat
    BY <1>1, RankedIsCounted DEF Analysis!Rank
  <2>2. QED
    BY <2>1, SmallerOf DEF Analysis!Deep, AnalysisAssumption
<1>3. dCalls' = [i \in 1..n |-> <<>>] /\ dOutcome' = [i \in 1..n |-> "none"]
  BY DEF Analysis!Rank, Analysis!Deep
<1> HIDE DEF n
<1>4. Counted'
  <2>1. \A i \in DOMAIN dCalls': dCalls'[i] \in Seq(Replies) /\ Len(dCalls'[i]) <= 2
    BY <1>3
  <2>2. DOMAIN dCalls' = 1..n /\ DOMAIN dOutcome' = 1..n
    BY <1>3
  <2>3. QED
    BY <2>1, <2>2, <1>1, <1>2 DEF Counted, n, Analysis!Pending, Analysis!Runners, Listed
<1>5. Staffed'
  <2>1. \A r \in Analysis!Runners: dRunner'[r].at = 0 /\ dRunner'[r].phase = "free"
                                   /\ RunnerShape(dRunner'[r])
    BY <1>1 DEF AnalysisInv, Staffed, Placed, Busy, Resting
  <2>2. QED
    BY <2>1, <1>1 DEF AnalysisInv, Staffed, Placed, Resting, Analysis!Runners
<1>6. Covered'
  BY <1>1, <1>2, <1>3 DEF Covered, n
<1>7. Few'
  <2>1. Leavers' = Leavers
    BY <1>1 DEF Leavers, Analysis!Runners
  <2>2. QED
    BY <2>1, <1>1, <1>2, LeaversCount DEF Few, n
<1>8. QED
  BY <1>1, <1>4, <1>5, <1>6, <1>7 DEF AnalysisInv, AllAnswered, Analysis!Pending

\* What the steps of a runner leave alone.
Onward == /\ Listed /\ Listed' /\ Analysis!Deep' = Analysis!Deep /\ UNCHANGED <<dRanked, dClusters>>
          /\ Analysis!Runners' = Analysis!Runners /\ Analysis!Pending' = Analysis!Pending
LEMMA StaysListed ==
  ASSUME Listed, UNCHANGED <<dRanked, dClusters>> PROVE Onward
  BY DEF Listed, Onward, Analysis!Deep, Analysis!Runners, Analysis!Pending



\* A runner goes on to y: nobody else has the candidate it goes on with.
LEMMA RunnerMoves ==
  ASSUME Staffed, Onward, NEW r \in Analysis!Runners, NEW y,
         dRunner' = [dRunner EXCEPT ![r] = y],
         Placed(y, dCursor', dOutcome', dCalls', Analysis!Deep),
         \A q \in Analysis!Runners: q # r /\ y.at # 0 => dRunner[q].at # y.at,
         \A q \in Analysis!Runners: q # r =>
           Placed(dRunner[q], dCursor', dOutcome', dCalls', Analysis!Deep)
  PROVE  Staffed'
<1>1. DOMAIN dRunner' = Analysis!Runners
      /\ \A q \in Analysis!Runners: dRunner'[q] = IF q = r THEN y ELSE dRunner[q]
  BY DEF Staffed
<1>2. \A q \in Analysis!Runners: Placed(dRunner'[q], dCursor', dOutcome', dCalls', Analysis!Deep)
  BY <1>1
<1>3. \A p, q \in Analysis!Runners: p # q /\ dRunner'[p].at # 0 => dRunner'[q].at # dRunner'[p].at
  <2>1. \A p, q \in Analysis!Runners: p # q /\ dRunner[p].at # 0 => dRunner[q].at # dRunner[p].at
    BY DEF Staffed
  <2>2. QED
    BY <1>1, <2>1
<1>4. QED
  BY <1>1, <1>2, <1>3 DEF Staffed, Onward

Goes(x, phase) == [x EXCEPT !.phase = phase]
LEMMA GoesOn ==
  ASSUME NEW x, RunnerShape(x), NEW phase
  PROVE  LET y == Goes(x, phase) IN RunnerShape(y) /\ y.phase = phase /\ y.at = x.at
  BY DEF RunnerShape, Goes

LEMMA TakeKeeps ==
  ASSUME AnalysisAssumption, AnalysisInv, NEW r \in Analysis!Runners, Analysis!Take(r)
  PROVE  AnalysisInv'
<1> DEFINE n == Analysis!Deep
<1>1. /\ Onward /\ dRunner[r] = Analysis!Free /\ dCursor' = dCursor + 1
      /\ UNCHANGED <<dCalls, dOutcome, dAnalysed>>
  BY StaysListed DEF Analysis!Take, Listed
<1>2. n \in Nat /\ dCursor \in Nat /\ dRunner[r].phase = "free" /\ dRunner[r].at = 0
      /\ DOMAIN dOutcome = 1..n
  BY <1>1 DEF AnalysisInv, Counted, Analysis!Free, Onward
<1>3. PICK y: dRunner' = [dRunner EXCEPT ![r] = y]
              /\ IF dCursor <= n THEN y = [at |-> dCursor, phase |-> "calling"]
                                 ELSE y = Analysis!Gone
  BY DEF Analysis!Take
<1>4. /\ RunnerShape(y)
      /\ dCursor <= n => y.at = dCursor /\ y.phase = "calling"
      /\ dCursor > n => y.at = 0 /\ y.phase = "gone"
  BY <1>2, <1>3 DEF RunnerShape, Analysis!Gone
<1> HIDE DEF n
<1>5. dCursor <= n => dOutcome[dCursor] = "none" /\ dCalls[dCursor] = <<>>
  BY <1>1, <1>2 DEF AnalysisInv, Covered, Onward, n, Counted
<1>6. Placed(y, dCursor', dOutcome', dCalls', n)
  <2>1. CASE dCursor <= n
    <3>1. Len(dCalls[dCursor]) <= 1
      BY <2>1, <1>5
    <3>2. dCursor \in 1..n
      BY <2>1, <1>2 DEF AnalysisInv, Counted
    <3>3. QED
      BY <2>1, <3>1, <3>2, <1>1, <1>2, <1>4, <1>5 DEF Placed, Busy
  <2>2. CASE dCursor > n
    BY <2>2, <1>1, <1>2, <1>4 DEF Placed, Resting
  <2>3. QED
    BY <2>1, <2>2, <1>2
<1>7. ASSUME NEW q \in Analysis!Runners, q # r
      PROVE  /\ Placed(dRunner[q], dCursor', dOutcome', dCalls', n)
             /\ y.at # 0 => dRunner[q].at # y.at
  <2>1. Placed(dRunner[q], dCursor, dOutcome, dCalls, n)
    BY DEF AnalysisInv, Staffed, n
  <2>2. Placed(dRunner[q], dCursor', dOutcome', dCalls', n)
    BY <2>1, <1>1, <1>2 DEF Placed, Busy, Resting
  <2>3. y.at # 0 => dRunner[q].at # y.at
    BY <2>1, <1>2, <1>4 DEF Placed, Busy, Resting
  <2>4. QED
    BY <2>2, <2>3
<1>8. Staffed'
  BY <1>1, <1>3, <1>6, <1>7, RunnerMoves DEF AnalysisInv, n
<1>9. DOMAIN dRunner = Analysis!Runners
      /\ \A q \in Analysis!Runners: dRunner'[q] = IF q = r THEN y ELSE dRunner[q]
  BY <1>3 DEF AnalysisInv, Staffed
<1>10. Counted'
  BY <1>1, <1>2 DEF AnalysisInv, Counted, Onward
<1>11. Covered'
  <2> SUFFICES ASSUME NEW i \in 1..n
               PROVE  /\ i < dCursor' => \/ dOutcome[i] # "none"
                                          \/ \E q \in Analysis!Runners: dRunner'[q].at = i
                      /\ i >= dCursor' => dOutcome[i] = "none" /\ dCalls[i] = <<>>
    BY <1>1 DEF Covered, Onward, n
  <2>1. /\ i < dCursor => \/ dOutcome[i] # "none"
                          \/ \E q \in Analysis!Runners: dRunner[q].at = i
        /\ i >= dCursor => dOutcome[i] = "none" /\ dCalls[i] = <<>>
    BY <1>1 DEF AnalysisInv, Covered, Onward, n
  <2>2. CASE i = dCursor
    BY <2>2, <1>1, <1>2, <1>4, <1>9
  <2>3. CASE i < dCursor
    <3>1. ASSUME NEW q \in Analysis!Runners, dRunner[q].at = i PROVE dRunner'[q].at = i
      BY <3>1, <1>2, <1>9
    <3>2. QED
      BY <2>1, <2>3, <3>1, <1>1, <1>2
  <2>4. CASE i > dCursor
    BY <2>1, <2>4, <1>1, <1>2
  <2>5. QED
    BY <2>2, <2>3, <2>4, <1>2
<1>12. Few'
  <2>1. IsFiniteSet(Leavers) /\ Cardinality(Leavers) \in Nat
    BY LeaversCount
  <2>2. dCursor <= n + 1 + Cardinality(Leavers)
    BY DEF AnalysisInv, Few, n
  <2>3. CASE dCursor <= n
    <3>1. Leavers' = Leavers
      BY <2>3, <1>1, <1>2, <1>4, <1>9 DEF Leavers, Onward
    <3>2. QED
      BY <2>1, <2>3, <3>1, <1>1, <1>2 DEF Few, Onward, n
  <2>4. CASE dCursor > n
    <3>1. Leavers' = Leavers \cup {r} /\ r \notin Leavers
      BY <2>4, <1>1, <1>2, <1>4, <1>9 DEF Leavers, Onward
    <3>2. Cardinality(Leavers') = Cardinality(Leavers) + 1
      BY <2>1, <3>1, FS_AddElement
    <3>3. QED
      BY <2>1, <2>2, <3>2, <1>1, <1>2 DEF Few, Onward, n
  <2>5. QED
    BY <2>3, <2>4, <1>2
<1>13. AllAnswered'
  BY <1>1 DEF AnalysisInv, AllAnswered, Onward
<1>14. QED
  BY <1>8, <1>10, <1>11, <1>12, <1>13 DEF AnalysisInv

LEMMA RetryKeeps ==
  ASSUME AnalysisAssumption, AnalysisInv, NEW r \in Analysis!Runners, Analysis!Retry(r)
  PROVE  AnalysisInv'
<1> DEFINE y == Goes(dRunner[r], "calling")
<1>1. /\ dRunner[r].phase = "waiting" /\ dRunner' = [dRunner EXCEPT ![r] = y]
      /\ UNCHANGED <<dCalls, dOutcome, dAnalysed, dCursor, dRanked, dClusters>>
  BY DEF Analysis!Retry, Goes, AnalysisInv, Staffed
<1>2. Onward
  BY <1>1, StaysListed DEF AnalysisInv, Counted, Onward
<1>3. Placed(dRunner[r], dCursor, dOutcome, dCalls, Analysis!Deep)
  BY DEF AnalysisInv, Staffed
<1>4. RunnerShape(y) /\ y.phase = "calling" /\ y.at = dRunner[r].at
  BY <1>3, GoesOn DEF Placed
<1> HIDE DEF y
<1>5. Placed(y, dCursor', dOutcome', dCalls', Analysis!Deep)
  BY <1>1, <1>3, <1>4 DEF Placed, Busy, Resting
<1>6. y.phase # "gone" /\ dRunner[r].phase # "gone"
  BY <1>1, <1>4
<1>7. dOutcome' = dOutcome /\ dCalls' = dCalls
  BY <1>1
<1>8. \A q \in Analysis!Runners: q # r =>
        Placed(dRunner[q], dCursor', dOutcome', dCalls', Analysis!Deep)
  BY <1>1 DEF AnalysisInv, Staffed
<1>9. \A q \in Analysis!Runners: q # r /\ y.at # 0 => dRunner[q].at # y.at
  BY <1>4 DEF AnalysisInv, Staffed
<1>10. Staffed'
  BY <1>1, <1>2, <1>5, <1>8, <1>9, RunnerMoves DEF AnalysisInv
<1>11. DOMAIN dRunner = Analysis!Runners
      /\ \A q \in Analysis!Runners: dRunner'[q] = IF q = r THEN y ELSE dRunner[q]
  BY <1>1 DEF AnalysisInv, Staffed
<1>12. Leavers' = Leavers
  BY <1>6, <1>11, <1>2 DEF Leavers, Onward
<1>13. \A q \in Analysis!Runners: dRunner'[q].at = dRunner[q].at
  BY <1>4, <1>11
<1>14. Covered'
  BY <1>1, <1>2, <1>13 DEF AnalysisInv, Covered, Onward
<1>15. Counted' /\ Few' /\ AllAnswered'
  BY <1>1, <1>2, <1>12 DEF AnalysisInv, Counted, Few, AllAnswered, Onward
<1>16. QED
  BY <1>10, <1>14, <1>15 DEF AnalysisInv

\* An invocation that ends leaves its candidate with the runner, or with an
\* outcome and the runner free.
LEMMA FinishKeeps ==
  ASSUME AnalysisAssumption, AnalysisInv, NEW r \in Analysis!Runners, Analysis!Finish(r)
  PROVE  AnalysisInv'
<1> DEFINE i == dRunner[r].at
           n == Analysis!Deep
<1>1. PICK end \in Replies:
        /\ dRunner[r].phase = "calling" /\ dCalls' = [dCalls EXCEPT ![i] = Append(@, end)]
        /\ UNCHANGED <<dAnalysed, dCursor, dRanked, dClusters>>
        /\ \/ /\ Analysis!Retries(i, end) /\ dOutcome' = dOutcome
              /\ dRunner' = [dRunner EXCEPT ![r] = Goes(dRunner[r], "waiting")]
           \/ /\ dRunner' = [dRunner EXCEPT ![r] = Analysis!Free]
              /\ dOutcome' = [dOutcome EXCEPT ![i] = end]
  BY DEF Analysis!Finish, Goes, AnalysisInv, Staffed
<1>2. Onward
  BY <1>1, StaysListed DEF AnalysisInv, Counted, Onward
<1>3. Placed(dRunner[r], dCursor, dOutcome, dCalls, n)
  BY DEF AnalysisInv, Staffed
<1>4. /\ i \in 1..n /\ i < dCursor /\ dOutcome[i] = "none" /\ Len(dCalls[i]) <= 1
      /\ DOMAIN dOutcome = 1..n /\ DOMAIN dCalls = 1..n /\ dCursor \in Nat /\ n \in Nat
  BY <1>1, <1>2, <1>3 DEF Placed, Busy, Resting, AnalysisInv, Counted, Onward
<1>5. dCalls[i] \in Seq(Replies) /\ \A k \in 1..n: dCalls[k] \in Seq(Replies) /\ Len(dCalls[k]) <= 2
  BY <1>4 DEF AnalysisInv, Counted
<1> HIDE DEF i, n
<1>6. /\ DOMAIN dCalls' = 1..n
      /\ \A k \in 1..n: dCalls'[k] = IF k = i THEN Append(dCalls[i], end) ELSE dCalls[k]
  BY <1>1, <1>4
<1>7. Append(dCalls[i], end) \in Seq(Replies) /\ Len(Append(dCalls[i], end)) = Len(dCalls[i]) + 1
  BY <1>5
<1>8. /\ DOMAIN dOutcome' = 1..n /\ dOutcome'[i] \in Replies \cup {dOutcome[i]}
      /\ \A k \in 1..n: k # i => dOutcome'[k] = dOutcome[k]
  BY <1>1, <1>4
<1>9. end # "none"
  BY <1>1 DEF AnalysisAssumption
<1>10. Counted'
  <2>1. Len(dCalls[i]) \in Nat
    BY <1>5
  <2>2. \A k \in 1..n: dCalls'[k] \in Seq(Replies) /\ Len(dCalls'[k]) <= 2
    <3> SUFFICES ASSUME NEW k \in 1..n PROVE dCalls'[k] \in Seq(Replies) /\ Len(dCalls'[k]) <= 2
      OBVIOUS
    <3>1. CASE k = i
      <4>1. dCalls'[k] = Append(dCalls[i], end)
        BY <3>1, <1>6
      <4>2. QED
        BY <4>1, <2>1, <1>4, <1>7
    <3>2. CASE k # i
      <4>1. dCalls'[k] = dCalls[k]
        BY <3>2, <1>6
      <4>2. QED
        BY <4>1, <1>5
    <3>3. QED
      BY <3>1, <3>2
  <2>3. QED
    BY <2>2, <1>1, <1>2, <1>6, <1>8 DEF AnalysisInv, Counted, Onward, n
<1>11. ASSUME NEW q \in Analysis!Runners, q # r
       PROVE  Placed(dRunner[q], dCursor', dOutcome', dCalls', n)
  <2>1. Placed(dRunner[q], dCursor, dOutcome, dCalls, n)
    BY DEF AnalysisInv, Staffed, n
  <2>2. dRunner[q].at # i
    BY <1>11, <1>4 DEF AnalysisInv, Staffed, i
  <2>3. QED
    BY <2>1, <2>2, <1>1, <1>4, <1>6, <1>8 DEF Placed, Busy, Resting
<1>12. dAnalysed' = dAnalysed /\ dCursor' = dCursor
  BY <1>1
<1>13. CASE /\ Analysis!Retries(i, end) /\ dOutcome' = dOutcome
            /\ dRunner' = [dRunner EXCEPT ![r] = Goes(dRunner[r], "waiting")]
  <2> DEFINE y == Goes(dRunner[r], "waiting")
  <2>1. RunnerShape(y) /\ y.phase = "waiting" /\ y.at = i
    BY <1>3, GoesOn DEF Placed, i
  <2> HIDE DEF y
  <2>2. Len(dCalls'[i]) = 1
    <3>1. dCalls[i] = <<>>
      BY <1>13 DEF Analysis!Retries
    <3>2. QED
      BY <3>1, <1>4, <1>6
  <2>3. Placed(y, dCursor', dOutcome', dCalls', n)
    BY <2>1, <2>2, <1>4, <1>12, <1>13 DEF Placed, Busy
  <2>4. \A q \in Analysis!Runners: q # r /\ y.at # 0 => dRunner[q].at # y.at
    BY <2>1 DEF AnalysisInv, Staffed, i
  <2>5. dRunner' = [dRunner EXCEPT ![r] = y]
    BY <1>13 DEF y
  <2>6. Staffed'
    BY <2>3, <2>4, <2>5, <1>2, <1>11, RunnerMoves DEF AnalysisInv, n
  <2>7. DOMAIN dRunner = Analysis!Runners
        /\ \A q \in Analysis!Runners: dRunner'[q] = IF q = r THEN y ELSE dRunner[q]
    BY <2>5 DEF AnalysisInv, Staffed
  <2>8. \A q \in Analysis!Runners: dRunner'[q].at = dRunner[q].at
    BY <2>1, <2>7 DEF i
  <2>9. Leavers' = Leavers
    BY <2>1, <2>7, <1>1, <1>2 DEF Leavers, Onward
  <2>10. Covered'
    BY <2>8, <1>2, <1>4, <1>6, <1>12, <1>13 DEF AnalysisInv, Covered, Onward, n
  <2>11. Few' /\ AllAnswered'
    BY <2>9, <1>2, <1>12, <1>13 DEF AnalysisInv, Few, AllAnswered, Onward
  <2>12. QED
    BY <2>6, <2>10, <2>11, <1>10 DEF AnalysisInv
<1>14. CASE /\ dRunner' = [dRunner EXCEPT ![r] = Analysis!Free]
            /\ dOutcome' = [dOutcome EXCEPT ![i] = end]
  <2>1. RunnerShape(Analysis!Free) /\ Analysis!Free.at = 0 /\ Analysis!Free.phase = "free"
    BY DEF RunnerShape, Analysis!Free
  <2>2. Placed(Analysis!Free, dCursor', dOutcome', dCalls', n)
    BY <2>1 DEF Placed, Resting
  <2>3. Staffed'
    BY <2>1, <2>2, <1>2, <1>11, <1>14, RunnerMoves DEF AnalysisInv, n
  <2>4. DOMAIN dRunner = Analysis!Runners
        /\ \A q \in Analysis!Runners: dRunner'[q] = IF q = r THEN Analysis!Free ELSE dRunner[q]
    BY <1>14 DEF AnalysisInv, Staffed
  <2>5. Leavers' = Leavers
    BY <2>1, <2>4, <1>1, <1>2 DEF Leavers, Onward
  <2>6. dOutcome'[i] # "none"
    BY <1>4, <1>9, <1>14
  <2>7. \A q \in Analysis!Runners: dRunner[q].at # i => dRunner'[q].at = dRunner[q].at
    BY <2>4 DEF i
  <2>8. Covered'
    <3> SUFFICES ASSUME NEW k \in 1..n
                 PROVE  /\ k < dCursor => \/ dOutcome'[k] # "none"
                                          \/ \E q \in Analysis!Runners: dRunner'[q].at = k
                        /\ k >= dCursor => dOutcome'[k] = "none" /\ dCalls'[k] = <<>>
      BY <1>2, <1>12 DEF Covered, Onward, n
    <3>1. /\ k < dCursor => \/ dOutcome[k] # "none"
                            \/ \E q \in Analysis!Runners: dRunner[q].at = k
          /\ k >= dCursor => dOutcome[k] = "none" /\ dCalls[k] = <<>>
      BY <1>2 DEF AnalysisInv, Covered, Onward, n
    <3>2. CASE k = i
      BY <3>2, <2>6, <1>4
    <3>3. CASE k # i
      BY <3>1, <3>3, <2>7, <1>6, <1>8
    <3>4. QED
      BY <3>2, <3>3
  <2>9. Few'
    BY <2>5, <1>2, <1>12 DEF AnalysisInv, Few, Onward
  <2>10. AllAnswered'
    BY <2>6, <1>2, <1>8, <1>12 DEF AnalysisInv, AllAnswered, Onward, n
  <2>11. QED
    BY <2>3, <2>8, <2>9, <2>10, <1>10 DEF AnalysisInv
<1>15. QED
  BY <1>1, <1>13, <1>14

LEMMA CollectKeeps ==
  ASSUME AnalysisAssumption, AnalysisInv, Analysis!Collect PROVE AnalysisInv'
<1>1. /\ Listed /\ \A r \in Analysis!Runners: dRunner[r] = Analysis!Gone
      /\ UNCHANGED <<dClusters, dRanked, dCursor, dRunner, dCalls, dOutcome>>
  BY DEF Analysis!Collect, Listed
<1>2. Onward
  BY <1>1, StaysListed
<1>3. \A r \in Analysis!Runners: dRunner[r].phase = "gone" /\ dRunner[r].at = 0
  BY <1>1 DEF Analysis!Gone
<1>4. 1 \in Analysis!Runners
  BY DEF AnalysisAssumption, Analysis!Runners
<1>5. dCursor > Analysis!Deep
  <2>1. Placed(dRunner[1], dCursor, dOutcome, dCalls, Analysis!Deep)
    BY <1>4 DEF AnalysisInv, Staffed
  <2>2. QED
    BY <2>1, <1>3, <1>4 DEF Placed, Busy, Resting
<1>6. \A i \in 1..Analysis!Deep: dOutcome[i] # "none"
  <2> SUFFICES ASSUME NEW i \in 1..Analysis!Deep PROVE dOutcome[i] # "none"
    OBVIOUS
  <2>1. i < dCursor /\ i # 0
    BY <1>5 DEF AnalysisInv, Counted
  <2>2. QED
    BY <2>1, <1>1, <1>3 DEF AnalysisInv, Covered
<1>7. AllAnswered'
  BY <1>1, <1>2, <1>6 DEF AllAnswered, Onward
<1>8. Leavers' = Leavers
  BY <1>1, <1>2 DEF Leavers, Onward
<1>9. Counted' /\ Staffed' /\ Covered' /\ Few'
  BY <1>1, <1>2, <1>8 DEF AnalysisInv, Counted, Staffed, Covered, Few, Onward
<1>10. QED
  BY <1>7, <1>9 DEF AnalysisInv

LEMMA AnalysisStutters ==
  ASSUME AnalysisInv, UNCHANGED Analysis!vars PROVE AnalysisInv'
<1>1. UNCHANGED <<dClusters, dRanked, dCursor, dRunner, dCalls, dOutcome, dAnalysed>>
  BY DEF Analysis!vars
<1>2. Analysis!Deep' = Analysis!Deep /\ Analysis!Runners' = Analysis!Runners
      /\ Analysis!Pending' = Analysis!Pending /\ Listed' = Listed
  BY <1>1 DEF Analysis!Deep, Analysis!Runners, Analysis!Pending, Listed
<1>3. Leavers' = Leavers
  BY <1>1, <1>2 DEF Leavers
<1>4. QED
  BY <1>1, <1>2, <1>3 DEF AnalysisInv, Counted, Staffed, Covered, Few, AllAnswered

LEMMA ShortSeq ==
  ASSUME NEW S, NEW q \in Seq(S), Len(q) <= 2 PROVE q \in Analysis!BoundedSeq(S, 2)
<1>1. Len(q) \in 0..2
  <2>1. Len(q) \in Nat
    BY LenProperties
  <2>2. \A m \in Nat: m <= 2 => m \in 0..2
    OBVIOUS
  <2>3. QED
    BY <2>1, <2>2, Zenon
<1>2. q \in [1..Len(q) -> S]
  BY LenProperties
<1>3. QED
  BY <1>1, <1>2 DEF Analysis!BoundedSeq, Analysis!SeqOf

LEMMA AnalysisTypes ==
  ASSUME AnalysisAssumption, AnalysisInv PROVE Analysis!TypeOK /\ Analysis!NobodyTwice
<1>1. dCursor \in 1..(Analysis!Deep + Concurrency + 1)
  <2>1. Cardinality(Leavers) \in Nat /\ Cardinality(Leavers) <= Concurrency
    BY LeaversCount
  <2>2. QED
    BY <2>1 DEF AnalysisInv, Counted, Few, AnalysisAssumption
<1>2. ASSUME NEW k \in DOMAIN dCalls PROVE dCalls[k] \in Analysis!BoundedSeq(Replies, 2)
  BY ShortSeq DEF AnalysisInv, Counted
<1>3. \A r \in Analysis!Runners: dRunner[r].phase \in {"free", "calling", "waiting", "gone"}
  BY DEF AnalysisInv, Staffed, Placed, Busy, Resting
<1>4. Analysis!NobodyTwice
  BY DEF AnalysisInv, Staffed, Placed, Busy, Resting, Analysis!NobodyTwice
<1>5. QED
  BY <1>1, <1>2, <1>3, <1>4 DEF Analysis!TypeOK

\* For any clusters, limits, runners and ends of an invocation: a candidate
\* is with one runner at a time and with none once it has its outcome, it is
\* invoked at most twice, and every candidate has an outcome when the
\* analyses are kept (hunter-shadow-multistage-intelligence.ts).
THEOREM AnalysisHolds ==
  ASSUME AnalysisAssumption
  PROVE  Analysis!Spec => [](Analysis!TypeOK /\ Analysis!NobodyTwice /\ AllAnswered)
<1>1. Analysis!Init => AnalysisInv
  BY AnalysisStarts
<1>2. AnalysisInv /\ [Analysis!Next]_(Analysis!vars) => AnalysisInv'
  BY RankKeeps, TakeKeeps, FinishKeeps, RetryKeeps, CollectKeeps, AnalysisStutters
  DEF Analysis!Next, Analysis!Work
<1>3. AnalysisInv => Analysis!TypeOK /\ Analysis!NobodyTwice /\ AllAnswered
  BY AnalysisTypes DEF AnalysisInv
<1>4. QED
  BY <1>1, <1>2, <1>3, PTL DEF Analysis!Spec

-----------------------------------------------------------------------------
(* The trends: induction over numbers, for the members of a set.           *)
CONSTANTS TrendRuns, MaxSemantic
VARIABLES tGiven, tParent, tPair, tJoined, tAsked

Trend == INSTANCE ShadowTrend WITH
  given <- tGiven, parent <- tParent, pair <- tPair, joined <- tJoined,
  asked <- tAsked, Runs <- TrendRuns, MaxSemantic <- MaxSemantic

Below == OpToRel(<, Nat)

LEMMA BelowIs == \A x, y \in Nat: <<x, y>> \in Below <=> x < y
  BY DEF Below, OpToRel

LEMMA EachInTurn ==
  ASSUME NEW n \in Nat, NEW P,
         \A m \in 1..n: (\A k \in 1..(m - 1): k \in P) => m \in P
  PROVE  \A m \in 1..n: m \in P
<1> DEFINE Rest == {m \in 1..n: m \notin P}
<1> SUFFICES ASSUME Rest # {} PROVE FALSE
  OBVIOUS
<1>1. IsWellFoundedOn(Below, Nat)
  BY NatLessThanWellFounded DEF Below
<1>2. Rest \subseteq Nat
  OBVIOUS
<1>3. PICK m \in Rest: \A y \in Rest: ~(<<y, m>> \in Below)
  BY <1>1, <1>2, WFMin
<1>4. ASSUME NEW k \in 1..(m - 1) PROVE k \in P
  <2>1. k \in 1..n /\ k < m /\ k \in Nat /\ m \in Nat
    BY <1>3
  <2>2. <<k, m>> \in Below
    BY <2>1, BelowIs, Zenon
  <2>3. QED
    BY <1>3, <2>1, <2>2
<1>5. QED
  BY <1>3, <1>4

(* A signal points to itself or to an earlier one, so its root is found.   *)
Forest(n, p) == p \in [1..n -> 1..n] /\ \A x \in 1..n: p[x] <= x
Roots(n, p, R) == R = [x \in 1..n |-> IF p[x] = x THEN x ELSE R[p[x]]]

LEMMA RootsExist ==
  ASSUME NEW n \in Nat, NEW p, Forest(n, p)
  PROVE  \E R: Roots(n, p, R)
<1> DEFINE Found(m) == \E R \in [1..m -> 1..n]:
                         \A x \in 1..m: R[x] = IF p[x] = x THEN x ELSE R[p[x]]
           P == {m \in 1..n: Found(m)}
<1>1. ASSUME NEW m \in 1..n, \E R \in [1..(m - 1) -> 1..n]:
               \A x \in 1..(m - 1): R[x] = IF p[x] = x THEN x ELSE R[p[x]]
      PROVE  Found(m)
  <2>1. PICK R \in [1..(m - 1) -> 1..n]:
          \A x \in 1..(m - 1): R[x] = IF p[x] = x THEN x ELSE R[p[x]]
    BY <1>1
  <2> DEFINE last == IF p[m] = m THEN m ELSE R[p[m]]
             S == [x \in 1..m |-> IF x = m THEN last ELSE R[x]]
  <2>2. \A x \in 1..m: p[x] \in 1..x /\ (x # m => x \in 1..(m - 1))
    BY DEF Forest
  <2>3. m \in 1..m /\ (p[m] # m => p[m] \in 1..(m - 1))
    BY <2>2
  <2>4. last \in 1..n
    BY <2>3
  <2>5. S \in [1..m -> 1..n]
    BY <2>2, <2>4
  <2>6. ASSUME NEW x \in 1..m PROVE S[x] = IF p[x] = x THEN x ELSE S[p[x]]
    <3>1. CASE x = m
      <4>1. S[x] = last
        BY <3>1
      <4>2. p[m] # m => S[p[m]] = R[p[m]]
        BY <2>3
      <4>3. QED
        BY <3>1, <4>1, <4>2
    <3>2. CASE x # m
      <4>1. x \in 1..(m - 1) /\ p[x] \in 1..x /\ p[x] \in 1..(m - 1) /\ p[x] # m
        BY <2>2, <3>2
      <4>2. S[x] = R[x] /\ S[p[x]] = R[p[x]]
        BY <3>2, <4>1
      <4>3. QED
        BY <2>1, <4>1, <4>2
    <3>3. QED
      BY <3>1, <3>2
  <2> HIDE DEF S
  <2>7. QED
    BY <2>5, <2>6
<1>2. CASE n = 0
  <2> DEFINE R == [x \in 1..n |-> x]
  <2>1. Roots(n, p, R)
    BY <1>2 DEF Roots
  <2>2. QED
    BY <2>1
<1>3. CASE n # 0
  <2>1. ASSUME NEW m \in 1..n, \A k \in 1..(m - 1): k \in P PROVE m \in P
    <3>1. CASE m = 1
      <4> DEFINE R == [x \in 1..(m - 1) |-> x]
      <4>1. R \in [1..(m - 1) -> 1..n]
        BY <3>1
      <4>2. \A x \in 1..(m - 1): R[x] = IF p[x] = x THEN x ELSE R[p[x]]
        BY <3>1
      <4> HIDE DEF R
      <4>3. QED
        BY <1>1, <4>1, <4>2
    <3>2. CASE m # 1
      <4>1. m - 1 \in 1..(m - 1)
        BY <3>2
      <4>2. Found(m - 1)
        BY <2>1, <4>1
      <4>3. QED
        BY <1>1, <4>2
    <3>3. QED
      BY <3>1, <3>2
  <2>2. n \in 1..n
    BY <1>3
  <2> HIDE DEF P
  <2>3. n \in P
    BY <2>1, <2>2, EachInTurn
  <2>4. PICK R \in [1..n -> 1..n]:
          \A x \in 1..n: R[x] = IF p[x] = x THEN x ELSE R[p[x]]
    BY <2>3 DEF P
  <2>5. R = [x \in 1..n |-> IF p[x] = x THEN x ELSE R[p[x]]]
    BY <2>4
  <2>6. QED
    BY <2>5 DEF Roots
<1>4. QED
  BY <1>2, <1>3

LEMMA RootIs ==
  ASSUME NEW n \in Nat, NEW p, Forest(n, p)
  PROVE  \A x \in 1..n: /\ Trend!Root(p, x) = IF p[x] = x THEN x ELSE Trend!Root(p, p[x])
                        /\ Trend!Root(p, x) \in 1..x
                        /\ p[Trend!Root(p, x)] = Trend!Root(p, x)
<1> DEFINE F == CHOOSE R: Roots(n, p, R)
<1>1. Roots(n, p, F)
  BY RootsExist
<1>2. DOMAIN p = 1..n /\ \A x \in 1..n: p[x] \in 1..n
  BY DEF Forest
<1>3. \A i: Trend!Root(p, i) = F[i]
  BY <1>2 DEF Trend!Root, Roots
<1> HIDE DEF F
<1>4. \A x \in 1..n: F[x] = IF p[x] = x THEN x ELSE F[p[x]]
  BY <1>1 DEF Roots
<1> DEFINE P == {x \in 1..n: F[x] \in 1..x /\ p[F[x]] = F[x]}
<1>5. ASSUME NEW m \in 1..n, \A k \in 1..(m - 1): k \in P PROVE m \in P
  <2>1. CASE p[m] = m
    BY <1>4, <2>1
  <2>2. CASE p[m] # m
    <3>1. p[m] \in 1..(m - 1)
      BY <2>2 DEF Forest
    <3>2. F[p[m]] \in 1..p[m] /\ p[F[p[m]]] = F[p[m]] /\ F[m] = F[p[m]]
      BY <1>4, <1>5, <2>2, <3>1
    <3>3. F[p[m]] \in 1..m
      BY <3>1, <3>2
    <3>4. QED
      BY <3>2, <3>3
  <2>3. QED
    BY <2>1, <2>2
<1> HIDE DEF P
<1>6. \A x \in 1..n: x \in P
  BY <1>5, EachInTurn
<1>7. QED
  BY <1>2, <1>3, <1>4, <1>6 DEF P

(* Joining two roots moves the group of the later one under the other.     *)
LEMMA RootsJoined ==
  ASSUME NEW n \in Nat, NEW p, Forest(n, p), NEW a \in 1..n, NEW b \in 1..n,
         a < b, p[a] = a, p[b] = b, NEW q, Forest(n, q), q[b] = a,
         \A x \in 1..n: x # b => q[x] = p[x]
  PROVE  \A x \in 1..n: Trend!Root(q, x) = IF Trend!Root(p, x) = b THEN a
                                           ELSE Trend!Root(p, x)
<1>1. q[a] = a
  OBVIOUS
<1>3. \A x \in 1..n: Trend!Root(p, x) = IF p[x] = x THEN x ELSE Trend!Root(p, p[x])
  BY RootIs
<1>4. \A x \in 1..n: Trend!Root(q, x) = IF q[x] = x THEN x ELSE Trend!Root(q, q[x])
  BY RootIs
<1> DEFINE P == {x \in 1..n: Trend!Root(q, x) = IF Trend!Root(p, x) = b THEN a
                                                ELSE Trend!Root(p, x)}
<1>5. ASSUME NEW m \in 1..n, \A k \in 1..(m - 1): k \in P PROVE m \in P
  <2>1. CASE m = b
    <3>1. Trend!Root(p, m) = b
      BY <1>3, <2>1
    <3>2. Trend!Root(q, a) = a
      BY <1>1, <1>4
    <3>3. Trend!Root(q, m) = a
      BY <1>1, <1>4, <2>1, <3>2
    <3>4. QED
      BY <3>1, <3>3
  <2>2. CASE m # b /\ p[m] = m
    <3>1. Trend!Root(p, m) = m /\ Trend!Root(q, m) = m
      BY <1>1, <1>3, <1>4, <2>2
    <3>2. QED
      BY <2>2, <3>1
  <2>3. CASE m # b /\ p[m] # m
    <3>1. p[m] \in 1..(m - 1) /\ q[m] = p[m]
      BY <1>1, <2>3 DEF Forest
    <3>2. Trend!Root(p, m) = Trend!Root(p, p[m])
      BY <1>3, <2>3
    <3>3. Trend!Root(q, m) = Trend!Root(q, p[m])
      BY <1>4, <2>3, <3>1
    <3>4. p[m] \in P
      BY <1>5, <3>1
    <3>5. QED
      BY <3>2, <3>3, <3>4
  <2>4. QED
    BY <2>1, <2>2, <2>3
<1> HIDE DEF P
<1>6. \A x \in 1..n: x \in P
  BY <1>5, EachInTurn
<1>7. QED
  BY <1>6 DEF P

-----------------------------------------------------------------------------
(* What the joins connect.                                                 *)
Linked(S, J) == \A A \in SUBSET S: A # {} /\ A # S =>
                  \E i \in A, j \in S \ A: <<i, j>> \in J \/ <<j, i>> \in J

LEMMA LinkedMore ==
  ASSUME NEW S, NEW J, NEW K, Linked(S, J), J \subseteq K PROVE Linked(S, K)
  BY DEF Linked

LEMMA LinkedBoth ==
  ASSUME NEW S, NEW T, NEW J, Linked(S, J), Linked(T, J),
         NEW i \in S, NEW j \in T, <<i, j>> \in J \/ <<j, i>> \in J
  PROVE  Linked(S \cup T, J)
<1> SUFFICES ASSUME NEW A \in SUBSET (S \cup T), A # {}, A # S \cup T
             PROVE  \E x \in A, y \in (S \cup T) \ A: <<x, y>> \in J \/ <<y, x>> \in J
  BY DEF Linked
<1>1. CASE A \cap S # {} /\ A \cap S # S
  <2>1. A \cap S \in SUBSET S
    OBVIOUS
  <2>2. PICK x \in A \cap S, y \in S \ (A \cap S): <<x, y>> \in J \/ <<y, x>> \in J
    BY <1>1, <2>1 DEF Linked
  <2>3. QED
    BY <2>2
<1>2. CASE A \cap T # {} /\ A \cap T # T
  <2>1. A \cap T \in SUBSET T
    OBVIOUS
  <2>2. PICK x \in A \cap T, y \in T \ (A \cap T): <<x, y>> \in J \/ <<y, x>> \in J
    BY <1>2, <2>1 DEF Linked
  <2>3. QED
    BY <2>2
<1>3. CASE A \cap S = S /\ A \cap T = {}
  <2>1. i \in A /\ j \in (S \cup T) \ A
    BY <1>3
  <2>2. QED
    BY <2>1
<1>4. CASE A \cap S = {} /\ A \cap T = T
  <2>1. j \in A /\ i \in (S \cup T) \ A
    BY <1>4
  <2>2. QED
    BY <2>1
<1>5. QED
  BY <1>1, <1>2, <1>3, <1>4

(* The groups of a forest, which the joins connect and no subject divides. *)
Group(n, p, r) == {x \in 1..n: Trend!Root(p, x) = r}
Grouped(n, p, J, E) ==
  /\ Forest(n, p) /\ J \subseteq (1..n) \X (1..n)
  /\ \A e \in J: Trend!Root(p, e[1]) = Trend!Root(p, e[2])
  /\ \A r \in 1..n: Linked(Group(n, p, r), J)
  /\ \A x, y \in 1..n: Trend!Root(p, x) = Trend!Root(p, y) => (x \in E <=> y \in E)

LEMMA GroupsStart ==
  ASSUME NEW n \in Nat, NEW p, p = [x \in 1..n |-> x], NEW E
  PROVE  Grouped(n, p, {}, E)
<1>1. Forest(n, p) /\ \A x \in 1..n: p[x] = x
  BY DEF Forest
<1>2. \A x \in 1..n: Trend!Root(p, x) = x
  BY <1>1, RootIs
<1>3. ASSUME NEW r \in 1..n PROVE Linked(Group(n, p, r), {})
  <2>1. Group(n, p, r) = {r}
    BY <1>2 DEF Group
  <2>2. QED
    BY <2>1 DEF Linked
<1>4. QED
  BY <1>1, <1>2, <1>3 DEF Grouped

LEMMA ForestJoined ==
  ASSUME NEW n \in Nat, NEW p, Forest(n, p), NEW a \in 1..n, NEW b \in 1..n, a < b
  PROVE  /\ Forest(n, [p EXCEPT ![b] = a]) /\ [p EXCEPT ![b] = a][b] = a
         /\ \A x \in 1..n: x # b => [p EXCEPT ![b] = a][x] = p[x]
<1> DEFINE q == [p EXCEPT ![b] = a]
<1>1. q[b] = a /\ (\A x \in 1..n: x # b => q[x] = p[x]) /\ q \in [1..n -> 1..n]
  BY DEF Forest
<1> HIDE DEF q
<1>2. ASSUME NEW x \in 1..n PROVE q[x] <= x
  <2>1. CASE x = b
    BY <1>1, <2>1
  <2>2. CASE x # b
    BY <1>1, <2>2 DEF Forest
  <2>3. QED
    BY <2>1, <2>2
<1>3. Forest(n, q)
  BY <1>1, <1>2 DEF Forest
<1>4. QED
  BY <1>1, <1>3 DEF q

(* One root goes below another, earlier one, on account of a pair.         *)
LEMMA GroupsJoin ==
  ASSUME NEW n \in Nat, NEW p, NEW J, NEW E, Grouped(n, p, J, E),
         NEW i \in 1..n, NEW j \in 1..n, i \in E <=> j \in E,
         NEW e, e = <<i, j>> \/ e = <<j, i>>,
         NEW a, a = Trend!Root(p, i), NEW b, b = Trend!Root(p, j), a < b,
         NEW q, Forest(n, q), q[b] = a, \A x \in 1..n: x # b => q[x] = p[x]
  PROVE  Grouped(n, q, J \cup {e}, E)
<1>1. Forest(n, p)
  BY DEF Grouped
<1>2. \A x \in 1..n: Trend!Root(p, x) \in 1..n /\ p[Trend!Root(p, x)] = Trend!Root(p, x)
  <2>1. \A x \in 1..n: Trend!Root(p, x) \in 1..x /\ p[Trend!Root(p, x)] = Trend!Root(p, x)
    BY <1>1, RootIs
  <2>2. QED
    BY <2>1
<1>3. a \in 1..n /\ b \in 1..n /\ p[a] = a /\ p[b] = b
  BY <1>2
<1>4. a # b
  BY <1>3
<1>5. \A x \in 1..n: Trend!Root(q, x) = IF Trend!Root(p, x) = b THEN a ELSE Trend!Root(p, x)
  BY <1>1, <1>3, RootsJoined
<1>6. \A f \in J \cup {e}: Trend!Root(q, f[1]) = Trend!Root(q, f[2])
  <2>1. ASSUME NEW f \in J PROVE Trend!Root(q, f[1]) = Trend!Root(q, f[2])
    <3>1. f[1] \in 1..n /\ f[2] \in 1..n /\ Trend!Root(p, f[1]) = Trend!Root(p, f[2])
      BY DEF Grouped
    <3>2. QED
      BY <1>5, <3>1
  <2>2. Trend!Root(q, i) = a /\ Trend!Root(q, j) = a
    BY <1>5
  <2>3. Trend!Root(q, e[1]) = Trend!Root(q, e[2])
    BY <2>2
  <2>4. QED
    BY <2>1, <2>3
<1>7. ASSUME NEW r \in 1..n PROVE Linked(Group(n, q, r), J \cup {e})
  <2>1. \A s \in 1..n: Linked(Group(n, p, s), J \cup {e})
    BY LinkedMore DEF Grouped
  <2>2. CASE r = a
    <3> DEFINE S == Group(n, p, a)
               T == Group(n, p, b)
               K == J \cup {e}
    <3>1. Group(n, q, r) = S \cup T
      BY <1>5, <2>2 DEF Group
    <3>2. i \in S /\ j \in T
      BY DEF Group
    <3>3. <<i, j>> \in K \/ <<j, i>> \in K
      OBVIOUS
    <3>4. Linked(S, K) /\ Linked(T, K)
      BY <1>3, <2>1
    <3> HIDE DEF S, T, K
    <3>5. Linked(S \cup T, K)
      BY <3>2, <3>3, <3>4, LinkedBoth
    <3>6. QED
      BY <3>1, <3>5 DEF K
  <2>3. CASE r = b
    <3>1. Group(n, q, r) = {}
      BY <1>4, <1>5, <2>3 DEF Group
    <3>2. QED
      BY <3>1 DEF Linked
  <2>4. CASE r # a /\ r # b
    <3>1. Group(n, q, r) = Group(n, p, r)
      BY <1>5, <2>4 DEF Group
    <3>2. QED
      BY <2>1, <3>1
  <2>5. QED
    BY <2>2, <2>3, <2>4
<1>8. ASSUME NEW x \in 1..n, NEW y \in 1..n, Trend!Root(q, x) = Trend!Root(q, y)
      PROVE  x \in E <=> y \in E
  <2>1. \A v, w \in 1..n: Trend!Root(p, v) = Trend!Root(p, w) => (v \in E <=> w \in E)
    BY DEF Grouped
  <2>2. ASSUME NEW v \in 1..n, Trend!Root(q, v) = a PROVE v \in E <=> i \in E
    <3>1. Trend!Root(p, v) = a \/ Trend!Root(p, v) = b
      BY <1>5, <2>2
    <3>2. QED
      BY <2>1, <3>1
  <2>3. CASE Trend!Root(q, x) = a
    BY <1>8, <2>2, <2>3
  <2>4. CASE Trend!Root(q, x) # a
    <3>1. Trend!Root(p, x) = Trend!Root(p, y)
      BY <1>5, <1>8, <2>4
    <3>2. QED
      BY <2>1, <3>1
  <2>5. QED
    BY <2>3, <2>4
<1>9. J \cup {e} \subseteq (1..n) \X (1..n)
  BY DEF Grouped
<1>10. QED
  BY <1>6, <1>7, <1>8, <1>9 DEF Grouped

(* The two were in one group already.                                      *)
LEMMA GroupsSame ==
  ASSUME NEW n \in Nat, NEW p, NEW J, NEW E, Grouped(n, p, J, E),
         NEW i \in 1..n, NEW j \in 1..n, Trend!Root(p, i) = Trend!Root(p, j)
  PROVE  Grouped(n, p, J \cup {<<i, j>>}, E)
<1>1. \A r \in 1..n: Linked(Group(n, p, r), J \cup {<<i, j>>})
  BY LinkedMore DEF Grouped
<1>2. \A f \in J \cup {<<i, j>>}: Trend!Root(p, f[1]) = Trend!Root(p, f[2])
  BY DEF Grouped
<1>3. QED
  BY <1>1, <1>2 DEF Grouped

-----------------------------------------------------------------------------
(* After any number of pairs, the groups are those of the joins.           *)
Explorers == {i \in Trend!Signals: Trend!isExplorationOnly(i)}
Told == Len(tGiven.signals)
TrendInv == tGiven \in TrendRuns /\ Grouped(Told, tParent, tJoined, Explorers)

LEMMA ToldIs ==
  ASSUME Trend!TrendAssumption, tGiven \in TrendRuns
  PROVE  Told \in Nat /\ Trend!Signals = 1..Told
<1>1. tGiven.signals \in Seq({tGiven.signals[i]: i \in DOMAIN tGiven.signals})
  BY DEF Trend!TrendAssumption
<1>2. QED
  BY <1>1, LenProperties DEF Told, Trend!Signals

LEMMA TrendStarts == ASSUME Trend!TrendAssumption, Trend!Init PROVE TrendInv
<1>1. tGiven \in TrendRuns /\ tParent = [i \in 1..Told |-> i] /\ tJoined = {} /\ Told \in Nat
  BY ToldIs DEF Trend!Init
<1>2. Grouped(Told, tParent, {}, Explorers)
  BY <1>1, GroupsStart
<1>3. QED
  BY <1>1, <1>2 DEF TrendInv

LEMMA JoinKeeps ==
  ASSUME TrendInv, NEW n \in Nat, n = Told, NEW i \in 1..n, NEW j \in 1..n,
         tPair = <<i, j>>, i \in Explorers <=> j \in Explorers, Trend!Join(i, j)
  PROVE  Grouped(n, tParent', tJoined', Explorers)
<1> DEFINE a == Trend!Root(tParent, i)
           b == Trend!Root(tParent, j)
           e == <<i, j>>
<1>1. Grouped(n, tParent, tJoined, Explorers)
  BY DEF TrendInv
<1>2. tJoined' = tJoined \cup {e}
  BY DEF Trend!Join
<1>3. tParent' = IF a < b THEN [tParent EXCEPT ![b] = a] ELSE [tParent EXCEPT ![a] = b]
  BY DEF Trend!Join, Trend!Union
<1>4. Forest(n, tParent)
  BY <1>1 DEF Grouped
<1>5. a \in 1..n /\ b \in 1..n /\ tParent[a] = a
  <2>1. a \in 1..i /\ b \in 1..j /\ tParent[a] = a
    BY <1>4, RootIs
  <2>2. QED
    BY <2>1
<1>6. a < b \/ b < a \/ a = b
  BY <1>5
<1> HIDE DEF a, b, e
<1>7. CASE a < b
  <2>1. tParent' = [tParent EXCEPT ![b] = a]
    BY <1>3, <1>7
  <2>2. Forest(n, tParent') /\ tParent'[b] = a
        /\ \A x \in 1..n: x # b => tParent'[x] = tParent[x]
    <3>1. /\ Forest(n, [tParent EXCEPT ![b] = a]) /\ [tParent EXCEPT ![b] = a][b] = a
          /\ \A x \in 1..n: x # b => [tParent EXCEPT ![b] = a][x] = tParent[x]
      BY <1>4, <1>5, <1>7, ForestJoined
    <3>2. QED
      BY <2>1, <3>1, Zenon
  <2>3. Grouped(n, tParent', tJoined \cup {e}, Explorers)
    BY <1>1, <1>7, <2>2, GroupsJoin DEF a, b, e
  <2>4. QED
    BY <1>2, <2>3
<1>8. CASE b < a
  <2>1. tParent' = [tParent EXCEPT ![a] = b]
    BY <1>3, <1>5, <1>8
  <2>2. Forest(n, tParent') /\ tParent'[a] = b
        /\ \A x \in 1..n: x # a => tParent'[x] = tParent[x]
    <3>1. /\ Forest(n, [tParent EXCEPT ![a] = b]) /\ [tParent EXCEPT ![a] = b][a] = b
          /\ \A x \in 1..n: x # a => [tParent EXCEPT ![a] = b][x] = tParent[x]
      BY <1>4, <1>5, <1>8, ForestJoined
    <3>2. QED
      BY <2>1, <3>1, Zenon
  <2>3. Grouped(n, tParent', tJoined \cup {e}, Explorers)
    BY <1>1, <1>8, <2>2, GroupsJoin DEF a, b, e
  <2>4. QED
    BY <1>2, <2>3
<1>9. CASE a = b
  <2>1. tParent' = tParent
    BY <1>3, <1>4, <1>5, <1>9 DEF Forest
  <2>2. Grouped(n, tParent, tJoined \cup {e}, Explorers)
    BY <1>1, <1>9, GroupsSame DEF a, b, e
  <2>3. QED
    BY <1>2, <2>1, <2>2
<1>10. QED
  BY <1>6, <1>7, <1>8, <1>9

LEMMA CompareKeeps ==
  ASSUME Trend!TrendAssumption, TrendInv, Trend!Compare PROVE TrendInv'
<1> DEFINE i == tPair[1]
           j == tPair[2]
<1>1. tGiven \in TrendRuns /\ Told \in Nat /\ Trend!Signals = 1..Told
  BY ToldIs DEF TrendInv
<1>2. i \in 1..Told /\ j \in 1..Told /\ tPair = <<i, j>>
  <2>1. tPair \in (1..Told) \X (1..Told)
    BY <1>1, Zenon DEF Trend!Compare, Trend!Over, Trend!Pairs
  <2>2. QED
    BY <2>1
<1>3. tGiven' = tGiven
  BY DEF Trend!Compare
<1>4. Told' = Told /\ Explorers' = Explorers
  BY <1>3 DEF Told, Explorers, Trend!Signals, Trend!isExplorationOnly
<1>5. CASE Trend!Pass
  BY <1>3, <1>4, <1>5 DEF Trend!Pass, TrendInv
<1>6. CASE Trend!Comparable(i, j) /\ Trend!Join(i, j)
  <2>1. i \in Explorers <=> j \in Explorers
    BY <1>1, <1>2, <1>6 DEF Explorers, Trend!Comparable
  <2>2. Grouped(Told, tParent', tJoined', Explorers)
    BY <1>1, <1>2, <1>6, <2>1, JoinKeeps
  <2>3. QED
    BY <1>1, <1>3, <1>4, <2>2 DEF TrendInv
<1>7. QED
  BY <1>5, <1>6 DEF Trend!Compare

LEMMA TrendStutters ==
  ASSUME TrendInv, UNCHANGED Trend!vars PROVE TrendInv'
  BY DEF TrendInv, Trend!vars, Told, Explorers, Trend!Signals, Trend!isExplorationOnly

LEMMA TrendIsTrue ==
  ASSUME Trend!TrendAssumption, TrendInv PROVE Trend!TypeOK /\ Trend!ClustersTrue
<1>1. tGiven \in TrendRuns /\ Told \in Nat /\ Trend!Signals = 1..Told
  BY ToldIs DEF TrendInv
<1>2. Grouped(Told, tParent, tJoined, Explorers)
  BY DEF TrendInv
<1>3. Trend!TypeOK
  BY <1>1, <1>2 DEF Trend!TypeOK, Grouped, Forest
<1>4. \A e \in tJoined: Trend!Root(tParent, e[1]) = Trend!Root(tParent, e[2])
  BY <1>2 DEF Grouped
<1>5. ASSUME NEW G \in Trend!Groups
      PROVE  /\ Trend!Connected(G)
             /\ \A i, j \in G: Trend!isExplorationOnly(i) = Trend!isExplorationOnly(j)
             /\ Trend!Ages(G) = {} =>
                  Trend!classifyStage(G) \notin {"rising", "emerging", "evergreen"}
  <2>1. PICK x \in 1..Told: G = Group(Told, tParent, Trend!Root(tParent, x))
    BY <1>1 DEF Trend!Groups, Group
  <2>2. Trend!Root(tParent, x) \in 1..Told
    <3>1. Trend!Root(tParent, x) \in 1..x
      BY <1>1, <1>2, RootIs DEF Grouped
    <3>2. QED
      BY <1>1, <3>1
  <2>3. Trend!Connected(G)
    BY <1>2, <2>1, <2>2 DEF Grouped, Linked, Trend!Connected
  <2>4. ASSUME NEW i \in G, NEW j \in G
        PROVE  Trend!isExplorationOnly(i) = Trend!isExplorationOnly(j)
    <3>1. i \in 1..Told /\ j \in 1..Told /\ Trend!Root(tParent, i) = Trend!Root(tParent, j)
      BY <2>1 DEF Group
    <3>2. i \in Explorers <=> j \in Explorers
      BY <1>2, <3>1 DEF Grouped
    <3>3. Trend!isExplorationOnly(i) <=> Trend!isExplorationOnly(j)
      BY <1>1, <3>1, <3>2 DEF Explorers
    <3>4. QED
      BY <3>3 DEF Trend!isExplorationOnly
  <2>5. ASSUME Trend!Ages(G) = {}
        PROVE  Trend!classifyStage(G) \notin {"rising", "emerging", "evergreen"}
    <3>1. Trend!Freshness(G) = 0
      BY <2>5 DEF Trend!Freshness
    <3>2. QED
      BY <3>1 DEF Trend!classifyStage
  <2>6. QED
    BY <2>3, <2>4, <2>5
<1>6. QED
  BY <1>3, <1>4, <1>5 DEF Trend!ClustersTrue

\* For any found items, likenesses and answers of the comparison by meaning:
\* the groups are what the joins connect, in whatever order they came, an
\* exploration is never grouped with the brand's own subjects, and what has
\* no date is never called new (hunter-shadow-trend-intelligence.ts).
THEOREM TrendsHold ==
  ASSUME Trend!TrendAssumption
  PROVE  Trend!Spec => [](Trend!TypeOK /\ Trend!ClustersTrue)
<1>1. Trend!Init => TrendInv
  BY TrendStarts
<1>2. TrendInv /\ [Trend!Next]_(Trend!vars) => TrendInv'
  BY CompareKeeps, TrendStutters DEF Trend!Next
<1>3. TrendInv => Trend!TypeOK /\ Trend!ClustersTrue
  BY TrendIsTrue
<1>4. QED
  BY <1>1, <1>2, <1>3, PTL DEF Trend!Spec
=================================================================================
