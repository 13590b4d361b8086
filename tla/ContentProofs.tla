---------------------------- MODULE ContentProofs ----------------------------
(***************************************************************************)
(* Proofs about the components of the content suite whose safety does      *)
(* not depend on the size of the instance: the delivery of an asset's      *)
(* versions (ContentDelivery) and the carousel studio (CarouselStudio).    *)
(* Two more parts: the queue behind "create this for me" (CreationQueue)   *)
(* and the way from an idea to two angles (IdeaResearch).                  *)
(***************************************************************************)
EXTENDS CarouselStudio, ContentDelivery,
        NaturalsInduction, WellFoundedInduction, SequenceTheorems,
        FiniteSetTheorems, TLAPS

Less == OpToRel(<, Nat)

LEMMA LessIs ==
  ASSUME NEW x \in Nat, NEW y \in Nat
  PROVE  <<x, y>> \in Less <=> x < y
  BY DEF Less, OpToRel

\* A bounded set of numbers that is not empty has a greatest one.
LEMMA Greatest ==
  ASSUME NEW S, S \subseteq Nat, S # {}, NEW k \in Nat, \A n \in S: n <= k
  PROVE  \E n \in S: \A m \in S: n >= m
  <1> DEFINE T == {k - n: n \in S}
  <1>1. T \subseteq Nat /\ T # {}
    <2>1. ASSUME NEW n \in S PROVE k - n \in Nat
      <3>1. n \in Nat /\ n <= k
        OBVIOUS
      <3>2. QED
        BY <3>1
    <2>2. PICK m \in S: TRUE
      OBVIOUS
    <2>3. k - m \in T
      OBVIOUS
    <2>4. T \subseteq Nat
      BY <2>1
    <2>5. QED
      BY <2>3, <2>4
  <1>2. IsWellFoundedOn(Less, Nat)
    BY NatLessThanWellFounded DEF Less
  <1>3. PICK x \in T: \A y \in T: ~(<<y, x>> \in Less)
    BY <1>1, <1>2, WFMin
  <1>4. PICK n \in S: x = k - n
    OBVIOUS
  <1>5. ASSUME NEW m \in S PROVE n >= m
    <2>1. k - m \in T /\ k - m \in Nat /\ x \in Nat
      BY <1>1
    <2>2. ~(k - m < x)
      BY <1>3, <2>1, LessIs
    <2>3. QED
      BY <1>4, <2>2
  <1>6. QED
    BY <1>5

-----------------------------------------------------------------------------
(***************************************************************************)
(* Delivery.  A version never changes once it is appended, so what a       *)
(* request has read of one stays true of it; passed and approvals only     *)
(* grow.  Knows is what a request in flight can rely on, given the         *)
(* versions (line), those once passed (ok) and the approvals (granted).    *)
(***************************************************************************)
RequestFields == {"kind", "pc", "read", "expected", "todo", "when", "media", "approval",
                  "verdict", "answers"}

Knows(q, line, ok, granted) ==
  /\ DOMAIN q = RequestFields
  /\ q.media \in Media
  /\ q.read \in 0..Len(line)
  /\ q.pc \in {"append", "critic", "save", "existing", "review", "approve",
               "approval", "command", "insert"} => q.read # 0
  /\ q.pc = "critic" \/ (q.pc = "save" /\ q.verdict = "passed") =>
       line[q.read].sound /\ line[q.read].ready
  /\ q.pc = "approve" => q.read \in ok
  /\ q.pc \in {"command", "insert"} => <<q.approval, Head(q.todo)>> \in granted
  /\ q.pc = "insert" => q.approval = q.read

Version == [from: 0..MaxVersions, project: BOOLEAN, refs: Refs, sound: BOOLEAN,
            ready: BOOLEAN]

Line == /\ versions \in Seq(Version) /\ Len(versions) \in 1..MaxVersions
        /\ Lineage

PassedSound ==
  /\ review = [n \in 1..MaxVersions |-> review[n]]
  /\ \A n \in 1..MaxVersions: review[n] = "passed" => n \in passed
  /\ \A n \in passed: n \in 1..Len(versions) /\ versions[n].sound /\ versions[n].ready
  /\ \A a \in approvals: a[1] \in passed

RequestsKnow ==
  /\ req = [r \in Requests |-> req[r]]
  /\ \A r \in Requests: Knows(req[r], versions, passed, approvals)

DeliveryInv == Line /\ PassedSound /\ RequestsKnow /\ OneApprovedCommand

\* What a request knows stays true while versions, reviews and approvals are added.
LEMMA KnowsOn ==
  ASSUME NEW q, NEW l, NEW m, NEW p, NEW o, NEW a, NEW b, Knows(q, l, p, a),
         Len(l) \in Nat, Len(m) \in Nat, Len(l) <= Len(m),
         \A n \in 1..Len(l): m[n] = l[n], p \subseteq o, a \subseteq b
  PROVE  Knows(q, m, o, b)
  <1>1. q.read \in 0..Len(m)
    BY DEF Knows
  <1>2. q.pc = "critic" \/ (q.pc = "save" /\ q.verdict = "passed") =>
          m[q.read].sound /\ m[q.read].ready
    <2>1. SUFFICES ASSUME q.pc = "critic" \/ (q.pc = "save" /\ q.verdict = "passed")
                   PROVE  m[q.read].sound /\ m[q.read].ready
      OBVIOUS
    <2>2. q.read \in 1..Len(l) /\ l[q.read].sound /\ l[q.read].ready
      BY <2>1 DEF Knows
    <2>3. QED
      BY <2>2
  <1>3. QED
    BY <1>1, <1>2 DEF Knows

LEMMA Served ==
  ASSUME DeliveryInv, NEW r \in Requests, NEW q, req' = [req EXCEPT ![r] = q],
         versions' = versions, passed \subseteq passed', approvals \subseteq approvals',
         Knows(q, versions, passed', approvals')
  PROVE  RequestsKnow'
  <1>1. Len(versions) \in Nat
    BY DEF DeliveryInv, Line
  <1>2. /\ req' = [x \in Requests |-> req'[x]] /\ req'[r] = q
        /\ \A x \in Requests: x # r => req'[x] = req[x]
    BY DEF DeliveryInv, RequestsKnow
  <1>3. ASSUME NEW x \in Requests PROVE Knows(req'[x], versions', passed', approvals')
    <2>1. CASE x = r
      BY <1>2, <2>1
    <2>2. CASE x # r
      <3>1. Knows(req[x], versions, passed, approvals)
        BY DEF DeliveryInv, RequestsKnow
      <3>2. Knows(req[x], versions, passed', approvals')
        BY <1>1, <3>1, KnowsOn
      <3>3. QED
        BY <1>2, <2>2, <3>2
    <2>3. QED
      BY <2>1, <2>2
  <1>4. QED
    BY <1>2, <1>3 DEF RequestsKnow

LEMMA OnlyServed ==
  ASSUME DeliveryInv, NEW r \in Requests, NEW q, req' = [req EXCEPT ![r] = q],
         UNCHANGED <<versions, review, passed, approvals, commands>>,
         Knows(q, versions, passed, approvals)
  PROVE  DeliveryInv'
  <1>1. RequestsKnow'
    BY Served
  <1>2. Line' /\ PassedSound' /\ OneApprovedCommand'
    BY DEF DeliveryInv, Line, Lineage, PassedSound, OneApprovedCommand
  <1>3. QED
    BY <1>1, <1>2 DEF DeliveryInv

\* A version that follows the latest one.
LEMMA Added ==
  ASSUME DeliveryInv, NEW v \in Version, Len(versions) < MaxVersions,
         v.from = Len(versions), versions[Len(versions)].project => v.project,
         versions' = Append(versions, v), UNCHANGED <<review, passed, approvals, commands>>,
         \/ req' = req
         \/ \E r \in Requests: \E q:
              /\ req' = [req EXCEPT ![r] = q] /\ q.read = 0 /\ q.pc = "done"
              /\ Knows(q, versions, passed, approvals)
  PROVE  DeliveryInv'
  <1>1. /\ versions \in Seq(Version) /\ Len(versions) \in 1..MaxVersions
        /\ MaxVersions \in Nat
    BY DeliveryAssumption DEF DeliveryInv, Line
  <1>2. /\ versions' \in Seq(Version) /\ Len(versions') = Len(versions) + 1
        /\ versions'[Len(versions) + 1] = v
        /\ \A n \in 1..Len(versions): versions'[n] = versions[n]
    BY <1>1
  <1>3. Line'
    <2>1. Len(versions') \in 1..MaxVersions
      BY <1>1, <1>2
    <2>2. ASSUME NEW n \in 2..Len(versions')
          PROVE  /\ versions'[n].from = n - 1
                 /\ versions'[n - 1].project => versions'[n].project
      <3>1. CASE n \in 2..Len(versions)
        <4>1. n \in 1..Len(versions) /\ n - 1 \in 1..Len(versions)
          BY <1>1, <3>1
        <4>2. versions'[n] = versions[n] /\ versions'[n - 1] = versions[n - 1]
          BY <1>2, <4>1
        <4>3. /\ versions[n].from = n - 1
              /\ versions[n - 1].project => versions[n].project
          BY <3>1 DEF DeliveryInv, Line, Lineage
        <4>4. QED
          BY <4>2, <4>3, Zenon
      <3>2. CASE n = Len(versions) + 1
        <4>1. /\ versions'[n] = v /\ n - 1 = Len(versions)
              /\ versions'[n - 1] = versions[Len(versions)]
          BY <1>1, <1>2, <3>2
        <4>2. QED
          BY <4>1
      <3>3. QED
        BY <1>1, <1>2, <3>1, <3>2
    <2>3. QED
      BY <1>2, <2>1, <2>2 DEF Line, Lineage
  <1>4. PassedSound'
    <2>1. ASSUME NEW n \in passed
          PROVE  n \in 1..Len(versions') /\ versions'[n].sound /\ versions'[n].ready
      <3>1. n \in 1..Len(versions) /\ versions[n].sound /\ versions[n].ready
        BY DEF DeliveryInv, PassedSound
      <3>2. QED
        BY <1>1, <1>2, <3>1
    <2>2. QED
      BY <2>1 DEF DeliveryInv, PassedSound
  <1>5. ASSUME NEW q, Knows(q, versions, passed, approvals)
        PROVE  Knows(q, versions', passed', approvals')
    <2>1. Len(versions) \in Nat /\ Len(versions') \in Nat /\ Len(versions) <= Len(versions')
      BY <1>1, <1>2
    <2>2. passed \subseteq passed' /\ approvals \subseteq approvals'
      OBVIOUS
    <2>3. QED
      BY <1>2, <1>5, <2>1, <2>2, KnowsOn
  <1>6. RequestsKnow'
    <2>1. /\ req' = [x \in Requests |-> req'[x]]
          /\ \A x \in Requests: Knows(req'[x], versions, passed, approvals)
      <3>1. CASE req' = req
        BY <3>1 DEF DeliveryInv, RequestsKnow
      <3>2. CASE req' # req
        <4>1. PICK r \in Requests:
                \E q: /\ req' = [req EXCEPT ![r] = q]
                      /\ Knows(q, versions, passed, approvals)
          BY <3>2
        <4>2. PICK q: /\ req' = [req EXCEPT ![r] = q]
                      /\ Knows(q, versions, passed, approvals)
          BY <4>1
        <4>3. QED
          BY <4>2 DEF DeliveryInv, RequestsKnow
      <3>3. QED
        BY <3>1, <3>2
    <2>2. QED
      BY <1>5, <2>1 DEF RequestsKnow
  <1>7. OneApprovedCommand'
    <2>1. ASSUME NEW c \in commands PROVE c.version \in 1..Len(versions)
      <3>1. <<c.version, c.dest>> \in approvals
        BY DEF DeliveryInv, OneApprovedCommand
      <3>2. <<c.version, c.dest>>[1] \in passed
        BY <3>1 DEF DeliveryInv, PassedSound
      <3>3. QED
        BY <3>2 DEF DeliveryInv, PassedSound
    <2>2. \A c \in commands: versions'[c.version] = versions[c.version]
      BY <1>2, <2>1
    <2>3. QED
      BY <2>2 DEF DeliveryInv, OneApprovedCommand
  <1>8. QED
    BY <1>3, <1>4, <1>6, <1>7 DEF DeliveryInv

\* A request that has ended, or is asked again, relies on nothing.
Free == {"idle", "done", "failed", "account", "campaign", "detail"}

LEMMA EndKnows ==
  ASSUME DeliveryInv, NEW l \in Free, NEW p, NEW a
  PROVE  /\ Knows([Idle EXCEPT !.pc = l], versions, p, a)
         /\ [Idle EXCEPT !.pc = l].read = 0 /\ [Idle EXCEPT !.pc = l].pc = l
  <1>1. 0 \in 0..Len(versions)
    BY DEF DeliveryInv, Line
  <1> DEFINE n == [Idle EXCEPT !.pc = l]
  <1>2. DOMAIN n = RequestFields /\ n.pc = l /\ n.read = 0 /\ n.media = "unnamed"
    BY DEF Idle, RequestFields
  <1> HIDE DEF n
  <1>3. n.read = 0 /\ n.pc = l /\ Knows(n, versions, p, a)
    BY <1>1, <1>2 DEF Knows, Media, Free
  <1>4. QED
    BY <1>3 DEF n

LEMMA Know ==
  ASSUME DeliveryInv, NEW r \in Requests
  PROVE  Knows(req[r], versions, passed, approvals) /\ req = [x \in Requests |-> req[x]]
  BY DEF DeliveryInv, RequestsKnow

LEMMA LatestVersion ==
  ASSUME DeliveryInv
  PROVE  /\ Current = Len(versions) /\ Current \in 0..MaxVersions
         /\ versions[Current] \in Version
  <1>1. versions \in Seq(Version) /\ Len(versions) \in 1..MaxVersions /\ MaxVersions \in Nat
    BY DeliveryAssumption DEF DeliveryInv, Line
  <1>2. QED
    BY <1>1 DEF Current

\* What appendVersion may do with a version built from the one that was seen.
LEMMA AppendedAfter ==
  ASSUME DeliveryInv, NEW seen, Bounded(seen), NEW w \in Version,
         versions[seen].project => w.project, AppendAfter(seen, w)
  PROVE  \/ versions' = versions
         \/ /\ Len(versions) < MaxVersions
            /\ \E v \in Version:
                 /\ v.from = Len(versions) /\ versions' = Append(versions, v)
                 /\ versions[Len(versions)].project => v.project
  <1>1. CASE seen # Current
    BY <1>1 DEF AppendAfter
  <1>2. CASE seen = Current
    <2>1. /\ Current = Len(versions) /\ Len(versions) < MaxVersions
          /\ seen \in 0..MaxVersions
      BY <1>2, LatestVersion DEF Bounded
    <2> DEFINE v == [w EXCEPT !.from = seen]
    <2>2. v \in Version /\ v.from = seen /\ v.project = w.project
      BY <2>1 DEF Version
    <2>3. versions' = Append(versions, v)
      BY <1>2 DEF AppendAfter
    <2> HIDE DEF v
    <2>4. QED
      BY <1>2, <2>1, <2>2, <2>3
  <1>3. QED
    BY <1>1, <1>2

LEMMA SeenVersion ==
  ASSUME DeliveryInv, NEW n \in 1..Len(versions)
  PROVE  versions[n] \in Version
  BY DEF DeliveryInv, Line

LEMMA EditKeeps ==
  ASSUME DeliveryInv, Edit
  PROVE  DeliveryInv'
  <1>1. PICK seen \in 1..Current, project \in BOOLEAN, ready \in BOOLEAN:
          /\ Bounded(seen)
          /\ versions[seen].project => project
          /\ AppendAfter(seen, [versions[seen] EXCEPT !.project = project, !.ready = ready])
    BY DEF Edit
  <1> DEFINE w == [versions[seen] EXCEPT !.project = project, !.ready = ready]
  <1>2. w \in Version /\ w.project = project
    <2> DEFINE p == versions[seen]
    <2>1. p \in Version
      BY SeenVersion, LatestVersion
    <2> HIDE DEF p
    <2>2. LET n == [p EXCEPT !.project = project, !.ready = ready]
          IN  n \in Version /\ n.project = project
      BY <2>1 DEF Version
    <2>3. QED
      BY <2>2 DEF p
  <1>3. AppendAfter(seen, w) /\ Bounded(seen)
    BY <1>1
  <1> HIDE DEF w
  <1>4. UNCHANGED <<review, passed, approvals, commands, req>>
    BY DEF Edit
  <1>5. CASE versions' = versions
    <2>1. RequestsKnow'
      BY <1>4, <1>5 DEF DeliveryInv, RequestsKnow
    <2>2. Line' /\ PassedSound' /\ OneApprovedCommand'
      BY <1>4, <1>5 DEF DeliveryInv, Line, Lineage, PassedSound, OneApprovedCommand
    <2>3. QED
      BY <2>1, <2>2 DEF DeliveryInv
  <1>6. CASE versions' # versions
    <2>1. ASSUME versions[seen].project PROVE w.project
      <3>1. project
        BY <1>1, <2>1, Zenon
      <3>2. QED
        BY <1>2, <3>1, Zenon
    <2>2. /\ Len(versions) < MaxVersions
          /\ \E v \in Version:
               /\ v.from = Len(versions) /\ versions' = Append(versions, v)
               /\ versions[Len(versions)].project => v.project
      BY <1>2, <1>3, <1>6, <2>1, AppendedAfter
    <2>3. PICK v \in Version:
               /\ v.from = Len(versions) /\ versions' = Append(versions, v)
               /\ versions[Len(versions)].project => v.project
      BY <2>2
    <2>4. QED
      BY <1>4, <2>2, <2>3, Added
  <1>7. QED
    BY <1>5, <1>6

LEMMA AppendKeeps ==
  ASSUME DeliveryInv, NEW r \in Requests, AppendVersion(r)
  PROVE  DeliveryInv'
  <1> DEFINE q == [Idle EXCEPT !.pc = "done"]
             seen == req[r].read
             parent == versions[seen]
  <1>1. \A p, a: Knows(q, versions, p, a)
    BY EndKnows DEF Free
  <1>2. q.read = 0 /\ q.pc = "done" /\ req' = [req EXCEPT ![r] = q]
    BY EndKnows DEF Free, AppendVersion, End
  <1> HIDE DEF q
  <1>3. Bounded(seen) /\ seen \in 1..Len(versions)
    <2>1. seen \in 0..Len(versions) /\ seen # 0 /\ Len(versions) \in Nat
      <3>1. Knows(req[r], versions, passed, approvals) /\ req[r].pc = "append"
        BY Know DEF AppendVersion
      <3>2. QED
        BY <3>1 DEF Knows, DeliveryInv, Line
    <2>2. QED
      BY <2>1 DEF AppendVersion
  <1>4. PICK sound \in BOOLEAN, ready \in BOOLEAN, refs \in Refs:
          AppendAfter(seen, [parent EXCEPT !.sound = sound, !.ready = ready, !.refs = refs])
    BY DEF AppendVersion
  <1> DEFINE w == [parent EXCEPT !.sound = sound, !.ready = ready, !.refs = refs]
  <1>5. w \in Version /\ w.project = parent.project
    <2>1. parent \in Version
      BY <1>3, SeenVersion
    <2> HIDE DEF parent
    <2>2. LET n == [parent EXCEPT !.sound = sound, !.ready = ready, !.refs = refs]
          IN  n \in Version /\ n.project = parent.project
      BY <2>1 DEF Version
    <2>3. QED
      BY <2>2
  <1>6. AppendAfter(seen, w) /\ UNCHANGED <<review, passed, approvals, commands>>
    BY <1>4 DEF AppendVersion
  <1> HIDE DEF w, seen
  <1>7. CASE versions' = versions
    BY <1>1, <1>2, <1>6, <1>7, OnlyServed
  <1>8. CASE versions' # versions
    <2>1. /\ Len(versions) < MaxVersions
          /\ \E v \in Version:
               /\ v.from = Len(versions) /\ versions' = Append(versions, v)
               /\ versions[Len(versions)].project => v.project
      BY <1>3, <1>5, <1>6, <1>8, AppendedAfter
    <2>2. PICK v \in Version:
               /\ v.from = Len(versions) /\ versions' = Append(versions, v)
               /\ versions[Len(versions)].project => v.project
      BY <2>1
    <2>3. \E x \in Requests: \E y:
            /\ req' = [req EXCEPT ![x] = y] /\ y.read = 0
            /\ y.pc = "done" /\ Knows(y, versions, passed, approvals)
      BY <1>1, <1>2
    <2>4. QED
      BY <1>6, <2>1, <2>2, <2>3, Added
  <1>9. QED
    BY <1>7, <1>8

\* A request turns to its next stage.
LEMMA Goes ==
  ASSUME DeliveryInv, NEW r \in Requests, NEW l, Goto(r, l),
         UNCHANGED <<versions, review, passed, approvals, commands>>,
         l \in {"existing", "review", "approve", "insert"} => req[r].read # 0,
         l = "approve" => req[r].read \in passed,
         l = "insert" => /\ <<req[r].approval, Head(req[r].todo)>> \in approvals
                         /\ req[r].approval = req[r].read,
         l \in Free \cup {"existing", "review", "approve", "insert"}
  PROVE  DeliveryInv'
  <1> DEFINE q == req[r]
             n == [q EXCEPT !.pc = l]
  <1>1. Knows(q, versions, passed, approvals) /\ req' = [req EXCEPT ![r] = n]
    BY Know DEF Goto
  <1>2. /\ DOMAIN n = RequestFields /\ n.pc = l /\ n.read = q.read /\ n.media = q.media
        /\ n.approval = q.approval /\ n.todo = q.todo
    BY <1>1 DEF Knows, RequestFields
  <1> HIDE DEF n
  <1>3. Knows(n, versions, passed, approvals)
    BY <1>1, <1>2 DEF Knows, Free
  <1>4. QED
    BY <1>1, <1>3, OnlyServed

LEMMA AnswerKnows ==
  ASSUME DeliveryInv, NEW r \in Requests, NEW a, NEW p, NEW g
  PROVE  Knows(Answered(r, a), versions, p, g)
  <1> DEFINE q == req[r]
             n == Answered(r, a)
  <1>1. Knows(q, versions, passed, approvals) /\ 0 \in 0..Len(versions)
    BY Know DEF DeliveryInv, Line
  <1>2. /\ DOMAIN n = RequestFields /\ n.read = 0 /\ n.media = q.media
        /\ n.pc \in {"done", "account"}
    <2>1. DOMAIN q = RequestFields
      BY <1>1 DEF Knows
    <2> DEFINE b == q.answers \cup {<<Dest(r), a>>}
               t == Tail(q.todo)
               c == IF Len(q.todo) = 1 THEN "done" ELSE "account"
    <2>2. n = [q EXCEPT !.answers = b, !.todo = t, !.pc = c, !.read = 0, !.approval = 0]
      BY DEF Answered
    <2>3. c \in {"done", "account"}
      OBVIOUS
    <2> HIDE DEF n, b, t, c
    <2>4. QED
      BY <2>1, <2>2, <2>3 DEF RequestFields
  <1> HIDE DEF n
  <1>3. Knows(n, versions, p, g)
    BY <1>1, <1>2 DEF Knows
  <1>4. QED
    BY <1>3 DEF n

LEMMA Answers ==
  ASSUME DeliveryInv, NEW r \in Requests, NEW a, Answer(r, a),
         UNCHANGED <<versions, review, passed, approvals, commands>>
  PROVE  DeliveryInv'
  BY AnswerKnows, OnlyServed DEF Answer

(* The reads of a request take the current version, which is sound and      *)
(* ready where a critic is asked.                                           *)
LEMMA ReadKeeps ==
  ASSUME DeliveryInv, NEW r \in Requests, NEW k, Read(r, k)
  PROVE  DeliveryInv'
  <1> DEFINE c == Current
             ok == versions[c].sound /\ versions[c].ready
             l == IF k # "review" THEN "append" ELSE IF ok THEN "critic" ELSE "save"
             v == IF k = "review" THEN "revision-required" ELSE "none"
             n == [Idle EXCEPT !.kind = k, !.read = c, !.pc = l, !.verdict = v]
  <1>1. req' = [req EXCEPT ![r] = n] /\ UNCHANGED <<versions, review, passed, approvals, commands>>
    BY DEF Read
  <1>2. c \in 0..Len(versions) /\ c # 0
    BY DEF Current, DeliveryInv, Line
  <1>3. /\ v # "passed" /\ l \in {"append", "critic", "save"}
        /\ l = "critic" => versions[c].sound /\ versions[c].ready
    OBVIOUS
  <1> HIDE DEF v, l, c
  <1>4. /\ DOMAIN n = RequestFields /\ n.read = c /\ n.pc = l /\ n.verdict = v
        /\ n.media = "unnamed"
    BY DEF Idle, RequestFields
  <1> HIDE DEF n
  <1>5. Knows(n, versions, passed, approvals)
    <2>1. n.pc = "critic" \/ (n.pc = "save" /\ n.verdict = "passed") =>
            versions[n.read].sound /\ versions[n.read].ready
      BY <1>3, <1>4
    <2>2. n.read \in 0..Len(versions) /\ n.read # 0
      BY <1>2, <1>4
    <2>3. QED
      BY <1>3, <1>4, <2>1, <2>2 DEF Knows, Media
  <1>6. QED
    BY <1>1, <1>5, OnlyServed

LEMMA FreeKeeps ==
  ASSUME DeliveryInv, NEW r \in Requests, NEW n, req' = [req EXCEPT ![r] = n],
         UNCHANGED <<versions, review, passed, approvals, commands>>,
         DOMAIN n = RequestFields, n.pc \in Free, n.media \in Media,
         n.read \in 0..Len(versions)
  PROVE  DeliveryInv'
  <1>1. Knows(n, versions, passed, approvals)
    BY DEF Knows, Free
  <1>2. QED
    BY <1>1, OnlyServed

LEMMA EndKeeps ==
  ASSUME DeliveryInv, NEW r \in Requests, Fails(r) \/ Respond(r)
  PROVE  DeliveryInv'
  <1> DEFINE n(l) == [Idle EXCEPT !.pc = l]
  <1>1. \A l \in Free: Knows(n(l), versions, passed, approvals)
    BY EndKnows
  <1>2. CASE Fails(r)
    <2>1. /\ req' = [req EXCEPT ![r] = n("done")]
          /\ UNCHANGED <<versions, review, passed, approvals, commands>>
      BY <1>2 DEF Fails, End
    <2>2. Knows(n("done"), versions, passed, approvals)
      BY <1>1 DEF Free
    <2> HIDE DEF n
    <2>3. QED
      BY <2>1, <2>2, OnlyServed
  <1>3. CASE Respond(r)
    <2>1. /\ req' = [req EXCEPT ![r] = Idle]
          /\ UNCHANGED <<versions, review, passed, approvals, commands>>
      BY <1>3 DEF Respond
    <2>2. /\ DOMAIN Idle = RequestFields /\ Idle.pc \in Free /\ Idle.media \in Media
          /\ Idle.read \in 0..Len(versions)
      BY DEF Idle, RequestFields, Free, Media, DeliveryInv, Line
    <2>3. QED
      BY <2>1, <2>2, FreeKeeps
  <1>4. QED
    BY <1>2, <1>3

LEMMA CriticiseKeeps ==
  ASSUME DeliveryInv, NEW r \in Requests, Criticise(r)
  PROVE  DeliveryInv'
  <1> DEFINE q == req[r]
  <1>1. PICK v \in {"passed", "revision-required"}:
          /\ req' = [req EXCEPT ![r].pc = "save", ![r].verdict = v]
          /\ UNCHANGED <<versions, review, passed, approvals, commands>>
    BY DEF Criticise
  <1> DEFINE n == [q EXCEPT !.pc = "save", !.verdict = v]
  <1>2. Knows(q, versions, passed, approvals) /\ q.pc = "critic"
    BY Know DEF Criticise
  <1>3. req' = [req EXCEPT ![r] = n]
    BY <1>1, Know
  <1>4. /\ DOMAIN n = RequestFields /\ n.read = q.read /\ n.pc = "save" /\ n.media = q.media
    BY <1>2 DEF Knows, RequestFields
  <1> HIDE DEF n
  <1>5. Knows(n, versions, passed, approvals)
    BY <1>2, <1>4 DEF Knows
  <1>6. QED
    BY <1>1, <1>3, <1>5, OnlyServed

LEMMA SaveReviewKeeps ==
  ASSUME DeliveryInv, NEW r \in Requests, SaveReview(r)
  PROVE  DeliveryInv'
  <1> DEFINE q == req[r]
             n == [Idle EXCEPT !.pc = "done"]
  <1>1. Knows(q, versions, passed, approvals) /\ q.pc = "save"
    BY Know DEF SaveReview
  <1>2. /\ req' = [req EXCEPT ![r] = n] /\ UNCHANGED <<versions, approvals, commands>>
        /\ review' = [review EXCEPT ![q.read] = q.verdict]
        /\ passed' = IF q.verdict = "passed" THEN passed \cup {q.read} ELSE passed
    BY DEF SaveReview, End
  <1>3. /\ q.read \in 1..Len(versions)
        /\ q.verdict = "passed" => versions[q.read].sound /\ versions[q.read].ready
    BY <1>1 DEF Knows
  <1>4. Knows(n, versions, passed', approvals')
    BY EndKnows DEF Free
  <1> HIDE DEF n
  <1>5. RequestsKnow'
    BY <1>2, <1>4, Served
  <1>6. PassedSound'
    <2>1. /\ review = [m \in 1..MaxVersions |-> review[m]]
          /\ \A m \in 1..MaxVersions: review[m] = "passed" => m \in passed
          /\ \A m \in passed: m \in 1..Len(versions) /\ versions[m].sound /\ versions[m].ready
          /\ \A a \in approvals: a[1] \in passed
      BY DEF DeliveryInv, PassedSound
    <2>2. /\ review' = [m \in 1..MaxVersions |-> review'[m]]
          /\ \A m \in 1..MaxVersions: review'[m] = IF m = q.read THEN q.verdict ELSE review[m]
      BY <1>2, <2>1
    <2>3. passed \subseteq passed' /\ (q.verdict = "passed" => q.read \in passed')
          /\ \A m \in passed': m \in passed \/ (m = q.read /\ q.verdict = "passed")
      BY <1>2
    <2>4. \A m \in 1..MaxVersions: review'[m] = "passed" => m \in passed'
      BY <2>1, <2>2, <2>3
    <2>5. \A m \in passed': m \in 1..Len(versions) /\ versions[m].sound /\ versions[m].ready
      BY <1>3, <2>1, <2>3
    <2>6. \A a \in approvals': a[1] \in passed'
      BY <1>2, <2>1, <2>3
    <2>7. versions' = versions
      BY <1>2
    <2>8. QED
      BY <2>2, <2>4, <2>5, <2>6, <2>7 DEF PassedSound
  <1>7. Line' /\ OneApprovedCommand'
    BY <1>2 DEF DeliveryInv, Line, Lineage, OneApprovedCommand
  <1>8. QED
    BY <1>5, <1>6, <1>7 DEF DeliveryInv

LEMMA DeliverKeeps ==
  ASSUME DeliveryInv, NEW r \in Requests, NEW k \in {"approve", "schedule", "distribute"},
         NEW todo, NEW w, NEW m \in Media, Deliver(r, k, todo, w, m)
  PROVE  DeliveryInv'
  <1> DEFINE c == Current
             l == CASE k = "approve" -> "campaign" [] k = "schedule" -> "detail"
                    [] k = "distribute" -> "account"
             n == [Idle EXCEPT !.kind = k, !.expected = c, !.todo = todo, !.when = w,
                               !.media = m, !.pc = l]
  <1>1. req' = [req EXCEPT ![r] = n] /\ UNCHANGED <<versions, review, passed, approvals, commands>>
    BY DEF Deliver
  <1>2. l \in Free
    BY DEF Free
  <1> HIDE DEF l, c
  <1>3. DOMAIN n = RequestFields /\ n.pc = l /\ n.media = m /\ n.read = 0
    BY DEF Idle, RequestFields
  <1> HIDE DEF n
  <1>4. 0 \in 0..Len(versions)
    BY DEF DeliveryInv, Line
  <1>5. QED
    BY <1>1, <1>2, <1>3, <1>4, FreeKeeps

LEMMA ApprovedKeeps ==
  ASSUME DeliveryInv, NEW r \in Requests, Approved(r),
         UNCHANGED <<versions, review, passed, approvals, commands>>
  PROVE  DeliveryInv'
  <1>1. CASE req[r].kind = "approve"
    BY <1>1, Answers DEF Approved
  <1>2. CASE req[r].kind # "approve"
    BY <1>2, Goes DEF Approved, Free
  <1>3. QED
    BY <1>1, <1>2

\* A request turns to a version: the current one, which it remembers.
LEMMA Takes ==
  ASSUME DeliveryInv, NEW r \in Requests, NEW l \in {"existing", "approval"},
         req' = [req EXCEPT ![r].pc = l, ![r].read = Current],
         UNCHANGED <<versions, review, passed, approvals, commands>>
  PROVE  DeliveryInv'
  <1> DEFINE q == req[r]
             c == Current
             n == [q EXCEPT !.pc = l, !.read = c]
  <1>1. Knows(q, versions, passed, approvals) /\ req' = [req EXCEPT ![r] = n]
    BY Know
  <1>2. c \in 0..Len(versions) /\ c # 0
    BY DEF Current, DeliveryInv, Line
  <1> HIDE DEF c
  <1>3. DOMAIN n = RequestFields /\ n.pc = l /\ n.read = c /\ n.media = q.media
    BY <1>1 DEF Knows, RequestFields
  <1> HIDE DEF n
  <1>4. Knows(n, versions, passed, approvals)
    BY <1>1, <1>2, <1>3 DEF Knows
  <1>5. QED
    BY <1>1, <1>4, OnlyServed

LEMMA LookKeeps ==
  ASSUME DeliveryInv, NEW r \in Requests,
         \/ CheckAccount(r) \/ ReadCampaign(r) \/ FindExisting(r) \/ FindReview(r)
         \/ ReadDetail(r) \/ FindCommand(r)
  PROVE  DeliveryInv'
  <1> DEFINE q == req[r]
  <1>1. Knows(q, versions, passed, approvals)
    BY Know
  <1>2. UNCHANGED <<versions, review, passed, approvals, commands>>
    BY DEF CheckAccount, ReadCampaign, FindExisting, FindReview, ReadDetail, FindCommand
  <1>3. CASE \E a: Answer(r, a)
    BY <1>2, <1>3, Answers
  <1>4. CASE CheckAccount(r) /\ ~\E a: Answer(r, a)
    BY <1>2, <1>4, Goes DEF CheckAccount, Free
  <1>5. CASE (ReadCampaign(r) \/ ReadDetail(r)) /\ ~\E a: Answer(r, a)
    BY <1>2, <1>5, Takes DEF ReadCampaign, ReadDetail
  <1>6. CASE FindExisting(r) /\ ~\E a: Answer(r, a)
    <2>1. q.read # 0
      BY <1>1, <1>6 DEF Knows, FindExisting
    <2>2. Approved(r) \/ Goto(r, "review")
      BY <1>6 DEF FindExisting
    <2>3. QED
      BY <1>2, <2>1, <2>2, ApprovedKeeps, Goes
  <1>7. CASE FindReview(r) /\ ~\E a: Answer(r, a)
    <2>1. q.read # 0 /\ q.read \in 0..Len(versions) /\ Len(versions) \in 1..MaxVersions
      BY <1>1, <1>7 DEF Knows, FindReview, DeliveryInv, Line
    <2>2. q.read \in 1..MaxVersions
      BY <2>1, DeliveryAssumption
    <2>3. Goto(r, "approve") /\ review[q.read] = "passed"
      BY <1>7 DEF FindReview
    <2>4. q.read \in passed
      BY <2>2, <2>3 DEF DeliveryInv, PassedSound
    <2>5. QED
      BY <1>2, <2>1, <2>3, <2>4, Goes
  <1>8. CASE FindCommand(r) /\ ~\E a: Answer(r, a)
    <2>1. q.read # 0 /\ <<q.approval, Head(q.todo)>> \in approvals
      BY <1>1, <1>8 DEF Knows, FindCommand
    <2>2. Goto(r, "insert") /\ q.approval = q.read
      BY <1>8 DEF FindCommand
    <2>3. QED
      BY <1>2, <2>1, <2>2, Goes
  <1>9. QED
    BY <1>3, <1>4, <1>5, <1>6, <1>7, <1>8

LEMMA SaveApprovalKeeps ==
  ASSUME DeliveryInv, NEW r \in Requests, SaveApproval(r)
  PROVE  DeliveryInv'
  <1> DEFINE q == req[r]
             d == Dest(r)
  <1>1. Knows(q, versions, passed, approvals) /\ q.pc = "approve"
    BY Know DEF SaveApproval
  <1>2. /\ UNCHANGED <<versions, review, passed, commands>>
        /\ approvals' = approvals \cup {<<q.read, d>>} /\ q.read \in passed
    BY <1>1 DEF Knows, SaveApproval
  <1> HIDE DEF d
  <1>3. \E n: req' = [req EXCEPT ![r] = n] /\ Knows(n, versions, passed', approvals')
    <2>1. CASE q.kind = "approve"
      BY <2>1, AnswerKnows DEF SaveApproval, Approved, Answer
    <2>2. CASE q.kind # "approve"
      <3> DEFINE n == [q EXCEPT !.pc = "detail"]
      <3>1. req' = [req EXCEPT ![r] = n]
        BY <2>2 DEF SaveApproval, Approved, Goto
      <3>2. DOMAIN n = RequestFields /\ n.pc = "detail" /\ n.read = q.read /\ n.media = q.media
        BY <1>1 DEF Knows, RequestFields
      <3> HIDE DEF n
      <3>3. Knows(n, versions, passed', approvals')
        BY <1>1, <3>2 DEF Knows
      <3>4. QED
        BY <3>1, <3>3
    <2>3. QED
      BY <2>1, <2>2
  <1>4. RequestsKnow'
    BY <1>2, <1>3, Served
  <1>5. PassedSound'
    <2>1. \A a \in approvals': a[1] \in passed
      BY <1>2 DEF DeliveryInv, PassedSound
    <2>2. QED
      BY <1>2, <2>1 DEF DeliveryInv, PassedSound
  <1>6. Line' /\ OneApprovedCommand'
    BY <1>2 DEF DeliveryInv, Line, Lineage, OneApprovedCommand
  <1>7. QED
    BY <1>4, <1>5, <1>6 DEF DeliveryInv

\* Some versions have a latest one.
LEMMA LatestIsIn ==
  ASSUME NEW S, S \subseteq 1..MaxVersions, S # {}
  PROVE  Latest(S) \in S
  <1>1. MaxVersions \in Nat /\ S \subseteq Nat /\ \A n \in S: n <= MaxVersions
    BY DeliveryAssumption
  <1>2. \E n \in S: \A m \in S: n >= m
    BY <1>1, Greatest
  <1>3. QED
    BY <1>2 DEF Latest

LEMMA FindApprovalKeeps ==
  ASSUME DeliveryInv, NEW r \in Requests, FindApproval(r)
  PROVE  DeliveryInv'
  <1> DEFINE q == req[r]
             S == {n \in 1..MaxVersions: <<n, Dest(r)>> \in approvals}
  <1>1. Knows(q, versions, passed, approvals) /\ q.pc = "approval"
    BY Know DEF FindApproval
  <1>2. UNCHANGED <<versions, review, passed, approvals, commands>>
    BY DEF FindApproval
  <1>3. CASE S = {}
    BY <1>2, <1>3, Answers DEF FindApproval, ApprovedFor
  <1>4. CASE S # {}
    <2> DEFINE v == Latest(S)
               n == [q EXCEPT !.pc = "command", !.approval = v]
    <2>1. v \in S
      BY <1>4, LatestIsIn
    <2>2. <<v, Head(q.todo)>> \in approvals
      BY <2>1 DEF Dest
    <2>3. req' = [req EXCEPT ![r].pc = "command", ![r].approval = v]
      BY <1>4 DEF FindApproval, ApprovedFor
    <2> HIDE DEF v
    <2>4. req' = [req EXCEPT ![r] = n]
      BY <2>3, Know
    <2>5. /\ DOMAIN n = RequestFields /\ n.pc = "command" /\ n.approval = v
          /\ n.read = q.read /\ n.todo = q.todo /\ n.media = q.media
      BY <1>1 DEF Knows, RequestFields
    <2> HIDE DEF n
    <2>6. Knows(n, versions, passed, approvals)
      BY <1>1, <2>2, <2>5 DEF Knows
    <2>7. QED
      BY <1>2, <2>4, <2>6, OnlyServed
  <1>5. QED
    BY <1>3, <1>4

LEMMA InsertCommandKeeps ==
  ASSUME DeliveryInv, NEW r \in Requests, InsertCommand(r)
  PROVE  DeliveryInv'
  <1> DEFINE q == req[r]
             c == Command(r)
  <1>1. Knows(q, versions, passed, approvals) /\ q.pc = "insert"
    BY Know DEF InsertCommand
  <1>2. UNCHANGED <<versions, review, passed, approvals>>
    BY DEF InsertCommand
  <1>3. Line' /\ PassedSound'
    BY <1>2 DEF DeliveryInv, Line, Lineage, PassedSound
  <1>4. CASE CommandOf(q.approval, Dest(r)) # {}
    <2>1. req' = [req EXCEPT ![r] = [Idle EXCEPT !.pc = "failed"]] /\ commands' = commands
      BY <1>4 DEF InsertCommand, End
    <2>2. Knows([Idle EXCEPT !.pc = "failed"], versions, passed, approvals)
      BY EndKnows DEF Free
    <2>3. QED
      BY <1>2, <2>1, <2>2, OnlyServed
  <1>5. CASE CommandOf(q.approval, Dest(r)) = {}
    <2>1. Answer(r, "scheduled") /\ commands' = commands \cup {c}
      BY <1>5 DEF InsertCommand
    <2>2. RequestsKnow'
      BY <1>2, <2>1, AnswerKnows, Served DEF Answer
    <2>3. /\ c.version = q.read /\ c.dest = Head(q.todo)
          /\ c.media \in {"posted", versions[c.version].refs}
          /\ <<c.version, c.dest>> \in approvals
      BY <1>1 DEF Knows, Command, Dest, Media
    <2>4. \A b \in commands: ~(b.version = c.version /\ b.dest = c.dest)
      BY <1>1, <1>5, <2>3 DEF Knows, CommandOf, Dest
    <2> HIDE DEF c
    <2>5. OneApprovedCommand'
      <3>1. ASSUME NEW b \in commands'
            PROVE  /\ <<b.version, b.dest>> \in approvals
                   /\ b.media \in {"posted", versions[b.version].refs}
        BY <2>1, <2>3 DEF DeliveryInv, OneApprovedCommand
      <3>2. ASSUME NEW a \in commands', NEW b \in commands',
                   b.version = a.version, b.dest = a.dest
            PROVE  b = a
        <4>1. CASE a \in commands /\ b \in commands
          BY <3>2, <4>1 DEF DeliveryInv, OneApprovedCommand
        <4>2. CASE a = c \/ b = c
          BY <2>1, <2>4, <3>2, <4>2
        <4>3. QED
          BY <2>1, <4>1, <4>2
      <3>3. QED
        BY <1>2, <3>1, <3>2 DEF OneApprovedCommand
    <2>6. QED
      BY <1>3, <2>2, <2>5 DEF DeliveryInv
  <1>6. QED
    BY <1>4, <1>5

LEMMA DeliveryStep == DeliveryInv /\ [DeliveryNext]_deliveryVars => DeliveryInv'
  <1> SUFFICES ASSUME DeliveryInv, [DeliveryNext]_deliveryVars PROVE DeliveryInv'
    OBVIOUS
  <1>1. CASE Edit
    BY <1>1, EditKeeps
  <1>2. ASSUME NEW r \in Requests, Step(r) PROVE DeliveryInv'
    <2>1. ASSUME Deliveries(r) PROVE DeliveryInv'
      BY <2>1, DeliverKeeps DEF Deliveries, Media
    <2>2. QED
      BY <1>2, <2>1, ReadKeeps, AppendKeeps, EndKeeps, CriticiseKeeps, SaveReviewKeeps,
         LookKeeps, SaveApprovalKeeps, FindApprovalKeeps, InsertCommandKeeps DEF Step
  <1>3. ASSUME NEW r \in Requests, Respond(r) PROVE DeliveryInv'
    BY <1>3, EndKeeps
  <1>4. CASE UNCHANGED deliveryVars
    BY <1>4 DEF deliveryVars, DeliveryInv, Line, Lineage, PassedSound, RequestsKnow,
                OneApprovedCommand
  <1>5. QED
    BY <1>1, <1>2, <1>3, <1>4 DEF DeliveryNext

LEMMA DeliveryInitInv == DeliveryInit => DeliveryInv
  <1> SUFFICES ASSUME DeliveryInit PROVE DeliveryInv
    OBVIOUS
  <1>1. PICK refs \in Refs, sound \in BOOLEAN, ready \in BOOLEAN:
          versions = <<[from |-> 0, project |-> FALSE, refs |-> refs,
                        sound |-> sound, ready |-> ready]>>
    BY DEF DeliveryInit
  <1> DEFINE v == [from |-> 0, project |-> FALSE, refs |-> refs, sound |-> sound,
                   ready |-> ready]
  <1>2. v \in Version
    BY DeliveryAssumption DEF Version
  <1> HIDE DEF v
  <1>3. versions = <<v>> /\ versions \in Seq(Version) /\ Len(versions) = 1
    BY <1>1, <1>2 DEF v
  <1>4. Line
    BY <1>3, DeliveryAssumption DEF Line, Lineage
  <1>5. PassedSound /\ OneApprovedCommand
    BY DEF DeliveryInit, PassedSound, OneApprovedCommand
  <1>6. Knows(Idle, versions, passed, approvals)
    <2>1. /\ DOMAIN Idle = RequestFields /\ Idle.pc = "idle" /\ Idle.read = 0
          /\ Idle.media = "unnamed"
      BY DEF Idle, RequestFields
    <2>2. QED
      BY <1>3, <2>1 DEF Knows, Media
  <1>7. RequestsKnow
    BY <1>6 DEF RequestsKnow, DeliveryInit
  <1>8. QED
    BY <1>4, <1>5, <1>7 DEF DeliveryInv

(* However selections, generations, edits, reviews, approvals and            *)
(* deliveries overlap, for any requests, destinations and number of          *)
(* versions: the versions form one line though each is built from what its   *)
(* author had read, what is approved passed its gates and a critic, and a    *)
(* destination gets one command for a version.                               *)
THEOREM DeliveryHolds == DeliverySpec => []DeliverySound
  <1>1. DeliveryInv => DeliverySound
    BY DEF DeliveryInv, Line, PassedSound, DeliverySound, ApprovedWasPassed
  <1>2. QED
    BY <1>1, DeliveryInitInv, DeliveryStep, PTL DEF DeliverySpec

-----------------------------------------------------------------------------
(***************************************************************************)
(* The carousel studio.  A row of a project only changes together with its *)
(* revision, so whoever knows the row's present revision knows the row.    *)
(* Rendered is what holds of a stored rendering and InFlight of a call of  *)
(* the render service, given the rows of the projects.                     *)
(***************************************************************************)
RowFields == {"rev", "text", "style", "image"}

Row(x) == x.rev \in Nat /\ (x.rev > 0 => DOMAIN x = RowFields)

Shows(plan, row) == plan = Plan(row.text, row.style)

Rendered(v, rows) ==
  /\ v.project \in Ids /\ v.version \in Nat \ {0} /\ v.rev \in Nat
  /\ rows[v.project].rev > 0 /\ v.rev <= rows[v.project].rev
  /\ v.rev = rows[v.project].rev => Shows(v.plan, rows[v.project])

Drawing == {"slides", "drawn", "uploaded", "checked"}

InFlight(q, rows) ==
  /\ q.pc = "idle" \/ q.pc = "project" \/ q.pc \in Drawing
  /\ q.pc # "idle" =>
       /\ q.project \in Ids /\ q.rev \in Nat
       /\ rows[q.project].rev > 0 /\ q.rev <= rows[q.project].rev
  /\ q.pc = "project" /\ q.rev = rows[q.project].rev =>
       q.style = rows[q.project].style
  /\ q.pc \in Drawing /\ q.rev = rows[q.project].rev =>
       Shows(q.plan, rows[q.project])
  /\ q.pc \in {"drawn", "uploaded", "checked"} =>
       /\ q.version \in Nat \ {0}
       /\ DOMAIN q = {"pc", "project", "rev", "plan", "version"}

Rows == DOMAIN projects = Ids /\ \A p \in Ids: Row(projects[p])

Numbered ==
  /\ \A v, w \in renditions:
       v.project = w.project /\ v.version = w.version => v = w
  /\ \E k \in Nat: \A v \in renditions: v.version <= k

\* An approval binds a rendering of the revision its project has.
Bound(p) ==
  approved[p] # 0 =>
    /\ projects[p].rev > 0
    /\ \E v \in renditions: v.project = p /\ v.version = approved[p]
                            /\ v.rev = projects[p].rev

StudioInv ==
  /\ Rows /\ Numbered
  /\ DOMAIN approved = Ids /\ DOMAIN render = Renders
  /\ \A v \in renditions: Rendered(v, projects)
  /\ \A p \in Ids: Bound(p)
  /\ \A r \in Renders: InFlight(render[r], projects)

\* The inductive invariant says that an approved rendering is up to date.
LEMMA StudioInvShows == StudioInv => ApprovedShowsProject
  <1> SUFFICES ASSUME StudioInv, NEW v \in renditions,
                      approved[v.project] = v.version
               PROVE  Shows(v.plan, projects[v.project])
    BY DEF ApprovedShowsProject, Shows
  <1>1. Rendered(v, projects) /\ v.project \in Ids /\ v.version # 0
    BY DEF StudioInv, Rendered
  <1>2. PICK w \in renditions: /\ w.project = v.project
                               /\ w.version = v.version
                               /\ w.rev = projects[v.project].rev
    BY <1>1 DEF StudioInv, Bound
  <1>3. v = w
    BY <1>2 DEF StudioInv, Numbered
  <1>4. QED
    BY <1>1, <1>2, <1>3 DEF Rendered

\* A row moves on: it stays as it is, or, not approved, gets a new revision.
MovesOn(p) ==
  \/ projects'[p] = projects[p]
  \/ /\ approved[p] = 0 /\ Row(projects'[p])
     /\ projects'[p].rev > projects[p].rev

\* Whatever moves the rows on keeps the invariant.
LEMMA EditsKeep ==
  ASSUME StudioInv, DOMAIN projects' = Ids, \A p \in Ids: MovesOn(p),
         UNCHANGED <<approved, renditions, render>>
  PROVE  StudioInv'
  <1>1. ASSUME NEW p \in Ids
        PROVE  /\ Row(projects[p]) /\ Row(projects'[p])
               /\ projects'[p] = projects[p] \/ projects'[p].rev > projects[p].rev
               /\ projects'[p].rev >= projects[p].rev
    BY DEF StudioInv, Rows, Row, MovesOn
  <1>2. Rows' /\ Numbered'
    BY <1>1 DEF StudioInv, Rows, Numbered
  <1>3. ASSUME NEW v \in renditions PROVE Rendered(v, projects')
    <2>1. Rendered(v, projects) /\ v.project \in Ids
      BY DEF StudioInv, Rendered
    <2>2. QED
      BY <1>1, <2>1 DEF Rendered, Row
  <1>4. ASSUME NEW p \in Ids PROVE Bound(p)'
    BY DEF StudioInv, Bound, MovesOn
  <1>5. ASSUME NEW r \in Renders PROVE InFlight(render[r], projects')
    <2>1. InFlight(render[r], projects)
      BY DEF StudioInv
    <2>2. CASE render[r].pc = "idle"
      BY <2>2 DEF InFlight, Drawing
    <2>3. CASE render[r].pc # "idle"
      <3>1. render[r].project \in Ids
        BY <2>1, <2>3 DEF InFlight
      <3>2. QED
        BY <1>1, <2>1, <2>3, <3>1 DEF InFlight, Row
    <2>4. QED
      BY <2>2, <2>3
  <1>6. QED
    BY <1>2, <1>3, <1>4, <1>5 DEF StudioInv

LEMMA UpsertFoundKeeps ==
  ASSUME StudioInv, NEW p, NEW text, NEW style, UpsertFound(p, text, style)
  PROVE  StudioInv' /\ \A i \in Ids: MovesOn(i)
  <1>1. ASSUME NEW i \in Ids PROVE MovesOn(i)
    <2>1. CASE i \notin Live
      BY <2>1 DEF UpsertFound, MovesOn
    <2>2. CASE i \in Live
      <3>1. projects[i].rev \in Nat /\ DOMAIN projects[i] = RowFields
        BY <2>2 DEF StudioInv, Rows, Row, Live
      <3>2. approved[i] = 0
        BY <2>2 DEF UpsertFound, Unapproved
      <3> DEFINE n == [projects[i] EXCEPT !.rev = @ + 1, !.style = style,
                         !.text = IF i = p THEN text ELSE @]
      <3>3. projects'[i] = n
        BY <2>2 DEF UpsertFound
      <3>4. n.rev = projects[i].rev + 1 /\ DOMAIN n = RowFields
        BY <3>1 DEF RowFields
      <3>5. QED
        BY <3>1, <3>2, <3>3, <3>4 DEF MovesOn, Row
    <2>3. QED
      BY <2>1, <2>2
  <1>2. DOMAIN projects' = Ids /\ UNCHANGED <<approved, renditions, render>>
    BY DEF UpsertFound
  <1>3. QED
    BY <1>1, <1>2, EditsKeep

LEMMA UpsertInsertKeeps ==
  ASSUME StudioInv, NEW a, NEW p, NEW text, NEW style,
         UpsertInsert(a, p, text, style)
  PROVE  StudioInv' /\ \A i \in Ids: MovesOn(i)
  <1>1. p \in Ids /\ projects[p].rev = 0
    BY DEF UpsertInsert, Live, StudioInv, Rows, Row
  <1>2. approved[p] = 0
    BY <1>1 DEF StudioInv, Bound
  <1> DEFINE n == [rev |-> 1, text |-> text, style |-> style,
                   image |-> [s \in Slides |-> "none"]]
  <1>3. n.rev = 1 /\ DOMAIN n = RowFields
    BY DEF RowFields
  <1>4. projects' = [projects EXCEPT ![p] = n]
    BY DEF UpsertInsert
  <1> HIDE DEF n
  <1>5. DOMAIN projects' = Ids /\ projects'[p] = n
        /\ \A i \in Ids: i # p => projects'[i] = projects[i]
    BY <1>1, <1>4 DEF StudioInv, Rows
  <1>6. \A i \in Ids: MovesOn(i)
    BY <1>1, <1>2, <1>3, <1>5 DEF MovesOn, Row
  <1>7. UNCHANGED <<approved, renditions, render>>
    BY DEF UpsertInsert
  <1>8. QED
    BY <1>5, <1>6, <1>7, EditsKeep

\* A mutation writes a row with the fields and the revision of the old one.
LEMMA MutateKeeps ==
  ASSUME StudioInv, NEW p, NEW row, Mutate(p, row),
         row.rev = projects[p].rev, DOMAIN row = DOMAIN projects[p]
  PROVE  StudioInv' /\ \A i \in Ids: MovesOn(i)
  <1>1. p \in Ids /\ approved[p] = 0 /\ projects[p].rev > 0
        /\ Row(projects[p])
    BY DEF Mutate, Mutable, Unapproved, Live, StudioInv, Rows
  <1> DEFINE n == [row EXCEPT !.rev = @ + 1]
  <1>2. DOMAIN n = RowFields /\ n.rev = projects[p].rev + 1
    BY <1>1 DEF Row, RowFields
  <1>3. projects' = [projects EXCEPT ![p] = n]
    BY DEF Mutate
  <1> HIDE DEF n
  <1>4. DOMAIN projects' = Ids /\ projects'[p] = n
        /\ \A i \in Ids: i # p => projects'[i] = projects[i]
    BY <1>1, <1>3 DEF StudioInv, Rows
  <1>5. \A i \in Ids: MovesOn(i)
    BY <1>1, <1>2, <1>4 DEF MovesOn, Row
  <1>6. UNCHANGED <<approved, renditions, render>>
    BY DEF Mutate
  <1>7. QED
    BY <1>4, <1>5, <1>6, EditsKeep

LEMMA EditingKeeps ==
  ASSUME StudioInv, Editing
  PROVE  StudioInv' /\ \A i \in Ids: MovesOn(i)
  <1>1. PICK p \in Ids:
          \/ \E s \in Slides, t \in Texts: EditText(p, s, t)
          \/ \E s \in Slides, i \in Images: ReplaceImage(p, s, i)
          \/ \E st \in Styles: ChangeStyle(p, st)
          \/ RequestRegeneration(p)
          \/ Reorder(p)
    BY DEF Editing
  <1>2. ASSUME p \in Live PROVE DOMAIN projects[p] = RowFields
    BY <1>2 DEF StudioInv, Rows, Row, Live
  <1>3. CASE \E s \in Slides, t \in Texts: EditText(p, s, t)
    <2>1. PICK s \in Slides, t \in Texts: EditText(p, s, t)
      BY <1>3
    <2> DEFINE row == [projects[p] EXCEPT !.text[s] = t]
    <2>2. p \in Live /\ Mutate(p, row)
      BY <2>1 DEF EditText
    <2>3. row.rev = projects[p].rev /\ DOMAIN row = DOMAIN projects[p]
      BY <1>2, <2>2 DEF RowFields
    <2> HIDE DEF row
    <2>4. QED
      BY <2>2, <2>3, MutateKeeps
  <1>4. CASE \E s \in Slides, i \in Images: ReplaceImage(p, s, i)
    <2>1. PICK s \in Slides, i \in Images: ReplaceImage(p, s, i)
      BY <1>4
    <2> DEFINE row == [projects[p] EXCEPT !.image[s] = i]
    <2>2. p \in Live /\ Mutate(p, row)
      BY <2>1 DEF ReplaceImage
    <2>3. row.rev = projects[p].rev /\ DOMAIN row = DOMAIN projects[p]
      BY <1>2, <2>2 DEF RowFields
    <2> HIDE DEF row
    <2>4. QED
      BY <2>2, <2>3, MutateKeeps
  <1>5. CASE \E st \in Styles: ChangeStyle(p, st)
    <2>1. PICK st \in Styles: ChangeStyle(p, st)
      BY <1>5
    <2> DEFINE row == [projects[p] EXCEPT !.style = st]
    <2>2. p \in Live /\ Mutate(p, row)
      BY <2>1 DEF ChangeStyle
    <2>3. row.rev = projects[p].rev /\ DOMAIN row = DOMAIN projects[p]
      BY <1>2, <2>2 DEF RowFields
    <2> HIDE DEF row
    <2>4. QED
      BY <2>2, <2>3, MutateKeeps
  <1>6. CASE RequestRegeneration(p)
    <2>1. Mutate(p, projects[p])
      BY <1>6 DEF RequestRegeneration
    <2>2. QED
      BY <2>1, MutateKeeps
  <1>7. CASE Reorder(p)
    BY <1>7, EditsKeep DEF Reorder, MovesOn, StudioInv, Rows
  <1>8. QED
    BY <1>1, <1>3, <1>4, <1>5, <1>6, <1>7

\* A call that moves on, on rows and renderings that stay.
LEMMA CallKeeps ==
  ASSUME StudioInv, NEW r \in Renders, NEW q, InFlight(q, projects),
         render' = [render EXCEPT ![r] = q],
         UNCHANGED <<projects, approved, renditions>>
  PROVE  StudioInv'
  <1>1. DOMAIN render' = Renders
        /\ \A i \in Renders: InFlight(render'[i], projects)
    BY DEF StudioInv
  <1>2. Rows' /\ Numbered' /\ (\A p \in Ids: Bound(p)')
        /\ DOMAIN approved' = Ids
    BY DEF StudioInv, Rows, Numbered, Bound
  <1>3. \A v \in renditions': Rendered(v, projects')
    BY DEF StudioInv
  <1>4. QED
    BY <1>1, <1>2, <1>3 DEF StudioInv

LEMMA IdleInFlight == InFlight(IdleRender, projects)
  BY DEF InFlight, IdleRender, Drawing

LEMMA ReadProjectKeeps ==
  ASSUME StudioInv, NEW r \in Renders, NEW p, ReadProject(r, p)
  PROVE  StudioInv'
  <1> DEFINE q == [pc |-> "project", project |-> p, rev |-> projects[p].rev,
                   style |-> projects[p].style]
  <1>1. p \in Ids /\ projects[p].rev \in Nat /\ projects[p].rev > 0
    BY DEF ReadProject, Live, StudioInv, Rows, Row
  <1>2. InFlight(q, projects)
    BY <1>1 DEF InFlight, Drawing
  <1>3. render' = [render EXCEPT ![r] = q]
        /\ UNCHANGED <<projects, approved, renditions>>
    BY DEF ReadProject
  <1> HIDE DEF q
  <1>4. QED
    BY <1>2, <1>3, CallKeeps

LEMMA ReadSlidesKeeps ==
  ASSUME StudioInv, NEW r \in Renders, ReadSlides(r)
  PROVE  StudioInv'
  <1> DEFINE o == render[r]
             q == [pc |-> "slides", project |-> o.project, rev |-> o.rev,
                   plan |-> Plan(projects[o.project].text, o.style)]
  <1>1. InFlight(o, projects) /\ o.pc = "project"
    BY DEF StudioInv, ReadSlides
  <1>2. InFlight(q, projects)
    BY <1>1 DEF InFlight, Drawing, Shows
  <1>3. render' = [render EXCEPT ![r] = q]
        /\ UNCHANGED <<projects, approved, renditions>>
    BY DEF ReadSlides, StudioInv
  <1> HIDE DEF q
  <1>4. QED
    BY <1>2, <1>3, CallKeeps

\* The next version number of a project is a number.
LEMMA NextNumber ==
  ASSUME StudioInv, NEW p
  PROVE  1 + Max(NumbersOf(p) \cup {0}) \in Nat \ {0}
  <1> DEFINE S == NumbersOf(p) \cup {0}
  <1>1. PICK k \in Nat: \A v \in renditions: v.version <= k
    BY DEF StudioInv, Numbered
  <1>2. S \subseteq Nat /\ S # {} /\ \A n \in S: n <= k
    BY <1>1 DEF StudioInv, Rendered, NumbersOf
  <1> HIDE DEF S
  <1>3. \E n \in S: \A m \in S: n >= m
    BY <1>2, Greatest
  <1>4. Max(S) \in S
    BY <1>3 DEF Max
  <1>5. Max(S) \in Nat
    BY <1>2, <1>4
  <1>6. QED
    BY <1>5 DEF S

LEMMA ReadVersionKeeps ==
  ASSUME StudioInv, NEW r \in Renders, ReadVersion(r)
  PROVE  StudioInv'
  <1> DEFINE o == render[r]
             q == [pc |-> "drawn", project |-> o.project, rev |-> o.rev,
                   plan |-> o.plan,
                   version |-> 1 + Max(NumbersOf(o.project) \cup {0})]
  <1>1. InFlight(o, projects) /\ o.pc = "slides"
    BY DEF StudioInv, ReadVersion
  <1>2. q.version \in Nat \ {0}
    BY NextNumber
  <1>3. InFlight(q, projects)
    BY <1>1, <1>2 DEF InFlight, Drawing
  <1>4. UNCHANGED <<projects, approved, renditions>>
    BY DEF ReadVersion
  <1>5. \/ render' = [render EXCEPT ![r] = IdleRender]
        \/ render' = [render EXCEPT ![r] = q]
    BY DEF ReadVersion, StudioInv
  <1> HIDE DEF q
  <1>6. QED
    BY <1>3, <1>4, <1>5, CallKeeps, IdleInFlight

\* A call that only goes on to its next step.
LEMMA StepInFlight ==
  ASSUME NEW o, InFlight(o, projects), o.pc \in {"drawn", "uploaded"},
         NEW pc \in {"uploaded", "checked"}
  PROVE  InFlight([o EXCEPT !.pc = pc], projects)
  <1> DEFINE q == [o EXCEPT !.pc = pc]
  <1>1. DOMAIN o = {"pc", "project", "rev", "plan", "version"}
    BY DEF InFlight
  <1>2. DOMAIN q = DOMAIN o /\ q.pc = pc /\ q.project = o.project
        /\ q.rev = o.rev /\ q.plan = o.plan /\ q.version = o.version
    BY <1>1
  <1> HIDE DEF q
  <1>3. InFlight(q, projects)
    BY <1>1, <1>2 DEF InFlight, Drawing
  <1>4. QED
    BY <1>3 DEF q

LEMMA UploadKeeps ==
  ASSUME StudioInv, NEW r \in Renders, Upload(r)
  PROVE  StudioInv'
  <1> DEFINE q == [render[r] EXCEPT !.pc = "uploaded"]
  <1>1. InFlight(render[r], projects) /\ render[r].pc = "drawn"
    BY DEF StudioInv, Upload
  <1>2. InFlight(q, projects)
    BY <1>1, StepInFlight
  <1>3. render' = [render EXCEPT ![r] = q]
        /\ UNCHANGED <<projects, approved, renditions>>
    BY DEF Upload, StudioInv
  <1> HIDE DEF q
  <1>4. QED
    BY <1>2, <1>3, CallKeeps

LEMMA SaveCheckKeeps ==
  ASSUME StudioInv, NEW r \in Renders, SaveCheck(r)
  PROVE  StudioInv'
  <1> DEFINE q == [render[r] EXCEPT !.pc = "checked"]
  <1>1. InFlight(render[r], projects) /\ render[r].pc = "uploaded"
    BY DEF StudioInv, SaveCheck
  <1>2. InFlight(q, projects)
    BY <1>1, StepInFlight
  <1>3. UNCHANGED <<projects, approved, renditions>>
    BY DEF SaveCheck
  <1>4. \/ render' = [render EXCEPT ![r] = IdleRender]
        \/ render' = [render EXCEPT ![r] = q]
    BY DEF SaveCheck, StudioInv
  <1> HIDE DEF q
  <1>5. QED
    BY <1>2, <1>3, <1>4, CallKeeps, IdleInFlight

LEMMA RenderFailsKeeps ==
  ASSUME StudioInv, NEW r \in Renders, RenderFails(r)
  PROVE  StudioInv'
  BY CallKeeps, IdleInFlight DEF RenderFails

LEMMA SaveInsertKeeps ==
  ASSUME StudioInv, NEW r \in Renders, SaveInsert(r)
  PROVE  StudioInv'
  <1> DEFINE o == render[r]
             w == [project |-> o.project, version |-> o.version,
                   rev |-> o.rev, plan |-> o.plan]
  <1>1. InFlight(o, projects) /\ o.pc = "checked"
    BY DEF StudioInv, SaveInsert
  <1>2. /\ UNCHANGED <<projects, approved>>
        /\ render' = [render EXCEPT ![r] = IdleRender]
        /\ renditions' = IF Insertable(w) THEN renditions \cup {w}
                         ELSE renditions
    BY DEF SaveInsert
  <1>3. Rendered(w, projects)
    BY <1>1 DEF Rendered, InFlight, Drawing
  <1> HIDE DEF w
  <1>4. CASE ~Insertable(w)
    BY <1>2, <1>4, CallKeeps, IdleInFlight
  <1>5. CASE Insertable(w)
    <2>1. renditions' = renditions \cup {w}
      BY <1>2, <1>5
    <2>2. \A v \in renditions': Rendered(v, projects')
      BY <1>2, <1>3, <2>1 DEF StudioInv
    <2>3. \A x, y \in renditions':
            x.project = y.project /\ x.version = y.version => x = y
      BY <1>5, <2>1 DEF Insertable, StudioInv, Numbered
    <2>4. \E k \in Nat: \A v \in renditions': v.version <= k
      <3>1. PICK k \in Nat: \A v \in renditions: v.version <= k
        BY DEF StudioInv, Numbered
      <3>2. w.version \in Nat /\ \A v \in renditions: v.version \in Nat
        BY <1>3 DEF Rendered, StudioInv
      <3>3. k + w.version \in Nat
            /\ \A v \in renditions': v.version <= k + w.version
        BY <2>1, <3>1, <3>2
      <3>4. QED
        BY <3>3
    <2>5. Numbered'
      BY <2>3, <2>4 DEF Numbered
    <2>6. Rows' /\ DOMAIN approved' = Ids /\ DOMAIN render' = Renders
      BY <1>2 DEF StudioInv, Rows
    <2>7. ASSUME NEW p \in Ids PROVE Bound(p)'
      BY <1>2, <2>1 DEF StudioInv, Bound
    <2>8. \A i \in Renders: InFlight(render'[i], projects')
      BY <1>2, IdleInFlight DEF StudioInv
    <2>9. QED
      BY <2>2, <2>5, <2>6, <2>7, <2>8 DEF StudioInv
  <1>6. QED
    BY <1>4, <1>5

LEMMA ApproveKeeps ==
  ASSUME StudioInv, NEW p \in Ids, NEW v \in renditions, Approve(p, v)
  PROVE  StudioInv'
  <1>1. UNCHANGED <<projects, renditions, render>>
        /\ approved' = [approved EXCEPT ![p] = v.version]
    BY DEF Approve
  <1>2. p \in Live /\ v.project = p /\ v.rev = projects[p].rev
    BY DEF Approve, Approvable
  <1>3. DOMAIN approved' = Ids /\ approved'[p] = v.version
        /\ \A i \in Ids: i # p => approved'[i] = approved[i]
    BY <1>1 DEF StudioInv
  <1>4. ASSUME NEW i \in Ids PROVE Bound(i)'
    BY <1>1, <1>2, <1>3 DEF Bound, Live, StudioInv
  <1>5. Rows' /\ Numbered'
    BY <1>1 DEF StudioInv, Rows, Numbered
  <1>6. QED
    BY <1>1, <1>3, <1>4, <1>5 DEF StudioInv

LEMMA StudioInitHolds ==
  ASSUME StudioInit
  PROVE  StudioInv
  <1>1. \A p \in Ids: projects[p] = Absent /\ projects[p].rev = 0
                      /\ approved[p] = 0
    BY DEF StudioInit, Absent
  <1>2. Rows /\ DOMAIN approved = Ids /\ DOMAIN render = Renders
    BY <1>1 DEF StudioInit, Rows, Row
  <1>3. renditions = {} /\ Numbered
    BY DEF StudioInit, Numbered
  <1>4. \A p \in Ids: Bound(p)
    BY <1>1 DEF Bound
  <1>5. \A r \in Renders: InFlight(render[r], projects)
    BY IdleInFlight DEF StudioInit
  <1>6. QED
    BY <1>2, <1>3, <1>4, <1>5 DEF StudioInv

\* What each step of the studio does to the invariant and to the approvals.
LEMMA StudioStep ==
  ASSUME StudioInv, [StudioNext]_studioVars
  PROVE  StudioInv' /\ ApprovalKept
  <1>1. ASSUME NEW p \in Ids, approved[p] # 0, approved' = approved,
               MovesOn(p)
        PROVE  projects'[p] = projects[p] /\ approved'[p] = approved[p]
    BY <1>1 DEF MovesOn
  <1>2. ASSUME StudioInv' /\ \A i \in Ids: MovesOn(i), approved' = approved
        PROVE  StudioInv' /\ ApprovalKept
    BY <1>1, <1>2 DEF ApprovalKept
  <1>3. ASSUME StudioInv', UNCHANGED <<projects, approved>>
        PROVE  StudioInv' /\ ApprovalKept
    BY <1>3 DEF ApprovalKept
  <1>4. CASE Upserting
    <2>1. PICK text \in [Slides -> Texts], style \in Styles, p \in Ids:
            \/ UpsertFound(p, text, style)
            \/ \E a \in Authors: UpsertInsert(a, p, text, style)
      BY <1>4 DEF Upserting
    <2>2. approved' = approved
      BY <2>1 DEF UpsertFound, UpsertInsert
    <2>3. QED
      BY <1>2, <2>1, <2>2, UpsertFoundKeeps, UpsertInsertKeeps
  <1>5. CASE \E a \in Authors: UpsertMissing(a)
    <2>1. UNCHANGED <<projects, approved, renditions, render>>
      BY <1>5 DEF UpsertMissing
    <2>2. StudioInv'
      BY <2>1, EditsKeep DEF MovesOn, StudioInv, Rows
    <2>3. QED
      BY <1>3, <2>1, <2>2
  <1>6. CASE Editing
    <2>1. approved' = approved
      BY <1>6 DEF Editing, EditText, ReplaceImage, ChangeStyle,
                  RequestRegeneration, Reorder, Mutate
    <2>2. QED
      BY <1>2, <1>6, <2>1, EditingKeeps
  <1>7. CASE Rendering
    <2>1. PICK r \in Renders:
            \/ \E p \in Ids: ReadProject(r, p)
            \/ ReadSlides(r) \/ ReadVersion(r) \/ Upload(r)
            \/ SaveCheck(r) \/ SaveInsert(r) \/ RenderFails(r)
      BY <1>7 DEF Rendering
    <2>2. UNCHANGED <<projects, approved>>
      BY <2>1 DEF ReadProject, ReadSlides, ReadVersion, Upload, SaveCheck,
                  SaveInsert, RenderFails
    <2>3. StudioInv'
      BY <2>1, ReadProjectKeeps, ReadSlidesKeeps, ReadVersionKeeps,
         UploadKeeps, SaveCheckKeeps, SaveInsertKeeps, RenderFailsKeeps
    <2>4. QED
      BY <1>3, <2>2, <2>3
  <1>8. CASE \E p \in Ids, v \in renditions: Approve(p, v)
    <2>1. PICK p \in Ids, v \in renditions: Approve(p, v)
      BY <1>8
    <2>2. StudioInv'
      BY <2>1, ApproveKeeps
    <2>3. projects' = projects
          /\ \A i \in Ids: approved[i] # 0 => approved'[i] = approved[i]
      BY <2>1 DEF Approve, Unapproved, StudioInv
    <2>4. QED
      BY <2>2, <2>3 DEF ApprovalKept
  <1>9. CASE UNCHANGED studioVars
    <2>1. UNCHANGED <<projects, approved, renditions, render>>
      BY <1>9 DEF studioVars
    <2>2. StudioInv'
      BY <2>1, EditsKeep DEF MovesOn, StudioInv, Rows
    <2>3. QED
      BY <1>3, <2>1, <2>2
  <1>10. QED
    BY <1>4, <1>5, <1>6, <1>7, <1>8, <1>9 DEF StudioNext

(***************************************************************************)
(* Whatever edits, replacements and other renders ran in between, the      *)
(* rendering that was approved shows the project as it now stands.         *)
(***************************************************************************)
THEOREM StudioHolds == StudioSpec => []ApprovedShowsProject
  <1>1. StudioInit => StudioInv
    BY StudioInitHolds
  <1>2. StudioInv /\ [StudioNext]_studioVars => StudioInv'
    BY StudioStep
  <1>3. QED
    BY <1>1, <1>2, StudioInvShows, PTL DEF StudioSpec

(***************************************************************************)
(* What was approved stays as it was: no later step edits the project or   *)
(* moves the approval to another rendering.                                *)
(***************************************************************************)
THEOREM ApprovalFreezesHolds == StudioSpec => ApprovalFreezes
  <1>1. StudioInit => StudioInv
    BY StudioInitHolds
  <1>2. StudioInv /\ [StudioNext]_studioVars => StudioInv'
    BY StudioStep
  <1>3. StudioInv /\ [StudioNext]_studioVars => [ApprovalKept]_studioVars
    BY StudioStep
  <1>4. QED
    BY <1>1, <1>2, <1>3, PTL DEF StudioSpec, ApprovalFreezes

-----------------------------------------------------------------------------
(* The queue behind "create this for me", for any requests, processes,     *)
(* names they share and steps that fail.                                   *)
CONSTANTS Jobs, Workers, Name, Angles, Pref, Given, CampaignOnly, MayFail,
          MaxAttempts, MaxSelects, None
VARIABLES jReq, jCampaigns, jAssets, jAngle, jRun

Creation == INSTANCE CreationQueue WITH
  req <- jReq, campaigns <- jCampaigns, assets <- jAssets, angle <- jAngle,
  run <- jRun

\* What a finished request shows is there: the campaign of its idea and, but
\* for a request that asks for no more, the drafted asset of that campaign.
CampaignThere(C, id, idea) == \E c \in C: c.id = id /\ c.idea = idea
AssetRow(x, d) == [id |-> x.asset, campaign |-> x.campaign, drafted |-> d]
Made(row, j, C, A) ==
  /\ CampaignThere(C, row.campaign, row.idea)
  /\ j \notin CampaignOnly => AssetRow(row, TRUE) \in A

JobFields == {"status", "owner", "live", "attempt", "idea", "angle",
              "campaign", "asset"}
RowFits(row, j, C, A) ==
  /\ DOMAIN row = JobFields
  /\ row.status \in Creation!Final => row.owner = None /\ row.live = FALSE
  /\ row.status = "ready" => Made(row, j, C, A)

\* What a process has made or found before it goes on.
RunFields == {"pc", "job", "try", "idea", "ver", "sel", "campaign", "asset"}
Stages == {"idle", "understand", "idea", "record", "read", "develop", "choose",
           "select", "build", "campaign", "create", "asset", "generate",
           "finish", "catch"}
HasMade(x, C, A) ==
  /\ DOMAIN x = RunFields
  /\ x.pc \in Stages
  /\ x.pc # "idle" => x.job \in Jobs
  /\ x.pc \in {"asset", "generate", "finish"} => CampaignThere(C, x.campaign, x.idea)
  /\ x.pc = "generate" => \E d \in BOOLEAN: AssetRow(x, d) \in A
  /\ x.pc = "finish" /\ x.job \notin CampaignOnly => AssetRow(x, TRUE) \in A

CreationInv ==
  /\ DOMAIN jReq = Jobs /\ DOMAIN jRun = Workers
  /\ \A j \in Jobs: RowFits(jReq[j], j, jCampaigns, jAssets)
  /\ \A w \in Workers: HasMade(jRun[w], jCampaigns, jAssets)

\* Campaigns and assets are only added, and an asset is drafted for good.
Grown(C, A, D, B) ==
  /\ C \subseteq D
  /\ \A x, y: /\ [id |-> x, campaign |-> y, drafted |-> TRUE] \in A
                   => [id |-> x, campaign |-> y, drafted |-> TRUE] \in B
              /\ [id |-> x, campaign |-> y, drafted |-> FALSE] \in A
                   => \E d \in BOOLEAN: [id |-> x, campaign |-> y, drafted |-> d] \in B

LEMMA GrownKeeps ==
  ASSUME NEW C, NEW A, NEW D, NEW B, Grown(C, A, D, B)
  PROVE  /\ \A row, j: RowFits(row, j, C, A) => RowFits(row, j, D, B)
         /\ \A x: HasMade(x, C, A) => HasMade(x, D, B)
  <1>1. \A id, idea: CampaignThere(C, id, idea) => CampaignThere(D, id, idea)
    BY DEF Grown, CampaignThere
  <1>2. \A x: AssetRow(x, TRUE) \in A => AssetRow(x, TRUE) \in B
    BY DEF Grown, AssetRow
  <1>3. \A x: (\E d \in BOOLEAN: AssetRow(x, d) \in A)
                => \E d \in BOOLEAN: AssetRow(x, d) \in B
    <2> SUFFICES ASSUME NEW x, NEW d \in BOOLEAN, AssetRow(x, d) \in A
                 PROVE  \E e \in BOOLEAN: AssetRow(x, e) \in B
      OBVIOUS
    <2>1. CASE d = TRUE
      BY <2>1, <1>2
    <2>2. CASE d = FALSE
      BY <2>2 DEF Grown, AssetRow
    <2>3. QED
      BY <2>1, <2>2
  <1>4. \A row, j: Made(row, j, C, A) => Made(row, j, D, B)
    BY <1>1, <1>2 DEF Made
  <1>5. \A row, j: RowFits(row, j, C, A) => RowFits(row, j, D, B)
    BY <1>4 DEF RowFits
  <1>6. \A x: HasMade(x, C, A) => HasMade(x, D, B)
    BY <1>1, <1>2, <1>3 DEF HasMade
  <1>7. QED
    BY <1>5, <1>6

LEMMA GrownSame ==
  ASSUME NEW C, NEW A PROVE Grown(C, A, C, A)
  BY DEF Grown

\* It is enough to look at the request and the process that move.
LEMMA OneMoves ==
  ASSUME CreationInv, NEW w \in Workers, NEW x, NEW j \in Jobs,
         DOMAIN jReq' = Jobs, \A k \in Jobs \ {j}: jReq'[k] = jReq[k],
         \/ jReq'[j] = jReq[j]
         \/ RowFits(jReq'[j], j, jCampaigns', jAssets'),
         jRun' = [jRun EXCEPT ![w] = x], HasMade(x, jCampaigns', jAssets'),
         Grown(jCampaigns, jAssets, jCampaigns', jAssets')
  PROVE  CreationInv'
  <1>1. DOMAIN jReq' = Jobs /\ DOMAIN jRun' = Workers
    BY DEF CreationInv
  <1>2. ASSUME NEW k \in Jobs PROVE RowFits(jReq'[k], k, jCampaigns', jAssets')
    <2>1. CASE jReq'[k] = jReq[k]
      BY <2>1, GrownKeeps DEF CreationInv
    <2>2. CASE jReq'[k] # jReq[k]
      BY <2>2
    <2>3. QED
      BY <2>1, <2>2
  <1>3. ASSUME NEW v \in Workers PROVE HasMade(jRun'[v], jCampaigns', jAssets')
    <2>1. CASE v = w
      BY <2>1 DEF CreationInv
    <2>2. CASE v # w
      <3>1. jRun'[v] = jRun[v] /\ HasMade(jRun[v], jCampaigns, jAssets)
        BY <2>2 DEF CreationInv
      <3>2. QED
        BY <3>1, GrownKeeps
    <2>3. QED
      BY <2>1, <2>2
  <1>4. QED
    BY <1>1, <1>2, <1>3 DEF CreationInv

\* Going on to another stage.
LEMMA GoesOn ==
  ASSUME CreationInv, NEW w \in Workers, NEW l, Creation!Goto(w, l)
  PROVE  \E x: /\ jRun' = [jRun EXCEPT ![w] = x] /\ DOMAIN x = RunFields
               /\ x.pc = l /\ x.job = jRun[w].job /\ x.idea = jRun[w].idea
               /\ x.campaign = jRun[w].campaign /\ x.asset = jRun[w].asset
  <1> DEFINE x == [jRun[w] EXCEPT !.pc = l]
  <1>1. DOMAIN jRun[w] = RunFields
    BY DEF CreationInv, HasMade
  <1>2. /\ DOMAIN x = RunFields /\ x.pc = l /\ x.job = jRun[w].job
        /\ x.idea = jRun[w].idea /\ x.campaign = jRun[w].campaign
        /\ x.asset = jRun[w].asset
    BY <1>1 DEF RunFields
  <1>3. jRun' = [jRun EXCEPT ![w] = x]
    BY DEF Creation!Goto
  <1> HIDE DEF x
  <1>4. QED
    BY <1>2, <1>3

LEMMA IdleFits ==
  ASSUME NEW C, NEW A PROVE HasMade(Creation!Idle, C, A)
  BY DEF HasMade, Creation!Idle, RunFields, Stages

LEMMA OwnsUnfinished ==
  ASSUME Creation!CreationAssumption, CreationInv, NEW w \in Workers,
         jRun[w].job \in Jobs, Creation!Holds(w)
  PROVE  jReq[jRun[w].job].status \notin Creation!Final
  BY DEF Creation!CreationAssumption, CreationInv, RowFits, Creation!Holds, Creation!Job

\* An advance moves an unfinished request of this process, or none.
LEMMA Advances ==
  ASSUME Creation!CreationAssumption, CreationInv, NEW w \in Workers,
         NEW at, NEW status, NEW next, NEW patch,
         at \in Stages \ {"idle"},
         next \in Stages \ {"asset", "generate", "finish"},
         status = "ready" => Made(patch, jRun[w].job, jCampaigns, jAssets),
         Creation!Advance(w, at, status, next, patch)
  PROVE  CreationInv' /\ Creation!FinalKept
  <1> DEFINE j == jRun[w].job
             row == jReq'[j]
  <1>1. j \in Jobs /\ DOMAIN jReq[j] = JobFields /\ UNCHANGED <<jCampaigns, jAssets>>
    BY DEF CreationInv, HasMade, RowFits, Creation!Advance, Creation!At
  <1>2. CASE Creation!Holds(w)
    <2>1. /\ DOMAIN jReq' = DOMAIN jReq
          /\ \A k \in Jobs \ {j}: jReq'[k] = jReq[k]
      BY <1>1, <1>2 DEF Creation!Advance, CreationInv
    <2>2. /\ DOMAIN row = JobFields /\ row.status = status
          /\ status \in Creation!Final => row.owner = None /\ row.live = FALSE
          /\ row.idea = patch.idea /\ row.campaign = patch.campaign
          /\ row.asset = patch.asset
      <3>1. row = Creation!Patched(jReq[j], status, patch)
        BY <1>1, <1>2 DEF Creation!Advance, CreationInv, Creation!Job
      <3>2. QED
        BY <3>1, <1>1 DEF JobFields, Creation!Patched
    <2> HIDE DEF row
    <2>3. RowFits(row, j, jCampaigns', jAssets')
      BY <1>1, <2>2 DEF RowFits, Made, AssetRow
    <2>4. PICK x: jRun' = [jRun EXCEPT ![w] = x] /\ HasMade(x, jCampaigns', jAssets')
      <3>1. CASE next = "idle"
        BY <1>2, <3>1, IdleFits DEF Creation!Advance
      <3>2. CASE next # "idle"
        <4>1. Creation!Goto(w, next)
          BY <1>2, <3>2 DEF Creation!Advance
        <4>2. PICK x: /\ jRun' = [jRun EXCEPT ![w] = x] /\ DOMAIN x = RunFields
                      /\ x.pc = next /\ x.job = j
          BY <4>1, GoesOn
        <4>3. HasMade(x, jCampaigns', jAssets')
          BY <1>1, <4>2 DEF HasMade
        <4>4. QED
          BY <4>2, <4>3
      <3>3. QED
        BY <3>1, <3>2
    <2>5. CreationInv'
      <3>1. DOMAIN jReq' = Jobs /\ Grown(jCampaigns, jAssets, jCampaigns', jAssets')
        BY <1>1, <2>1, GrownSame DEF CreationInv
      <3>2. RowFits(jReq'[j], j, jCampaigns', jAssets')
        BY <2>3 DEF row
      <3>3. QED
        BY <1>1, <2>1, <2>4, <3>1, <3>2, OneMoves
    <2>6. Creation!FinalKept
      BY <1>1, <1>2, <2>1, OwnsUnfinished DEF Creation!FinalKept, CreationInv
    <2>7. QED
      BY <2>5, <2>6
  <1>3. CASE ~Creation!Holds(w)
    <2>1. jReq' = jReq /\ Creation!Goto(w, "catch")
      BY <1>3 DEF Creation!Advance
    <2>2. PICK x: /\ jRun' = [jRun EXCEPT ![w] = x] /\ DOMAIN x = RunFields
                  /\ x.pc = "catch" /\ x.job = j
      BY <2>1, GoesOn
    <2>3. HasMade(x, jCampaigns', jAssets')
      BY <1>1, <2>2 DEF HasMade, Stages
    <2>4. CreationInv'
      <3>1. DOMAIN jReq' = Jobs /\ Grown(jCampaigns, jAssets, jCampaigns', jAssets')
        BY <1>1, <2>1, GrownSame DEF CreationInv
      <3>2. QED
        BY <1>1, <2>1, <2>2, <2>3, <3>1, OneMoves
    <2>5. QED
      BY <2>1, <2>4 DEF Creation!FinalKept
  <1>4. QED
    BY <1>2, <1>3

\* A process goes on by itself: the requests stay as they are.
LEMMA WorksAlone ==
  ASSUME CreationInv, NEW w \in Workers, NEW x, jReq' = jReq, jRun[w].pc # "idle",
         jRun' = [jRun EXCEPT ![w] = x], HasMade(x, jCampaigns', jAssets'),
         Grown(jCampaigns, jAssets, jCampaigns', jAssets')
  PROVE  CreationInv' /\ Creation!FinalKept
  <1>1. jRun[w].job \in Jobs
    BY DEF CreationInv, HasMade
  <1>2. CreationInv'
    BY <1>1, OneMoves DEF CreationInv
  <1>3. QED
    BY <1>2 DEF Creation!FinalKept

LEMMA Writes ==
  ASSUME Creation!CreationAssumption, CreationInv, NEW w \in Workers,
         \/ Creation!Understand(w) \/ Creation!RecordIdea(w)
         \/ Creation!Researching(w) \/ Creation!ChooseAngle(w)
         \/ Creation!BuildCampaign(w) \/ Creation!Finish(w) \/ Creation!GiveUp(w)
  PROVE  CreationInv' /\ Creation!FinalKept
  <1>1. CASE Creation!Understand(w)
    BY <1>1, Advances, Zenon DEF Creation!Understand, Stages
  <1>2. CASE Creation!RecordIdea(w)
    BY <1>2, Advances DEF Creation!RecordIdea, Stages
  <1>3. CASE Creation!Researching(w)
    BY <1>3, Advances DEF Creation!Researching, Stages
  <1>4. CASE Creation!ChooseAngle(w)
    BY <1>4, Advances DEF Creation!ChooseAngle, Stages
  <1>5. CASE Creation!BuildCampaign(w)
    BY <1>5, Advances DEF Creation!BuildCampaign, Stages
  <1>6. CASE Creation!Finish(w)
    <2> DEFINE patch == [Creation!WithAngle(w) EXCEPT
                           !.campaign = jRun[w].campaign, !.asset = jRun[w].asset]
    <2>1. Creation!Advance(w, "finish", "ready", "idle", patch)
      BY <1>6 DEF Creation!Finish
    <2>2. jRun[w].pc = "finish" /\ HasMade(jRun[w], jCampaigns, jAssets)
      BY <2>1 DEF Creation!Advance, Creation!At, CreationInv
    <2>3. DOMAIN jReq[jRun[w].job] = JobFields
      BY <2>2 DEF CreationInv, HasMade, RowFits
    <2>4. /\ patch.idea = jRun[w].idea /\ patch.campaign = jRun[w].campaign
          /\ patch.asset = jRun[w].asset
      BY <2>3 DEF Creation!WithAngle, Creation!WithIdea, Creation!Job, JobFields
    <2> HIDE DEF patch
    <2>5. Made(patch, jRun[w].job, jCampaigns, jAssets)
      BY <2>2, <2>4 DEF Made, HasMade, AssetRow
    <2>6. QED
      BY <2>1, <2>5, Advances DEF Stages
  <1>7. CASE Creation!GiveUp(w)
    <2>1. CASE Creation!Advance(w, "catch", "needs-attention", "idle", Creation!Job(w))
      BY <2>1, Advances DEF Stages
    <2>2. CASE /\ Creation!At(w, "catch") /\ jRun' = [jRun EXCEPT ![w] = Creation!Idle]
               /\ UNCHANGED <<jReq, jCampaigns, jAssets>>
      BY <2>2, IdleFits, GrownSame, WorksAlone DEF Creation!At
    <2>3. QED
      BY <1>7, <2>1, <2>2 DEF Creation!GiveUp
  <1>8. QED
    BY <1>1, <1>2, <1>3, <1>4, <1>5, <1>6, <1>7

\* A process that has just thought of an idea, read, chosen or failed: there
\* is nothing it has to have made.
Early == {"understand", "idea", "record", "read", "develop", "choose",
          "select", "build", "campaign", "create", "catch"}

LEMMA Thinks ==
  ASSUME Creation!CreationAssumption, CreationInv, NEW w \in Workers,
         \/ Creation!CreateIdea(w) \/ Creation!Read(w) \/ Creation!Develop(w)
         \/ Creation!SelectAngle(w) \/ Creation!Throws(w) \/ Creation!Crash(w)
         \/ Creation!FindCampaign(w)
  PROVE  CreationInv' /\ Creation!FinalKept
  <1> DEFINE p == jRun[w]
  <1> /\ w \in DOMAIN jRun /\ DOMAIN p = RunFields
      /\ p.pc # "idle" => p.job \in Jobs
    BY DEF CreationInv, HasMade
  <1>1. Grown(jCampaigns, jAssets, jCampaigns, jAssets)
    BY GrownSame
  <1>2. p.pc # "idle" /\ UNCHANGED <<jReq, jCampaigns, jAssets>>
    <2>1. CASE Creation!CreateIdea(w)
      BY <2>1 DEF Creation!CreateIdea, Creation!At
    <2>2. CASE Creation!Read(w) \/ Creation!Develop(w)
      BY <2>2 DEF Creation!Read, Creation!Develop, Creation!At
    <2>3. CASE Creation!SelectAngle(w)
      BY <2>3 DEF Creation!SelectAngle, Creation!At
    <2>4. CASE Creation!Throws(w)
      BY <2>4 DEF Creation!Throws, Creation!CreationAssumption
    <2>5. CASE Creation!Crash(w)
      BY <2>5 DEF Creation!Crash, Creation!At
    <2>6. CASE Creation!FindCampaign(w)
      BY <2>6 DEF Creation!FindCampaign, Creation!At
    <2>7. QED
      BY <2>1, <2>2, <2>3, <2>4, <2>5, <2>6
  <1>3. \E x: jRun' = [jRun EXCEPT ![w] = x] /\ HasMade(x, jCampaigns, jAssets)
    <2> DEFINE Unmade(x) == DOMAIN x = RunFields /\ x.pc \in Early /\ x.job = p.job
    <2>1. ASSUME NEW x, Unmade(x) PROVE HasMade(x, jCampaigns, jAssets)
      BY <1>2, <2>1 DEF HasMade, Early, Stages
    <2>2. ASSUME NEW l \in Early, Creation!Goto(w, l)
          PROVE  \E x: jRun' = [jRun EXCEPT ![w] = x] /\ Unmade(x)
      BY <2>2, GoesOn
    <2>3. CASE Creation!CreateIdea(w)
      <3> DEFINE x == [p EXCEPT !.idea = Creation!Me(w), !.pc = "record"]
      <3>1. jRun' = [jRun EXCEPT ![w] = x]
        BY <2>3 DEF Creation!CreateIdea
      <3>2. Unmade(x)
        BY DEF Early, RunFields
      <3> HIDE DEF x
      <3>3. QED
        BY <3>1, <3>2, <2>1
    <2>4. CASE Creation!Read(w) \/ Creation!Develop(w)
      <3> DEFINE x == [p EXCEPT !.ver = jAngle[p.idea].ver,
                                !.sel = jAngle[p.idea].sel, !.pc = "choose"]
      <3>1. jRun' = [jRun EXCEPT ![w] = x]
        BY <2>4 DEF Creation!Read, Creation!Develop, Creation!Seen
      <3>2. Unmade(x)
        BY DEF Early, RunFields
      <3> HIDE DEF x
      <3>3. QED
        BY <3>1, <3>2, <2>1
    <2>5. CASE Creation!SelectAngle(w)
      <3>1. Creation!Goto(w, "build") \/ Creation!Goto(w, "catch")
        BY <2>5 DEF Creation!SelectAngle
      <3>2. QED
        BY <3>1, <2>1, <2>2 DEF Early
    <2>6. CASE Creation!Throws(w)
      <3>1. Creation!Goto(w, "catch")
        BY <2>6 DEF Creation!Throws
      <3>2. QED
        BY <3>1, <2>1, <2>2 DEF Early
    <2>7. CASE Creation!Crash(w)
      BY <2>7, IdleFits DEF Creation!Crash
    <2>8. CASE Creation!FindCampaign(w)
      <3>1. CASE Creation!Goto(w, "create")
        BY <3>1, <2>1, <2>2 DEF Early
      <3>2. CASE ~Creation!Goto(w, "create")
        <4>1. PICK c \in jCampaigns:
                /\ Creation!HasCampaign(w, c)
                /\ jRun' = [jRun EXCEPT ![w].campaign = c.id, ![w].pc = Creation!Draft(w)]
          BY <2>8, <3>2 DEF Creation!FindCampaign
        <4> DEFINE x == [p EXCEPT !.campaign = c.id, !.pc = Creation!Draft(w)]
        <4>2. jRun' = [jRun EXCEPT ![w] = x]
          BY <4>1
        <4>3. /\ DOMAIN x = RunFields /\ x.pc = Creation!Draft(w) /\ x.job = p.job
              /\ x.campaign = c.id /\ x.idea = p.idea
          BY DEF RunFields
        <4> HIDE DEF x
        <4>4. CampaignThere(jCampaigns, x.campaign, x.idea)
          BY <4>1, <4>3 DEF CampaignThere, Creation!HasCampaign
        <4>5. HasMade(x, jCampaigns, jAssets)
          BY <1>2, <4>3, <4>4 DEF HasMade, Stages, Creation!Draft
        <4>6. QED
          BY <4>2, <4>5
      <3>3. QED
        BY <3>1, <3>2
    <2>9. QED
      BY <2>3, <2>4, <2>5, <2>6, <2>7, <2>8,
         Creation!CreateIdea(w) \/ Creation!Read(w) \/ Creation!Develop(w)
         \/ Creation!SelectAngle(w) \/ Creation!Throws(w) \/ Creation!Crash(w)
         \/ Creation!FindCampaign(w)
  <1>4. QED
    BY <1>1, <1>2, <1>3, WorksAlone

LEMMA DraftedIs ==
  ASSUME NEW i, NEW c, NEW d
  PROVE  Creation!Drafted([id |-> i, campaign |-> c, drafted |-> d])
           = [id |-> i, campaign |-> c, drafted |-> TRUE]
  <1>1. ASSUME NEW a \in [id: {i}, campaign: {c}, drafted: {d}]
        PROVE  Creation!Drafted(a) \in [id: {i}, campaign: {c}, drafted: {TRUE}]
    BY DEF Creation!Drafted
  <1>2. ASSUME NEW b \in [id: {i}, campaign: {c}, drafted: {TRUE}]
        PROVE  b = [id |-> i, campaign |-> c, drafted |-> TRUE]
    OBVIOUS
  <1>3. [id |-> i, campaign |-> c, drafted |-> d] \in [id: {i}, campaign: {c}, drafted: {d}]
    OBVIOUS
  <1>4. QED
    BY <1>1, <1>2, <1>3

LEMMA Makes ==
  ASSUME CreationInv, NEW w \in Workers,
         Creation!CreateCampaign(w) \/ Creation!SaveAsset(w) \/ Creation!Generate(w)
  PROVE  CreationInv' /\ Creation!FinalKept
  <1> DEFINE p == jRun[w]
  <1> /\ w \in DOMAIN jRun /\ DOMAIN p = RunFields
      /\ p.pc # "idle" => p.job \in Jobs
    BY DEF CreationInv, HasMade
  <1>1. CASE Creation!CreateCampaign(w)
    <2> DEFINE x == [p EXCEPT !.campaign = Creation!Me(w), !.pc = Creation!Draft(w)]
               c == [id |-> Creation!Me(w), idea |-> p.idea, angle |-> jAngle[p.idea].sel]
    <2>1. /\ p.pc = "create" /\ UNCHANGED <<jReq, jAssets>>
          /\ jCampaigns' = jCampaigns \cup {c} /\ jRun' = [jRun EXCEPT ![w] = x]
      BY <1>1 DEF Creation!CreateCampaign, Creation!At
    <2>2. /\ DOMAIN x = RunFields /\ x.pc = Creation!Draft(w) /\ x.job = p.job
          /\ x.campaign = Creation!Me(w) /\ x.idea = p.idea
      BY DEF RunFields
    <2>c. c.id = Creation!Me(w) /\ c.idea = p.idea
      OBVIOUS
    <2> HIDE DEF x, c
    <2>3. CampaignThere(jCampaigns', x.campaign, x.idea)
      BY <2>1, <2>2, <2>c DEF CampaignThere
    <2>4. HasMade(x, jCampaigns', jAssets')
      BY <2>1, <2>2, <2>3 DEF HasMade, Stages, Creation!Draft
    <2>5. Grown(jCampaigns, jAssets, jCampaigns', jAssets')
      BY <2>1 DEF Grown
    <2>6. QED
      BY <2>1, <2>4, <2>5, WorksAlone
  <1>2. CASE Creation!SaveAsset(w)
    <2> DEFINE x == [p EXCEPT !.asset = Creation!Me(w), !.pc = "generate"]
               a == [id |-> Creation!Me(w), campaign |-> p.campaign, drafted |-> FALSE]
    <2>1. /\ p.pc = "asset" /\ UNCHANGED <<jReq, jCampaigns>>
          /\ jAssets' = jAssets \cup {a} /\ jRun' = [jRun EXCEPT ![w] = x]
      BY <1>2 DEF Creation!SaveAsset, Creation!At
    <2>2. /\ DOMAIN x = RunFields /\ x.pc = "generate" /\ x.job = p.job
          /\ x.asset = Creation!Me(w) /\ x.idea = p.idea /\ x.campaign = p.campaign
      BY DEF RunFields
    <2> HIDE DEF x
    <2>3. AssetRow(x, FALSE) \in jAssets'
      BY <2>1, <2>2 DEF AssetRow
    <2>4. CampaignThere(jCampaigns', x.campaign, x.idea)
      BY <2>1, <2>2 DEF CreationInv, HasMade, CampaignThere
    <2>5. HasMade(x, jCampaigns', jAssets')
      BY <2>1, <2>2, <2>3, <2>4 DEF HasMade, Stages
    <2>6. Grown(jCampaigns, jAssets, jCampaigns', jAssets')
      BY <2>1 DEF Grown
    <2>7. QED
      BY <2>1, <2>5, <2>6, WorksAlone
  <1>3. CASE Creation!Generate(w)
    <2>1. /\ p.pc = "generate" /\ UNCHANGED <<jReq, jCampaigns>>
          /\ jAssets' = {IF a.id = p.asset THEN Creation!Drafted(a) ELSE a: a \in jAssets}
      BY <1>3 DEF Creation!Generate, Creation!At
    <2>2. PICK x: /\ jRun' = [jRun EXCEPT ![w] = x] /\ DOMAIN x = RunFields
                  /\ x.pc = "finish" /\ x.job = p.job /\ x.idea = p.idea
                  /\ x.campaign = p.campaign /\ x.asset = p.asset
      BY <1>3, GoesOn DEF Creation!Generate
    <2>3. \A i, c, d: Creation!Drafted([id |-> i, campaign |-> c, drafted |-> d])
                        = [id |-> i, campaign |-> c, drafted |-> TRUE]
      BY DraftedIs
    <2>4. AssetRow(x, TRUE) \in jAssets'
      <3>1. PICK d \in BOOLEAN: AssetRow(p, d) \in jAssets
        BY <2>1 DEF CreationInv, HasMade
      <3>2. AssetRow(p, d).id = p.asset /\ Creation!Drafted(AssetRow(p, d)) = AssetRow(p, TRUE)
        BY <2>3 DEF AssetRow
      <3>3. AssetRow(p, TRUE) \in jAssets'
        BY <2>1, <3>1, <3>2
      <3>4. QED
        BY <2>2, <3>3 DEF AssetRow
    <2>5. CampaignThere(jCampaigns', x.campaign, x.idea)
      BY <2>1, <2>2 DEF CreationInv, HasMade, CampaignThere
    <2>6. HasMade(x, jCampaigns', jAssets')
      BY <2>1, <2>2, <2>4, <2>5 DEF HasMade, Stages
    <2>7. Grown(jCampaigns, jAssets, jCampaigns', jAssets')
      <3> DEFINE row(i, c, d) == [id |-> i, campaign |-> c, drafted |-> d]
      <3>1. ASSUME NEW i, NEW c, NEW d, row(i, c, d) \in jAssets
            PROVE  row(i, c, d) \in jAssets' \/ row(i, c, TRUE) \in jAssets'
        <4>1. CASE i = p.asset
          <5>1. row(i, c, d).id = p.asset
            BY <4>1
          <5>2. Creation!Drafted(row(i, c, d)) = row(i, c, TRUE)
            BY <2>3
          <5>3. QED
            BY <2>1, <3>1, <5>1, <5>2
        <4>2. CASE i # p.asset
          <5>1. row(i, c, d).id # p.asset
            BY <4>2
          <5>2. QED
            BY <2>1, <3>1, <5>1
        <4>3. QED
          BY <4>1, <4>2
      <3>2. QED
        BY <2>1, <3>1 DEF Grown
    <2>8. QED
      BY <2>1, <2>2, <2>6, <2>7, WorksAlone
  <1>4. QED
    BY <1>1, <1>2, <1>3

\* A request is only claimed, and its lease only expires, while it is unfinished.
LEMMA Leases ==
  ASSUME Creation!CreationAssumption, CreationInv, NEW j \in Jobs,
         (\E w \in Workers: Creation!Claim(w, j)) \/ Creation!Expire(j)
  PROVE  CreationInv' /\ Creation!FinalKept
  <1>1. /\ DOMAIN jReq = Jobs /\ DOMAIN jRun = Workers /\ RowFits(jReq[j], j, jCampaigns, jAssets)
        /\ \A v \in Workers: HasMade(jRun[v], jCampaigns, jAssets)
    BY DEF CreationInv
  <1>2. /\ UNCHANGED <<jCampaigns, jAssets>> /\ DOMAIN jReq' = Jobs
        /\ jReq[j].status \notin Creation!Final
        /\ \A k \in Jobs \ {j}: jReq'[k] = jReq[k]
        /\ DOMAIN jReq'[j] = JobFields /\ jReq'[j].status = jReq[j].status
    <2>1. CASE \E w \in Workers: Creation!Claim(w, j)
      <3>1. PICK w \in Workers: Creation!Claim(w, j)
        BY <2>1
      <3>2. UNCHANGED <<jCampaigns, jAssets>> /\ jReq[j].status \notin Creation!Final
        BY <3>1 DEF Creation!Claim, Creation!Claimable
      <3>3. jReq' = [jReq EXCEPT ![j].owner = Name[w], ![j].live = TRUE,
                                 ![j].attempt = @ + 1]
        BY <3>1 DEF Creation!Claim
      <3>4. /\ DOMAIN jReq' = Jobs /\ \A k \in Jobs \ {j}: jReq'[k] = jReq[k]
            /\ DOMAIN jReq'[j] = JobFields /\ jReq'[j].status = jReq[j].status
        BY <1>1, <3>3 DEF RowFits, JobFields
      <3>5. QED
        BY <3>2, <3>4
    <2>2. CASE Creation!Expire(j)
      BY <1>1, <2>2 DEF Creation!Expire, RowFits, JobFields
    <2>3. QED
      BY <2>1, <2>2
  <1>3. Creation!FinalKept
    BY <1>2 DEF Creation!FinalKept
  <1>4. RowFits(jReq'[j], j, jCampaigns', jAssets')
    BY <1>2 DEF RowFits, Creation!Final
  <1>5. DOMAIN jRun' = Workers /\ \A v \in Workers: HasMade(jRun'[v], jCampaigns, jAssets)
    <2>1. ASSUME NEW w \in Workers, Creation!Claim(w, j)
          PROVE  /\ DOMAIN jRun' = Workers
                 /\ \A v \in Workers: HasMade(jRun'[v], jCampaigns, jAssets)
      <3> DEFINE x == [Creation!Idle EXCEPT !.pc = "understand", !.job = j,
                         !.try = jReq[j].attempt + 1, !.idea = jReq[j].idea]
      <3>1. jRun' = [jRun EXCEPT ![w] = x]
        BY <2>1 DEF Creation!Claim
      <3>2. DOMAIN x = RunFields /\ x.pc = "understand" /\ x.job = j
        BY DEF Creation!Idle, RunFields
      <3> HIDE DEF x
      <3>3. HasMade(x, jCampaigns, jAssets)
        BY <3>2 DEF HasMade, Stages
      <3>4. QED
        BY <1>1, <3>1, <3>3
    <2>2. CASE Creation!Expire(j)
      BY <1>1, <2>2 DEF Creation!Expire
    <2>3. QED
      BY <2>1, <2>2
  <1>6. ASSUME NEW k \in Jobs PROVE RowFits(jReq'[k], k, jCampaigns', jAssets')
    <2>1. CASE k = j
      BY <2>1, <1>4
    <2>2. CASE k # j
      BY <2>2, <1>2 DEF CreationInv
    <2>3. QED
      BY <2>1, <2>2
  <1>7. CreationInv'
    BY <1>2, <1>5, <1>6 DEF CreationInv
  <1>8. QED
    BY <1>3, <1>7

LEMMA CreationStep ==
  ASSUME Creation!CreationAssumption, CreationInv, [Creation!Next]_(Creation!vars)
  PROVE  CreationInv' /\ Creation!FinalKept
  <1>1. CASE UNCHANGED <<jReq, jCampaigns, jAssets, jRun>>
    BY <1>1 DEF CreationInv, Creation!FinalKept
  <1>2. ASSUME NEW w \in Workers, Creation!Tick(w) \/ Creation!Crash(w)
        PROVE  CreationInv' /\ Creation!FinalKept
    <2>1. CASE \/ Creation!Understand(w) \/ Creation!RecordIdea(w)
               \/ Creation!Researching(w) \/ Creation!ChooseAngle(w)
               \/ Creation!BuildCampaign(w) \/ Creation!Finish(w) \/ Creation!GiveUp(w)
      BY <2>1, Writes
    <2>2. CASE \/ Creation!CreateIdea(w) \/ Creation!Read(w) \/ Creation!Develop(w)
               \/ Creation!SelectAngle(w) \/ Creation!Throws(w) \/ Creation!Crash(w)
               \/ Creation!FindCampaign(w)
      BY <2>2, Thinks
    <2>3. CASE Creation!CreateCampaign(w) \/ Creation!SaveAsset(w) \/ Creation!Generate(w)
      BY <2>3, Makes
    <2>4. CASE \E j \in Jobs: Creation!Claim(w, j)
      BY <2>4, Leases
    <2>5. QED
      BY <1>2, <2>1, <2>2, <2>3, <2>4 DEF Creation!Tick, Creation!Step
  <1>3. ASSUME NEW j \in Jobs, Creation!Expire(j)
        PROVE  CreationInv' /\ Creation!FinalKept
    BY <1>3, Leases
  <1>4. CASE \E i \in Creation!Ideas, a \in Angles: Creation!UserSelects(i, a)
    BY <1>1, <1>4 DEF Creation!UserSelects
  <1>5. QED
    BY <1>1, <1>2, <1>3, <1>4 DEF Creation!Next, Creation!vars

LEMMA CreationBegins ==
  ASSUME Creation!Init PROVE CreationInv
  <1>1. DOMAIN jReq = Jobs /\ DOMAIN jRun = Workers
    BY DEF Creation!Init
  <1>2. \A j \in Jobs: RowFits(jReq[j], j, jCampaigns, jAssets)
    BY DEF Creation!Init, RowFits, JobFields, Creation!Final
  <1>3. \A w \in Workers: HasMade(jRun[w], jCampaigns, jAssets)
    BY IdleFits DEF Creation!Init
  <1>4. QED
    BY <1>1, <1>2, <1>3 DEF CreationInv

(* "Ready" shows a whole result, and what a finished request shows does    *)
(* not change, for any requests, processes, names they share, steps that   *)
(* fail and leases that expire (claim, advance and run of the queue behind *)
(* "create this for me").                                                  *)
THEOREM CreationHolds ==
  ASSUME Creation!CreationAssumption
  PROVE  Creation!Spec => []Creation!ReadyIsWhole /\ Creation!FinalStays
  <1>1. CreationInv => Creation!ReadyIsWhole
    <2> SUFFICES ASSUME CreationInv, NEW j \in Jobs, jReq[j].status = "ready"
                 PROVE  /\ \E c \in jCampaigns: c.id = jReq[j].campaign /\ c.idea = jReq[j].idea
                        /\ \/ j \in CampaignOnly
                           \/ Creation!Drafted([id |-> jReq[j].asset,
                                campaign |-> jReq[j].campaign, drafted |-> FALSE]) \in jAssets
      BY DEF Creation!ReadyIsWhole
    <2>1. Made(jReq[j], j, jCampaigns, jAssets)
      BY DEF CreationInv, RowFits
    <2>2. Creation!Drafted([id |-> jReq[j].asset, campaign |-> jReq[j].campaign,
                            drafted |-> FALSE]) = AssetRow(jReq[j], TRUE)
      BY DraftedIs DEF AssetRow
    <2>3. QED
      BY <2>1, <2>2 DEF Made, CampaignThere
  <1>2. Creation!Init => CreationInv
    BY CreationBegins
  <1>3. CreationInv /\ [Creation!Next]_(Creation!vars) => CreationInv'
    BY CreationStep
  <1>4. CreationInv /\ [Creation!Next]_(Creation!vars)
          => [Creation!FinalKept]_(Creation!vars)
    BY CreationStep
  <1>5. QED
    BY <1>1, <1>2, <1>3, <1>4, PTL DEF Creation!Spec, Creation!FinalStays

-----------------------------------------------------------------------------
\* The rows and the processes of the creation queue, by their types.
Ideas == Creation!Ideas
IdsMade == Creation!Made
Statuses == {"queued", "understanding-goal", "researching", "choosing-angle",
             "building-campaign"} \cup Creation!Final
RowType == [status: Statuses, owner: {Name[w]: w \in Workers} \cup {None},
            live: BOOLEAN, attempt: 0..MaxAttempts,
            idea: Ideas \cup {None}, angle: Angles \cup {None},
            campaign: IdsMade \cup {None}, asset: IdsMade \cup {None}]
RunType == [pc: Stages, job: Jobs \cup {None}, try: 0..MaxAttempts,
            idea: Ideas \cup {None}, ver: Nat, sel: Angles \cup {None},
            campaign: IdsMade \cup {None}, asset: IdsMade \cup {None}]
AngleType == [ready: BOOLEAN, sel: Angles \cup {None}, ver: Nat \ {0}]

\* Stages that come before the request has an idea at hand.
Unthought == {"idle", "understand", "idea", "catch"}
HasCampaigned == {"asset", "generate", "finish"}
RunTyped(x) ==
  /\ x \in RunType
  /\ x.pc = "idle" <=> x = Creation!Idle
  /\ x.pc # "idle" => x.job \in Jobs /\ x.try \in 1..MaxAttempts
  /\ x.pc \notin Unthought => x.idea \in Ideas
  /\ x.pc \in HasCampaigned => x.campaign \in IdsMade
RowTyped(row) ==
  /\ row \in RowType
  /\ row.status \notin Creation!Final /\ ~row.live => row.attempt < MaxAttempts
  /\ row.status \in Creation!Final => row.owner = None

TypedInv ==
  /\ jReq \in [Jobs -> RowType] /\ DOMAIN jReq = Jobs
  /\ \A j \in Jobs: RowTyped(jReq[j])
  /\ DOMAIN jRun = Workers /\ \A w \in Workers: RunTyped(jRun[w])
  /\ DOMAIN jAngle = Ideas /\ \A i \in Ideas: jAngle[i] \in AngleType
  /\ jCampaigns \subseteq [id: IdsMade, idea: Ideas, angle: Angles \cup {None}]
  /\ jAssets \subseteq [id: IdsMade, campaign: IdsMade, drafted: BOOLEAN]

LEMMA RunParts ==
  ASSUME NEW p \in RunType
  PROVE  /\ p.pc \in Stages /\ p.job \in Jobs \cup {None} /\ p.try \in 0..MaxAttempts
         /\ p.idea \in Ideas \cup {None} /\ p.ver \in Nat /\ p.sel \in Angles \cup {None}
         /\ p.campaign \in IdsMade \cup {None} /\ p.asset \in IdsMade \cup {None}
         /\ \A l \in Stages: [p EXCEPT !.pc = l] \in RunType
         /\ p = [pc |-> p.pc, job |-> p.job, try |-> p.try, idea |-> p.idea,
                 ver |-> p.ver, sel |-> p.sel, campaign |-> p.campaign, asset |-> p.asset]
  BY DEF RunType

LEMMA RowParts ==
  ASSUME NEW r \in RowType
  PROVE  /\ r.status \in Statuses /\ r.owner \in {Name[w]: w \in Workers} \cup {None}
         /\ r.live \in BOOLEAN /\ r.attempt \in 0..MaxAttempts
         /\ r.idea \in Ideas \cup {None} /\ r.angle \in Angles \cup {None}
         /\ r.campaign \in IdsMade \cup {None} /\ r.asset \in IdsMade \cup {None}
         /\ r = [status |-> r.status, owner |-> r.owner, live |-> r.live,
                 attempt |-> r.attempt, idea |-> r.idea, angle |-> r.angle,
                 campaign |-> r.campaign, asset |-> r.asset]
  BY DEF RowType

\* What an advance writes.
LEMMA PatchedIs ==
  ASSUME Creation!CreationAssumption, NEW r, RowTyped(r),
         r.status \notin Creation!Final, NEW s \in Statuses \ {"queued"}, NEW patch \in RowType
  PROVE  LET q == Creation!Patched(r, s, patch)
         IN /\ RowTyped(q) /\ q.status = s /\ q.attempt = r.attempt
            /\ q.idea = patch.idea /\ q.angle = patch.angle
            /\ q.campaign = patch.campaign /\ q.asset = patch.asset
            /\ q.owner = IF s \in Creation!Final THEN None ELSE r.owner
            /\ q.live = (r.live /\ s \notin Creation!Final)
  <1> DEFINE q == Creation!Patched(r, s, patch)
             e == IF s \in Creation!Final THEN None ELSE r.owner
             l == r.live /\ s \notin Creation!Final
             t == [status |-> s, owner |-> e, live |-> l, attempt |-> r.attempt,
                   idea |-> patch.idea, angle |-> patch.angle,
                   campaign |-> patch.campaign, asset |-> patch.asset]
  <1>1. r \in RowType
    BY DEF RowTyped
  <1>2. q = t
    <2>1. DOMAIN r = {"status", "owner", "live", "attempt", "idea", "angle", "campaign", "asset"}
      BY <1>1 DEF RowType
    <2>2. q = [r EXCEPT !.status = s, !.owner = e, !.live = l, !.idea = patch.idea,
                        !.angle = patch.angle, !.campaign = patch.campaign,
                        !.asset = patch.asset]
      BY Zenon DEF Creation!Patched
    <2> HIDE DEF q, e, l
    <2>3. QED
      BY <2>1, <2>2
  <1>3. e \in {Name[w]: w \in Workers} \cup {None} /\ l \in BOOLEAN
    BY <1>1, RowParts
  <1>4. t \in RowType
    <2> HIDE DEF e, l
    <2>1. QED
      BY <1>1, <1>3, RowParts DEF RowType
  <1>5. s \notin Creation!Final /\ ~l => r.attempt < MaxAttempts
    <2>1. ASSUME s \notin Creation!Final, ~l PROVE r.attempt < MaxAttempts
      <3>1. ~r.live
        BY <2>1, Zenon
      <3>2. QED
        BY <2>1, <3>1 DEF RowTyped
    <2>2. QED
      BY <2>1
  <1> HIDE DEF e, l
  <1>6. /\ t.status = s /\ t.owner = e /\ t.live = l /\ t.attempt = r.attempt
        /\ t.idea = patch.idea /\ t.angle = patch.angle
        /\ t.campaign = patch.campaign /\ t.asset = patch.asset
    OBVIOUS
  <1>7. RowTyped(t)
    <2>1. s \in Creation!Final => e = None
      BY DEF e
    <2>2. QED
      BY <2>1, <1>4, <1>5, <1>6 DEF RowTyped
  <1> HIDE DEF q, t
  <1>8. QED
    BY <1>2, <1>6, <1>7 DEF q, e, l

\* It is enough to look at the process that moves, and its request.
LEMMA TypedMoves ==
  ASSUME TypedInv, NEW w \in Workers, NEW x, RunTyped(x),
         jRun' = [jRun EXCEPT ![w] = x],
         \/ jReq' = jReq
         \/ \E j \in Jobs: \E q: RowTyped(q) /\ jReq' = [jReq EXCEPT ![j] = q],
         DOMAIN jAngle' = Ideas, \A i \in Ideas: jAngle'[i] \in AngleType,
         jCampaigns' \subseteq [id: IdsMade, idea: Ideas, angle: Angles \cup {None}],
         jAssets' \subseteq [id: IdsMade, campaign: IdsMade, drafted: BOOLEAN]
  PROVE  TypedInv'
  <1>1. DOMAIN jRun' = Workers /\ \A v \in Workers: RunTyped(jRun'[v])
    <2> SUFFICES ASSUME NEW v \in Workers PROVE DOMAIN jRun' = Workers /\ RunTyped(jRun'[v])
      BY DEF TypedInv
    <2>1. CASE v = w
      BY <2>1 DEF TypedInv
    <2>2. CASE v # w
      BY <2>2 DEF TypedInv
    <2>3. QED
      BY <2>1, <2>2
  <1>2. jReq' \in [Jobs -> RowType] /\ \A k \in Jobs: RowTyped(jReq'[k])
    <2>1. ASSUME NEW j \in Jobs, NEW q, RowTyped(q), jReq' = [jReq EXCEPT ![j] = q]
          PROVE  jReq' \in [Jobs -> RowType] /\ \A k \in Jobs: RowTyped(jReq'[k])
      <3>1. q \in RowType
        BY <2>1 DEF RowTyped
      <3>2. QED
        BY <2>1, <3>1 DEF TypedInv
    <2>2. CASE jReq' = jReq
      BY <2>2 DEF TypedInv
    <2>3. QED
      BY <2>1, <2>2
  <1>3. QED
    BY <1>1, <1>2 DEF TypedInv

\* Going on to another stage with the same at hand.
LEMMA TypedGoes ==
  ASSUME TypedInv, NEW w \in Workers, NEW l \in Stages \ {"idle"},
         Creation!Goto(w, l), jRun[w].pc # "idle",
         l \notin Unthought => jRun[w].idea \in Ideas,
         l \in HasCampaigned => jRun[w].campaign \in IdsMade
  PROVE  \E x: /\ jRun' = [jRun EXCEPT ![w] = x] /\ RunTyped(x) /\ x.pc = l
               /\ x.job = jRun[w].job /\ x.try = jRun[w].try /\ x.idea = jRun[w].idea
               /\ x.ver = jRun[w].ver /\ x.sel = jRun[w].sel
               /\ x.campaign = jRun[w].campaign /\ x.asset = jRun[w].asset
  <1> DEFINE p == jRun[w]
             x == [p EXCEPT !.pc = l]
  <1>1. jRun' = [jRun EXCEPT ![w] = x]
    BY DEF Creation!Goto
  <1>2. RunTyped(p)
    BY DEF TypedInv
  <1> HIDE DEF p
  <1>3. p \in RunType
    BY <1>2 DEF RunTyped
  <1>4. /\ x.pc = l /\ x.job = p.job /\ x.try = p.try /\ x.idea = p.idea /\ x.ver = p.ver
        /\ x.sel = p.sel /\ x.campaign = p.campaign /\ x.asset = p.asset
    BY <1>3, RunParts
  <1>5. x \in RunType
    BY <1>3, RunParts
  <1>6. x # Creation!Idle
    BY <1>4 DEF Creation!Idle
  <1> HIDE DEF x
  <1>7. RunTyped(x)
    BY <1>2, <1>4, <1>5, <1>6 DEF RunTyped, p
  <1>8. QED
    BY <1>1, <1>4, <1>7 DEF p

LEMMA IdleTyped ==
  ASSUME Creation!CreationAssumption
  PROVE  RunTyped(Creation!Idle)
  <1>1. Creation!Idle.pc = "idle"
    BY DEF Creation!Idle
  <1>2. Creation!Idle \in RunType
    BY DEF Creation!Idle, RunType, Stages, Creation!CreationAssumption
  <1>3. QED
    BY <1>1, <1>2 DEF RunTyped, Unthought, HasCampaigned

\* Who holds the lease of a request holds that of an unfinished one.
LEMMA HeldIsOpen ==
  ASSUME Creation!CreationAssumption, TypedInv, NEW w \in Workers,
         jRun[w].job \in Jobs, Creation!Holds(w)
  PROVE  jReq[jRun[w].job].status \notin Creation!Final
  BY DEF TypedInv, RowTyped, Creation!CreationAssumption, Creation!Holds, Creation!Job

\* What an advance does: with the lease, the row and the next stage, without
\* it, the catch clause.
AtHand(x, p) == /\ x.job = p.job /\ x.try = p.try /\ x.idea = p.idea
                /\ x.ver = p.ver /\ x.sel = p.sel
                /\ x.campaign = p.campaign /\ x.asset = p.asset
LEMMA AdvanceIs ==
  ASSUME Creation!CreationAssumption, TypedInv, NEW w \in Workers,
         NEW at \in Stages \ {"idle"}, NEW s \in Statuses \ {"queued"},
         NEW next \in Stages, NEW patch \in RowType,
         Creation!Advance(w, at, s, next, patch),
         next \notin Unthought => jRun[w].idea \in Ideas,
         next \in HasCampaigned => jRun[w].campaign \in IdsMade
  PROVE  /\ TypedInv' /\ jRun[w].pc = at /\ jRun[w].job \in Jobs
         /\ UNCHANGED <<jCampaigns, jAssets, jAngle>>
         /\ IF Creation!Holds(w)
              THEN /\ jReq' = [jReq EXCEPT ![jRun[w].job] =
                                 Creation!Patched(jReq[jRun[w].job], s, patch)]
                   /\ \E x: /\ jRun' = [jRun EXCEPT ![w] = x] /\ RunTyped(x)
                            /\ x.pc = next /\ (next # "idle" => AtHand(x, jRun[w]))
              ELSE /\ UNCHANGED jReq
                   /\ \E x: /\ jRun' = [jRun EXCEPT ![w] = x] /\ RunTyped(x)
                            /\ x.pc = "catch" /\ AtHand(x, jRun[w])
  <1> DEFINE j == jRun[w].job
             q == Creation!Patched(jReq[j], s, patch)
  <1>1. jRun[w].pc = at /\ UNCHANGED <<jCampaigns, jAssets, jAngle>>
    BY DEF Creation!Advance, Creation!At
  <1>2. RunTyped(jRun[w]) /\ j \in Jobs
    BY <1>1 DEF TypedInv, RunTyped
  <1>3. RowTyped(jReq[j])
    BY <1>2 DEF TypedInv
  <1>4. CASE Creation!Holds(w)
    <2>1. RowTyped(q)
      BY <1>2, <1>3, <1>4, HeldIsOpen, PatchedIs
    <2>2. jReq' = [jReq EXCEPT ![j] = q]
      BY <1>4 DEF Creation!Advance, Creation!Job
    <2> HIDE DEF q
    <2>3. PICK x: /\ jRun' = [jRun EXCEPT ![w] = x] /\ RunTyped(x)
                  /\ x.pc = next /\ (next # "idle" => AtHand(x, jRun[w]))
      <3>1. CASE next = "idle"
        <4>1. jRun' = [jRun EXCEPT ![w] = Creation!Idle] /\ Creation!Idle.pc = "idle"
          BY <1>4, <3>1 DEF Creation!Advance, Creation!Idle
        <4>2. QED
          BY <3>1, <4>1, IdleTyped
      <3>2. CASE next # "idle"
        <4>1. Creation!Goto(w, next)
          BY <1>4, <3>2 DEF Creation!Advance
        <4>2. QED
          BY <1>1, <3>2, <4>1, TypedGoes DEF AtHand
      <3>3. QED
        BY <3>1, <3>2
    <2>4. TypedInv'
      <3> HIDE DEF j
      <3>1. \E k \in Jobs: \E r: RowTyped(r) /\ jReq' = [jReq EXCEPT ![k] = r]
        BY <1>2, <2>1, <2>2
      <3>2. QED
        BY <1>1, <1>2, <2>3, <3>1, TypedMoves DEF TypedInv
    <2>5. QED
      BY <1>1, <1>2, <1>4, <2>2, <2>3, <2>4 DEF q
  <1>5. CASE ~Creation!Holds(w)
    <2>1. UNCHANGED jReq /\ Creation!Goto(w, "catch")
      BY <1>5 DEF Creation!Advance
    <2>2. PICK x: /\ jRun' = [jRun EXCEPT ![w] = x] /\ RunTyped(x)
                  /\ x.pc = "catch" /\ AtHand(x, jRun[w])
      BY <1>1, <2>1, TypedGoes DEF AtHand, Stages, Unthought, HasCampaigned
    <2>3. TypedInv'
      BY <1>1, <1>2, <2>1, <2>2, TypedMoves DEF TypedInv
    <2>4. QED
      BY <1>1, <1>2, <1>5, <2>1, <2>2, <2>3
  <1>6. QED
    BY <1>4, <1>5

\* The patches, as rows.
LEMMA JobTyped ==
  ASSUME TypedInv, NEW w \in Workers, jRun[w].pc # "idle"
  PROVE  /\ jRun[w].job \in Jobs /\ RunTyped(jRun[w]) /\ RowTyped(Creation!Job(w))
         /\ Creation!Job(w) = jReq[jRun[w].job] /\ Creation!Job(w) \in RowType
  BY DEF TypedInv, RunTyped, RowTyped, Creation!Job

LEMMA WithIdeaIs ==
  ASSUME TypedInv, NEW w \in Workers, jRun[w].pc \notin Unthought
  PROVE  /\ Creation!WithIdea(w) \in RowType
         /\ Creation!WithIdea(w).idea = jRun[w].idea /\ jRun[w].idea \in Ideas
  <1> DEFINE r == Creation!Job(w)
             i == jRun[w].idea
  <1>1. r \in RowType /\ i \in Ideas
    BY JobTyped DEF RunTyped, Unthought
  <1>2. Creation!WithIdea(w) = [r EXCEPT !.idea = i]
    BY DEF Creation!WithIdea
  <1> HIDE DEF r, i
  <1>3. [r EXCEPT !.idea = i] \in RowType /\ [r EXCEPT !.idea = i].idea = i
    BY <1>1 DEF RowType
  <1>4. QED
    BY <1>1, <1>2, <1>3 DEF i

LEMMA WithAngleIs ==
  ASSUME Creation!CreationAssumption,
         TypedInv, NEW w \in Workers, jRun[w].pc \notin Unthought
  PROVE  LET r == Creation!WithAngle(w)
         IN r \in RowType /\ r.idea = jRun[w].idea /\ r.angle = Pref[jRun[w].job]
  <1> DEFINE r == Creation!WithIdea(w)
             a == Pref[jRun[w].job]
  <1>1. r \in RowType /\ r.idea = jRun[w].idea
    BY WithIdeaIs
  <1>2. a \in Angles
    BY JobTyped DEF Creation!CreationAssumption, Unthought
  <1>3. Creation!WithAngle(w) = [r EXCEPT !.angle = a]
    BY DEF Creation!WithAngle
  <1> HIDE DEF r, a
  <1>4. /\ [r EXCEPT !.angle = a] \in RowType /\ [r EXCEPT !.angle = a].angle = a
        /\ [r EXCEPT !.angle = a].idea = r.idea
    BY <1>1, <1>2 DEF RowType
  <1>5. QED
    BY <1>1, <1>3, <1>4 DEF r, a

Result(w) == [Creation!WithAngle(w) EXCEPT !.campaign = jRun[w].campaign,
                                           !.asset = jRun[w].asset]
LEMMA ResultIs ==
  ASSUME Creation!CreationAssumption, TypedInv, NEW w \in Workers, jRun[w].pc = "finish"
  PROVE  /\ Result(w) \in RowType /\ Result(w).idea = jRun[w].idea
         /\ Result(w).angle = Pref[jRun[w].job]
         /\ Result(w).campaign = jRun[w].campaign
  <1> DEFINE r == Creation!WithAngle(w)
             c == jRun[w].campaign
             a == jRun[w].asset
  <1>1. r \in RowType /\ r.idea = jRun[w].idea /\ r.angle = Pref[jRun[w].job]
    BY WithAngleIs DEF Unthought
  <1>2. c \in IdsMade \cup {None} /\ a \in IdsMade \cup {None}
    <2>1. jRun[w] \in RunType
      BY JobTyped DEF RunTyped
    <2>2. QED
      BY <2>1, RunParts
  <1>3. Result(w) = [r EXCEPT !.campaign = c, !.asset = a]
    BY DEF Result
  <1> HIDE DEF r, c, a
  <1> DEFINE q == [r EXCEPT !.campaign = c, !.asset = a]
  <1>4. q \in RowType /\ q.campaign = c /\ q.idea = r.idea /\ q.angle = r.angle
    BY <1>1, <1>2 DEF RowType
  <1>5. QED
    BY <1>1, <1>3, <1>4 DEF r, c

\* The steps that advance, by what they write and where they go.
Writing(w, at, s, next, patch) ==
  /\ Creation!Advance(w, at, s, next, patch)
  /\ at \in Stages \ {"idle"} /\ s \in Statuses \ {"queued"} /\ next \in Stages
  /\ patch \in RowType
  /\ next \notin Unthought => jRun[w].idea \in Ideas
  /\ next \in HasCampaigned => jRun[w].campaign \in IdsMade
AdvanceSteps(w) ==
  \/ Creation!Understand(w) \/ Creation!RecordIdea(w)
  \/ Creation!Researching(w) \/ Creation!ChooseAngle(w)
  \/ Creation!BuildCampaign(w) \/ Creation!Finish(w)
LEMMA Advancing ==
  ASSUME Creation!CreationAssumption, TypedInv, NEW w \in Workers, AdvanceSteps(w)
  PROVE  \E at, s, next, patch:
           /\ Writing(w, at, s, next, patch)
           /\ <<at, s, next>> \in {<<"understand", "understanding-goal", "idea">>,
                <<"understand", "understanding-goal", "read">>,
                <<"record", "researching", "read">>, <<"read", "researching", "develop">>,
                <<"choose", "choosing-angle", "select">>,
                <<"build", "building-campaign", "campaign">>, <<"finish", "ready", "idle">>}
           /\ at = "understand" => patch = jReq[jRun[w].job]
                                   /\ (next = "idea" <=> jRun[w].idea = None)
           /\ at # "understand" => patch.idea = jRun[w].idea
           /\ at = "finish" => /\ patch.angle = Pref[jRun[w].job]
                               /\ patch.campaign = jRun[w].campaign
  <1> USE DEF Stages, Statuses, Creation!Final, Unthought, HasCampaigned
  <1>1. CASE Creation!Understand(w)
    <2> DEFINE next == IF jRun[w].idea = None THEN "idea" ELSE "read"
               patch == Creation!Job(w)
    <2>1. Creation!Advance(w, "understand", "understanding-goal", next, patch)
      BY <1>1 DEF Creation!Understand
    <2>2. jRun[w].pc = "understand"
      BY <2>1 DEF Creation!Advance, Creation!At
    <2>3. jRun[w] \in RunType /\ patch \in RowType /\ patch = jReq[jRun[w].job]
      BY <2>2, JobTyped DEF RunTyped
    <2>4. jRun[w].idea # None => jRun[w].idea \in Ideas
      BY <2>3, RunParts
    <2> HIDE DEF patch
    <2>5. CASE jRun[w].idea = None
      <3>1. Writing(w, "understand", "understanding-goal", "idea", patch)
        BY <2>1, <2>3, <2>5 DEF Writing
      <3>2. QED
        BY <2>3, <2>5, <3>1
    <2>6. CASE jRun[w].idea # None
      <3>1. Writing(w, "understand", "understanding-goal", "read", patch)
        BY <2>1, <2>3, <2>4, <2>6 DEF Writing
      <3>2. QED
        BY <2>3, <2>6, <3>1
    <2>7. QED
      BY <2>5, <2>6
  <1>2. ASSUME NEW at, NEW s, NEW next,
               <<at, s, next>> \in {<<"record", "researching", "read">>,
                 <<"read", "researching", "develop">>, <<"choose", "choosing-angle", "select">>},
               Creation!Advance(w, at, s, next, Creation!WithIdea(w))
        PROVE  Writing(w, at, s, next, Creation!WithIdea(w))
               /\ Creation!WithIdea(w).idea = jRun[w].idea
    <2>1. jRun[w].pc = at /\ at \in {"record", "read", "choose"}
      BY <1>2 DEF Creation!Advance, Creation!At
    <2>2. Creation!WithIdea(w) \in RowType /\ Creation!WithIdea(w).idea = jRun[w].idea
          /\ jRun[w].idea \in Ideas
      BY <2>1, WithIdeaIs
    <2>3. QED
      BY <1>2, <2>2 DEF Writing
  <1>3. CASE Creation!RecordIdea(w)
    <2>1. Writing(w, "record", "researching", "read", Creation!WithIdea(w))
          /\ Creation!WithIdea(w).idea = jRun[w].idea
      BY <1>2, <1>3 DEF Creation!RecordIdea
    <2>2. QED
      BY <2>1
  <1>4. CASE Creation!Researching(w)
    <2>1. Writing(w, "read", "researching", "develop", Creation!WithIdea(w))
          /\ Creation!WithIdea(w).idea = jRun[w].idea
      BY <1>2, <1>4 DEF Creation!Researching
    <2>2. QED
      BY <2>1
  <1>5. CASE Creation!ChooseAngle(w)
    <2>1. Writing(w, "choose", "choosing-angle", "select", Creation!WithIdea(w))
          /\ Creation!WithIdea(w).idea = jRun[w].idea
      BY <1>2, <1>5 DEF Creation!ChooseAngle
    <2>2. QED
      BY <2>1
  <1>6. CASE Creation!BuildCampaign(w)
    <2> DEFINE patch == Creation!WithAngle(w)
    <2>1. Creation!Advance(w, "build", "building-campaign", "campaign", patch)
      BY <1>6 DEF Creation!BuildCampaign
    <2>2. jRun[w].pc = "build"
      BY <2>1 DEF Creation!Advance, Creation!At
    <2>3. patch \in RowType /\ patch.idea = jRun[w].idea /\ jRun[w].idea \in Ideas
      BY <2>2, WithAngleIs, WithIdeaIs
    <2> HIDE DEF patch
    <2>4. Writing(w, "build", "building-campaign", "campaign", patch)
      BY <2>1, <2>3 DEF Writing
    <2>5. QED
      BY <2>3, <2>4
  <1>7. CASE Creation!Finish(w)
    <2> DEFINE patch == Result(w)
    <2>1. Creation!Advance(w, "finish", "ready", "idle", patch)
      BY <1>7 DEF Creation!Finish, Result
    <2>2. jRun[w].pc = "finish"
      BY <2>1 DEF Creation!Advance, Creation!At
    <2>3. /\ patch \in RowType /\ patch.idea = jRun[w].idea
          /\ patch.angle = Pref[jRun[w].job] /\ patch.campaign = jRun[w].campaign
      BY <2>2, ResultIs
    <2> HIDE DEF patch
    <2>4. Writing(w, "finish", "ready", "idle", patch)
      BY <2>1, <2>3 DEF Writing
    <2>5. QED
      BY <2>3, <2>4
  <1>8. QED
    BY <1>1, <1>3, <1>4, <1>5, <1>6, <1>7 DEF AdvanceSteps

LEMMA WritingIs ==
  ASSUME Creation!CreationAssumption, TypedInv, NEW w \in Workers,
         NEW at, NEW s, NEW next, NEW patch, Writing(w, at, s, next, patch)
  PROVE  /\ TypedInv' /\ jRun[w].pc = at /\ jRun[w].job \in Jobs
         /\ UNCHANGED <<jCampaigns, jAssets, jAngle>>
         /\ IF Creation!Holds(w)
              THEN /\ jReq' = [jReq EXCEPT ![jRun[w].job] =
                                 Creation!Patched(jReq[jRun[w].job], s, patch)]
                   /\ \E x: /\ jRun' = [jRun EXCEPT ![w] = x] /\ RunTyped(x)
                            /\ x.pc = next /\ (next # "idle" => AtHand(x, jRun[w]))
              ELSE /\ UNCHANGED jReq
                   /\ \E x: /\ jRun' = [jRun EXCEPT ![w] = x] /\ RunTyped(x)
                            /\ x.pc = "catch" /\ AtHand(x, jRun[w])
  BY AdvanceIs DEF Writing

-----------------------------------------------------------------------------
\* The steps that leave the request alone, by what they leave at hand.
LEMMA MeIsMade ==
  ASSUME Creation!CreationAssumption, TypedInv, NEW w \in Workers, jRun[w].pc # "idle"
  PROVE  Creation!Me(w) \in IdsMade /\ Creation!Me(w) \in Ideas
  BY JobTyped DEF RunTyped, Creation!Me, IdsMade, Creation!Made, Ideas, Creation!Ideas

\* What is at hand, with another idea, another version and angle, another
\* campaign or another asset.
Thought(p, i, l) == [p EXCEPT !.idea = i, !.pc = l]
LEMMA WithThought ==
  ASSUME NEW p, RunTyped(p), p.pc # "idle", NEW l \in Stages \ {"idle"},
         NEW i \in Ideas, l \notin HasCampaigned,
         NEW x, x = Thought(p, i, l)
  PROVE  RunTyped(x) /\ x.pc = l /\ x.job = p.job /\ x.idea = i
  <1>1. /\ p \in RunType /\ p.job \in Jobs /\ p.try \in 1..MaxAttempts
    BY DEF RunTyped
  <1>2. /\ x \in RunType /\ x.pc = l /\ x.job = p.job /\ x.try = p.try /\ x.idea = i
    BY <1>1 DEF RunType, Thought
  <1>3. x # Creation!Idle
    BY <1>2 DEF Creation!Idle
  <1>4. QED
    BY <1>1, <1>2, <1>3 DEF RunTyped

Noted(p, v, s, l) == [p EXCEPT !.ver = v, !.sel = s, !.pc = l]
LEMMA WithSeen ==
  ASSUME NEW p, RunTyped(p), p.pc # "idle", NEW l \in Stages \ {"idle"},
         NEW v \in Nat, NEW s \in Angles \cup {None}, l \notin HasCampaigned, p.idea \in Ideas,
         NEW x, x = Noted(p, v, s, l)
  PROVE  RunTyped(x) /\ x.pc = l /\ x.job = p.job /\ x.idea = p.idea /\ x.sel = s
  <1>1. /\ p \in RunType /\ p.job \in Jobs /\ p.try \in 1..MaxAttempts
    BY DEF RunTyped
  <1>2. /\ x \in RunType /\ x.pc = l /\ x.job = p.job /\ x.try = p.try /\ x.idea = p.idea /\ x.sel = s
    BY <1>1 DEF RunType, Noted
  <1>3. x # Creation!Idle
    BY <1>2 DEF Creation!Idle
  <1>4. QED
    BY <1>1, <1>2, <1>3 DEF RunTyped

Campaigned(p, c, l) == [p EXCEPT !.campaign = c, !.pc = l]
LEMMA WithCampaign ==
  ASSUME NEW p, RunTyped(p), p.pc # "idle", NEW l \in Stages \ {"idle"},
         NEW c \in IdsMade, p.idea \in Ideas,
         NEW x, x = Campaigned(p, c, l)
  PROVE  RunTyped(x) /\ x.pc = l /\ x.job = p.job /\ x.idea = p.idea /\ x.campaign = c
  <1>1. /\ p \in RunType /\ p.job \in Jobs /\ p.try \in 1..MaxAttempts
    BY DEF RunTyped
  <1>2. /\ x \in RunType /\ x.pc = l /\ x.job = p.job /\ x.try = p.try /\ x.idea = p.idea /\ x.campaign = c
    BY <1>1 DEF RunType, Campaigned
  <1>3. x # Creation!Idle
    BY <1>2 DEF Creation!Idle
  <1>4. QED
    BY <1>1, <1>2, <1>3 DEF RunTyped

Asseted(p, a, l) == [p EXCEPT !.asset = a, !.pc = l]
LEMMA WithAsset ==
  ASSUME NEW p, RunTyped(p), p.pc # "idle", NEW l \in Stages \ {"idle"},
         NEW a \in IdsMade, p.idea \in Ideas, p.campaign \in IdsMade,
         NEW x, x = Asseted(p, a, l)
  PROVE  RunTyped(x) /\ x.pc = l /\ x.job = p.job /\ x.idea = p.idea /\ x.campaign = p.campaign
  <1>1. /\ p \in RunType /\ p.job \in Jobs /\ p.try \in 1..MaxAttempts
    BY DEF RunTyped
  <1>2. /\ x \in RunType /\ x.pc = l /\ x.job = p.job /\ x.try = p.try /\ x.idea = p.idea /\ x.campaign = p.campaign
    BY <1>1 DEF RunType, Asseted
  <1>3. x # Creation!Idle
    BY <1>2 DEF Creation!Idle
  <1>4. QED
    BY <1>1, <1>2, <1>3 DEF RunTyped

LEMMA ThinksUp ==
  ASSUME Creation!CreationAssumption, TypedInv, NEW w \in Workers, Creation!CreateIdea(w)
  PROVE  /\ TypedInv' /\ jRun[w].pc = "idea"
         /\ UNCHANGED <<jReq, jCampaigns, jAssets, jAngle>>
         /\ \E x: jRun' = [jRun EXCEPT ![w] = x] /\ x.pc = "record" /\ x.job = jRun[w].job
  <1> DEFINE i == Creation!Me(w)
             x == [jRun[w] EXCEPT !.idea = i, !.pc = "record"]
  <1>1. /\ jRun[w].pc = "idea" /\ UNCHANGED <<jReq, jCampaigns, jAssets, jAngle>>
        /\ jRun' = [jRun EXCEPT ![w] = x]
    BY DEF Creation!CreateIdea, Creation!At
  <1>2. RunTyped(jRun[w]) /\ jRun[w].job \in Jobs /\ i \in Ideas
    BY <1>1, JobTyped, MeIsMade
  <1>l. "record" \in Stages \ {"idle"} /\ "record" \notin HasCampaigned
    BY DEF Stages, HasCampaigned
  <1>x. x = Thought(jRun[w], i, "record")
    BY DEF Thought
  <1> HIDE DEF i, x
  <1>3. RunTyped(x) /\ x.pc = "record" /\ x.job = jRun[w].job
    BY <1>1, <1>2, <1>l, <1>x, WithThought
  <1>4. TypedInv'
    BY <1>1, <1>2, <1>3, TypedMoves DEF TypedInv
  <1>5. QED
    BY <1>1, <1>3, <1>4

LEMMA SeesIdea ==
  ASSUME Creation!CreationAssumption, TypedInv, NEW w \in Workers,
         Creation!Read(w) \/ Creation!Develop(w)
  PROVE  /\ TypedInv' /\ jRun[w].pc \in {"read", "develop"} /\ jRun[w].idea \in Ideas
         /\ UNCHANGED <<jReq, jCampaigns, jAssets>>
         /\ \A i \in Ideas: jAngle'[i].sel = jAngle[i].sel
         /\ \E x: /\ jRun' = [jRun EXCEPT ![w] = x] /\ x.pc = "choose"
                  /\ x.job = jRun[w].job /\ x.idea = jRun[w].idea
                  /\ x.sel = jAngle[jRun[w].idea].sel
  <1> DEFINE i == jRun[w].idea
             v == jAngle[i].ver
             s == jAngle[i].sel
             x == [jRun[w] EXCEPT !.ver = v, !.sel = s, !.pc = "choose"]
  <1>1. /\ jRun[w].pc \in {"read", "develop"} /\ UNCHANGED <<jReq, jCampaigns, jAssets>>
        /\ jRun' = [jRun EXCEPT ![w] = x]
    BY DEF Creation!Read, Creation!Develop, Creation!At, Creation!Seen
  <1>2. /\ RunTyped(jRun[w]) /\ jRun[w].job \in Jobs /\ i \in Ideas
        /\ jRun[w].idea \in Ideas
    BY <1>1, JobTyped DEF RunTyped, Unthought
  <1>3. v \in Nat /\ s \in Angles \cup {None}
    BY <1>2 DEF TypedInv, AngleType
  <1>4. /\ DOMAIN jAngle' = Ideas
        /\ \A k \in Ideas: jAngle'[k] \in AngleType /\ jAngle'[k].sel = jAngle[k].sel
    <2>1. CASE jAngle' = jAngle
      BY <2>1 DEF TypedInv
    <2>2. CASE jAngle' # jAngle
      <3>1. jAngle' = [jAngle EXCEPT ![i].ready = TRUE]
        BY <2>2 DEF Creation!Read, Creation!Develop
      <3> HIDE DEF i
      <3>2. QED
        BY <3>1 DEF TypedInv, AngleType
    <2>3. QED
      BY <2>1, <2>2
  <1>l. "choose" \in Stages \ {"idle"} /\ "choose" \notin HasCampaigned
    BY DEF Stages, HasCampaigned
  <1>x. x = Noted(jRun[w], v, s, "choose")
    BY DEF Noted
  <1> HIDE DEF v, s, x
  <1>5. /\ RunTyped(x) /\ x.pc = "choose" /\ x.job = jRun[w].job
        /\ x.idea = jRun[w].idea /\ x.sel = s
    BY <1>1, <1>2, <1>3, <1>l, <1>x, WithSeen
  <1>6. TypedInv'
    BY <1>1, <1>2, <1>4, <1>5, TypedMoves DEF TypedInv
  <1>7. QED
    BY <1>1, <1>2, <1>4, <1>5, <1>6 DEF s

LEMMA SelectsAngle ==
  ASSUME Creation!CreationAssumption, TypedInv, NEW w \in Workers, Creation!SelectAngle(w)
  PROVE  /\ TypedInv' /\ jRun[w].pc = "select" /\ jRun[w].idea \in Ideas
         /\ UNCHANGED <<jReq, jCampaigns, jAssets>>
         /\ \E x: /\ jRun' = [jRun EXCEPT ![w] = x] /\ x.pc \in {"build", "catch"}
                  /\ AtHand(x, jRun[w])
                  /\ x.pc = "build" =>
                       \/ jRun[w].sel = Pref[jRun[w].job] /\ jAngle' = jAngle
                       \/ jAngle'[jRun[w].idea].sel = Pref[jRun[w].job]
  <1> DEFINE i == jRun[w].idea
             a == Pref[jRun[w].job]
  <1>1. jRun[w].pc = "select" /\ UNCHANGED <<jReq, jCampaigns, jAssets>>
    BY DEF Creation!SelectAngle, Creation!At
  <1>2. RunTyped(jRun[w]) /\ jRun[w].job \in Jobs /\ i \in Ideas
    BY <1>1, JobTyped DEF RunTyped, Unthought
  <1>3. a \in Angles
    BY <1>2 DEF Creation!CreationAssumption
  <1>4. ASSUME NEW l \in {"build", "catch"}, Creation!Goto(w, l)
        PROVE  \E x: /\ jRun' = [jRun EXCEPT ![w] = x] /\ RunTyped(x) /\ x.pc = l
                     /\ AtHand(x, jRun[w])
    BY <1>1, <1>2, <1>4, TypedGoes DEF AtHand, Stages, HasCampaigned
  <1>5. ASSUME NEW x, RunTyped(x), jRun' = [jRun EXCEPT ![w] = x],
               DOMAIN jAngle' = Ideas, \A k \in Ideas: jAngle'[k] \in AngleType
        PROVE  TypedInv'
    BY <1>1, <1>2, <1>5, TypedMoves DEF TypedInv
  <1>6. CASE jAngle' = jAngle
    <2>1. PICK l \in {"build", "catch"}: Creation!Goto(w, l) /\ (l = "build" => jRun[w].sel = a)
      <3>1. CASE jRun[w].sel = a
        BY <3>1 DEF Creation!SelectAngle
      <3>2. CASE jRun[w].sel # a
        <4>1. \/ Creation!Selected(i, a)
              \/ Creation!Goto(w, "catch")
          BY <3>2 DEF Creation!SelectAngle
        <4>2. CASE Creation!Selected(i, a)
          <5>1. jAngle'[i].ver = jAngle[i].ver + 1 /\ jAngle[i].ver \in Nat
            BY <1>2, <4>2 DEF Creation!Selected, TypedInv, AngleType
          <5>2. QED
            BY <1>6, <5>1
        <4>3. QED
          BY <3>2, <4>1, <4>2
      <3>3. QED
        BY <3>1, <3>2
    <2>2. PICK x: /\ jRun' = [jRun EXCEPT ![w] = x] /\ RunTyped(x) /\ x.pc = l
                  /\ AtHand(x, jRun[w])
      BY <1>4, <2>1
    <2>3. TypedInv'
      BY <1>5, <1>6, <2>2 DEF TypedInv
    <2>4. QED
      BY <1>1, <1>2, <1>6, <2>1, <2>2, <2>3
  <1>7. CASE jAngle' # jAngle
    <2>1. Creation!Selected(i, a) /\ Creation!Goto(w, "build")
      BY <1>7 DEF Creation!SelectAngle
    <2>2. PICK x: /\ jRun' = [jRun EXCEPT ![w] = x] /\ RunTyped(x) /\ x.pc = "build"
                  /\ AtHand(x, jRun[w])
      BY <1>4, <2>1
    <2>3. /\ DOMAIN jAngle' = Ideas /\ jAngle'[i].sel = a
          /\ \A k \in Ideas: jAngle'[k] \in AngleType
      <3> HIDE DEF i, a
      <3>1. QED
        BY <1>2, <1>3, <2>1 DEF Creation!Selected, TypedInv, AngleType
    <2>4. TypedInv'
      BY <1>5, <2>2, <2>3
    <2>5. QED
      BY <1>1, <1>2, <2>2, <2>3, <2>4
  <1>8. QED
    BY <1>6, <1>7

LEMMA FindsCampaign ==
  ASSUME Creation!CreationAssumption, TypedInv, NEW w \in Workers, Creation!FindCampaign(w)
  PROVE  /\ TypedInv' /\ jRun[w].pc = "campaign" /\ jRun[w].idea \in Ideas
         /\ UNCHANGED <<jReq, jCampaigns, jAssets, jAngle>>
         /\ \E x: /\ jRun' = [jRun EXCEPT ![w] = x]
                  /\ x.job = jRun[w].job /\ x.idea = jRun[w].idea
                  /\ \/ /\ x.pc = "create"
                        /\ \A c \in jCampaigns: ~Creation!HasCampaign(w, c)
                     \/ /\ x.pc \in {"asset", "finish"}
                        /\ \E c \in jCampaigns: Creation!HasCampaign(w, c) /\ c.id = x.campaign
  <1>1. jRun[w].pc = "campaign" /\ UNCHANGED <<jReq, jCampaigns, jAssets, jAngle>>
    BY DEF Creation!FindCampaign, Creation!At
  <1>2. RunTyped(jRun[w]) /\ jRun[w].job \in Jobs /\ jRun[w].idea \in Ideas
    BY <1>1, JobTyped DEF RunTyped, Unthought
  <1>3. CASE (\A c \in jCampaigns: ~Creation!HasCampaign(w, c)) /\ Creation!Goto(w, "create")
    <2>1. PICK x: /\ jRun' = [jRun EXCEPT ![w] = x] /\ RunTyped(x) /\ x.pc = "create"
                  /\ x.job = jRun[w].job /\ x.idea = jRun[w].idea
      BY <1>1, <1>2, <1>3, TypedGoes DEF Stages, HasCampaigned
    <2>2. TypedInv'
      BY <1>1, <1>2, <2>1, TypedMoves DEF TypedInv
    <2>3. QED
      BY <1>1, <1>2, <1>3, <2>1, <2>2
  <1>4. ASSUME NEW c \in jCampaigns, Creation!HasCampaign(w, c),
               jRun' = [jRun EXCEPT ![w].campaign = c.id, ![w].pc = Creation!Draft(w)]
        PROVE  /\ TypedInv'
               /\ \E x: /\ jRun' = [jRun EXCEPT ![w] = x]
                        /\ x.job = jRun[w].job /\ x.idea = jRun[w].idea
                        /\ x.pc \in {"asset", "finish"} /\ c.id = x.campaign
    <2> DEFINE l == Creation!Draft(w)
               i == c.id
               x == Campaigned(jRun[w], i, l)
    <2>1. jRun' = [jRun EXCEPT ![w] = x]
      BY <1>4 DEF Campaigned
    <2>2. i \in IdsMade
      BY DEF TypedInv
    <2>3. l \in Stages \ {"idle"} /\ l \in {"asset", "finish"}
      BY DEF Creation!Draft, Stages
    <2> HIDE DEF l, i, x
    <2>x. x = Campaigned(jRun[w], i, l)
      BY DEF x
    <2>4. /\ RunTyped(x) /\ x.pc = l /\ x.job = jRun[w].job
          /\ x.idea = jRun[w].idea /\ x.campaign = i
      BY <1>1, <1>2, <2>2, <2>3, <2>x, WithCampaign
    <2>5. TypedInv'
      BY <1>1, <1>2, <2>1, <2>4, TypedMoves DEF TypedInv
    <2>6. QED
      BY <2>1, <2>3, <2>4, <2>5 DEF i
  <1>5. QED
    <2>1. CASE \A c \in jCampaigns: ~Creation!HasCampaign(w, c)
      BY <1>3, <2>1 DEF Creation!FindCampaign
    <2>2. CASE ~(\A c \in jCampaigns: ~Creation!HasCampaign(w, c))
      <3>1. PICK c \in jCampaigns: 
               /\ Creation!HasCampaign(w, c)
               /\ jRun' = [jRun EXCEPT ![w].campaign = c.id, ![w].pc = Creation!Draft(w)]
        BY <2>2 DEF Creation!FindCampaign
      <3>2. QED
        BY <1>1, <1>2, <1>4, <3>1
    <2>3. QED
      BY <2>1, <2>2

LEMMA CreatesCampaign ==
  ASSUME Creation!CreationAssumption, TypedInv, NEW w \in Workers, Creation!CreateCampaign(w)
  PROVE  /\ TypedInv' /\ jRun[w].pc = "create" /\ jRun[w].idea \in Ideas
         /\ UNCHANGED <<jReq, jAssets, jAngle>>
         /\ jCampaigns' = jCampaigns \cup {[id |-> Creation!Me(w), idea |-> jRun[w].idea,
                                            angle |-> jAngle[jRun[w].idea].sel]}
         /\ \E x: /\ jRun' = [jRun EXCEPT ![w] = x] /\ x.pc \in {"asset", "finish"}
                  /\ x.job = jRun[w].job /\ x.idea = jRun[w].idea
                  /\ x.campaign = Creation!Me(w)
  <1> DEFINE l == Creation!Draft(w)
             m == Creation!Me(w)
             x == Campaigned(jRun[w], m, l)
  <1>1. /\ jRun[w].pc = "create" /\ UNCHANGED <<jReq, jAssets, jAngle>>
        /\ jCampaigns' = jCampaigns \cup {[id |-> m, idea |-> jRun[w].idea,
                                           angle |-> jAngle[jRun[w].idea].sel]}
        /\ jRun' = [jRun EXCEPT ![w] = x]
    BY DEF Creation!CreateCampaign, Creation!At, Campaigned
  <1>2. /\ RunTyped(jRun[w]) /\ jRun[w].job \in Jobs /\ jRun[w].idea \in Ideas
        /\ m \in IdsMade
    BY <1>1, JobTyped, MeIsMade DEF RunTyped, Unthought
  <1>3. l \in Stages \ {"idle"} /\ l \in {"asset", "finish"}
    BY DEF Creation!Draft, Stages
  <1>4. jAngle[jRun[w].idea].sel \in Angles \cup {None}
    BY <1>2 DEF TypedInv, AngleType
  <1> HIDE DEF l, m, x
  <1>x. x = Campaigned(jRun[w], m, l)
    BY DEF x
  <1>5. /\ RunTyped(x) /\ x.pc = l /\ x.job = jRun[w].job
        /\ x.idea = jRun[w].idea /\ x.campaign = m
    BY <1>1, <1>2, <1>3, <1>x, WithCampaign
  <1>6. jCampaigns' \subseteq [id: IdsMade, idea: Ideas, angle: Angles \cup {None}]
    BY <1>1, <1>2, <1>4 DEF TypedInv
  <1>7. TypedInv'
    BY <1>1, <1>2, <1>5, <1>6, TypedMoves DEF TypedInv
  <1>8. QED
    BY <1>1, <1>2, <1>3, <1>5, <1>7 DEF m

LEMMA WritesAsset ==
  ASSUME Creation!CreationAssumption, TypedInv, NEW w \in Workers,
         Creation!SaveAsset(w) \/ Creation!Generate(w)
  PROVE  /\ TypedInv' /\ jRun[w].pc \in {"asset", "generate"} /\ jRun[w].idea \in Ideas
         /\ UNCHANGED <<jReq, jCampaigns, jAngle>>
         /\ \E x: /\ jRun' = [jRun EXCEPT ![w] = x] /\ x.pc \in {"generate", "finish"}
                  /\ x.job = jRun[w].job /\ x.idea = jRun[w].idea
                  /\ x.campaign = jRun[w].campaign
  <1>1. jRun[w].pc \in {"asset", "generate"} /\ UNCHANGED <<jReq, jCampaigns, jAngle>>
    BY DEF Creation!SaveAsset, Creation!Generate, Creation!At
  <1>2. /\ RunTyped(jRun[w]) /\ jRun[w].job \in Jobs /\ jRun[w].idea \in Ideas
        /\ jRun[w].campaign \in IdsMade
    BY <1>1, JobTyped DEF RunTyped, Unthought, HasCampaigned
  <1>3. CASE Creation!SaveAsset(w)
    <2> DEFINE m == Creation!Me(w)
               x == Asseted(jRun[w], m, "generate")
    <2>1. /\ jRun' = [jRun EXCEPT ![w] = x]
          /\ jAssets' = jAssets \cup
               {[id |-> m, campaign |-> jRun[w].campaign, drafted |-> FALSE]}
      BY <1>3 DEF Creation!SaveAsset, Asseted
    <2>2. m \in IdsMade
      BY <1>1, MeIsMade
    <2> HIDE DEF m, x
    <2>x. x = Asseted(jRun[w], m, "generate")
      BY DEF x
    <2>3. "generate" \in Stages \ {"idle"} /\ jRun[w].pc # "idle"
      BY <1>1 DEF Stages
    <2>4. /\ RunTyped(x) /\ x.pc = "generate" /\ x.job = jRun[w].job
          /\ x.idea = jRun[w].idea /\ x.campaign = jRun[w].campaign
      <3> DEFINE p == jRun[w]
                 l == "generate"
      <3>1. /\ RunTyped(p) /\ p.pc # "idle" /\ p.idea \in Ideas /\ p.campaign \in IdsMade
            /\ l \in Stages \ {"idle"} /\ x = Asseted(p, m, l)
        BY <1>2, <2>3, <2>x
      <3> HIDE DEF p, l
      <3>2. /\ RunTyped(x) /\ x.pc = l /\ x.job = p.job
            /\ x.idea = p.idea /\ x.campaign = p.campaign
        BY <2>2, <3>1, WithAsset
      <3>3. QED
        BY <3>2, Zenon DEF p, l
    <2>5. jAssets' \subseteq [id: IdsMade, campaign: IdsMade, drafted: BOOLEAN]
      <3> DEFINE c == jRun[w].campaign
                 a == [id |-> m, campaign |-> c, drafted |-> FALSE]
                 T == [id: IdsMade, campaign: IdsMade, drafted: BOOLEAN]
      <3>1. c \in IdsMade /\ jAssets' = jAssets \cup {a} /\ jAssets \subseteq T
        BY <1>2, <2>1 DEF TypedInv
      <3> HIDE DEF c
      <3>2. a \in T
        BY <2>2, <3>1
      <3> HIDE DEF a, T
      <3>3. jAssets' \subseteq T
        BY <3>1, <3>2
      <3>4. QED
        BY <3>3 DEF T
    <2>6. TypedInv'
      BY <1>1, <1>2, <2>1, <2>4, <2>5, TypedMoves DEF TypedInv
    <2>7. QED
      BY <1>1, <1>2, <2>1, <2>4, <2>6
  <1>4. CASE Creation!Generate(w)
    <2>1. /\ Creation!Goto(w, "finish")
          /\ jAssets' = {IF a.id = jRun[w].asset THEN Creation!Drafted(a) ELSE a: a \in jAssets}
      BY <1>4 DEF Creation!Generate
    <2>2. PICK x: /\ jRun' = [jRun EXCEPT ![w] = x] /\ RunTyped(x) /\ x.pc = "finish"
                  /\ x.job = jRun[w].job /\ x.idea = jRun[w].idea
                  /\ x.campaign = jRun[w].campaign
      BY <1>1, <1>2, <2>1, TypedGoes DEF Stages
    <2> DEFINE T == [id: IdsMade, campaign: IdsMade, drafted: BOOLEAN]
    <2>3. \A a \in T: Creation!Drafted(a) \in T
      BY DEF Creation!Drafted
    <2>4. jAssets \subseteq T
      BY DEF TypedInv
    <2>5. jAssets' \subseteq T
      <3> HIDE DEF T
      <3>1. QED
        BY <2>1, <2>3, <2>4
    <2>6. TypedInv'
      BY <1>1, <1>2, <2>2, <2>5, TypedMoves DEF TypedInv
    <2>7. QED
      BY <1>1, <1>2, <2>2, <2>6
  <1>5. QED
    BY <1>3, <1>4

\* A step that fails, the catch clause, and the end of a process.
LEMMA StopsShort ==
  ASSUME Creation!CreationAssumption, TypedInv, NEW w \in Workers,
         Creation!Throws(w) \/ Creation!GiveUp(w) \/ Creation!Crash(w)
  PROVE  /\ TypedInv' /\ jRun[w].pc # "idle" /\ jRun[w].job \in Jobs
         /\ UNCHANGED <<jCampaigns, jAssets, jAngle>>
         /\ \/ UNCHANGED jReq
            \/ /\ Creation!Holds(w)
               /\ jReq' = [jReq EXCEPT ![jRun[w].job] =
                             Creation!Patched(jReq[jRun[w].job], "needs-attention",
                                              jReq[jRun[w].job])]
         /\ \E x: jRun' = [jRun EXCEPT ![w] = x] /\ x.pc \in {"idle", "catch"}
  <1>1. CASE Creation!Throws(w)
    <2>1. /\ jRun[w].pc # "idle" /\ Creation!Goto(w, "catch")
          /\ UNCHANGED <<jReq, jCampaigns, jAssets, jAngle>>
      BY <1>1 DEF Creation!Throws, Creation!CreationAssumption
    <2>2. jRun[w].job \in Jobs
      BY <2>1, JobTyped
    <2>3. PICK x: /\ jRun' = [jRun EXCEPT ![w] = x] /\ RunTyped(x) /\ x.pc = "catch"
      BY <2>1, TypedGoes DEF Stages, Unthought, HasCampaigned
    <2>4. TypedInv'
      BY <2>1, <2>2, <2>3, TypedMoves DEF TypedInv
    <2>5. QED
      BY <2>1, <2>2, <2>3, <2>4
  <1>2. CASE Creation!Advance(w, "catch", "needs-attention", "idle", Creation!Job(w))
    <2>1. jRun[w].pc = "catch"
      BY <1>2 DEF Creation!Advance, Creation!At
    <2>2. Creation!Job(w) \in RowType /\ Creation!Job(w) = jReq[jRun[w].job]
      BY <2>1, JobTyped
    <2>3. Writing(w, "catch", "needs-attention", "idle", Creation!Job(w))
      BY <1>2, <2>2 DEF Writing, Stages, Statuses, Creation!Final, Unthought, HasCampaigned
    <2>4. QED
      BY <2>1, <2>2, <2>3, WritingIs
  <1>3. CASE /\ jRun[w].pc # "idle" /\ jRun' = [jRun EXCEPT ![w] = Creation!Idle]
             /\ UNCHANGED <<jReq, jCampaigns, jAssets, jAngle>>
    <2>1. RunTyped(Creation!Idle) /\ Creation!Idle.pc = "idle"
      BY IdleTyped DEF Creation!Idle
    <2>2. jRun[w].job \in Jobs
      BY <1>3, JobTyped
    <2>3. TypedInv'
      BY <1>3, <2>1, <2>2, TypedMoves DEF TypedInv
    <2>4. QED
      BY <1>3, <2>1, <2>2, <2>3
  <1>4. QED
    BY <1>1, <1>2, <1>3 DEF Creation!GiveUp, Creation!Crash, Creation!At

\* A request that is claimed, and a lease that runs out.
LEMMA Claims ==
  ASSUME Creation!CreationAssumption, TypedInv, NEW w \in Workers, NEW j \in Jobs,
         Creation!Claim(w, j)
  PROVE  /\ TypedInv' /\ UNCHANGED <<jCampaigns, jAssets, jAngle>>
         /\ jReq[j].status \notin Creation!Final
         /\ DOMAIN jReq' = Jobs /\ \A k \in Jobs \ {j}: jReq'[k] = jReq[k]
         /\ jReq'[j].owner = Name[w] /\ jReq'[j].idea = jReq[j].idea
         /\ jReq'[j].status = jReq[j].status
         /\ \E x: /\ jRun' = [jRun EXCEPT ![w] = x] /\ x.pc = "understand" /\ x.job = j
                  /\ x.idea = jReq[j].idea
  <1> DEFINE r == jReq[j]
             t == r.attempt + 1
             q == [r EXCEPT !.owner = Name[w], !.live = TRUE, !.attempt = t]
             x == [Creation!Idle EXCEPT !.pc = "understand", !.job = j,
                                        !.try = t, !.idea = r.idea]
             y == [pc |-> "understand", job |-> j, try |-> t, idea |-> r.idea,
                   ver |-> 0, sel |-> None, campaign |-> None, asset |-> None]
  <1>1. /\ UNCHANGED <<jCampaigns, jAssets, jAngle>> /\ Creation!Claimable(j)
        /\ jReq' = [jReq EXCEPT ![j] = q] /\ jRun' = [jRun EXCEPT ![w] = x]
    BY DEF Creation!Claim, TypedInv
  <1>2. x = y
    <2> DEFINE i == r.idea
    <2>1. /\ x = [Creation!Idle EXCEPT !.pc = "understand", !.job = j, !.try = t, !.idea = i]
          /\ y = [pc |-> "understand", job |-> j, try |-> t, idea |-> i,
                  ver |-> 0, sel |-> None, campaign |-> None, asset |-> None]
      OBVIOUS
    <2> HIDE DEF x, y, t, i, r, q
    <2> DEFINE e == Creation!Idle
    <2>2. e = [pc |-> "idle", job |-> None, try |-> 0, idea |-> None, ver |-> 0,
               sel |-> None, campaign |-> None, asset |-> None]
      BY DEF Creation!Idle
    <2>3. x = [e EXCEPT !.pc = "understand", !.job = j, !.try = t, !.idea = i]
      BY <2>1
    <2> HIDE DEF e
    <2>4. QED
      BY <2>1, <2>2, <2>3
  <1>3. r.status \notin Creation!Final /\ ~r.live
    BY <1>1 DEF Creation!Claimable
  <1>4. RowTyped(r)
    BY DEF TypedInv
  <1> HIDE DEF r
  <1>5. r \in RowType /\ r.attempt < MaxAttempts
    BY <1>3, <1>4 DEF RowTyped
  <1>6. t \in 1..MaxAttempts /\ t \in 0..MaxAttempts
    <2>1. r.attempt \in 0..MaxAttempts /\ MaxAttempts \in Nat
      BY <1>5, RowParts DEF Creation!CreationAssumption
    <2>2. QED
      BY <1>5, <2>1
  <1>7. r.idea \in Ideas \cup {None}
    BY <1>5, RowParts
  <1> HIDE DEF t
  <1>8. /\ q \in RowType /\ q.owner = Name[w] /\ q.live = TRUE /\ q.attempt = t
        /\ q.status = r.status /\ q.idea = r.idea
    BY <1>5, <1>6 DEF RowType
  <1>9. RowTyped(q)
    <2> HIDE DEF q
    <2>1. QED
      BY <1>3, <1>8 DEF RowTyped
  <1>10. RunTyped(y) /\ y.pc = "understand" /\ y.job = j /\ y.idea = r.idea
    <2>1. y \in RunType
      BY <1>6, <1>7 DEF RunType, Stages
    <2>2. y.pc = "understand" /\ y.job = j /\ y.idea = r.idea /\ y.try = t
      OBVIOUS
    <2> HIDE DEF y
    <2>3. y # Creation!Idle
      BY <2>2 DEF Creation!Idle
    <2>4. QED
      BY <1>6, <2>1, <2>2, <2>3 DEF RunTyped, Unthought, HasCampaigned
  <1> HIDE DEF q, x, y
  <1>11. /\ DOMAIN jReq' = Jobs /\ jReq'[j] = q
         /\ \A k \in Jobs \ {j}: jReq'[k] = jReq[k]
    BY <1>1 DEF TypedInv
  <1>12. TypedInv'
    <2>1. \E k \in Jobs: \E u: RowTyped(u) /\ jReq' = [jReq EXCEPT ![k] = u]
      BY <1>1, <1>9
    <2>2. QED
      BY <1>1, <1>2, <1>10, <2>1, TypedMoves DEF TypedInv
  <1>13. QED
    BY <1>1, <1>2, <1>3, <1>8, <1>10, <1>11, <1>12 DEF r

LEMMA Expires ==
  ASSUME Creation!CreationAssumption, TypedInv, NEW j \in Jobs, Creation!Expire(j)
  PROVE  /\ TypedInv' /\ UNCHANGED <<jCampaigns, jAssets, jAngle, jRun>>
         /\ \A k \in Jobs: /\ jReq'[k].owner = jReq[k].owner
                           /\ jReq'[k].idea = jReq[k].idea
                           /\ jReq'[k].status = jReq[k].status
                           /\ jReq'[k].campaign = jReq[k].campaign
                           /\ jReq'[k].angle = jReq[k].angle
  <1> DEFINE r == jReq[j]
             q == [r EXCEPT !.live = FALSE]
  <1>1. /\ UNCHANGED <<jCampaigns, jAssets, jAngle, jRun>> /\ r.attempt < MaxAttempts
        /\ jReq' = [jReq EXCEPT ![j] = q]
    BY DEF Creation!Expire
  <1>2. RowTyped(r)
    BY DEF TypedInv
  <1> HIDE DEF r
  <1>3. r \in RowType
    BY <1>2 DEF RowTyped
  <1>4. /\ q \in RowType /\ q.owner = r.owner /\ q.attempt = r.attempt
        /\ q.status = r.status /\ q.idea = r.idea /\ q.campaign = r.campaign
        /\ q.angle = r.angle
    BY <1>3 DEF RowType
  <1> HIDE DEF q
  <1>5. RowTyped(q)
    BY <1>1, <1>2, <1>4 DEF RowTyped
  <1>6. /\ DOMAIN jReq' = Jobs /\ jReq'[j] = q
        /\ \A k \in Jobs \ {j}: jReq'[k] = jReq[k]
    BY <1>1 DEF TypedInv
  <1>7. TypedInv'
    <2>1. jReq' \in [Jobs -> RowType]
      BY <1>1, <1>4 DEF TypedInv
    <2>2. \A k \in Jobs: RowTyped(jReq'[k])
      BY <1>5, <1>6 DEF TypedInv
    <2>3. QED
      BY <1>1, <1>6, <2>1, <2>2 DEF TypedInv
  <1>8. QED
    BY <1>1, <1>4, <1>6, <1>7 DEF r

LEMMA UserChooses ==
  ASSUME Creation!CreationAssumption, TypedInv, NEW i \in Ideas, NEW a \in Angles,
         Creation!UserSelects(i, a)
  PROVE  /\ TypedInv' /\ UNCHANGED <<jReq, jCampaigns, jAssets, jRun>>
         /\ jAngle[i].ver \in Nat \ {0} /\ jAngle[i].ver <= MaxSelects
  <1>1. /\ UNCHANGED <<jReq, jCampaigns, jAssets, jRun>> /\ jAngle[i].ver <= MaxSelects
        /\ jAngle' = [jAngle EXCEPT ![i].sel = a, ![i].ver = @ + 1]
    BY DEF Creation!UserSelects, Creation!Selected
  <1>2. DOMAIN jAngle' = Ideas /\ \A k \in Ideas: jAngle'[k] \in AngleType
    BY <1>1 DEF TypedInv, AngleType
  <1>3. QED
    BY <1>1, <1>2 DEF TypedInv, AngleType

LEMMA TypedStep ==
  ASSUME Creation!CreationAssumption, TypedInv, [Creation!Next]_(Creation!vars)
  PROVE  TypedInv'
  <1>1. CASE UNCHANGED Creation!vars
    BY <1>1 DEF Creation!vars, TypedInv
  <1>2. ASSUME NEW w \in Workers, Creation!Tick(w) \/ Creation!Crash(w) PROVE TypedInv'
    <2>1. CASE AdvanceSteps(w)
      BY <2>1, Advancing, WritingIs
    <2>2. CASE Creation!CreateIdea(w)
      BY <2>2, ThinksUp
    <2>3. CASE Creation!Read(w) \/ Creation!Develop(w)
      BY <2>3, SeesIdea
    <2>4. CASE Creation!SelectAngle(w)
      BY <2>4, SelectsAngle
    <2>5. CASE Creation!FindCampaign(w)
      BY <2>5, FindsCampaign
    <2>6. CASE Creation!CreateCampaign(w)
      BY <2>6, CreatesCampaign
    <2>7. CASE Creation!SaveAsset(w) \/ Creation!Generate(w)
      BY <2>7, WritesAsset
    <2>8. CASE Creation!Throws(w) \/ Creation!GiveUp(w) \/ Creation!Crash(w)
      BY <2>8, StopsShort
    <2>9. CASE \E j \in Jobs: Creation!Claim(w, j)
      BY <2>9, Claims
    <2>10. QED
      BY <1>2, <2>1, <2>2, <2>3, <2>4, <2>5, <2>6, <2>7, <2>8, <2>9
         DEF Creation!Tick, Creation!Step, AdvanceSteps
  <1>3. CASE \E j \in Jobs: Creation!Expire(j)
    BY <1>3, Expires
  <1>4. CASE \E i \in Ideas, a \in Angles: Creation!UserSelects(i, a)
    BY <1>4, UserChooses
  <1>5. QED
    BY <1>1, <1>2, <1>3, <1>4 DEF Creation!Next, Ideas

LEMMA TypedBegins ==
  ASSUME Creation!CreationAssumption, Creation!Init
  PROVE  TypedInv
  <1>1. ASSUME NEW j \in Jobs PROVE RowTyped(jReq[j])
    <2> DEFINE g == Given[j]
               r == [status |-> "queued", owner |-> None, live |-> FALSE,
                     attempt |-> 0, idea |-> g, angle |-> None,
                     campaign |-> None, asset |-> None]
    <2>1. jReq[j] = r
      BY DEF Creation!Init
    <2>2. g \in Ideas \cup {None}
      BY DEF Ideas, Creation!Ideas, Creation!GivenIdeas
    <2>3. 0 \in 0..MaxAttempts /\ 0 < MaxAttempts
      BY DEF Creation!CreationAssumption
    <2> HIDE DEF g
    <2>4. r \in RowType /\ r.status \notin Creation!Final /\ r.attempt = 0
      BY <2>2, <2>3 DEF RowType, Statuses, Creation!Final
    <2> HIDE DEF r
    <2>5. QED
      BY <2>1, <2>3, <2>4 DEF RowTyped
  <1>2. /\ DOMAIN jReq = Jobs /\ DOMAIN jRun = Workers
        /\ \A w \in Workers: jRun[w] = Creation!Idle
        /\ jCampaigns = {} /\ jAssets = {}
    BY DEF Creation!Init
  <1>3. DOMAIN jAngle = Ideas /\ \A i \in Ideas: jAngle[i] \in AngleType
    BY DEF Creation!Init, Ideas, AngleType
  <1>4. jReq \in [Jobs -> RowType]
    <2>1. \A j \in Jobs: jReq[j] \in RowType
      BY <1>1 DEF RowTyped
    <2>2. jReq = [j \in Jobs |-> jReq[j]]
      BY DEF Creation!Init
    <2>3. QED
      BY <2>1, <2>2
  <1>5. QED
    BY <1>1, <1>2, <1>3, <1>4, IdleTyped DEF TypedInv

(* The rows of requests, campaigns and assets, and every process, are well *)
(* formed, for any requests, processes and names they share                *)
(* (PgSimpleCreationStore, SimpleCreationService.runOnce).                 *)
THEOREM CreationTyped ==
  ASSUME Creation!CreationAssumption
  PROVE  Creation!Spec => []Creation!TypeOK
  <1>1. TypedInv => Creation!TypeOK
    <2> SUFFICES ASSUME TypedInv PROVE Creation!TypeOK
      OBVIOUS
    <2>1. jReq \in [Jobs -> RowType]
      BY DEF TypedInv
    <2>2. \A i \in Ideas: jAngle[i].sel \in Angles \cup {None}
      BY DEF TypedInv, AngleType
    <2>3. \A w \in Workers: Creation!At(w, "idle") <=> jRun[w] = Creation!Idle
      BY DEF TypedInv, RunTyped, Creation!At
    <2>4. QED
      BY <2>1, <2>2, <2>3
         DEF TypedInv, Creation!TypeOK, RowType, Statuses, Ideas, IdsMade
  <1>2. Creation!Init => TypedInv
    BY TypedBegins
  <1>3. TypedInv /\ [Creation!Next]_(Creation!vars) => TypedInv'
    BY TypedStep
  <1>4. QED
    BY <1>1, <1>2, <1>3, PTL DEF Creation!Spec

-----------------------------------------------------------------------------
\* Names that differ.  Who holds the lease of a request has its idea at hand,
\* or one that the request does not show yet.
Asleep == {"idle", "catch"}
Fits(x, row) == IF x.pc \in {"idea", "record"} THEN row.idea = None
                                               ELSE row.idea = x.idea
HoldersFit ==
  \A w \in Workers: jRun[w].pc \notin Asleep /\ Creation!Holds(w)
                      => Fits(jRun[w], jReq[jRun[w].job])
NamesDiffer == \A v, w \in Workers: Name[v] = Name[w] => v = w

\* It is enough to look at the process that moves, where it gives no other
\* process the lease of its request.
LEMMA HolderMoves ==
  ASSUME Creation!CreationAssumption, NamesDiffer, TypedInv, HoldersFit,
         NEW w \in Workers, NEW x, jRun' = [jRun EXCEPT ![w] = x],
         NEW j \in Jobs, \A k \in Jobs \ {j}: jReq'[k] = jReq[k],
         jReq'[j] = jReq[j] \/ jReq'[j].owner \in {Name[w], None},
         x.pc \notin Asleep => x.job = j,
         x.pc \notin Asleep /\ jReq'[j].owner = Name[w] => Fits(x, jReq'[j])
  PROVE  HoldersFit'
  <1> SUFFICES ASSUME NEW v \in Workers, jRun'[v].pc \notin Asleep, Creation!Holds(v)'
               PROVE  Fits(jRun'[v], jReq'[jRun'[v].job])
    BY DEF HoldersFit
  <1>1. jReq'[jRun'[v].job].owner = Name[v]
    BY DEF Creation!Holds, Creation!Job
  <1>2. CASE v = w
    <2>1. jRun'[v] = x
      BY <1>2 DEF TypedInv
    <2>2. QED
      BY <1>1, <1>2, <2>1
  <1>3. CASE v # w
    <2>1. jRun'[v] = jRun[v] /\ jRun[v].pc # "idle"
      BY <1>3 DEF TypedInv, Asleep
    <2>2. jRun[v].job \in Jobs
      BY <2>1, JobTyped
    <2>3. jReq'[jRun[v].job] = jReq[jRun[v].job]
      BY <1>1, <1>3, <2>1, <2>2 DEF NamesDiffer, Creation!CreationAssumption
    <2>4. Creation!Holds(v)
      BY <1>1, <2>1, <2>3 DEF Creation!Holds, Creation!Job
    <2>5. QED
      BY <2>1, <2>3, <2>4 DEF HoldersFit
  <1>4. QED
    BY <1>2, <1>3

\* The step keeps the ideas of the requests.
LEMMA KeptByOne ==
  ASSUME TypedInv, NEW j \in Jobs, \A k \in Jobs \ {j}: jReq'[k] = jReq[k],
         jReq[j].idea = None \/ jReq'[j].idea = jReq[j].idea
  PROVE  Creation!IdeaKept
  BY DEF Creation!IdeaKept

LEMMA WritingFits ==
  ASSUME Creation!CreationAssumption, NamesDiffer, TypedInv, HoldersFit,
         NEW w \in Workers, AdvanceSteps(w)
  PROVE  HoldersFit' /\ Creation!IdeaKept
  <1>1. PICK at, s, next, patch:
           /\ Writing(w, at, s, next, patch)
           /\ <<at, s, next>> \in {<<"understand", "understanding-goal", "idea">>,
                <<"understand", "understanding-goal", "read">>,
                <<"record", "researching", "read">>, <<"read", "researching", "develop">>,
                <<"choose", "choosing-angle", "select">>,
                <<"build", "building-campaign", "campaign">>, <<"finish", "ready", "idle">>}
           /\ at = "understand" => patch = jReq[jRun[w].job]
                                   /\ (next = "idea" <=> jRun[w].idea = None)
           /\ at # "understand" => patch.idea = jRun[w].idea
    BY Advancing
  <1> DEFINE j == jRun[w].job
             r == jReq[j]
             q == Creation!Patched(r, s, patch)
  <1>2. TypedInv' /\ jRun[w].pc = at /\ j \in Jobs
    BY <1>1, WritingIs
  <1>3. CASE Creation!Holds(w)
    <2>1. jReq' = [jReq EXCEPT ![j] = q]
      BY <1>1, <1>3, WritingIs
    <2>2. PICK x: /\ jRun' = [jRun EXCEPT ![w] = x]
                  /\ x.pc = next /\ (next # "idle" => AtHand(x, jRun[w]))
      BY <1>1, <1>3, WritingIs
    <2>3. RowTyped(r) /\ r.status \notin Creation!Final /\ r.owner = Name[w]
      BY <1>2, <1>3, HeldIsOpen DEF TypedInv, Creation!Holds, Creation!Job
    <2>4. q.idea = patch.idea /\ q.owner \in {r.owner, None}
      BY <1>1, <2>3, PatchedIs DEF Writing
    <2>5. DOMAIN jReq = Jobs /\ jReq'[j] = q /\ \A k \in Jobs \ {j}: jReq'[k] = jReq[k]
      BY <1>2, <2>1 DEF TypedInv
    <2>6. Fits(jRun[w], r)
      <3>1. at \notin Asleep
        BY <1>1 DEF Asleep
      <3>2. QED
        BY <1>2, <1>3, <3>1 DEF HoldersFit
    <2> HIDE DEF q
    <2>7. r.idea = None \/ q.idea = r.idea
      BY <1>1, <1>2, <2>4, <2>6 DEF Fits
    <2>8. x.pc \notin Asleep => x.job = j /\ Fits(x, q)
      BY <1>1, <1>2, <2>2, <2>4, <2>6 DEF Fits, Asleep, AtHand
    <2>9. HoldersFit'
      <3> HIDE DEF j, r
      <3>1. jReq'[j].owner \in {Name[w], None}
        BY <2>3, <2>4, <2>5
      <3>2. QED
        BY <1>2, <2>2, <2>5, <2>8, <3>1, HolderMoves
    <2>10. Creation!IdeaKept
      BY <1>2, <2>5, <2>7, KeptByOne
    <2>11. QED
      BY <2>9, <2>10
  <1>4. CASE ~Creation!Holds(w)
    <2>1. UNCHANGED jReq
      BY <1>1, <1>4, WritingIs
    <2>2. PICK x: jRun' = [jRun EXCEPT ![w] = x] /\ x.pc = "catch"
      BY <1>1, <1>4, WritingIs
    <2>3. HoldersFit'
      BY <1>2, <2>1, <2>2, HolderMoves DEF Asleep
    <2>4. QED
      BY <2>1, <2>3 DEF Creation!IdeaKept
  <1>5. QED
    BY <1>3, <1>4

LEMMA WorkFits ==
  ASSUME Creation!CreationAssumption, NamesDiffer, TypedInv, HoldersFit,
         NEW w \in Workers,
         \/ Creation!CreateIdea(w) \/ Creation!Read(w) \/ Creation!Develop(w)
         \/ Creation!SelectAngle(w) \/ Creation!FindCampaign(w)
         \/ Creation!CreateCampaign(w) \/ Creation!SaveAsset(w) \/ Creation!Generate(w)
  PROVE  HoldersFit' /\ Creation!IdeaKept
  <1> DEFINE p == jRun[w]
             Late == {"read", "develop", "choose", "select", "build", "campaign",
                      "create", "asset", "generate", "finish"}
  <1>1. UNCHANGED jReq /\ p.pc \notin Asleep
        /\ \E x: /\ jRun' = [jRun EXCEPT ![w] = x]
                 /\ x.pc \notin Asleep =>
                      /\ x.job = p.job
                      /\ \/ x.pc = "record" /\ p.pc = "idea"
                         \/ x.pc \in Late /\ p.pc \in Late /\ x.idea = p.idea
    <2>1. CASE Creation!CreateIdea(w)
      BY <2>1, ThinksUp DEF Asleep
    <2>2. CASE Creation!Read(w) \/ Creation!Develop(w)
      BY <2>2, SeesIdea DEF Asleep
    <2>3. CASE Creation!SelectAngle(w)
      <3>1. /\ UNCHANGED jReq /\ p.pc = "select"
            /\ \E x: /\ jRun' = [jRun EXCEPT ![w] = x] /\ x.pc \in {"build", "catch"}
                     /\ AtHand(x, p)
        BY <2>3, SelectsAngle
      <3>2. QED
        BY <3>1 DEF Asleep, AtHand
    <2>4. CASE Creation!FindCampaign(w)
      BY <2>4, FindsCampaign DEF Asleep
    <2>5. CASE Creation!CreateCampaign(w)
      BY <2>5, CreatesCampaign DEF Asleep
    <2>6. CASE Creation!SaveAsset(w) \/ Creation!Generate(w)
      BY <2>6, WritesAsset DEF Asleep
    <2>7. QED
      BY <2>1, <2>2, <2>3, <2>4, <2>5, <2>6
  <1>2. p.job \in Jobs
    BY <1>1, JobTyped DEF Asleep
  <1>3. PICK x: /\ jRun' = [jRun EXCEPT ![w] = x]
                /\ x.pc \notin Asleep =>
                     /\ x.job = p.job
                     /\ \/ x.pc = "record" /\ p.pc = "idea"
                        \/ x.pc \in Late /\ p.pc \in Late /\ x.idea = p.idea
    BY <1>1
  <1>4. ASSUME x.pc \notin Asleep, jReq'[p.job].owner = Name[w]
        PROVE  Fits(x, jReq'[p.job])
    <2>1. Fits(p, jReq[p.job])
      BY <1>1, <1>4 DEF HoldersFit, Creation!Holds, Creation!Job
    <2>2. QED
      BY <1>1, <1>3, <1>4, <2>1 DEF Fits
  <1> HIDE DEF p
  <1>5. HoldersFit'
    BY <1>1, <1>2, <1>3, <1>4, HolderMoves
  <1>6. QED
    BY <1>1, <1>5 DEF Creation!IdeaKept

LEMMA StopsFit ==
  ASSUME Creation!CreationAssumption, NamesDiffer, TypedInv, HoldersFit,
         NEW w \in Workers,
         Creation!Throws(w) \/ Creation!GiveUp(w) \/ Creation!Crash(w)
  PROVE  HoldersFit' /\ Creation!IdeaKept
  <1> DEFINE j == jRun[w].job
             r == jReq[j]
             q == Creation!Patched(r, "needs-attention", r)
  <1>1. j \in Jobs /\ RowTyped(r)
    BY StopsShort DEF TypedInv
  <1>2. PICK x: jRun' = [jRun EXCEPT ![w] = x] /\ x.pc \in Asleep
    BY StopsShort DEF Asleep
  <1>3. CASE UNCHANGED jReq
    <2>1. HoldersFit'
      BY <1>1, <1>2, <1>3, HolderMoves
    <2>2. QED
      BY <1>3, <2>1 DEF Creation!IdeaKept
  <1>4. CASE jReq' # jReq
    <2>1. Creation!Holds(w) /\ jReq' = [jReq EXCEPT ![j] = q]
      BY <1>4, StopsShort
    <2>2. r.status \notin Creation!Final /\ r \in RowType
      BY <1>1, <2>1, HeldIsOpen DEF RowTyped
    <2>3. "needs-attention" \in Statuses \ {"queued"} /\ "needs-attention" \in Creation!Final
      BY DEF Statuses, Creation!Final
    <2>4. q.idea = r.idea /\ q.owner = None
      BY <1>1, <2>2, <2>3, PatchedIs
    <2>5. DOMAIN jReq = Jobs /\ jReq'[j] = q /\ \A k \in Jobs \ {j}: jReq'[k] = jReq[k]
      BY <1>1, <2>1 DEF TypedInv
    <2> HIDE DEF q, r, j
    <2>6. HoldersFit'
      BY <1>1, <1>2, <2>4, <2>5, HolderMoves
    <2>7. Creation!IdeaKept
      BY <1>1, <2>4, <2>5, KeptByOne DEF r
    <2>8. QED
      BY <2>6, <2>7
  <1>5. QED
    BY <1>3, <1>4

LEMMA KeepsStep ==
  ASSUME Creation!CreationAssumption, NamesDiffer, TypedInv, HoldersFit,
         [Creation!Next]_(Creation!vars)
  PROVE  HoldersFit' /\ Creation!IdeaKept
  <1>1. CASE UNCHANGED Creation!vars
    BY <1>1 DEF Creation!vars, HoldersFit, Creation!IdeaKept, Creation!Holds, Creation!Job
  <1>2. ASSUME NEW w \in Workers, Creation!Tick(w) \/ Creation!Crash(w)
        PROVE  HoldersFit' /\ Creation!IdeaKept
    <2>1. ASSUME NEW j \in Jobs, Creation!Claim(w, j)
          PROVE  HoldersFit' /\ Creation!IdeaKept
      <3>1. /\ \A k \in Jobs \ {j}: jReq'[k] = jReq[k]
            /\ jReq'[j].owner = Name[w] /\ jReq'[j].idea = jReq[j].idea
        BY <2>1, Claims
      <3>2. PICK x: /\ jRun' = [jRun EXCEPT ![w] = x] /\ x.pc = "understand" /\ x.job = j
                    /\ x.idea = jReq[j].idea
        BY <2>1, Claims
      <3>3. HoldersFit'
        BY <3>1, <3>2, HolderMoves DEF Fits
      <3>4. QED
        BY <3>1, <3>3, KeptByOne
    <2>2. QED
      BY <1>2, <2>1, WritingFits, WorkFits, StopsFit
         DEF Creation!Tick, Creation!Step, AdvanceSteps
  <1>3. ASSUME NEW j \in Jobs, Creation!Expire(j)
        PROVE  HoldersFit' /\ Creation!IdeaKept
    <2>1. /\ jRun' = jRun
          /\ \A k \in Jobs: jReq'[k].owner = jReq[k].owner /\ jReq'[k].idea = jReq[k].idea
      BY <1>3, Expires
    <2>2. Creation!IdeaKept
      BY <2>1 DEF Creation!IdeaKept
    <2>3. \A w \in Workers: jRun[w].pc \notin Asleep => jRun[w].job \in Jobs
      BY JobTyped DEF Asleep
    <2>4. HoldersFit'
      <3> SUFFICES ASSUME NEW w \in Workers, jRun'[w].pc \notin Asleep, Creation!Holds(w)'
                   PROVE  Fits(jRun'[w], jReq'[jRun'[w].job])
        BY DEF HoldersFit
      <3>1. Creation!Holds(w)
        BY <2>1, <2>3 DEF Creation!Holds, Creation!Job
      <3>2. Fits(jRun[w], jReq[jRun[w].job])
        BY <2>1, <3>1 DEF HoldersFit
      <3>3. QED
        BY <2>1, <2>3, <3>2 DEF Fits
    <2>5. QED
      BY <2>2, <2>4
  <1>4. ASSUME NEW i \in Ideas, NEW a \in Angles, Creation!UserSelects(i, a)
        PROVE  HoldersFit' /\ Creation!IdeaKept
    <2>1. jReq' = jReq /\ jRun' = jRun
      BY <1>4 DEF Creation!UserSelects
    <2>2. QED
      BY <2>1 DEF HoldersFit, Creation!IdeaKept, Creation!Holds, Creation!Job
  <1>5. QED
    BY <1>1, <1>2, <1>3, <1>4 DEF Creation!Next, Ideas

(* Where processes sign with names that differ, a request keeps the idea   *)
(* it continues or the one it first made, through crashes, leases that run *)
(* out and processes that work on after they lost theirs (advance writes   *)
(* the idea of every patch under where lease_owner=$2).                    *)
THEOREM IdeaStays ==
  ASSUME Creation!CreationAssumption, NamesDiffer
  PROVE  Creation!Spec => [][Creation!IdeaKept]_(Creation!vars)
  <1>1. Creation!Init => TypedInv /\ HoldersFit
    <2>1. Creation!Init => HoldersFit
      BY DEF Creation!Init, HoldersFit, Creation!Idle, Asleep
    <2>2. QED
      BY <2>1, TypedBegins
  <1>2. TypedInv /\ HoldersFit /\ [Creation!Next]_(Creation!vars) => TypedInv' /\ HoldersFit'
    BY TypedStep, KeepsStep
  <1>3. TypedInv /\ HoldersFit /\ [Creation!Next]_(Creation!vars)
          => [Creation!IdeaKept]_(Creation!vars)
    BY KeepsStep
  <1>4. QED
    BY <1>1, <1>2, <1>3, PTL DEF Creation!Spec

-----------------------------------------------------------------------------
\* One process, and nobody else selects: what it saw of the angle still holds,
\* and a campaign it is about to create is not there yet.
Only(w) == \A v \in Workers: v = w
ForIt(c, x) == c.idea = x.idea /\ c.angle = Pref[x.job]
OneFits(x) ==
  /\ x.pc \in {"choose", "select"} => x.sel = jAngle[x.idea].sel
  /\ x.pc \in {"build", "campaign", "create"} => jAngle[x.idea].sel = Pref[x.job]
  /\ x.pc = "create" => \A c \in jCampaigns: ~ForIt(c, x)
  /\ x.pc \in HasCampaigned =>
       \E c \in jCampaigns: c.id = x.campaign /\ c.angle = Pref[x.job]
ReadyFits(row) ==
  row.status = "ready" => \E c \in jCampaigns: c.id = row.campaign /\ c.angle = row.angle
AloneInv ==
  /\ \A w \in Workers: OneFits(jRun[w])
  /\ \A j \in Jobs: ReadyFits(jReq[j])
  /\ Creation!OneCampaign

LEMMA AloneWriting ==
  ASSUME Creation!CreationAssumption, TypedInv, AloneInv, NEW w \in Workers, Only(w),
         AdvanceSteps(w)
  PROVE  AloneInv'
  <1>1. PICK at, s, next, patch:
           /\ Writing(w, at, s, next, patch)
           /\ <<at, s, next>> \in {<<"understand", "understanding-goal", "idea">>,
                <<"understand", "understanding-goal", "read">>,
                <<"record", "researching", "read">>, <<"read", "researching", "develop">>,
                <<"choose", "choosing-angle", "select">>,
                <<"build", "building-campaign", "campaign">>, <<"finish", "ready", "idle">>}
           /\ at = "finish" => /\ patch.angle = Pref[jRun[w].job]
                               /\ patch.campaign = jRun[w].campaign
    BY Advancing
  <1> DEFINE j == jRun[w].job
             r == jReq[j]
             q == Creation!Patched(r, s, patch)
  <1>2. jRun[w].pc = at /\ j \in Jobs /\ UNCHANGED <<jCampaigns, jAngle>>
    BY <1>1, WritingIs
  <1>3. OneFits(jRun[w]) /\ DOMAIN jRun = Workers /\ DOMAIN jReq = Jobs
    BY DEF AloneInv, TypedInv
  <1>4. PICK x: /\ jRun' = [jRun EXCEPT ![w] = x]
                /\ x.pc = "catch" \/ (x.pc = next /\ (next # "idle" => AtHand(x, jRun[w])))
    <2>1. CASE Creation!Holds(w)
      BY <1>1, <2>1, WritingIs
    <2>2. CASE ~Creation!Holds(w)
      BY <1>1, <2>2, WritingIs
    <2>3. QED
      BY <2>1, <2>2
  <1>5. OneFits(x)
    BY <1>1, <1>2, <1>3, <1>4 DEF OneFits, AtHand, HasCampaigned
  <1>6. OneFits(x)'
    BY <1>2, <1>5 DEF OneFits
  <1>7. \A v \in Workers: OneFits(jRun[v])'
    <2>1. \A v \in Workers: jRun'[v] = x
      BY <1>3, <1>4 DEF Only
    <2>2. QED
      BY <1>6, <2>1 DEF OneFits
  <1>8. \A k \in Jobs: ReadyFits(jReq[k])'
    <2>1. CASE Creation!Holds(w)
      <3>1. jReq' = [jReq EXCEPT ![j] = q]
        BY <1>1, <2>1, WritingIs
      <3>2. RowTyped(r) /\ r.status \notin Creation!Final
        BY <1>2, <2>1, HeldIsOpen DEF TypedInv
      <3>3. q.status = s /\ q.campaign = patch.campaign /\ q.angle = patch.angle
        BY <1>1, <3>2, PatchedIs DEF Writing
      <3> HIDE DEF q
      <3>4. s = "ready" => \E c \in jCampaigns: c.id = patch.campaign /\ c.angle = patch.angle
        BY <1>1, <1>2, <1>3 DEF OneFits, HasCampaigned
      <3>5. ASSUME NEW k \in Jobs PROVE ReadyFits(jReq[k])'
        <4>1. CASE k = j
          <5>1. jReq'[k] = q
            BY <1>3, <3>1, <4>1
          <5>2. QED
            BY <1>2, <3>3, <3>4, <5>1 DEF ReadyFits
        <4>2. CASE k # j
          <5>1. jReq'[k] = jReq[k] /\ ReadyFits(jReq[k])
            BY <1>3, <3>1, <4>2 DEF AloneInv
          <5>2. QED
            BY <1>2, <5>1 DEF ReadyFits
        <4>3. QED
          BY <4>1, <4>2
      <3>6. QED
        BY <3>5
    <2>2. CASE ~Creation!Holds(w)
      <3>1. jReq' = jReq
        BY <1>1, <2>2, WritingIs
      <3>2. QED
        BY <1>2, <3>1 DEF AloneInv, ReadyFits
    <2>3. QED
      BY <2>1, <2>2
  <1>9. Creation!OneCampaign'
    BY <1>2 DEF AloneInv, Creation!OneCampaign
  <1>10. QED
    BY <1>7, <1>8, <1>9 DEF AloneInv

\* Where no request is written it is enough to look at the process and the
\* campaigns.
LEMMA AloneMoves ==
  ASSUME TypedInv, AloneInv, NEW w \in Workers, Only(w),
         \A j \in Jobs: \/ jReq'[j].status # "ready"
                        \/ /\ jReq'[j].status = jReq[j].status
                           /\ jReq'[j].campaign = jReq[j].campaign
                           /\ jReq'[j].angle = jReq[j].angle,
         NEW x, jRun' = [jRun EXCEPT ![w] = x], OneFits(x)',
         jCampaigns \subseteq jCampaigns', Creation!OneCampaign'
  PROVE  AloneInv'
  <1>1. \A v \in Workers: OneFits(jRun[v])'
    <2>1. \A v \in Workers: jRun'[v] = x
      BY DEF Only, TypedInv
    <2>2. QED
      BY <2>1 DEF OneFits
  <1>2. \A j \in Jobs: ReadyFits(jReq[j])'
    BY DEF AloneInv, ReadyFits
  <1>3. QED
    BY <1>1, <1>2 DEF AloneInv

LEMMA AloneWorks ==
  ASSUME Creation!CreationAssumption, TypedInv, AloneInv, NEW w \in Workers, Only(w),
         \/ Creation!CreateIdea(w) \/ Creation!Read(w) \/ Creation!Develop(w)
         \/ Creation!SelectAngle(w) \/ Creation!FindCampaign(w)
         \/ Creation!CreateCampaign(w) \/ Creation!SaveAsset(w) \/ Creation!Generate(w)
  PROVE  AloneInv'
  <1> DEFINE p == jRun[w]
  <1>1. OneFits(p) /\ Creation!OneCampaign
    BY DEF AloneInv
  <1>2. ASSUME jReq' = jReq, jCampaigns' = jCampaigns,
               NEW x, jRun' = [jRun EXCEPT ![w] = x], OneFits(x)'
        PROVE  AloneInv'
    BY <1>1, <1>2, AloneMoves DEF Creation!OneCampaign
  <1>3. CASE Creation!CreateIdea(w)
    <2>1. PICK x: jRun' = [jRun EXCEPT ![w] = x] /\ x.pc = "record"
      BY <1>3, ThinksUp
    <2>2. QED
      BY <1>2, <1>3, <2>1, ThinksUp DEF OneFits, HasCampaigned
  <1>4. CASE Creation!Read(w) \/ Creation!Develop(w)
    <2>1. PICK x: /\ jRun' = [jRun EXCEPT ![w] = x] /\ x.pc = "choose"
                  /\ x.idea = p.idea /\ x.sel = jAngle[p.idea].sel
      BY <1>4, SeesIdea
    <2>2. /\ jReq' = jReq /\ jCampaigns' = jCampaigns /\ p.idea \in Ideas
          /\ jAngle'[p.idea].sel = jAngle[p.idea].sel
      BY <1>4, SeesIdea
    <2>3. OneFits(x)'
      BY <2>1, <2>2 DEF OneFits, HasCampaigned
    <2>4. QED
      BY <1>2, <2>1, <2>2, <2>3
  <1>5. CASE Creation!SelectAngle(w)
    <2>1. /\ p.pc = "select" /\ jReq' = jReq /\ jCampaigns' = jCampaigns
          /\ \E x: /\ jRun' = [jRun EXCEPT ![w] = x] /\ x.pc \in {"build", "catch"}
                   /\ AtHand(x, p)
                   /\ x.pc = "build" => \/ p.sel = Pref[p.job] /\ jAngle' = jAngle
                                        \/ jAngle'[p.idea].sel = Pref[p.job]
      BY <1>5, SelectsAngle
    <2>2. PICK x: /\ jRun' = [jRun EXCEPT ![w] = x] /\ x.pc \in {"build", "catch"}
                  /\ AtHand(x, p)
                  /\ x.pc = "build" => \/ p.sel = Pref[p.job] /\ jAngle' = jAngle
                                       \/ jAngle'[p.idea].sel = Pref[p.job]
      BY <2>1
    <2>3. x.pc = "build" => jAngle'[x.idea].sel = Pref[x.job]
      BY <1>1, <2>1, <2>2 DEF OneFits, AtHand
    <2>4. OneFits(x)'
      BY <2>2, <2>3 DEF OneFits, HasCampaigned
    <2>5. QED
      BY <1>2, <2>1, <2>2, <2>4
  <1>6. CASE Creation!FindCampaign(w)
    <2>1. PICK x: /\ jRun' = [jRun EXCEPT ![w] = x]
                  /\ x.job = p.job /\ x.idea = p.idea
                  /\ \/ /\ x.pc = "create"
                        /\ \A c \in jCampaigns: ~Creation!HasCampaign(w, c)
                     \/ /\ x.pc \in {"asset", "finish"}
                        /\ \E c \in jCampaigns: Creation!HasCampaign(w, c) /\ c.id = x.campaign
      BY <1>6, FindsCampaign
    <2>2. UNCHANGED <<jReq, jCampaigns, jAngle>> /\ p.pc = "campaign"
      BY <1>6, FindsCampaign
    <2>3. OneFits(x)'
      BY <1>1, <2>1, <2>2 DEF OneFits, HasCampaigned, ForIt, Creation!HasCampaign
    <2>4. QED
      BY <1>2, <2>1, <2>2, <2>3
  <1>7. CASE Creation!CreateCampaign(w)
    <2> DEFINE d == [id |-> Creation!Me(w), idea |-> p.idea, angle |-> jAngle[p.idea].sel]
    <2>1. PICK x: /\ jRun' = [jRun EXCEPT ![w] = x] /\ x.pc \in {"asset", "finish"}
                  /\ x.job = p.job /\ x.campaign = Creation!Me(w)
      BY <1>7, CreatesCampaign
    <2>2. UNCHANGED <<jReq, jAngle>> /\ p.pc = "create" /\ jCampaigns' = jCampaigns \cup {d}
      BY <1>7, CreatesCampaign
    <2>3. /\ d.id = Creation!Me(w) /\ d.idea = p.idea /\ d.angle = Pref[p.job]
          /\ \A c \in jCampaigns: ~ForIt(c, p)
      BY <1>1, <2>2 DEF OneFits
    <2> HIDE DEF d
    <2>4. \A c \in jCampaigns: ~(c.idea = d.idea /\ c.angle = d.angle)
      BY <2>3 DEF ForIt
    <2>5. Creation!OneCampaign'
      <3> SUFFICES ASSUME NEW c \in jCampaigns', NEW e \in jCampaigns',
                          c.idea = e.idea, c.angle = e.angle
                   PROVE  c = e
        BY DEF Creation!OneCampaign
      <3>1. CASE c \in jCampaigns /\ e \in jCampaigns
        BY <1>1, <3>1 DEF Creation!OneCampaign
      <3>2. CASE c = d \/ e = d
        BY <2>2, <2>4, <3>2
      <3>3. QED
        BY <2>2, <3>1, <3>2
    <2>6. d \in jCampaigns' /\ d.id = x.campaign /\ d.angle = Pref[x.job]
      BY <2>1, <2>2, <2>3
    <2>7. OneFits(x)'
      BY <2>1, <2>6 DEF OneFits
    <2>8. QED
      BY <2>1, <2>2, <2>5, <2>7, AloneMoves
  <1>8. CASE Creation!SaveAsset(w) \/ Creation!Generate(w)
    <2>1. PICK x: /\ jRun' = [jRun EXCEPT ![w] = x] /\ x.pc \in {"generate", "finish"}
                  /\ x.job = p.job /\ x.campaign = p.campaign
      BY <1>8, WritesAsset
    <2>2. UNCHANGED <<jReq, jCampaigns, jAngle>> /\ p.pc \in {"asset", "generate"}
      BY <1>8, WritesAsset
    <2>3. OneFits(x)'
      BY <1>1, <2>1, <2>2 DEF OneFits, HasCampaigned
    <2>4. QED
      BY <1>2, <2>1, <2>2, <2>3
  <1>9. QED
    BY <1>3, <1>4, <1>5, <1>6, <1>7, <1>8

LEMMA AloneStep ==
  ASSUME Creation!CreationAssumption, MaxSelects = 0, TypedInv, AloneInv,
         NEW w \in Workers, Only(w), [Creation!Next]_(Creation!vars)
  PROVE  AloneInv'
  <1>1. CASE UNCHANGED Creation!vars
    BY <1>1 DEF Creation!vars, AloneInv, OneFits, ReadyFits, Creation!OneCampaign
  <1>2. CASE Creation!Tick(w) \/ Creation!Crash(w)
    <2>1. CASE Creation!Throws(w) \/ Creation!GiveUp(w) \/ Creation!Crash(w)
      <3> DEFINE j == jRun[w].job
                 r == jReq[j]
                 q == Creation!Patched(r, "needs-attention", r)
      <3>1. PICK x: jRun' = [jRun EXCEPT ![w] = x] /\ x.pc \in {"idle", "catch"}
        BY <2>1, StopsShort
      <3>2. OneFits(x)'
        BY <3>1 DEF OneFits, HasCampaigned
      <3>3. UNCHANGED <<jCampaigns, jAngle>> /\ Creation!OneCampaign /\ j \in Jobs
        BY <2>1, StopsShort DEF AloneInv
      <3>4. \A k \in Jobs: jReq'[k].status # "ready" \/ jReq'[k] = jReq[k]
        <4>1. CASE jReq' = jReq
          BY <4>1
        <4>2. CASE jReq' # jReq
          <5>1. Creation!Holds(w) /\ jReq' = [jReq EXCEPT ![j] = q]
            BY <2>1, <4>2, StopsShort
          <5>2. RowTyped(r) /\ r.status \notin Creation!Final
            BY <3>3, <5>1, HeldIsOpen DEF TypedInv
          <5>3. r \in RowType /\ "needs-attention" \in Statuses \ {"queued"}
            BY <5>2 DEF RowTyped, Statuses, Creation!Final
          <5>4. q.status = "needs-attention"
            BY <5>2, <5>3, PatchedIs
          <5> HIDE DEF q
          <5>5. QED
            BY <5>1, <5>4 DEF TypedInv
        <4>3. QED
          BY <4>1, <4>2
      <3>5. QED
        BY <3>1, <3>2, <3>3, <3>4, AloneMoves DEF Creation!OneCampaign
    <2>2. ASSUME NEW j \in Jobs, Creation!Claim(w, j) PROVE AloneInv'
      <3>1. PICK x: jRun' = [jRun EXCEPT ![w] = x] /\ x.pc = "understand"
        BY <2>2, Claims
      <3>2. /\ UNCHANGED <<jCampaigns, jAngle>> /\ Creation!OneCampaign
            /\ jReq'[j].status # "ready" /\ \A k \in Jobs \ {j}: jReq'[k] = jReq[k]
        BY <2>2, Claims DEF AloneInv, Creation!Final
      <3>3. OneFits(x)'
        BY <3>1 DEF OneFits, HasCampaigned
      <3>4. QED
        BY <3>1, <3>2, <3>3, AloneMoves DEF Creation!OneCampaign
    <2>3. QED
      BY <1>2, <2>1, <2>2, AloneWriting, AloneWorks
         DEF Creation!Tick, Creation!Step, AdvanceSteps
  <1>3. ASSUME NEW j \in Jobs, Creation!Expire(j) PROVE AloneInv'
    <2>1. UNCHANGED <<jCampaigns, jAngle, jRun>>
          /\ \A k \in Jobs: /\ jReq'[k].status = jReq[k].status
                            /\ jReq'[k].campaign = jReq[k].campaign
                            /\ jReq'[k].angle = jReq[k].angle
      BY <1>3, Expires
    <2>2. QED
      BY <2>1 DEF AloneInv, OneFits, ReadyFits, Creation!OneCampaign
  <1>4. ASSUME NEW i \in Ideas, NEW a \in Angles, Creation!UserSelects(i, a) PROVE FALSE
    BY <1>4, UserChooses
  <1>5. QED
    BY <1>1, <1>2, <1>3, <1>4 DEF Creation!Next, Ideas, Only

(* Where one process works and nobody else selects, an attempt after a     *)
(* crash takes up the campaign an earlier one left, for requests that      *)
(* share their ideas too, and a finished request shows a campaign of the   *)
(* angle it recommends (campaigns.list().find and createFromSelectedAngle  *)
(* of makeAsset).                                                          *)
THEOREM CampaignIsOne ==
  ASSUME Creation!CreationAssumption, NEW w, Workers = {w}, MaxSelects = 0
  PROVE  Creation!Spec => [](Creation!OneCampaign /\ Creation!CampaignFits)
  <1>1. w \in Workers /\ Only(w)
    BY DEF Only
  <1>2. TypedInv /\ AloneInv => Creation!OneCampaign /\ Creation!CampaignFits
    BY DEF AloneInv, ReadyFits, Creation!CampaignFits
  <1>3. Creation!Init => TypedInv /\ AloneInv
    <2>1. ASSUME Creation!Init PROVE AloneInv
      <3>1. \A v \in Workers: jRun[v].pc = "idle"
        BY <2>1 DEF Creation!Init, Creation!Idle
      <3>2. \A j \in Jobs: jReq[j].status = "queued"
        BY <2>1 DEF Creation!Init
      <3>3. QED
        BY <2>1, <3>1, <3>2 DEF Creation!Init, AloneInv, OneFits, ReadyFits,
                                HasCampaigned, Creation!OneCampaign
    <2>2. QED
      BY <2>1, TypedBegins
  <1>4. TypedInv /\ AloneInv /\ [Creation!Next]_(Creation!vars) => TypedInv' /\ AloneInv'
    BY <1>1, TypedStep, AloneStep
  <1>5. QED
    BY <1>2, <1>3, <1>4, PTL DEF Creation!Spec

-----------------------------------------------------------------------------
(* From an idea to two angles (IdeaResearch), for any requests, processes,  *)
(* pools, people, evidence and answers of the models.                       *)
CONSTANTS Routes, Creations, Process, Pool, People, Items, Anchors, Explicit,
          Linked, Searches, Judgments, Strategies, MaxEvidence
VARIABLES iIdea, iDossier, iAngles, iLock, iRun, iPerson

Idea == INSTANCE IdeaResearch WITH
  idea <- iIdea, dossier <- iDossier, angles <- iAngles, lock <- iLock,
  run <- iRun, person <- iPerson

\* Induction over the numbers up to n, for the members of a set.
LEMMA UpTo ==
  ASSUME NEW n \in Nat, NEW P, 0 \in P, \A k \in 1..n: k - 1 \in P => k \in P
  PROVE  \A k \in 0..n: k \in P
  <1> DEFINE Rest == {k \in 0..n: k \notin P}
  <1> SUFFICES ASSUME Rest # {} PROVE FALSE
    OBVIOUS
  <1>1. IsWellFoundedOn(Less, Nat)
    BY NatLessThanWellFounded DEF Less
  <1>2. Rest \subseteq Nat
    OBVIOUS
  <1>3. PICK k \in Rest: \A y \in Rest: ~(<<y, k>> \in Less)
    BY <1>1, <1>2, WFMin
  <1>4. k \in 1..n
    BY <1>3
  <1>5. k - 1 \in 0..n /\ k - 1 < k /\ k \in Nat /\ k - 1 \in Nat
    BY <1>4
  <1>6. <<k - 1, k>> \in Less
    BY <1>5, LessIs, Zenon
  <1>7. k - 1 \in P
    BY <1>3, <1>5, <1>6
  <1>8. QED
    BY <1>3, <1>4, <1>7

\* A value can be built step by step.
Steps(n, S, G) == G \in [(1..n) \X S -> S]
Builds(n, S, z, G, f) == /\ f \in [0..n -> S]
                         /\ f[0] = z /\ \A k \in 1..n: f[k] = G[<<k, f[k - 1]>>]

LEMMA BuiltUp ==
  ASSUME NEW n \in Nat, NEW S, NEW z \in S, NEW G, Steps(n, S, G)
  PROVE  \E f: Builds(n, S, z, G, f)
  <1> USE DEF Steps, Builds
  <1> DEFINE Reached(m) == \E f \in [0..m -> S]:
                             f[0] = z /\ \A k \in 1..m: f[k] = G[<<k, f[k - 1]>>]
             P == {m \in 0..n: Reached(m)}
  <1>1. 0 \in P
    <2> DEFINE y == [x \in 0..0 |-> z]
    <2>1. y \in [0..0 -> S] /\ y[0] = z /\ \A k \in 1..0: FALSE
      OBVIOUS
    <2> HIDE DEF y
    <2>2. Reached(0)
      BY <2>1
    <2>3. QED
      BY <2>2
  <1>2. ASSUME NEW m \in 1..n, m - 1 \in P PROVE m \in P
    <2>1. PICK f \in [0..(m - 1) -> S]:
            f[0] = z /\ \A k \in 1..(m - 1): f[k] = G[<<k, f[k - 1]>>]
      BY <1>2
    <2> DEFINE g == [k \in 0..m |-> IF k = m THEN G[<<m, f[m - 1]>>] ELSE f[k]]
    <2>2. m - 1 \in 0..(m - 1) /\ f[m - 1] \in S /\ m \in Nat
      BY <2>1
    <2>3. G[<<m, f[m - 1]>>] \in S
      BY <2>2
    <2>4. \A k \in 0..m: k # m => k \in 0..(m - 1)
      BY <2>2
    <2>5. g \in [0..m -> S]
      BY <2>1, <2>3, <2>4
    <2>6. g[0] = z
      BY <2>1, <2>2
    <2>7. \A k \in 1..m: g[k] = G[<<k, g[k - 1]>>]
      <3> SUFFICES ASSUME NEW k \in 1..m PROVE g[k] = G[<<k, g[k - 1]>>]
        OBVIOUS
      <3>1. k - 1 \in 0..m /\ k - 1 # m /\ k \in 0..m
        BY <2>2
      <3>2. g[k - 1] = f[k - 1]
        BY <3>1
      <3>3. CASE k = m
        BY <3>1, <3>2, <3>3
      <3>4. CASE k # m
        <4>1. k \in 1..(m - 1)
          BY <2>2, <3>4
        <4>2. g[k] = f[k]
          BY <3>1, <3>4
        <4>3. QED
          BY <2>1, <3>2, <4>1, <4>2
      <3>5. QED
        BY <3>3, <3>4
    <2> HIDE DEF g
    <2>8. Reached(m)
      BY <2>5, <2>6, <2>7
    <2>9. QED
      BY <2>8
  <1> HIDE DEF P
  <1>3. n \in P
    BY <1>1, <1>2, UpTo
  <1>4. QED
    BY <1>3 DEF P

-----------------------------------------------------------------------------
\* The items at some positions of a sequence: a sequence in the same order.
Order(f, m, l) == /\ m \in Nat /\ m <= l /\ f \in [1..m -> 1..l]
                  /\ \A i, j \in 1..m: i < j => f[i] < f[j]
Picks(s, K, w, f, m) ==
  /\ Order(f, m, Len(s)) /\ Len(w) = m
  /\ \A k \in 1..m: f[k] \in K /\ w[k] = s[f[k]]

Keeps(f, S, s, K) ==
  /\ f \in [0..Len(s) -> Seq(S)] /\ f[0] = <<>>
  /\ Idea!Where(s, K) = f[Len(s)]
  /\ \A n \in 1..Len(s):
       f[n] = IF n \in K THEN Append(f[n - 1], s[n]) ELSE f[n - 1]

LEMMA KeptIs ==
  ASSUME NEW S, NEW s \in Seq(S), NEW K
  PROVE  \E f: Keeps(f, S, s, K)
  <1> DEFINE l == Len(s)
             Is(f) == f = [n \in 0..l |-> IF n = 0 THEN <<>>
                                          ELSE IF n \in K THEN Append(f[n - 1], s[n])
                                                          ELSE f[n - 1]]
             G == [p \in (1..l) \X Seq(S) |->
                     IF p[1] \in K THEN Append(p[2], s[p[1]]) ELSE p[2]]
  <1>1. l \in Nat
    OBVIOUS
  <1> DEFINE h == CHOOSE f: Is(f)
  <1>2. Idea!Where(s, K) = h[l]
    BY DEF Idea!Where
  <1>3. Steps(l, Seq(S), G)
    <2>1. ASSUME NEW p \in (1..l) \X Seq(S)
          PROVE  (IF p[1] \in K THEN Append(p[2], s[p[1]]) ELSE p[2]) \in Seq(S)
      <3>1. p[1] \in 1..Len(s) /\ p[2] \in Seq(S)
        OBVIOUS
      <3>2. s[p[1]] \in S
        BY <3>1
      <3>3. QED
        BY <3>1, <3>2
    <2>2. QED
      BY <2>1 DEF Steps
  <1>4. <<>> \in Seq(S)
    OBVIOUS
  <1>5. PICK f: Builds(l, Seq(S), <<>>, G, f)
    <2> HIDE DEF G, l
    <2>1. QED
      BY <1>1, <1>3, <1>4, BuiltUp
  <1>6. \A n \in 1..l: f[n] = IF n \in K THEN Append(f[n - 1], s[n]) ELSE f[n - 1]
    <2> SUFFICES ASSUME NEW n \in 1..l
                 PROVE  f[n] = IF n \in K THEN Append(f[n - 1], s[n]) ELSE f[n - 1]
      OBVIOUS
    <2>1. n - 1 \in 0..l
      BY <1>1
    <2>2. f[n - 1] \in Seq(S) /\ f[n] = G[<<n, f[n - 1]>>]
      BY <1>5, <2>1 DEF Builds
    <2>3. QED
      BY <2>2
  <1>7. f \in [0..l -> Seq(S)] /\ f[0] = <<>>
    BY <1>5 DEF Builds
  <1> HIDE DEF G
  <1>8. Is(f)
    <2>1. \A n \in 0..l: f[n] = IF n = 0 THEN <<>>
                                ELSE IF n \in K THEN Append(f[n - 1], s[n])
                                                ELSE f[n - 1]
      <3> SUFFICES ASSUME NEW n \in 0..l
                   PROVE  f[n] = IF n = 0 THEN <<>>
                                 ELSE IF n \in K THEN Append(f[n - 1], s[n])
                                                 ELSE f[n - 1]
        OBVIOUS
      <3>1. n = 0 \/ n \in 1..l
        BY <1>1
      <3> HIDE DEF l
      <3>2. QED
        BY <1>6, <1>7, <3>1
    <2>2. QED
      BY <1>7, <2>1
  <1>9. Is(h)
    BY <1>8
  <1> HIDE DEF h
  <1>10. \A n \in 0..l: h[n] = IF n = 0 THEN <<>>
                               ELSE IF n \in K THEN Append(h[n - 1], s[n])
                                               ELSE h[n - 1]
    BY <1>9
  <1>11. \A n \in 0..l: h[n] = f[n]
    <2> DEFINE P == {n \in 0..l: h[n] = f[n]}
    <2>1. 0 \in P
      BY <1>1, <1>7, <1>10
    <2>2. ASSUME NEW n \in 1..l, n - 1 \in P PROVE n \in P
      BY <1>1, <1>6, <1>10, <2>2
    <2> HIDE DEF P
    <2>3. \A n \in 0..l: n \in P
      BY <1>1, <2>1, <2>2, UpTo
    <2>4. QED
      BY <2>3 DEF P
  <1>12. Idea!Where(s, K) = f[l]
    <2>1. l \in 0..l
      BY <1>1
    <2> HIDE DEF l
    <2>2. QED
      BY <1>2, <1>11, <2>1
  <1>13. QED
    BY <1>6, <1>7, <1>12 DEF Keeps

LEMMA WhereIs ==
  ASSUME NEW S, NEW s \in Seq(S), NEW K
  PROVE  /\ Idea!Where(s, K) \in Seq(S)
         /\ \E f, m: Picks(s, K, Idea!Where(s, K), f, m)
  <1>0. PICK w: Keeps(w, S, s, K)
    BY KeptIs
  <1>1. /\ w \in [0..Len(s) -> Seq(S)] /\ w[0] = <<>>
        /\ Idea!Where(s, K) = w[Len(s)]
        /\ \A n \in 1..Len(s):
             w[n] = IF n \in K THEN Append(w[n - 1], s[n]) ELSE w[n - 1]
    BY <1>0 DEF Keeps
  <1> DEFINE Upto(a, e, b) == /\ b \in 0..a /\ e \in [1..b -> 1..a]
                              /\ \A i, j \in 1..b: i < j => e[i] < e[j]
                              /\ Len(w[a]) = b
                              /\ \A k \in 1..b: e[k] \in K /\ w[a][k] = s[e[k]]
             P == {n \in 0..Len(s): \E f, m: Upto(n, f, m)}
  <1>2. Len(s) \in Nat
    OBVIOUS
  <1>3. 0 \in P
    <2> DEFINE f == [k \in 1..0 |-> k]
    <2>0. f \in [1..0 -> 1..0] /\ \A k \in 1..0: FALSE
      OBVIOUS
    <2> HIDE DEF f
    <2>1. Upto(0, f, 0)
      <3>1. Len(w[0]) = 0
        BY <1>1
      <3>2. 0 \in 0..0
        OBVIOUS
      <3>3. QED
        BY <2>0, <3>1, <3>2
    <2> HIDE DEF Upto
    <2>2. QED
      BY <1>2, <2>1
  <1>4. ASSUME NEW n \in 1..Len(s), n - 1 \in P PROVE n \in P
    <2>1. PICK f, m: Upto(n - 1, f, m)
      BY <1>4
    <2>2. n \in Nat /\ n - 1 \in 0..Len(s) /\ w[n - 1] \in Seq(S) /\ s[n] \in S
      BY <1>1
    <2>3. CASE n \notin K
      <3>1. w[n] = w[n - 1]
        BY <1>1, <2>3
      <3>2. m \in 0..n /\ f \in [1..m -> 1..n]
        BY <2>1, <2>2
      <3>3. /\ \A i, j \in 1..m: i < j => f[i] < f[j]
            /\ Len(w[n - 1]) = m
            /\ \A k \in 1..m: f[k] \in K /\ w[n - 1][k] = s[f[k]]
        BY <2>1
      <3>5. Upto(n, f, m)
        <4>1. Len(w[n]) = m
          BY <3>1, <3>3
        <4>2. \A k \in 1..m: f[k] \in K /\ w[n][k] = s[f[k]]
          BY <3>1, <3>3
        <4>3. QED
          BY <3>2, <3>3, <4>1, <4>2
      <3> HIDE DEF Upto
      <3>4. QED
        BY <3>5
    <2>4. CASE n \in K
      <3> DEFINE g == [k \in 1..(m + 1) |-> IF k = m + 1 THEN n ELSE f[k]]
      <3>1. w[n] = Append(w[n - 1], s[n])
        BY <1>1, <2>4
      <3>2. m \in Nat /\ m + 1 \in 0..n /\ Len(w[n - 1]) = m
        BY <2>1, <2>2
      <3>3. \A k \in 1..(m + 1): k # m + 1 => k \in 1..m
        BY <3>2
      <3>4. \A k \in 1..m: f[k] \in 1..(n - 1)
        BY <2>1
      <3>5. g \in [1..(m + 1) -> 1..n]
        BY <2>2, <3>3, <3>4
      <3>6. \A i, j \in 1..(m + 1): i < j => g[i] < g[j]
        <4> SUFFICES ASSUME NEW i \in 1..(m + 1), NEW j \in 1..(m + 1), i < j
                     PROVE  g[i] < g[j]
          OBVIOUS
        <4>1. i \in 1..m /\ g[i] = f[i] /\ f[i] \in 1..(n - 1)
          BY <3>2, <3>4
        <4>2. CASE j = m + 1
          BY <2>2, <4>1, <4>2
        <4>3. CASE j # m + 1
          <5>1. j \in 1..m /\ g[j] = f[j]
            BY <3>2, <4>3
          <5>2. QED
            BY <2>1, <4>1, <5>1
        <4>4. QED
          BY <4>2, <4>3
      <3>7. Len(w[n]) = m + 1 /\ w[n][m + 1] = s[n]
            /\ \A k \in 1..m: w[n][k] = w[n - 1][k]
        BY <2>2, <3>1, <3>2
      <3>8. \A k \in 1..(m + 1): g[k] \in K /\ w[n][k] = s[g[k]]
        <4> SUFFICES ASSUME NEW k \in 1..(m + 1)
                     PROVE  g[k] \in K /\ w[n][k] = s[g[k]]
          OBVIOUS
        <4>1. CASE k = m + 1
          BY <2>4, <3>7, <4>1
        <4>2. CASE k # m + 1
          <5>1. k \in 1..m /\ g[k] = f[k]
            BY <3>3, <4>2
          <5>2. QED
            BY <2>1, <3>7, <5>1
        <4>3. QED
          BY <4>1, <4>2
      <3> HIDE DEF g
      <3>9. Upto(n, g, m + 1)
        BY <3>2, <3>5, <3>6, <3>7, <3>8
      <3>10. QED
        BY <3>9
    <2>5. QED
      BY <2>3, <2>4
  <1> HIDE DEF P
  <1>5. Len(s) \in P
    BY <1>2, <1>3, <1>4, UpTo
  <1>6. PICK f, m: Upto(Len(s), f, m)
    BY <1>5 DEF P
  <1>7. Picks(s, K, Idea!Where(s, K), f, m)
    BY <1>1, <1>2, <1>6 DEF Picks, Order
  <1>8. Idea!Where(s, K) \in Seq(S)
    BY <1>1, <1>2
  <1>9. QED
    BY <1>7, <1>8

\* No two items of a sequence have the same key.
Apart(s) == \A i, j \in 1..Len(s): i # j => s[i].key # s[j].key

LEMMA OnlyRelevantIs ==
  ASSUME NEW s \in Seq(Items)
  PROVE  LET r == Idea!OnlyRelevant[s]
         IN /\ r \in Seq(Items) /\ Len(r) <= Len(s)
            /\ \A i \in 1..Len(r): Idea!Relevant(r[i])
            /\ Apart(s) => Apart(r)
  <1> DEFINE K == {i \in DOMAIN s: Idea!Relevant(s[i])}
             r == Idea!OnlyRelevant[s]
  <1>1. r = Idea!Where(s, K)
    BY DEF Idea!OnlyRelevant
  <1>2. \A i \in K: Idea!Relevant(s[i])
    OBVIOUS
  <1> HIDE DEF K, r
  <1>3. r \in Seq(Items) /\ \E f, m: Picks(s, K, r, f, m)
    BY <1>1, WhereIs
  <1>4. PICK f, m: Picks(s, K, r, f, m)
    BY <1>3
  <1>5. /\ m \in Nat /\ m <= Len(s) /\ Len(r) = m /\ f \in [1..m -> 1..Len(s)]
        /\ \A i, j \in 1..m: i < j => f[i] < f[j]
        /\ \A k \in 1..m: f[k] \in K /\ r[k] = s[f[k]]
    BY <1>4 DEF Picks, Order
  <1>6. \A i \in 1..Len(r): Idea!Relevant(r[i])
    BY <1>2, <1>5
  <1>7. Apart(s) => Apart(r)
    <2> SUFFICES ASSUME Apart(s), NEW i \in 1..m, NEW j \in 1..m, i # j
                 PROVE  r[i].key # r[j].key
      BY <1>5 DEF Apart
    <2>1. f[i] \in 1..Len(s) /\ f[j] \in 1..Len(s) /\ f[i] # f[j]
      <3>1. i < j \/ j < i
        BY <1>5
      <3>2. f[i] \in 1..Len(s) /\ f[j] \in 1..Len(s)
        BY <1>5
      <3>3. QED
        BY <1>5, <3>1, <3>2
    <2>2. s[f[i]].key # s[f[j]].key
      BY <2>1 DEF Apart
    <2>3. QED
      BY <1>5, <2>2
  <1>8. QED
    BY <1>3, <1>5, <1>6, <1>7 DEF r

LEMMA DistinctIs ==
  ASSUME NEW s \in Seq(Items)
  PROVE  Idea!Distinct[s] \in Seq(Items) /\ Apart(Idea!Distinct[s])
  <1> DEFINE K == {i \in DOMAIN s: \A j \in 1..(i-1): Idea!KeyOf(s[j]) # Idea!KeyOf(s[i])}
             r == Idea!Distinct[s]
  <1>1. r = Idea!Where(s, K)
    BY DEF Idea!Distinct
  <1>2. \A i \in K: \A j \in 1..(i-1): s[j].key # s[i].key
    BY DEF Idea!KeyOf
  <1> HIDE DEF K, r
  <1>3. r \in Seq(Items) /\ \E f, m: Picks(s, K, r, f, m)
    BY <1>1, WhereIs
  <1>4. PICK f, m: Picks(s, K, r, f, m)
    BY <1>3
  <1>5. /\ m \in Nat /\ Len(r) = m /\ f \in [1..m -> 1..Len(s)]
        /\ \A i, j \in 1..m: i < j => f[i] < f[j]
        /\ \A k \in 1..m: f[k] \in K /\ r[k] = s[f[k]]
    BY <1>4 DEF Picks, Order
  <1>6. ASSUME NEW i \in 1..m, NEW j \in 1..m, i < j
        PROVE  r[i].key # r[j].key
    <2>1. f[i] \in 1..Len(s) /\ f[j] \in 1..Len(s) /\ f[i] < f[j] /\ f[j] \in K
      BY <1>5, <1>6
    <2>2. f[i] \in 1..(f[j] - 1)
      BY <2>1
    <2>3. s[f[i]].key # s[f[j]].key
      BY <1>2, <2>1, <2>2
    <2>4. QED
      BY <1>5, <2>3
  <1>7. Apart(r)
    <2> SUFFICES ASSUME NEW i \in 1..m, NEW j \in 1..m, i # j
                 PROVE  r[i].key # r[j].key
      BY <1>5 DEF Apart
    <2>1. i < j \/ j < i
      BY <1>5
    <2>2. QED
      BY <1>6, <2>1
  <1>8. QED
    BY <1>3, <1>7 DEF r

LEMMA LesserIs ==
  ASSUME NEW a \in Nat, NEW b \in Nat
  PROVE  Idea!Min({a, b}) = IF a <= b THEN a ELSE b
  <1> DEFINE z == IF a <= b THEN a ELSE b
  <1>1. z \in {a, b} /\ \A y \in {a, b}: z <= y
    OBVIOUS
  <1>2. \A x \in {a, b}: (\A y \in {a, b}: x <= y) => x = z
    OBVIOUS
  <1> HIDE DEF z
  <1>3. Idea!Min({a, b}) = z
    BY <1>1, <1>2 DEF Idea!Min
  <1>4. QED
    BY <1>3 DEF z

LEMMA FirstIs ==
  ASSUME NEW S, NEW s \in Seq(S), NEW n \in Nat
  PROVE  LET r == Idea!First(s, n)
         IN /\ r \in Seq(S) /\ Len(r) <= n /\ Len(r) <= Len(s)
            /\ \A i \in 1..Len(r): r[i] = s[i]
  <1> DEFINE l == IF n <= Len(s) THEN n ELSE Len(s)
  <1>1. Idea!First(s, n) = SubSeq(s, 1, l)
    BY LesserIs DEF Idea!First
  <1>2. l \in Nat /\ l <= n /\ l <= Len(s)
    OBVIOUS
  <1> HIDE DEF l
  <1>3. SubSeq(s, 1, l) \in Seq(S) /\ Len(SubSeq(s, 1, l)) = l
        /\ \A i \in 1..l: SubSeq(s, 1, l)[i] = s[i]
    BY <1>2
  <1>4. QED
    BY <1>1, <1>2, <1>3

LEMMA FirstApart ==
  ASSUME NEW s \in Seq(Items), NEW n \in Nat, Apart(s)
  PROVE  Apart(Idea!First(s, n))
  <1> DEFINE r == Idea!First(s, n)
  <1>1. r \in Seq(Items) /\ Len(r) <= Len(s) /\ \A i \in 1..Len(r): r[i] = s[i]
    BY FirstIs
  <1> HIDE DEF r
  <1>2. Apart(r)
    BY <1>1 DEF Apart
  <1>3. QED
    BY <1>2 DEF r

LEMMA RoundIs ==
  ASSUME NEW groups \in Seq(Seq(Items)), NEW i \in Nat \ {0}
  PROVE  Idea!Round(groups, i) \in Seq(Items)
  <1> DEFINE K == {g \in DOMAIN groups: Len(groups[g]) >= i}
             w == Idea!Where(groups, K)
  <1>1. Idea!Round(groups, i) = [k \in DOMAIN w |-> w[k][i]]
    BY DEF Idea!Round
  <1>2. \A g \in K: groups[g] \in Seq(Items) /\ Len(groups[g]) >= i
    OBVIOUS
  <1> HIDE DEF K
  <1>3. w \in Seq(Seq(Items)) /\ \E f, m: Picks(groups, K, w, f, m)
    BY WhereIs
  <1> HIDE DEF w
  <1>4. PICK f, m: Picks(groups, K, w, f, m)
    BY <1>3
  <1>5. m \in Nat /\ Len(w) = m /\ \A k \in 1..m: f[k] \in K /\ w[k] = groups[f[k]]
    BY <1>4 DEF Picks, Order
  <1>6. \A k \in 1..m: w[k][i] \in Items
    <2> SUFFICES ASSUME NEW k \in 1..m PROVE w[k][i] \in Items
      OBVIOUS
    <2>1. w[k] \in Seq(Items) /\ Len(w[k]) >= i
      BY <1>2, <1>5
    <2>2. i \in 1..Len(w[k])
      BY <2>1
    <2>3. QED
      BY <2>1, <2>2
  <1>7. DOMAIN w = 1..m
    BY <1>3, <1>5
  <1>8. [k \in 1..m |-> w[k][i]] \in [1..m -> Items]
    BY <1>6
  <1>9. [k \in 1..m |-> w[k][i]] \in Seq(Items)
    BY <1>5, <1>8, SeqDef
  <1>10. QED
    BY <1>1, <1>7, <1>9

LEMMA LongestIs ==
  ASSUME NEW groups \in Seq(Seq(Items))
  PROVE  Idea!Longest(groups) \in Nat
  <1> DEFINE l == Len(groups)
             Capped(n) == \E b \in Nat: \A k \in 1..n: Len(groups[k]) <= b
             P == {n \in 0..l: Capped(n)}
             T == {0} \cup {Len(g): g \in Idea!ToSet(groups)}
  <1>1. l \in Nat /\ DOMAIN groups = 1..l /\ \A k \in 1..l: Len(groups[k]) \in Nat
    OBVIOUS
  <1>2. 0 \in P
    BY <1>1
  <1>3. ASSUME NEW n \in 1..l, n - 1 \in P PROVE n \in P
    <2>1. PICK b \in Nat: \A k \in 1..(n - 1): Len(groups[k]) <= b
      BY <1>3
    <2> DEFINE c == IF Len(groups[n]) <= b THEN b ELSE Len(groups[n])
    <2>2. c \in Nat /\ b <= c /\ Len(groups[n]) <= c
      BY <1>1
    <2> HIDE DEF c
    <2>3. ASSUME NEW k \in 1..n PROVE Len(groups[k]) <= c
      <3>1. k = n \/ k \in 1..(n - 1)
        OBVIOUS
      <3>2. k \in 1..l
        BY <1>1
      <3>3. Len(groups[k]) \in Nat
        BY <1>1, <3>2
      <3>4. QED
        BY <2>1, <2>2, <3>1, <3>3
    <2>4. n \in 0..l
      BY <1>1
    <2>5. QED
      BY <2>2, <2>3, <2>4
  <1> HIDE DEF P
  <1>4. l \in P
    <2>1. \A n \in 0..l: n \in P
      <3> HIDE DEF l
      <3>1. QED
        BY <1>1, <1>2, <1>3, UpTo
    <2>2. QED
      BY <1>1, <2>1
  <1>5. PICK b \in Nat: \A k \in 1..l: Len(groups[k]) <= b
    BY <1>4 DEF P
  <1>6. T \subseteq Nat /\ T # {} /\ \A t \in T: t <= b
    BY <1>1, <1>5 DEF Idea!ToSet
  <1>7. \E t \in T: \A u \in T: t >= u
    <2> HIDE DEF T
    <2>1. QED
      BY <1>6, Greatest
  <1>8. Idea!Longest(groups) = CHOOSE t \in T: \A u \in T: t >= u
    BY DEF Idea!Longest, Idea!Max
  <1> HIDE DEF T
  <1>9. QED
    BY <1>6, <1>7, <1>8

Flattens(f, seqs) ==
  /\ f \in [1..Len(seqs) -> Seq(Items)]
  /\ f[1] = seqs[1]
  /\ \A i \in 2..Len(seqs): f[i] = f[i - 1] \o seqs[i]

LEMMA FlattenIs ==
  ASSUME NEW seqs \in Seq(Seq(Items))
  PROVE  Idea!FlattenSeq(seqs) \in Seq(Items)
  <1> DEFINE l == Len(seqs)
             Is(f) == f = [i \in 1..l |-> IF i = 1 THEN seqs[i] ELSE f[i - 1] \o seqs[i]]
             h == CHOOSE f: Is(f)
             G == [p \in (1..l) \X Seq(Items) |->
                     IF p[1] = 1 THEN seqs[1] ELSE p[2] \o seqs[p[1]]]
  <1>1. l \in Nat /\ \A i \in 1..l: seqs[i] \in Seq(Items)
    OBVIOUS
  <1>2. Idea!FlattenSeq(seqs) = IF l = 0 THEN seqs ELSE h[l]
    BY DEF Idea!FlattenSeq
  <1>3. CASE l = 0
    <2>1. seqs = <<>>
      BY <1>3
    <2>2. QED
      BY <1>2, <1>3, <2>1
  <1>4. CASE l # 0
    <2>1. Steps(l, Seq(Items), G)
      <3>1. ASSUME NEW p \in (1..l) \X Seq(Items)
            PROVE  (IF p[1] = 1 THEN seqs[1] ELSE p[2] \o seqs[p[1]]) \in Seq(Items)
        <4>1. p[1] \in 1..l /\ p[2] \in Seq(Items) /\ 1 \in 1..l
          BY <1>1, <1>4
        <4>2. seqs[p[1]] \in Seq(Items) /\ seqs[1] \in Seq(Items)
          BY <1>1, <4>1
        <4>3. QED
          BY <4>1, <4>2
      <3>2. QED
        BY <3>1 DEF Steps
    <2>2. PICK f: Builds(l, Seq(Items), <<>>, G, f)
      <3>1. <<>> \in Seq(Items)
        OBVIOUS
      <3> HIDE DEF G, l
      <3>2. QED
        BY <1>1, <2>1, <3>1, BuiltUp
    <2>3. ASSUME NEW i \in 1..l
          PROVE  f[i] = IF i = 1 THEN seqs[i] ELSE f[i - 1] \o seqs[i]
      <3>1. i - 1 \in 0..l
        BY <1>1
      <3>2. f[i - 1] \in Seq(Items) /\ f[i] = G[<<i, f[i - 1]>>]
        BY <2>2, <3>1 DEF Builds
      <3>3. QED
        BY <3>2
    <2>4. f \in [0..l -> Seq(Items)]
      BY <2>2 DEF Builds
    <2> HIDE DEF G
    <2> DEFINE e == [i \in 1..l |-> f[i]]
    <2>5. Is(e)
      <3>1. ASSUME NEW i \in 1..l
            PROVE  e[i] = IF i = 1 THEN seqs[i] ELSE e[i - 1] \o seqs[i]
        <4>1. CASE i = 1
          BY <2>3, <4>1
        <4>2. CASE i # 1
          <5>1. i - 1 \in 1..l
            BY <1>1, <4>2
          <5>2. QED
            BY <2>3, <4>2, <5>1
        <4>3. QED
          BY <4>1, <4>2
      <3>2. DOMAIN e = 1..l /\ e = [i \in 1..l |-> e[i]]
        OBVIOUS
      <3> HIDE DEF e, l
      <3>3. QED
        BY <3>1, <3>2
    <2> HIDE DEF e
    <2>6. Is(h)
      BY <2>5
    <2> HIDE DEF h
    <2>7. \A i \in 1..l: h[i] = IF i = 1 THEN seqs[i] ELSE h[i - 1] \o seqs[i]
      BY <2>6
    <2> DEFINE P == {i \in 0..l: i = 0 \/ h[i] \in Seq(Items)}
    <2>8. 0 \in P
      BY <1>1
    <2>9. ASSUME NEW i \in 1..l, i - 1 \in P PROVE i \in P
      <3>1. CASE i = 1
        BY <1>1, <2>7, <3>1
      <3>2. CASE i # 1
        <4>1. h[i - 1] \in Seq(Items) /\ seqs[i] \in Seq(Items)
          BY <1>1, <2>9, <3>2
        <4>2. h[i] = h[i - 1] \o seqs[i]
          BY <2>7, <3>2
        <4>3. h[i] \in Seq(Items)
          BY <4>1, <4>2
        <4>4. QED
          BY <1>1, <4>3
      <3>3. QED
        BY <3>1, <3>2
    <2> HIDE DEF P
    <2>10. \A i \in 0..l: i \in P
      <3> HIDE DEF l
      <3>1. QED
        BY <1>1, <2>8, <2>9, UpTo
    <2>11. l \in P
      BY <1>1, <2>10
    <2>12. QED
      BY <1>2, <1>4, <2>11 DEF P
  <1>5. QED
    BY <1>3, <1>4

LEMMA BalancedIs ==
  ASSUME Idea!ResearchAssumption, NEW groups \in Seq(Seq(Items))
  PROVE  LET b == Idea!Balanced(groups)
         IN b \in Seq(Items) /\ Len(b) <= MaxEvidence /\ Apart(b)
  <1> DEFINE n == Idea!Longest(groups)
             rounds == [i \in 1..n |-> Idea!Round(groups, i)]
             all == Idea!InTurn[groups]
  <1>1. MaxEvidence \in Nat
    BY DEF Idea!ResearchAssumption
  <1>2. n \in Nat
    BY LongestIs
  <1>3. rounds \in Seq(Seq(Items))
    <2> HIDE DEF n
    <2>1. \A i \in 1..n: Idea!Round(groups, i) \in Seq(Items)
      BY <1>2, RoundIs
    <2>2. rounds \in [1..n -> Seq(Items)]
      BY <2>1
    <2>3. QED
      BY <1>2, <2>2, SeqDef
  <1>4. all = Idea!FlattenSeq(rounds)
    BY DEF Idea!InTurn
  <1> HIDE DEF rounds, n
  <1>5. all \in Seq(Items)
    BY <1>3, <1>4, FlattenIs
  <1> HIDE DEF all
  <1>6. Idea!Distinct[all] \in Seq(Items) /\ Apart(Idea!Distinct[all])
    BY <1>5, DistinctIs
  <1>7. Idea!Balanced(groups) = Idea!First(Idea!Distinct[all], MaxEvidence)
    BY DEF Idea!Balanced, all
  <1>8. QED
    BY <1>1, <1>6, <1>7, FirstIs, FirstApart

-----------------------------------------------------------------------------
\* What is stored, and what a request that develops the idea can rely on.
Callers == Idea!Callers
Blank == Idea!NoDossier
AngleState == [by: Callers, claims: SUBSET (Callers \X Nat),
               status: {"candidate", "selected"}, version: Nat \ {0},
               text: Callers \cup People]
DossierState == [by: Callers, evidence: Seq(Items), claims: Seq(Idea!Claims)]

EvidenceFits(e) ==
  /\ e \in Seq(Items)
  /\ Len(e) \in Idea!Minimum..MaxEvidence
  /\ \A i \in 1..Len(e): Idea!Relevant(e[i])
  /\ Apart(e)
Rests(claims, e) ==
  /\ claims # <<>>
  /\ \A claim \in Idea!ToSet(claims):
       claim.cites # <<>> /\ Idea!ToSet(claim.cites) \subseteq DOMAIN e
DossierFits(d) ==
  d \in DossierState /\ EvidenceFits(d.evidence) /\ Rests(d.claims, d.evidence)
AnglesFit(A, d) ==
  /\ A \in Seq(AngleState) /\ Len(A) = 2
  /\ \A a \in 1..2: A[a].claims # {} /\ A[a].claims \subseteq Idea!ClaimsOf(d)
OneSelected(A) ==
  \A a, b \in 1..2: A[a].status = "selected" /\ A[b].status = "selected" => a = b

StatusFits(status, D, A) ==
  status = IF A # <<>> THEN "angles-ready"
           ELSE IF D = Blank THEN "new" ELSE "research-ready"
StoredFits(I, D, A) ==
  /\ DOMAIN I = {"status", "explicit", "linked"}
  /\ I.explicit \in Seq(Items) /\ I.linked \in Seq(Items)
  /\ StatusFits(I.status, D, A)
  /\ D = Blank \/ DossierFits(D)
  /\ A = <<>> \/ (D # Blank /\ AnglesFit(A, D) /\ OneSelected(A))

CallFields == {"pc", "groups", "dossier", "angles", "again", "ok", "answer"}
CallStages == {"start", "connect", "wait", "bundle", "search", "judge", "save",
               "reread", "plan", "put", "leave", "check", "done"}
There(D, A) == D # Blank /\ A # <<>>
CallFits(x, c, D, A) ==
  /\ DOMAIN x = CallFields /\ x.pc \in CallStages
  /\ x.pc = "judge" => x.dossier.by = c /\ x.dossier.claims = <<>>
                       /\ x.dossier \in [by: Callers, evidence: Seq(Items), claims: {<<>>}]
                       /\ EvidenceFits(x.dossier.evidence)
  /\ x.pc = "save" => DossierFits(x.dossier)
  /\ x.pc \in {"plan", "put"} => x.dossier = D /\ D # Blank
  /\ x.pc = "put" => AnglesFit(x.angles, D) /\ OneSelected(x.angles)
  /\ x.pc \in {"leave", "check"} /\ x.ok = TRUE => There(D, A)
  /\ x.ok \in BOOLEAN
  /\ x.answer = "ok" => There(D, A)

PersonFields == {"pc", "seen", "at"}
Seen(s, angle) == s = Idea!View(angle)
PersonFits(y, A) ==
  /\ DOMAIN y = PersonFields /\ y.pc \in {"look", "act", "locked", "done"}
  /\ y.pc \in {"act", "locked"} =>
       /\ A # <<>> /\ DOMAIN y.seen = 1..2
       /\ \A a \in 1..2: /\ y.seen[a].version \in Nat
                         /\ y.seen[a].version <= A[a].version
                         /\ y.seen[a].version = A[a].version => Seen(y.seen[a], A[a])
  /\ y.pc = "locked" => y.at \in 1..2 /\ Seen(y.seen[y.at], A[y.at])
LocksApart(P) ==
  \A u, v \in People: P[u].pc = "locked" /\ P[v].pc = "locked" /\ P[u].at = P[v].at
                        => u = v

ResearchInv ==
  /\ StoredFits(iIdea, iDossier, iAngles)
  /\ iLock \in Callers \cup {Idea!Nil}
  /\ DOMAIN iRun = Callers
  /\ \A c \in Callers: CallFits(iRun[c], c, iDossier, iAngles)
  /\ DOMAIN iPerson = People
  /\ \A u \in People: PersonFits(iPerson[u], iAngles)
  /\ LocksApart(iPerson)

\* A dossier and angles that are there stay there.
Stays(D, A, E, B) == (D # Blank => E = D) /\ (A # <<>> => B # <<>>)

LEMMA StaysKeeps ==
  ASSUME NEW D, NEW A, NEW E, NEW B, Stays(D, A, E, B), NEW x, NEW c,
         CallFits(x, c, D, A)
  PROVE  CallFits(x, c, E, B)
  <1>1. There(D, A) => There(E, B)
    BY DEF Stays, There
  <1>2. x.pc \in {"plan", "put"} => E = D
    BY DEF Stays, CallFits
  <1>3. QED
    BY <1>1, <1>2 DEF CallFits

LEMMA TwoAngles ==
  ASSUME ResearchInv
  PROVE  /\ iAngles = <<>> \/ Len(iAngles) = 2
         /\ iAngles # <<>> => DOMAIN iAngles = 1..2 /\ iAngles \in Seq(AngleState)
         /\ Len(iAngles) < 2 <=> iAngles = <<>>
         /\ Idea!Whole <=> There(iDossier, iAngles)
  <1>1. iAngles = <<>> \/ (iAngles \in Seq(AngleState) /\ Len(iAngles) = 2)
    BY DEF ResearchInv, StoredFits, AnglesFit
  <1>2. iAngles # <<>> => DOMAIN iAngles = 1..2
    BY <1>1
  <1>3. Len(<<>>) = 0
    OBVIOUS
  <1>4. Len(iAngles) < 2 <=> iAngles = <<>>
    BY <1>1, <1>3
  <1>5. Len(iAngles) >= 2 <=> iAngles # <<>>
    BY <1>1, <1>3
  <1>6. QED
    BY <1>1, <1>2, <1>4, <1>5 DEF Idea!Whole, There, Blank

\* It is enough to look at the request that moves.
LEMMA CallerMoves ==
  ASSUME ResearchInv, NEW c \in Callers, NEW x,
         iRun' = [iRun EXCEPT ![c] = x], CallFits(x, c, iDossier', iAngles'),
         iLock' \in Callers \cup {Idea!Nil},
         StoredFits(iIdea', iDossier', iAngles'),
         Stays(iDossier, iAngles, iDossier', iAngles'),
         iPerson' = iPerson, iAngles' = iAngles \/ iAngles = <<>>
  PROVE  ResearchInv'
  <1>1. DOMAIN iRun' = Callers
    BY DEF ResearchInv
  <1>2. ASSUME NEW d \in Callers PROVE CallFits(iRun'[d], d, iDossier', iAngles')
    <2>1. CASE d = c
      BY <2>1 DEF ResearchInv
    <2>2. CASE d # c
      <3>1. iRun'[d] = iRun[d] /\ CallFits(iRun[d], d, iDossier, iAngles)
        BY <2>2 DEF ResearchInv
      <3>2. CallFits(iRun[d], d, iDossier', iAngles')
        BY <3>1, StaysKeeps
      <3>3. QED
        BY <3>1, <3>2
    <2>3. QED
      BY <2>1, <2>2
  <1>3. ASSUME NEW u \in People PROVE PersonFits(iPerson'[u], iAngles')
    <2>1. PersonFits(iPerson[u], iAngles)
      BY DEF ResearchInv
    <2>2. CASE iAngles' = iAngles
      BY <2>1, <2>2
    <2>3. CASE iAngles = <<>>
      BY <2>1, <2>3 DEF PersonFits
    <2>4. QED
      BY <2>2, <2>3
  <1>4. DOMAIN iPerson' = People /\ LocksApart(iPerson')
    BY DEF ResearchInv
  <1>5. QED
    BY <1>1, <1>2, <1>3, <1>4 DEF ResearchInv

\* Going on to another stage.
LEMMA GoesTo ==
  ASSUME ResearchInv, NEW c \in Callers, NEW l, Idea!Goto(c, l)
  PROVE  \E x: /\ iRun' = [iRun EXCEPT ![c] = x] /\ DOMAIN x = CallFields
               /\ x.pc = l /\ x.dossier = iRun[c].dossier /\ x.angles = iRun[c].angles
               /\ x.ok = iRun[c].ok /\ x.answer = iRun[c].answer
  <1> DEFINE x == [iRun[c] EXCEPT !.pc = l]
  <1>1. DOMAIN iRun[c] = CallFields
    BY DEF ResearchInv, CallFits
  <1>2. /\ DOMAIN x = CallFields /\ x.pc = l /\ x.dossier = iRun[c].dossier
        /\ x.angles = iRun[c].angles /\ x.ok = iRun[c].ok /\ x.answer = iRun[c].answer
    BY <1>1 DEF CallFields
  <1>3. iRun' = [iRun EXCEPT ![c] = x]
    BY DEF Idea!Goto
  <1> HIDE DEF x
  <1>4. QED
    BY <1>2, <1>3

LEMMA DoneIs ==
  ASSUME NEW c \in Callers, NEW answer \in {"ok", "error"}, Idea!Done(c, answer)
  PROVE  \E x: /\ iRun' = [iRun EXCEPT ![c] = x] /\ DOMAIN x = CallFields
               /\ x.pc = "done" /\ x.ok = TRUE /\ x.answer = answer
  <1> DEFINE x == [Idea!Waiting EXCEPT !.pc = "done", !.answer = answer]
  <1>1. iRun' = [iRun EXCEPT ![c] = x]
    BY DEF Idea!Done
  <1>2. DOMAIN x = CallFields /\ x.pc = "done" /\ x.ok = TRUE /\ x.answer = answer
    BY DEF Idea!Waiting, CallFields
  <1> HIDE DEF x
  <1>3. QED
    BY <1>1, <1>2

\* A request that neither stores nor has stored anything.
LEMMA OnlyMoves ==
  ASSUME ResearchInv, NEW c \in Callers, NEW x,
         iRun' = [iRun EXCEPT ![c] = x], CallFits(x, c, iDossier, iAngles),
         iLock' \in Callers \cup {Idea!Nil},
         UNCHANGED <<iIdea, iDossier, iAngles, iPerson>>
  PROVE  ResearchInv'
  <1>1. Stays(iDossier, iAngles, iDossier', iAngles')
    BY DEF Stays
  <1>2. StoredFits(iIdea', iDossier', iAngles') /\ CallFits(x, c, iDossier', iAngles')
    BY DEF ResearchInv
  <1>3. QED
    BY <1>1, <1>2, CallerMoves

-----------------------------------------------------------------------------
\* The evidence of a search.
LEMMA PinsAre ==
  ASSUME Idea!ResearchAssumption, ResearchInv, NEW c \in Callers
  PROVE  /\ Idea!PinnedOf(c) \in Seq(Items)
         /\ \A pins \in Seq(Items): Idea!Pins(pins) \in Seq(Items)
  <1>1. iIdea.explicit \in Seq(Items) /\ iIdea.linked \in Seq(Items)
    BY DEF ResearchInv, StoredFits
  <1>2. Idea!PinnedOf(c) \in Seq(Items)
    <2> DEFINE K == {k \in DOMAIN iIdea.linked:
                       iIdea.linked[k] \notin Idea!ToSet(iIdea.explicit)}
               rest == IF c \in Creations THEN Idea!Where(iIdea.linked, K) ELSE <<>>
    <2>1. Idea!PinnedOf(c) = iIdea.explicit \o rest
      BY DEF Idea!PinnedOf
    <2>2. rest \in Seq(Items)
      <3> HIDE DEF K
      <3>1. Idea!Where(iIdea.linked, K) \in Seq(Items)
        BY <1>1, WhereIs
      <3>2. <<>> \in Seq(Items)
        OBVIOUS
      <3>3. QED
        BY <3>1, <3>2
    <2> HIDE DEF rest
    <2>3. QED
      BY <1>1, <2>1, <2>2
  <1>3. ASSUME NEW pins \in Seq(Items) PROVE Idea!Pins(pins) \in Seq(Items)
    <2>1. MaxEvidence \in Nat
      BY DEF Idea!ResearchAssumption
    <2>2. Idea!First(pins, MaxEvidence) \in Seq(Items)
      BY <2>1, FirstIs
    <2>3. QED
      BY <2>2, OnlyRelevantIs DEF Idea!Pins
  <1>4. QED
    BY <1>2, <1>3

LEMMA GroupsAre ==
  ASSUME Idea!ResearchAssumption, NEW pins \in Seq(Items), NEW s \in Searches,
         Idea!Pins(pins) \in Seq(Items)
  PROVE  Idea!Groups(pins, s) \in Seq(Seq(Items))
  <1> DEFINE T == Seq(Items)
             mine == Idea!Pins(pins)
             pinned == IF mine = <<>> THEN <<>> ELSE <<mine>>
             Of(k) == LET answer == <<s.openalex, s.crossref>>[k]
                      IN IF answer.ok THEN answer.found ELSE <<>>
             scholarly == [k \in 1..2 |-> Of(k)]
             more == IF pins = <<>> THEN <<>> ELSE scholarly
  <1>1. s \in [general: Idea!Answers, openalex: Idea!Answers, crossref: Idea!Answers]
    BY DEF Idea!ResearchAssumption
  <1>2. s.general.found \in T /\ s.openalex.found \in T /\ s.crossref.found \in T
    BY <1>1 DEF Idea!Answers
  <1>3. <<>> \in T
    OBVIOUS
  <1>4. Of(1) \in T /\ Of(2) \in T
    <2>1. /\ Of(1) = IF s.openalex.ok THEN s.openalex.found ELSE <<>>
          /\ Of(2) = IF s.crossref.ok THEN s.crossref.found ELSE <<>>
      OBVIOUS
    <2> HIDE DEF Of, T
    <2>2. QED
      BY <1>2, <1>3, <2>1
  <1>5. scholarly \in Seq(T)
    <2>1. \A k \in 1..2: Of(k) \in T
      <3> HIDE DEF Of, T
      <3>1. QED
        BY <1>4
    <2> HIDE DEF Of, T
    <2>2. scholarly \in [1..2 -> T] /\ 2 \in Nat
      BY <2>1
    <2>3. QED
      BY <2>2, SeqDef
  <1>6. pinned \in Seq(T)
    <2> HIDE DEF T
    <2>1. mine \in T
      BY DEF T
    <2> HIDE DEF mine
    <2>2. QED
      BY <2>1
  <1>7. more \in Seq(T) /\ <<s.general.found>> \in Seq(T)
    <2> HIDE DEF T, scholarly
    <2>1. QED
      BY <1>2, <1>5
  <1>8. Idea!Groups(pins, s) = IF Len(mine) >= Idea!Minimum THEN pinned
                               ELSE pinned \o <<s.general.found>> \o more
    BY DEF Idea!Groups
  <1> HIDE DEF T, mine, pinned, more
  <1>9. QED
    BY <1>6, <1>7, <1>8 DEF T

LEMMA EvidenceIs ==
  ASSUME Idea!ResearchAssumption, NEW groups \in Seq(Seq(Items)),
         Len(Idea!OnlyRelevant[Idea!Balanced(groups)]) >= Idea!Minimum
  PROVE  EvidenceFits(Idea!OnlyRelevant[Idea!Balanced(groups)])
  <1> DEFINE b == Idea!Balanced(groups)
             e == Idea!OnlyRelevant[b]
  <1>1. b \in Seq(Items) /\ Len(b) <= MaxEvidence /\ Apart(b)
    BY BalancedIs
  <1> HIDE DEF b
  <1>2. /\ e \in Seq(Items) /\ Len(e) <= Len(b)
        /\ \A i \in 1..Len(e): Idea!Relevant(e[i])
        /\ Apart(e)
    BY <1>1, OnlyRelevantIs
  <1>3. MaxEvidence \in Nat /\ Idea!Minimum \in Nat
    <2>1. MaxEvidence \in Nat
      BY DEF Idea!ResearchAssumption
    <2>2. QED
      BY <2>1, LesserIs DEF Idea!Minimum
  <1>4. Len(e) >= Idea!Minimum
    BY DEF b
  <1> HIDE DEF e
  <1>5. Len(e) \in Idea!Minimum..MaxEvidence
    BY <1>1, <1>2, <1>3, <1>4
  <1>6. EvidenceFits(e)
    BY <1>2, <1>5 DEF EvidenceFits
  <1>7. QED
    BY <1>6 DEF e, b

LEMMA SearchKeeps ==
  ASSUME Idea!ResearchAssumption, ResearchInv, NEW c \in Callers, Idea!Search(c)
  PROVE  ResearchInv'
  <1> DEFINE p == iRun[c]
  <1>1. /\ DOMAIN p = CallFields /\ p.pc = "search"
        /\ p.answer = "ok" => There(iDossier, iAngles)
    BY DEF ResearchInv, CallFits, Idea!Search, Idea!At
  <1>2. /\ UNCHANGED <<iIdea, iDossier, iAngles, iLock, iPerson>>
        /\ iLock' \in Callers \cup {Idea!Nil}
        /\ DOMAIN p = CallFields /\ (p.answer = "ok" => There(iDossier, iAngles))
    BY <1>1 DEF Idea!Search, Idea!stored, ResearchInv, CallFits
  <1>3. PICK s \in Searches:
          LET pins == Idea!PinnedOf(c)
              groups == Idea!Groups(pins, s)
              evidence == Idea!OnlyRelevant[Idea!Balanced(groups)]
          IN IF /\ Idea!PinsSuffice(pins) /\ Idea!Searchable(pins, s)
                /\ Len(evidence) >= Idea!Minimum
               THEN iRun' = [iRun EXCEPT
                      ![c].groups = groups, ![c].pc = "judge",
                      ![c].dossier = [by |-> c, evidence |-> evidence, claims |-> <<>>]]
               ELSE iRun' = [iRun EXCEPT ![c].ok = FALSE, ![c].pc = "leave"]
    BY DEF Idea!Search
  <1> DEFINE groups == Idea!Groups(Idea!PinnedOf(c), s)
             e == Idea!OnlyRelevant[Idea!Balanced(groups)]
             x == [p EXCEPT !.groups = groups, !.pc = "judge",
                            !.dossier = [by |-> c, evidence |-> e, claims |-> <<>>]]
             y == [p EXCEPT !.ok = FALSE, !.pc = "leave"]
  <1>4. \/ iRun' = [iRun EXCEPT ![c] = x] /\ Len(e) >= Idea!Minimum
        \/ iRun' = [iRun EXCEPT ![c] = y]
    BY <1>3
  <1>5. CASE iRun' = [iRun EXCEPT ![c] = x] /\ Len(e) >= Idea!Minimum
    <2>1. groups \in Seq(Seq(Items))
      BY PinsAre, GroupsAre
    <2>2. EvidenceFits(e)
      <3> HIDE DEF groups
      <3>1. QED
        BY <1>5, <2>1, EvidenceIs
    <2> HIDE DEF groups, e
    <2>3. /\ DOMAIN x = CallFields /\ x.pc = "judge" /\ x.ok = p.ok /\ x.answer = p.answer
          /\ x.dossier = [by |-> c, evidence |-> e, claims |-> <<>>]
      BY <1>2 DEF CallFields
    <2> HIDE DEF x
    <2>4. x.dossier.by = c /\ x.dossier.claims = <<>> /\ x.dossier.evidence = e
          /\ x.dossier \in [by: Callers, evidence: Seq(Items), claims: {<<>>}]
      BY <2>2, <2>3 DEF EvidenceFits
    <2>5. p.ok \in BOOLEAN
      BY DEF ResearchInv, CallFits
    <2>6. CallFits(x, c, iDossier, iAngles)
      BY <1>2, <2>2, <2>3, <2>4, <2>5 DEF CallFits, CallStages
    <2>7. QED
      BY <1>2, <1>5, <2>6, OnlyMoves
  <1>6. CASE iRun' = [iRun EXCEPT ![c] = y]
    <2> HIDE DEF groups, e
    <2>1. /\ DOMAIN y = CallFields /\ y.pc = "leave" /\ y.ok = FALSE /\ y.answer = p.answer
      BY <1>2 DEF CallFields
    <2> HIDE DEF y
    <2>2. CallFits(y, c, iDossier, iAngles)
      BY <1>2, <2>1 DEF CallFits, CallStages
    <2>3. QED
      BY <1>2, <1>6, <2>2, OnlyMoves
  <1>7. QED
    BY <1>4, <1>5, <1>6

LEMMA JudgeKeeps ==
  ASSUME Idea!ResearchAssumption, ResearchInv, NEW c \in Callers, Idea!Judge(c)
  PROVE  ResearchInv'
  <1> DEFINE p == iRun[c]
  <1>1. /\ UNCHANGED <<iIdea, iDossier, iAngles, iLock, iPerson>>
        /\ iLock' \in Callers \cup {Idea!Nil} /\ p.pc = "judge"
        /\ CallFits(p, c, iDossier, iAngles)
    BY DEF Idea!Judge, Idea!stored, Idea!At, ResearchInv
  <1>2. PICK claims \in Judgments:
          IF Idea!Sound(p.dossier.evidence, claims)
            THEN iRun' = [iRun EXCEPT ![c].dossier.claims = claims,
                                      ![c].groups = <<>>, ![c].pc = "save"]
            ELSE iRun' = [iRun EXCEPT ![c].ok = FALSE, ![c].groups = <<>>,
                                      ![c].pc = "leave"]
    BY DEF Idea!Judge
  <1> DEFINE d == [p.dossier EXCEPT !.claims = claims]
             x == [p EXCEPT !.dossier = d, !.groups = <<>>, !.pc = "save"]
             y == [p EXCEPT !.ok = FALSE, !.groups = <<>>, !.pc = "leave"]
  <1>3. CASE Idea!Sound(p.dossier.evidence, claims)
    <2>1. iRun' = [iRun EXCEPT ![c] = x]
      BY <1>2, <1>3
    <2>2. /\ d.by = c /\ d.claims = claims /\ d.evidence = p.dossier.evidence
          /\ d \in [by: {c}, evidence: Seq(Items), claims: {claims}]
      BY <1>1 DEF CallFits
    <2>3. claims \in Seq(Idea!Claims)
      BY DEF Idea!ResearchAssumption
    <2> HIDE DEF d
    <2>4. d \in DossierState /\ EvidenceFits(d.evidence)
      BY <1>1, <2>2, <2>3 DEF DossierState, CallFits
    <2>5. Rests(d.claims, d.evidence)
      BY <1>3, <2>2 DEF Idea!Sound, Idea!SoundClaim, Rests
    <2>6. /\ DOMAIN x = CallFields /\ x.pc = "save" /\ x.ok = p.ok
          /\ x.answer = p.answer /\ x.dossier = d
      BY <1>1 DEF CallFields, CallFits
    <2> HIDE DEF x
    <2>7. CallFits(x, c, iDossier, iAngles)
      BY <1>1, <2>4, <2>5, <2>6 DEF CallFits, CallStages, DossierFits
    <2>8. QED
      BY <1>1, <2>1, <2>7, OnlyMoves
  <1>4. CASE ~Idea!Sound(p.dossier.evidence, claims)
    <2>1. iRun' = [iRun EXCEPT ![c] = y]
      BY <1>2, <1>4
    <2>2. DOMAIN y = CallFields /\ y.pc = "leave" /\ y.ok = FALSE /\ y.answer = p.answer
      BY <1>1 DEF CallFields, CallFits
    <2> HIDE DEF y
    <2>3. CallFits(y, c, iDossier, iAngles)
      BY <1>1, <2>2 DEF CallFits, CallStages
    <2>4. QED
      BY <1>1, <2>1, <2>3, OnlyMoves
  <1>5. QED
    BY <1>3, <1>4

-----------------------------------------------------------------------------
\* The angles: the strategist's, or those that need no model.
LEMMA LeastIn ==
  ASSUME NEW S, S \subseteq Nat, S # {}
  PROVE  Idea!Min(S) \in S
  <1>1. IsWellFoundedOn(Less, Nat)
    BY NatLessThanWellFounded DEF Less
  <1>2. PICK x \in S: \A y \in S: ~(<<y, x>> \in Less)
    BY <1>1, WFMin
  <1>3. \A y \in S: x <= y
    <2> SUFFICES ASSUME NEW y \in S PROVE x <= y
      OBVIOUS
    <2>1. x \in Nat /\ y \in Nat
      OBVIOUS
    <2>2. ~(y < x)
      BY <1>2, <2>1, LessIs
    <2>3. QED
      BY <2>1, <2>2
  <1>4. QED
    BY <1>3 DEF Idea!Min

LEMMA FreshIs ==
  ASSUME NEW c \in Callers, NEW claims \in SUBSET (Callers \X Nat)
  PROVE  /\ Idea!Fresh(c, claims) \in AngleState
         /\ Idea!Fresh(c, claims).claims = claims
         /\ Idea!Fresh(c, claims).status = "candidate"
  BY DEF Idea!Fresh, AngleState

LEMMA PairFits ==
  ASSUME NEW d, NEW A, NEW c \in Callers, NEW C1, NEW C2,
         A = <<Idea!Fresh(c, C1), Idea!Fresh(c, C2)>>,
         Idea!ClaimsOf(d) \subseteq Callers \X Nat,
         C1 # {}, C1 \subseteq Idea!ClaimsOf(d), C2 # {}, C2 \subseteq Idea!ClaimsOf(d)
  PROVE  AnglesFit(A, d) /\ OneSelected(A)
  <1>1. /\ Idea!Fresh(c, C1) \in AngleState /\ Idea!Fresh(c, C1).claims = C1
        /\ Idea!Fresh(c, C2) \in AngleState /\ Idea!Fresh(c, C2).claims = C2
        /\ Idea!Fresh(c, C1).status = "candidate" /\ Idea!Fresh(c, C2).status = "candidate"
    BY FreshIs
  <1>2. A \in Seq(AngleState) /\ Len(A) = 2
        /\ A[1] = Idea!Fresh(c, C1) /\ A[2] = Idea!Fresh(c, C2)
    BY <1>1
  <1>3. \A a \in 1..2: a = 1 \/ a = 2
    OBVIOUS
  <1>4. \A a \in 1..2: A[a].claims # {} /\ A[a].claims \subseteq Idea!ClaimsOf(d)
    BY <1>1, <1>2, <1>3
  <1>5. \A a \in 1..2: A[a].status # "selected"
    BY <1>1, <1>2, <1>3
  <1>6. QED
    BY <1>2, <1>4, <1>5 DEF AnglesFit, OneSelected

LEMMA ClaimsAre ==
  ASSUME NEW d, DossierFits(d)
  PROVE  /\ Idea!ClaimsOf(d) \subseteq Callers \X Nat
         /\ DOMAIN d.claims # {} /\ DOMAIN d.claims \subseteq Nat
         /\ \A n \in DOMAIN d.claims: <<d.by, n>> \in Idea!ClaimsOf(d)
  <1>1. d.by \in Callers /\ d.claims \in Seq(Idea!Claims) /\ d.claims # <<>>
    BY DEF DossierFits, DossierState, Rests
  <1>2. DOMAIN d.claims = 1..Len(d.claims) /\ Len(d.claims) \in Nat \ {0}
    BY <1>1
  <1>3. DOMAIN d.claims # {} /\ DOMAIN d.claims \subseteq Nat
    <2>1. 1 \in 1..Len(d.claims)
      BY <1>2
    <2>2. QED
      BY <1>2, <2>1
  <1>4. QED
    BY <1>1, <1>3 DEF Idea!ClaimsOf

LEMMA FallbackFits ==
  ASSUME NEW c \in Callers, NEW d, DossierFits(d)
  PROVE  AnglesFit(Idea!Fallback(c, d), d) /\ OneSelected(Idea!Fallback(c, d))
  <1> DEFINE supported == {n \in DOMAIN d.claims: d.claims[n].verified = "supported"}
             pool == IF supported = {} THEN DOMAIN d.claims ELSE supported
             first == Idea!Min(pool)
             second == IF pool = {first} THEN first ELSE Idea!Min(pool \ {first})
  <1>1. pool # {} /\ pool \subseteq DOMAIN d.claims
    BY ClaimsAre
  <1>2. pool \subseteq Nat
    BY <1>1, ClaimsAre
  <1>3. Idea!Fallback(c, d) = <<Idea!Fresh(c, {<<d.by, first>>}),
                                Idea!Fresh(c, {<<d.by, second>>})>>
    BY DEF Idea!Fallback
  <1> HIDE DEF pool
  <1>4. first \in pool
    BY <1>1, <1>2, LeastIn
  <1>5. second \in pool
    <2>1. CASE pool = {first}
      BY <1>4, <2>1
    <2>2. CASE pool # {first}
      <3> DEFINE others == pool \ {first}
      <3>1. others # {} /\ others \subseteq Nat
        BY <1>2, <1>4, <2>2
      <3> HIDE DEF others
      <3>2. Idea!Min(others) \in others
        BY <3>1, LeastIn
      <3>3. QED
        BY <2>2, <3>2 DEF others
    <2>3. QED
      BY <2>1, <2>2
  <1> HIDE DEF first, second
  <1>6. <<d.by, first>> \in Idea!ClaimsOf(d) /\ <<d.by, second>> \in Idea!ClaimsOf(d)
    BY <1>1, <1>4, <1>5, ClaimsAre
  <1> DEFINE C1 == {<<d.by, first>>}
             C2 == {<<d.by, second>>}
  <1>7. C1 # {} /\ C1 \subseteq Idea!ClaimsOf(d) /\ C2 # {} /\ C2 \subseteq Idea!ClaimsOf(d)
    BY <1>6
  <1>8. Idea!Fallback(c, d) = <<Idea!Fresh(c, C1), Idea!Fresh(c, C2)>>
    BY <1>3
  <1> HIDE DEF C1, C2
  <1>9. QED
    BY <1>7, <1>8, ClaimsAre, PairFits

LEMMA CandidatesFit ==
  ASSUME NEW c \in Callers, NEW d, DossierFits(d), NEW s, Idea!Strategic(d, s)
  PROVE  AnglesFit(Idea!Candidates(c, d, s), d) /\ OneSelected(Idea!Candidates(c, d, s))
  <1> DEFINE C(k) == {<<d.by, n>>: n \in s[k]}
  <1>1. ASSUME NEW k \in 1..2, k \in DOMAIN s
        PROVE  C(k) # {} /\ C(k) \subseteq Idea!ClaimsOf(d)
    BY <1>1, ClaimsAre DEF Idea!Strategic
  <1>2. 1 \in DOMAIN s /\ 2 \in DOMAIN s
    BY DEF Idea!Strategic
  <1>3. Idea!Candidates(c, d, s) = <<Idea!Fresh(c, C(1)), Idea!Fresh(c, C(2))>>
    BY DEF Idea!Candidates
  <1>4. C(1) # {} /\ C(1) \subseteq Idea!ClaimsOf(d)
    BY <1>1, <1>2
  <1>5. C(2) # {} /\ C(2) \subseteq Idea!ClaimsOf(d)
    BY <1>1, <1>2
  <1> HIDE DEF C
  <1>6. QED
    BY <1>3, <1>4, <1>5, ClaimsAre, PairFits

-----------------------------------------------------------------------------
LEMMA MovesKeep ==
  ASSUME Idea!ResearchAssumption, ResearchInv, NEW c \in Callers,
         \/ Idea!Start(c) \/ Idea!Connect(c) \/ Idea!Lock(c) \/ Idea!Leave(c)
         \/ Idea!Check(c)
  PROVE  ResearchInv'
  <1> DEFINE p == iRun[c]
  <1>1. UNCHANGED <<iIdea, iDossier, iAngles, iPerson>>
    BY DEF Idea!Start, Idea!Connect, Idea!Lock, Idea!Leave, Idea!Check, Idea!stored
  <1>2. iLock' \in Callers \cup {Idea!Nil}
    BY DEF Idea!Start, Idea!Connect, Idea!Lock, Idea!Leave, Idea!Check, ResearchInv
  <1>3. CallFits(p, c, iDossier, iAngles)
    BY DEF ResearchInv
  <1>4. ASSUME NEW l \in {"connect", "wait", "bundle"}, Idea!Goto(c, l)
        PROVE  ResearchInv'
    <2>1. PICK x: /\ iRun' = [iRun EXCEPT ![c] = x] /\ DOMAIN x = CallFields
                  /\ x.pc = l /\ x.ok = p.ok /\ x.answer = p.answer
      BY <1>4, GoesTo
    <2>2. CallFits(x, c, iDossier, iAngles)
      BY <1>3, <2>1 DEF CallFits, CallStages
    <2>3. QED
      BY <1>1, <1>2, <2>1, <2>2, OnlyMoves
  <1>5. ASSUME NEW answer \in {"ok", "error"}, Idea!Done(c, answer),
               answer = "ok" => There(iDossier, iAngles)
        PROVE  ResearchInv'
    <2>1. PICK x: /\ iRun' = [iRun EXCEPT ![c] = x] /\ DOMAIN x = CallFields
                  /\ x.pc = "done" /\ x.ok = TRUE /\ x.answer = answer
      BY <1>5, DoneIs
    <2>2. CallFits(x, c, iDossier, iAngles)
      BY <1>5, <2>1 DEF CallFits, CallStages
    <2>3. QED
      BY <1>1, <1>2, <2>1, <2>2, OnlyMoves
  <1>6. Idea!Whole <=> There(iDossier, iAngles)
    BY TwoAngles
  <1>7. CASE Idea!Start(c)
    BY <1>4, <1>5, <1>6, <1>7 DEF Idea!Start
  <1>8. CASE Idea!Connect(c) \/ Idea!Lock(c)
    BY <1>4, <1>8 DEF Idea!Connect, Idea!Lock
  <1>9. CASE Idea!Leave(c)
    <2>1. p.pc = "leave" /\ Idea!Goto(c, "check")
      BY <1>9 DEF Idea!Leave, Idea!At
    <2>2. PICK x: /\ iRun' = [iRun EXCEPT ![c] = x] /\ DOMAIN x = CallFields
                  /\ x.pc = "check" /\ x.ok = p.ok /\ x.answer = p.answer
      BY <2>1, GoesTo
    <2>3. CallFits(x, c, iDossier, iAngles)
      BY <1>3, <2>1, <2>2 DEF CallFits, CallStages
    <2>4. QED
      BY <1>1, <1>2, <2>2, <2>3, OnlyMoves
  <1>10. CASE Idea!Check(c)
    <2>1. Idea!Done(c, Idea!Answered(c))
      BY <1>10 DEF Idea!Check
    <2>2. CASE Idea!Answered(c) = "ok"
      <3>1. There(iDossier, iAngles)
        BY <1>6, <2>2 DEF Idea!Answered
      <3>2. QED
        BY <1>5, <2>1, <2>2, <3>1
    <2>3. CASE Idea!Answered(c) = "error"
      BY <1>5, <2>1, <2>3
    <2>4. QED
      BY <2>2, <2>3 DEF Idea!Answered
  <1>11. QED
    BY <1>7, <1>8, <1>9, <1>10

LEMMA BundleKeeps ==
  ASSUME Idea!ResearchAssumption, ResearchInv, NEW c \in Callers, Idea!Bundle(c)
  PROVE  ResearchInv'
  <1> DEFINE p == iRun[c]
             ok == iDossier # Idea!NoDossier \/ Idea!At(c, "bundle")
             l == CASE iDossier # Idea!NoDossier /\ Len(iAngles) < 2 -> "plan"
                    [] iDossier = Idea!NoDossier /\ Idea!At(c, "bundle") -> "search"
                    [] OTHER -> "leave"
             x == [p EXCEPT !.dossier = iDossier, !.ok = ok, !.pc = l]
  <1>1. UNCHANGED <<iIdea, iDossier, iAngles, iPerson, iLock>>
        /\ iRun' = [iRun EXCEPT ![c] = x] /\ p.pc \in {"bundle", "reread"}
    BY DEF Idea!Bundle, Idea!stored
  <1>2. CallFits(p, c, iDossier, iAngles) /\ iLock' \in Callers \cup {Idea!Nil}
    BY <1>1 DEF ResearchInv
  <1>3. ok \in BOOLEAN
    OBVIOUS
  <1>4. /\ l \in {"plan", "search", "leave"}
        /\ l = "plan" => iDossier # Blank
        /\ l = "leave" /\ ok => There(iDossier, iAngles)
    <2>1. Len(iAngles) < 2 <=> iAngles = <<>>
      BY TwoAngles
    <2>2. QED
      BY <2>1 DEF Blank, There
  <1> HIDE DEF ok, l
  <1>5. /\ DOMAIN x = CallFields /\ x.pc = l /\ x.ok = ok /\ x.answer = p.answer
        /\ x.dossier = iDossier
    BY <1>2 DEF CallFields, CallFits
  <1> HIDE DEF x
  <1>6. CallFits(x, c, iDossier, iAngles)
    BY <1>2, <1>3, <1>4, <1>5 DEF CallFits, CallStages
  <1>7. QED
    BY <1>1, <1>2, <1>6, OnlyMoves

LEMMA PlanKeeps ==
  ASSUME Idea!ResearchAssumption, ResearchInv, NEW c \in Callers, Idea!Plan(c)
  PROVE  ResearchInv'
  <1> DEFINE p == iRun[c]
  <1>1. /\ UNCHANGED <<iIdea, iDossier, iAngles, iPerson, iLock>>
        /\ p.pc = "plan" /\ CallFits(p, c, iDossier, iAngles)
        /\ iLock' \in Callers \cup {Idea!Nil}
    BY DEF Idea!Plan, Idea!stored, Idea!At, ResearchInv
  <1>2. p.dossier = iDossier /\ iDossier # Blank /\ DossierFits(iDossier)
    BY <1>1 DEF CallFits, ResearchInv, StoredFits
  <1>3. PICK s \in Strategies:
          iRun' = [iRun EXCEPT ![c].pc = "put",
                               ![c].again = ~Idea!Strategic(p.dossier, s),
                               ![c].angles = IF Idea!Strategic(p.dossier, s)
                                               THEN Idea!Candidates(c, p.dossier, s)
                                               ELSE Idea!Fallback(c, p.dossier)]
    BY DEF Idea!Plan
  <1> DEFINE A == IF Idea!Strategic(p.dossier, s) THEN Idea!Candidates(c, p.dossier, s)
                                                  ELSE Idea!Fallback(c, p.dossier)
             x == [p EXCEPT !.pc = "put", !.again = ~Idea!Strategic(p.dossier, s),
                            !.angles = A]
  <1>4. iRun' = [iRun EXCEPT ![c] = x]
    BY <1>3
  <1>5. AnglesFit(A, iDossier) /\ OneSelected(A)
    BY <1>2, FallbackFits, CandidatesFit
  <1> HIDE DEF A
  <1>6. /\ DOMAIN x = CallFields /\ x.pc = "put" /\ x.ok = p.ok /\ x.answer = p.answer
        /\ x.dossier = p.dossier /\ x.angles = A
    BY <1>1 DEF CallFields, CallFits
  <1> HIDE DEF x
  <1>7. CallFits(x, c, iDossier, iAngles)
    BY <1>1, <1>2, <1>5, <1>6 DEF CallFits, CallStages
  <1>8. QED
    BY <1>1, <1>4, <1>7, OnlyMoves

\* What is stored: the dossier of an idea that has none, angles where there
\* are none.
LEMMA SavedFits ==
  ASSUME ResearchInv, NEW c \in Callers, iRun[c].pc = "save", Idea!Saved(c)
  PROVE  /\ StoredFits(iIdea', iDossier', iAngles') /\ iAngles' = iAngles
         /\ Stays(iDossier, iAngles, iDossier', iAngles')
  <1>1. DossierFits(iRun[c].dossier) /\ StoredFits(iIdea, iDossier, iAngles)
    BY DEF ResearchInv, CallFits
  <1>2. CASE iDossier = Idea!NoDossier
    <2>1. iAngles = <<>>
      BY <1>1, <1>2 DEF StoredFits, Blank
    <2>2. /\ iDossier' = iRun[c].dossier /\ iAngles' = iAngles
          /\ iIdea' = [iIdea EXCEPT !.status = "research-ready"]
      BY <1>2 DEF Idea!Saved
    <2>3. /\ DOMAIN iIdea' = DOMAIN iIdea /\ iIdea'.explicit = iIdea.explicit
          /\ iIdea'.linked = iIdea.linked /\ iIdea'.status = "research-ready"
      BY <1>1, <2>2 DEF StoredFits
    <2>4. iDossier' # Blank
      <3>1. iDossier'.claims # <<>>
        BY <1>1, <2>2 DEF DossierFits, Rests
      <3>2. Blank.claims = <<>>
        BY DEF Blank, Idea!NoDossier
      <3>3. QED
        BY <3>1, <3>2
    <2>5. QED
      BY <1>1, <1>2, <2>1, <2>2, <2>3, <2>4 DEF StoredFits, StatusFits, Stays, Blank
  <1>3. CASE iDossier # Idea!NoDossier
    BY <1>1, <1>3 DEF Idea!Saved, Idea!stored, Stays
  <1>4. QED
    BY <1>2, <1>3

LEMMA PutFits ==
  ASSUME ResearchInv, NEW c \in Callers, iRun[c].pc = "put", Idea!PutAngles(c)
  PROVE  /\ StoredFits(iIdea', iDossier', iAngles') /\ iDossier' = iDossier
         /\ Stays(iDossier, iAngles, iDossier', iAngles')
         /\ There(iDossier', iAngles') /\ (iAngles' = iAngles \/ iAngles = <<>>)
  <1>1. /\ iRun[c].dossier = iDossier /\ iDossier # Blank
        /\ AnglesFit(iRun[c].angles, iDossier) /\ OneSelected(iRun[c].angles)
        /\ StoredFits(iIdea, iDossier, iAngles)
    BY DEF ResearchInv, CallFits
  <1>2. CASE Len(iAngles) >= 2
    <2>1. iAngles # <<>>
      BY <1>2, TwoAngles
    <2>2. UNCHANGED <<iIdea, iDossier, iAngles>>
      BY <1>2 DEF Idea!PutAngles, Idea!stored
    <2>3. QED
      BY <1>1, <2>1, <2>2 DEF Stays, There
  <1>3. CASE ~(Len(iAngles) >= 2)
    <2>1. iAngles = <<>>
      BY <1>3, TwoAngles
    <2>2. /\ iAngles' = iAngles \o iRun[c].angles /\ iDossier' = iDossier
          /\ iIdea' = [iIdea EXCEPT !.status = "angles-ready"]
      BY <1>3 DEF Idea!PutAngles
    <2>3. iRun[c].angles \in Seq(AngleState) /\ Len(iRun[c].angles) = 2
      BY <1>1 DEF AnglesFit
    <2>4. iAngles' = iRun[c].angles /\ iAngles' # <<>>
      <3>1. \A e, s: s \in Seq(AngleState) /\ e = <<>> => e \o s = s
        BY ConcatEmptySeq
      <3>2. iAngles' = iRun[c].angles
        BY <2>1, <2>2, <2>3, <3>1
      <3>3. iRun[c].angles # <<>>
        <4> DEFINE s == iRun[c].angles
        <4>1. s \in Seq(AngleState) /\ Len(s) = 2
          BY <2>3
        <4> HIDE DEF s
        <4>2. s # <<>>
          BY <4>1
        <4>3. QED
          BY <4>2 DEF s
      <3>4. QED
        BY <3>2, <3>3
    <2>5. /\ DOMAIN iIdea' = DOMAIN iIdea /\ iIdea'.explicit = iIdea.explicit
          /\ iIdea'.linked = iIdea.linked /\ iIdea'.status = "angles-ready"
      BY <1>1, <2>2 DEF StoredFits
    <2>6. QED
      BY <1>1, <2>1, <2>2, <2>4, <2>5 DEF StoredFits, StatusFits, Stays, There
  <1>4. QED
    BY <1>2, <1>3

LEMMA StoreKeeps ==
  ASSUME Idea!ResearchAssumption, ResearchInv, NEW c \in Callers,
         Idea!Save(c) \/ Idea!Put(c)
  PROVE  ResearchInv'
  <1> DEFINE p == iRun[c]
  <1>1. /\ UNCHANGED <<iPerson, iLock>> /\ CallFits(p, c, iDossier, iAngles)
        /\ iLock' \in Callers \cup {Idea!Nil}
    BY DEF Idea!Save, Idea!Put, ResearchInv
  <1>2. CASE Idea!Save(c)
    <2>1. p.pc = "save" /\ Idea!Saved(c) /\ Idea!Goto(c, "reread")
      BY <1>2 DEF Idea!Save, Idea!At
    <2>2. PICK x: /\ iRun' = [iRun EXCEPT ![c] = x] /\ DOMAIN x = CallFields
                  /\ x.pc = "reread" /\ x.ok = p.ok /\ x.answer = p.answer
      BY <2>1, GoesTo
    <2>3. /\ StoredFits(iIdea', iDossier', iAngles') /\ iAngles' = iAngles
          /\ Stays(iDossier, iAngles, iDossier', iAngles')
      BY <2>1, SavedFits
    <2>4. CallFits(p, c, iDossier', iAngles')
      BY <1>1, <2>3, StaysKeeps
    <2>5. CallFits(x, c, iDossier', iAngles')
      BY <2>2, <2>4 DEF CallFits, CallStages
    <2>6. QED
      BY <1>1, <2>2, <2>3, <2>5, CallerMoves
  <1>3. CASE Idea!Put(c)
    <2>1. p.pc = "put" /\ Idea!PutAngles(c) /\ Idea!Goto(c, "leave")
      BY <1>3 DEF Idea!Put, Idea!At
    <2>2. PICK x: /\ iRun' = [iRun EXCEPT ![c] = x] /\ DOMAIN x = CallFields
                  /\ x.pc = "leave" /\ x.ok = p.ok /\ x.answer = p.answer
      BY <2>1, GoesTo
    <2>3. /\ StoredFits(iIdea', iDossier', iAngles') /\ There(iDossier', iAngles')
          /\ Stays(iDossier, iAngles, iDossier', iAngles')
          /\ (iAngles' = iAngles \/ iAngles = <<>>)
      BY <2>1, PutFits
    <2>4. CallFits(p, c, iDossier', iAngles')
      BY <1>1, <2>3, StaysKeeps
    <2>5. CallFits(x, c, iDossier', iAngles')
      BY <2>2, <2>3, <2>4 DEF CallFits, CallStages
    <2>6. QED
      BY <1>1, <2>2, <2>3, <2>5, CallerMoves
  <1>4. QED
    BY <1>2, <1>3

LEMMA ThrowKeeps ==
  ASSUME Idea!ResearchAssumption, ResearchInv, NEW c \in Callers, Idea!Throws(c)
  PROVE  ResearchInv'
  <1> DEFINE p == iRun[c]
  <1>1. /\ UNCHANGED <<iPerson, iLock>> /\ CallFits(p, c, iDossier, iAngles)
        /\ iLock' \in Callers \cup {Idea!Nil} /\ Idea!Thrown(c)
    BY DEF Idea!Throws, ResearchInv
  <1>2. /\ StoredFits(iIdea', iDossier', iAngles')
        /\ Stays(iDossier, iAngles, iDossier', iAngles')
        /\ iAngles' = iAngles \/ iAngles = <<>>
    <2>1. CASE UNCHANGED <<iIdea, iDossier, iAngles>>
      BY <2>1 DEF ResearchInv, Stays
    <2>2. CASE Idea!At(c, "save") /\ Idea!Saved(c)
      BY <2>2, SavedFits DEF Idea!At
    <2>3. CASE Idea!At(c, "put") /\ Idea!PutAngles(c)
      BY <2>3, PutFits DEF Idea!At
    <2>4. QED
      BY <2>1, <2>2, <2>3 DEF Idea!Throws, Idea!stored
  <1>3. CallFits(p, c, iDossier', iAngles')
    BY <1>1, <1>2, StaysKeeps
  <1>4. CASE p.pc = "put" /\ ~p.again
    <2> DEFINE A == Idea!Fallback(c, p.dossier)
               x == [p EXCEPT !.again = TRUE, !.angles = A]
    <2>1. iRun' = [iRun EXCEPT ![c] = x]
      BY <1>1, <1>4 DEF Idea!Thrown, Idea!At
    <2>2. p.dossier = iDossier' /\ iDossier' # Blank /\ DossierFits(iDossier')
      BY <1>2, <1>3, <1>4 DEF CallFits, StoredFits
    <2>3. AnglesFit(A, iDossier') /\ OneSelected(A)
      BY <2>2, FallbackFits
    <2> HIDE DEF A
    <2>4. /\ DOMAIN x = CallFields /\ x.pc = p.pc /\ x.ok = p.ok /\ x.answer = p.answer
          /\ x.dossier = p.dossier /\ x.angles = A
      BY <1>1 DEF CallFields, CallFits
    <2> HIDE DEF x
    <2>5. CallFits(x, c, iDossier', iAngles')
      BY <1>3, <1>4, <2>2, <2>3, <2>4 DEF CallFits, CallStages
    <2>6. QED
      BY <1>1, <1>2, <2>1, <2>5, CallerMoves
  <1>5. CASE ~(p.pc = "put" /\ ~p.again)
    <2> DEFINE x == [p EXCEPT !.ok = FALSE, !.groups = <<>>, !.pc = "leave"]
    <2>1. iRun' = [iRun EXCEPT ![c] = x]
      BY <1>1, <1>5 DEF Idea!Thrown, Idea!At
    <2>2. DOMAIN x = CallFields /\ x.pc = "leave" /\ x.ok = FALSE /\ x.answer = p.answer
      BY <1>1 DEF CallFields, CallFits
    <2> HIDE DEF x
    <2>3. CallFits(x, c, iDossier', iAngles')
      BY <1>3, <2>2 DEF CallFits, CallStages
    <2>4. QED
      BY <1>1, <1>2, <2>1, <2>3, CallerMoves
  <1>6. QED
    BY <1>4, <1>5

LEMMA CrashKeeps ==
  ASSUME Idea!ResearchAssumption, ResearchInv, NEW q, Idea!Crash(q)
  PROVE  ResearchInv'
  <1> DEFINE down == {c \in Callers: Process[c] = q /\ ~Idea!At(c, "done")}
             x == [Idea!Waiting EXCEPT !.pc = "done", !.answer = "gone"]
  <1>1. /\ iRun' = [c \in Callers |-> IF c \in down THEN x ELSE iRun[c]]
        /\ iLock' = IF iLock \in down THEN Idea!Nil ELSE iLock
        /\ UNCHANGED <<iIdea, iDossier, iAngles, iPerson>>
    BY DEF Idea!Crash, Idea!stored, Callers
  <1>2. DOMAIN x = CallFields /\ x.pc = "done" /\ x.ok = TRUE /\ x.answer = "gone"
    BY DEF Idea!Waiting, CallFields
  <1> HIDE DEF x, down
  <1>3. ASSUME NEW c \in Callers PROVE CallFits(iRun'[c], c, iDossier, iAngles)
    <2>1. CallFits(x, c, iDossier, iAngles)
      BY <1>2 DEF CallFits, CallStages
    <2>2. CallFits(iRun[c], c, iDossier, iAngles)
      BY DEF ResearchInv
    <2>3. QED
      BY <1>1, <2>1, <2>2
  <1>4. DOMAIN iRun' = Callers /\ iLock' \in Callers \cup {Idea!Nil}
    BY <1>1 DEF ResearchInv
  <1>5. QED
    BY <1>1, <1>3, <1>4 DEF ResearchInv

-----------------------------------------------------------------------------
\* People.  It is enough to look at the one that acts, and at what the others
\* have seen of the angles.
LEMMA PersonActs ==
  ASSUME ResearchInv, NEW u \in People, NEW y,
         iPerson' = [iPerson EXCEPT ![u] = y], PersonFits(y, iAngles'),
         \A v \in People \ {u}: PersonFits(iPerson[v], iAngles'),
         \A v \in People \ {u}: ~(y.pc = "locked" /\ iPerson[v].pc = "locked"
                                  /\ iPerson[v].at = y.at),
         UNCHANGED <<iIdea, iDossier, iRun, iLock>>,
         StoredFits(iIdea, iDossier, iAngles'), iAngles # <<>> => iAngles' # <<>>
  PROVE  ResearchInv'
  <1>1. Stays(iDossier, iAngles, iDossier', iAngles')
    BY DEF Stays
  <1>2. ASSUME NEW c \in Callers PROVE CallFits(iRun'[c], c, iDossier', iAngles')
    BY <1>1, StaysKeeps DEF ResearchInv
  <1>3. DOMAIN iPerson = People /\ LocksApart(iPerson)
    BY DEF ResearchInv
  <1>4. iPerson'[u] = y /\ \A v \in People \ {u}: iPerson'[v] = iPerson[v]
    BY <1>3
  <1>5. ASSUME NEW v \in People PROVE PersonFits(iPerson'[v], iAngles')
    BY <1>4
  <1>6. LocksApart(iPerson')
    <2> SUFFICES ASSUME NEW v \in People, NEW w \in People,
                        iPerson'[v].pc = "locked", iPerson'[w].pc = "locked",
                        iPerson'[v].at = iPerson'[w].at, v # w
                 PROVE  FALSE
      BY DEF LocksApart
    <2>1. CASE v = u
      BY <1>4, <2>1
    <2>2. CASE w = u
      BY <1>4, <2>2
    <2>3. CASE v # u /\ w # u
      BY <1>3, <1>4, <2>3 DEF LocksApart
    <2>4. QED
      BY <2>1, <2>2, <2>3
  <1>7. DOMAIN iPerson' = People
    BY <1>3
  <1>8. QED
    BY <1>2, <1>5, <1>6, <1>7 DEF ResearchInv

\* One row at a new version.
LEMMA RowIs ==
  ASSUME NEW v \in AngleState
  PROVE  /\ v.version \in Nat \ {0} /\ v.version \in Nat /\ v.by \in Callers
         /\ v.claims \in SUBSET (Callers \X Nat) /\ v.text \in Callers \cup People
         /\ v.status \in {"candidate", "selected"}
         /\ v.version + 1 \in Nat \ {0}
         /\ v = [by |-> v.by, claims |-> v.claims, status |-> v.status,
                 version |-> v.version, text |-> v.text]
  BY DEF AngleState

LEMMA Retold ==
  ASSUME NEW v \in AngleState, NEW t \in Callers \cup People, NEW r,
         r = [v EXCEPT !.text = t, !.version = @ + 1]
  PROVE  /\ r \in AngleState /\ r.claims = v.claims
         /\ r.status = v.status /\ r.version = v.version + 1
  <1> DEFINE w == [by |-> v.by, claims |-> v.claims, status |-> v.status,
                   version |-> v.version + 1, text |-> t]
  <1>1. v = [by |-> v.by, claims |-> v.claims, status |-> v.status,
             version |-> v.version, text |-> v.text]
    BY RowIs
  <1>2. r = w
    BY <1>1
  <1>3. w \in AngleState
    BY RowIs DEF AngleState
  <1>4. QED
    BY <1>2, <1>3

LEMMA Ranked ==
  ASSUME NEW v \in AngleState, NEW t \in {"candidate", "selected"}, NEW r,
         r = [v EXCEPT !.status = t, !.version = @ + 1]
  PROVE  /\ r \in AngleState /\ r.claims = v.claims /\ r.text = v.text
         /\ r.status = t /\ r.version = v.version + 1
  <1> DEFINE w == [by |-> v.by, claims |-> v.claims, status |-> t,
                   version |-> v.version + 1, text |-> v.text]
  <1>1. v = [by |-> v.by, claims |-> v.claims, status |-> v.status,
             version |-> v.version, text |-> v.text]
    BY RowIs
  <1>2. r = w
    BY <1>1
  <1>3. w \in AngleState
    BY RowIs DEF AngleState
  <1>4. QED
    BY <1>2, <1>3

LEMMA EndedFits ==
  ASSUME NEW u, Idea!Ended(u), NEW A
  PROVE  \E y: /\ iPerson' = [iPerson EXCEPT ![u] = y] /\ PersonFits(y, A)
               /\ y.pc = "done"
  <1> DEFINE y == [Idea!Person EXCEPT !.pc = "done"]
  <1>1. iPerson' = [iPerson EXCEPT ![u] = y]
    BY DEF Idea!Ended
  <1>2. DOMAIN y = PersonFields /\ y.pc = "done"
    BY DEF Idea!Person, PersonFields
  <1> HIDE DEF y
  <1>3. PersonFits(y, A)
    BY <1>2 DEF PersonFits
  <1>4. QED
    BY <1>1, <1>2, <1>3

LEMMA LooksKeep ==
  ASSUME ResearchInv, NEW u \in People, Idea!Look(u)
  PROVE  ResearchInv'
  <1> DEFINE s == [a \in DOMAIN iAngles |-> Idea!View(iAngles[a])]
             y == [iPerson[u] EXCEPT !.pc = "act", !.seen = s]
  <1>1. /\ iAngles # <<>> /\ iPerson' = [iPerson EXCEPT ![u] = y]
        /\ UNCHANGED <<iIdea, iDossier, iAngles, iLock, iRun>>
    BY DEF Idea!Look, Idea!stored
  <1>2. DOMAIN iAngles = 1..2 /\ iAngles \in Seq(AngleState)
    BY <1>1, TwoAngles
  <1>3. \A a \in 1..2: s[a] = Idea!View(iAngles[a])
    BY <1>2
  <1>4. DOMAIN s = 1..2
    BY <1>2
  <1> HIDE DEF s
  <1>5. \A a \in 1..2: s[a].version = iAngles[a].version /\ iAngles[a].version \in Nat
    <2> SUFFICES ASSUME NEW a \in 1..2
                 PROVE  s[a].version = iAngles[a].version /\ iAngles[a].version \in Nat
      OBVIOUS
    <2>1. iAngles[a] \in AngleState
      BY <1>2
    <2>2. iAngles[a].version \in Nat
      BY <2>1, RowIs
    <2>3. s[a].version = iAngles[a].version
      BY <1>3 DEF Idea!View
    <2>4. QED
      BY <2>2, <2>3
  <1>6. DOMAIN iPerson[u] = PersonFields
    BY DEF ResearchInv, PersonFits
  <1>7. DOMAIN y = PersonFields /\ y.pc = "act" /\ y.seen = s
    BY <1>6 DEF PersonFields
  <1> HIDE DEF y
  <1>8. PersonFits(y, iAngles')
    <2>1. \A a \in 1..2: /\ s[a].version \in Nat /\ s[a].version <= iAngles[a].version
                         /\ Seen(s[a], iAngles[a])
      BY <1>3, <1>5 DEF Seen
    <2>2. QED
      BY <1>1, <1>4, <1>7, <2>1 DEF PersonFits
  <1>9. /\ \A v \in People \ {u}: PersonFits(iPerson[v], iAngles')
        /\ StoredFits(iIdea, iDossier, iAngles')
    BY <1>1 DEF ResearchInv
  <1>10. QED
    BY <1>1, <1>7, <1>8, <1>9, PersonActs

\* Someone who gives up, or takes the row of an angle.
LEMMA SelectsKeep ==
  ASSUME ResearchInv, NEW u \in People,
         Idea!Deadlock(u) \/ \E a \in DOMAIN iAngles: Idea!Select(u, a)
  PROVE  ResearchInv'
  <1>1. UNCHANGED <<iIdea, iDossier, iAngles, iLock, iRun>>
    BY DEF Idea!Deadlock, Idea!Select, Idea!stored
  <1>2. /\ \A v \in People: PersonFits(iPerson[v], iAngles')
        /\ StoredFits(iIdea, iDossier, iAngles')
    BY <1>1 DEF ResearchInv
  <1>3. CASE Idea!Ended(u)
    <2>1. PICK y: /\ iPerson' = [iPerson EXCEPT ![u] = y] /\ PersonFits(y, iAngles')
                  /\ y.pc = "done"
      <3>1. PICK y: /\ iPerson' = [iPerson EXCEPT ![u] = y] /\ PersonFits(y, iAngles)
                    /\ y.pc = "done"
        BY <1>3, EndedFits
      <3>2. QED
        BY <1>1, <3>1
    <2>2. QED
      BY <1>1, <1>2, <2>1, PersonActs
  <1>4. ASSUME NEW a \in DOMAIN iAngles, Idea!Select(u, a), Idea!Expected(u, a)
        PROVE  ResearchInv'
    <2> DEFINE y == [iPerson[u] EXCEPT !.pc = "locked", !.at = a]
    <2>1. /\ iPerson' = [iPerson EXCEPT ![u] = y] /\ iPerson[u].pc = "act"
          /\ ~Idea!Locked(a)
      BY <1>4 DEF Idea!Select
    <2>2. PersonFits(iPerson[u], iAngles)
      BY DEF ResearchInv
    <2>3. iAngles # <<>> /\ DOMAIN iAngles = 1..2
      BY <2>1, <2>2, TwoAngles DEF PersonFits
    <2>4. /\ DOMAIN y = PersonFields /\ y.pc = "locked" /\ y.at = a
          /\ y.seen = iPerson[u].seen
      BY <2>2 DEF PersonFits, PersonFields
    <2> HIDE DEF y
    <2>5. Seen(y.seen[a], iAngles[a])
      BY <1>4, <2>1, <2>2, <2>3, <2>4 DEF PersonFits, Idea!Expected
    <2>6. PersonFits(y, iAngles')
      BY <1>1, <2>1, <2>2, <2>3, <2>4, <2>5 DEF PersonFits
    <2>7. \A v \in People \ {u}: ~(iPerson[v].pc = "locked" /\ iPerson[v].at = y.at)
      BY <2>1, <2>4 DEF Idea!Locked
    <2>8. QED
      BY <1>1, <1>2, <2>1, <2>6, <2>7, PersonActs
  <1>5. QED
    BY <1>3, <1>4 DEF Idea!Deadlock, Idea!Select

\* Two rows, one or both of which are written.
LEMMA RowsFit ==
  ASSUME ResearchInv, iAngles # <<>>, NEW B, DOMAIN B = 1..2, B \in [1..2 -> AngleState],
         \A a \in 1..2: B[a].claims = iAngles[a].claims, OneSelected(B)
  PROVE  StoredFits(iIdea, iDossier, B) /\ B # <<>>
  <1>1. B \in Seq(AngleState) /\ Len(B) = 2
    <2>1. 2 \in Nat
      OBVIOUS
    <2>2. B \in Seq(AngleState)
      BY <2>1, SeqDef
    <2>3. QED
      BY <2>2
  <1>2. B # <<>>
    <2> SUFFICES ASSUME B = <<>> PROVE FALSE
      OBVIOUS
    <2>1. Len(B) # 0
      BY <1>1
    <2>2. Len(<<>>) = 0
      OBVIOUS
    <2>3. QED
      BY <2>1, <2>2, Zenon
  <1>3. AnglesFit(iAngles, iDossier) /\ iDossier # Blank
    BY DEF ResearchInv, StoredFits
  <1>4. AnglesFit(B, iDossier)
    BY <1>1, <1>3 DEF AnglesFit
  <1>5. QED
    BY <1>2, <1>3, <1>4 DEF ResearchInv, StoredFits, StatusFits

LEMMA RowsAre ==
  ASSUME ResearchInv, iAngles # <<>>
  PROVE  /\ DOMAIN iAngles = 1..2 /\ OneSelected(iAngles)
         /\ \A a \in 1..2: iAngles[a] \in AngleState
  <1>1. DOMAIN iAngles = 1..2 /\ iAngles \in Seq(AngleState)
    BY TwoAngles
  <1>2. \A a \in 1..2: iAngles[a] \in AngleState
    BY <1>1
  <1>3. OneSelected(iAngles)
    BY DEF ResearchInv, StoredFits
  <1>4. QED
    BY <1>1, <1>2, <1>3

\* Rows nobody else has locked may be written at a new version.
LEMMA OthersFit ==
  ASSUME NEW y, NEW A, NEW B, PersonFits(y, A), B # <<>>,
         \A a \in 1..2: A[a].version \in Nat /\ B[a].version \in Nat,
         \A a \in 1..2: B[a] = A[a] \/ B[a].version > A[a].version,
         y.pc = "locked" => B[y.at] = A[y.at]
  PROVE  PersonFits(y, B)
  <1>1. ASSUME y.pc \in {"act", "locked"}, NEW a \in 1..2
        PROVE  /\ y.seen[a].version <= B[a].version
               /\ y.seen[a].version = B[a].version => Seen(y.seen[a], B[a])
    <2>1. /\ y.seen[a].version \in Nat /\ y.seen[a].version <= A[a].version
          /\ y.seen[a].version = A[a].version => Seen(y.seen[a], A[a])
      BY <1>1 DEF PersonFits
    <2>2. CASE B[a] = A[a]
      BY <2>1, <2>2
    <2>3. CASE B[a].version > A[a].version
      BY <2>1, <2>3
    <2>4. QED
      BY <2>2, <2>3
  <1>2. QED
    BY <1>1 DEF PersonFits

LEMMA FramingKeeps ==
  ASSUME ResearchInv, NEW u \in People, NEW a \in DOMAIN iAngles, Idea!Edit(u, a)
  PROVE  ResearchInv' /\ Idea!SeenWhenChanged
  <1>1. /\ UNCHANGED <<iIdea, iDossier, iLock, iRun>> /\ Idea!Ended(u)
        /\ iPerson[u].pc = "act" /\ ~Idea!Locked(a)
    BY DEF Idea!Edit
  <1>2. /\ PersonFits(iPerson[u], iAngles) /\ DOMAIN iPerson = People
        /\ \A v \in People: PersonFits(iPerson[v], iAngles)
    BY DEF ResearchInv
  <1>3. iAngles # <<>>
    BY <1>1, <1>2 DEF PersonFits
  <1>4. /\ DOMAIN iAngles = 1..2 /\ OneSelected(iAngles)
        /\ \A b \in 1..2: iAngles[b] \in AngleState
    BY <1>3, RowsAre
  <1>5. PICK y: /\ iPerson' = [iPerson EXCEPT ![u] = y] /\ y.pc = "done"
                /\ DOMAIN y = PersonFields
    BY <1>1, EndedFits DEF PersonFits
  <1>6. CASE ~Idea!Expected(u, a)
    <2>1. iAngles' = iAngles
      BY <1>6 DEF Idea!Edit
    <2>2. PersonFits(y, iAngles') /\ StoredFits(iIdea, iDossier, iAngles')
      BY <1>5, <2>1 DEF PersonFits, ResearchInv
    <2>3. ResearchInv'
      BY <1>1, <1>2, <1>5, <2>1, <2>2, PersonActs
    <2>4. QED
      BY <1>1, <2>1, <2>3 DEF Idea!SeenWhenChanged
  <1>7. CASE Idea!Expected(u, a)
    <2> DEFINE r == [iAngles[a] EXCEPT !.text = u, !.version = @ + 1]
               B == [iAngles EXCEPT ![a] = r]
    <2>1. iAngles' = B
      BY <1>7 DEF Idea!Edit
    <2>2. iAngles[a] \in AngleState /\ iAngles[a].version \in Nat
      BY <1>4, RowIs
    <2>3. /\ r \in AngleState /\ r.claims = iAngles[a].claims
          /\ r.status = iAngles[a].status /\ r.version = iAngles[a].version + 1
      <3> DEFINE x == iAngles[a]
      <3> HIDE DEF x
      <3>1. x \in AngleState
        BY <2>2 DEF x
      <3>2. r = [x EXCEPT !.text = u, !.version = @ + 1]
        BY DEF x
      <3>3. u \in Callers \cup People
        OBVIOUS
      <3> HIDE DEF r
      <3>4. /\ r \in AngleState /\ r.claims = x.claims
            /\ r.status = x.status /\ r.version = x.version + 1
        BY <3>1, <3>2, <3>3, Retold
      <3>5. QED
        BY <3>4 DEF x
    <2> HIDE DEF r
    <2>4. /\ DOMAIN B = 1..2 /\ B[a] = r
          /\ \A b \in 1..2: b # a => B[b] = iAngles[b]
      BY <1>4
    <2>5. B \in [1..2 -> AngleState]
      BY <1>4, <2>3
    <2> HIDE DEF B
    <2>6. \A b \in 1..2: /\ B[b].claims = iAngles[b].claims
                         /\ B[b].status = iAngles[b].status
      BY <2>3, <2>4
    <2>7. OneSelected(B)
      BY <1>4, <2>6 DEF OneSelected
    <2>8. StoredFits(iIdea, iDossier, B) /\ B # <<>>
      BY <1>3, <2>4, <2>5, <2>6, <2>7, RowsFit
    <2>9. ASSUME NEW v \in People PROVE PersonFits(iPerson[v], B)
      <3>1. \A b \in 1..2: iAngles[b].version \in Nat /\ B[b].version \in Nat
        BY <1>4, <2>5 DEF AngleState
      <3>2. \A b \in 1..2: B[b] = iAngles[b] \/ B[b].version > iAngles[b].version
        BY <2>2, <2>3, <2>4
      <3>3. iPerson[v].pc = "locked" => B[iPerson[v].at] = iAngles[iPerson[v].at]
        BY <1>1, <1>2, <2>4 DEF Idea!Locked, PersonFits
      <3>4. QED
        BY <1>2, <2>8, <3>1, <3>2, <3>3, OthersFit
    <2>10. PersonFits(y, B)
      BY <1>5 DEF PersonFits
    <2>11. ResearchInv'
      BY <1>1, <1>5, <2>1, <2>8, <2>9, <2>10, PersonActs
    <2>12. iPerson[u].seen[a] = Idea!View(iAngles[a]) /\ a \in DOMAIN iPerson[u].seen
      BY <1>1, <1>2, <1>4, <1>7 DEF PersonFits, Idea!Expected, Seen
    <2>13. iPerson'[u].pc = "done"
      BY <1>2, <1>5
    <2>14. \A b \in DOMAIN iAngles: b # a => iAngles'[b] = iAngles[b]
      BY <1>4, <2>1, <2>4
    <2>15. iAngles'[a].status = iAngles[a].status
      BY <2>1, <2>3, <2>4
    <2>16. QED
      BY <1>1, <2>11, <2>12, <2>13, <2>14, <2>15 DEF Idea!SeenWhenChanged
  <1>8. QED
    BY <1>6, <1>7

LEMMA SelectRestKeeps ==
  ASSUME ResearchInv, NEW u \in People, Idea!SelectRest(u)
  PROVE  ResearchInv' /\ Idea!SeenWhenChanged
  <1> DEFINE at == iPerson[u].at
             chosen == [iAngles[at] EXCEPT !.status = "selected", !.version = @ + 1]
             B == [b \in DOMAIN iAngles |->
                     IF b = at THEN [iAngles[b] EXCEPT !.status = "selected", !.version = @ + 1]
                               ELSE Idea!Unselected(iAngles[b])]
  <1>1. /\ UNCHANGED <<iIdea, iDossier, iLock, iRun>> /\ Idea!Ended(u)
        /\ iPerson[u].pc = "locked" /\ iAngles' = B
        /\ \A b \in DOMAIN iAngles \ {at}: ~Idea!Locked(b)
    BY DEF Idea!SelectRest
  <1>2. /\ DOMAIN iPerson = People /\ LocksApart(iPerson)
        /\ \A v \in People: PersonFits(iPerson[v], iAngles)
    BY DEF ResearchInv
  <1>3. /\ iAngles # <<>> /\ at \in 1..2 /\ DOMAIN iPerson[u].seen = 1..2
        /\ iPerson[u].seen[at] = Idea!View(iAngles[at])
    BY <1>1, <1>2 DEF PersonFits, Seen
  <1>4. /\ DOMAIN iAngles = 1..2 /\ \A b \in 1..2: iAngles[b] \in AngleState
    BY <1>3, RowsAre
  <1>5. PICK y: /\ iPerson' = [iPerson EXCEPT ![u] = y] /\ y.pc = "done"
                /\ DOMAIN y = PersonFields
    BY <1>1, EndedFits DEF PersonFits
  <1>6. ASSUME NEW b \in 1..2
        PROVE  /\ B[b] \in AngleState /\ B[b].claims = iAngles[b].claims
               /\ B[b].text = iAngles[b].text
               /\ B[b].version = iAngles[b].version + 1 /\ iAngles[b].version \in Nat
               /\ B[b].status = IF b = at THEN "selected" ELSE "candidate"
    <2>1. iAngles[b] \in AngleState /\ iAngles[b].version \in Nat
      BY <1>4, RowIs
    <2>2. CASE b = at
      <3>1. B[b] = [iAngles[b] EXCEPT !.status = "selected", !.version = @ + 1]
        BY <1>4, <2>2
      <3> DEFINE x == iAngles[b]
                 r == B[b]
      <3>2. x \in AngleState /\ r = [x EXCEPT !.status = "selected", !.version = @ + 1]
        BY <2>1, <3>1
      <3> HIDE DEF x, r, B
      <3>3. /\ r \in AngleState /\ r.claims = x.claims /\ r.text = x.text
            /\ r.status = "selected" /\ r.version = x.version + 1
        BY <3>2, Ranked
      <3>4. QED
        BY <2>1, <2>2, <3>3 DEF x, r
    <2>3. CASE b # at
      <3>1. B[b] = [iAngles[b] EXCEPT !.status = "candidate", !.version = @ + 1]
        BY <1>4, <2>3 DEF Idea!Unselected
      <3> DEFINE x == iAngles[b]
                 r == B[b]
      <3>2. x \in AngleState /\ r = [x EXCEPT !.status = "candidate", !.version = @ + 1]
        BY <2>1, <3>1
      <3> HIDE DEF x, r, B
      <3>3. /\ r \in AngleState /\ r.claims = x.claims /\ r.text = x.text
            /\ r.status = "candidate" /\ r.version = x.version + 1
        BY <3>2, Ranked
      <3>4. QED
        BY <2>1, <2>3, <3>3 DEF x, r
    <2>4. QED
      BY <2>2, <2>3
  <1>7. DOMAIN B = 1..2
    BY <1>4
  <1>8. B = [b \in 1..2 |-> B[b]]
    BY <1>4
  <1> HIDE DEF B
  <1>9. B \in [1..2 -> AngleState]
    BY <1>6, <1>8
  <1>10. OneSelected(B) /\ \A b \in 1..2: B[b].claims = iAngles[b].claims
    BY <1>6 DEF OneSelected
  <1>11. StoredFits(iIdea, iDossier, B) /\ B # <<>>
    BY <1>3, <1>7, <1>9, <1>10, RowsFit
  <1>12. ASSUME NEW v \in People \ {u} PROVE PersonFits(iPerson[v], B)
    <2>1. /\ \A b \in 1..2: iAngles[b].version \in Nat /\ B[b].version \in Nat
          /\ \A b \in 1..2: B[b].version > iAngles[b].version
      BY <1>6
    <2>2. iPerson[v].pc # "locked"
      <3> SUFFICES ASSUME iPerson[v].pc = "locked" PROVE FALSE
        OBVIOUS
      <3>1. iPerson[v].at \in 1..2
        BY <1>2 DEF PersonFits
      <3>2. iPerson[v].at # at
        BY <1>1, <1>2 DEF LocksApart
      <3>3. QED
        BY <1>1, <1>4, <3>1, <3>2 DEF Idea!Locked
    <2>3. QED
      BY <1>2, <1>11, <2>1, <2>2, OthersFit
  <1>13. PersonFits(y, B)
    BY <1>5 DEF PersonFits
  <1>14. ResearchInv'
    BY <1>1, <1>5, <1>11, <1>12, <1>13, PersonActs
  <1>15. iPerson'[u].pc = "done"
    BY <1>2, <1>5
  <1>16. \A b \in DOMAIN iAngles: /\ iAngles'[b].text = iAngles[b].text
                                  /\ iAngles'[b].status = "selected" => b = at
    BY <1>1, <1>4, <1>6
  <1>17. QED
    BY <1>1, <1>3, <1>14, <1>15, <1>16 DEF Idea!SeenWhenChanged

-----------------------------------------------------------------------------
\* No request replaces what is stored.
LEMMA CallersLeave ==
  ASSUME ResearchInv,
         (\E c \in Callers: Idea!Step(c)) \/ (\E q: Idea!Crash(q))
  PROVE  Idea!SeenWhenChanged
  <1>1. (iDossier # Blank => iDossier' = iDossier) /\ (iAngles' = iAngles \/ iAngles = <<>>)
    <2>1. ASSUME NEW c \in Callers, Idea!Save(c) \/ (Idea!At(c, "save") /\ Idea!Saved(c))
          PROVE  (iDossier # Blank => iDossier' = iDossier) /\ iAngles' = iAngles
      BY <2>1, SavedFits DEF Idea!Save, Idea!At, Stays
    <2>2. ASSUME NEW c \in Callers, Idea!Put(c) \/ (Idea!At(c, "put") /\ Idea!PutAngles(c))
          PROVE  iDossier' = iDossier /\ (iAngles' = iAngles \/ iAngles = <<>>)
      BY <2>2, PutFits DEF Idea!Put, Idea!At
    <2>3. ASSUME NEW c \in Callers, Idea!Throws(c)
          PROVE  (iDossier # Blank => iDossier' = iDossier)
                 /\ (iAngles' = iAngles \/ iAngles = <<>>)
      BY <2>1, <2>2, <2>3 DEF Idea!Throws, Idea!stored
    <2>4. ASSUME NEW c \in Callers,
                 \/ Idea!Start(c) \/ Idea!Connect(c) \/ Idea!Lock(c) \/ Idea!Bundle(c)
                 \/ Idea!Search(c) \/ Idea!Judge(c) \/ Idea!Plan(c) \/ Idea!Leave(c)
                 \/ Idea!Check(c)
          PROVE  iDossier' = iDossier /\ iAngles' = iAngles
      BY <2>4 DEF Idea!Start, Idea!Connect, Idea!Lock, Idea!Bundle, Idea!Search,
                  Idea!Judge, Idea!Plan, Idea!Leave, Idea!Check, Idea!stored
    <2>5. ASSUME NEW q, Idea!Crash(q) PROVE iDossier' = iDossier /\ iAngles' = iAngles
      BY <2>5 DEF Idea!Crash, Idea!stored
    <2>6. QED
      BY <2>1, <2>2, <2>3, <2>4, <2>5 DEF Idea!Step
  <1>2. iAngles = <<>> => DOMAIN iAngles = {}
    OBVIOUS
  <1>3. QED
    BY <1>1, <1>2 DEF Idea!SeenWhenChanged, Blank

LEMMA ResearchStep ==
  ASSUME Idea!ResearchAssumption, ResearchInv, [Idea!Next]_(Idea!vars)
  PROVE  ResearchInv' /\ Idea!SeenWhenChanged
  <1>1. CASE UNCHANGED Idea!vars
    BY <1>1 DEF Idea!vars, ResearchInv, Idea!SeenWhenChanged
  <1>2. ASSUME NEW c \in Callers, Idea!Step(c) PROVE ResearchInv' /\ Idea!SeenWhenChanged
    <2>1. ResearchInv'
      BY <1>2, MovesKeep, BundleKeeps, SearchKeeps, JudgeKeeps, PlanKeeps, StoreKeeps,
         ThrowKeeps DEF Idea!Step
    <2>2. QED
      BY <1>2, <2>1, CallersLeave
  <1>3. ASSUME NEW q, Idea!Crash(q) PROVE ResearchInv' /\ Idea!SeenWhenChanged
    BY <1>3, CrashKeeps, CallersLeave
  <1>4. ASSUME NEW u \in People, Idea!Act(u) PROVE ResearchInv' /\ Idea!SeenWhenChanged
    <2>1. CASE \/ Idea!Look(u) \/ Idea!Deadlock(u)
               \/ \E a \in DOMAIN iAngles: Idea!Select(u, a)
      <3>1. ResearchInv'
        BY <2>1, LooksKeep, SelectsKeep
      <3>2. UNCHANGED <<iDossier, iAngles>>
        BY <2>1 DEF Idea!Look, Idea!Deadlock, Idea!Select, Idea!stored
      <3>3. QED
        BY <3>1, <3>2 DEF Idea!SeenWhenChanged
    <2>2. CASE Idea!SelectRest(u)
      BY <2>2, SelectRestKeeps
    <2>3. CASE \E a \in DOMAIN iAngles: Idea!Edit(u, a)
      BY <2>3, FramingKeeps
    <2>4. QED
      BY <1>4, <2>1, <2>2, <2>3 DEF Idea!Act
  <1>5. QED
    BY <1>1, <1>2, <1>3, <1>4 DEF Idea!Next, Callers

LEMMA ResearchBegins ==
  ASSUME Idea!ResearchAssumption, Idea!Init
  PROVE  ResearchInv
  <1>1. /\ iDossier = Blank /\ iAngles = <<>> /\ iLock = Idea!Nil
        /\ iRun = [c \in Callers |-> Idea!Waiting]
        /\ iPerson = [u \in People |-> Idea!Person]
        /\ iIdea \in [status: {"new"}, explicit: Explicit, linked: Linked]
    BY DEF Idea!Init, Blank, Callers
  <1>2. StoredFits(iIdea, iDossier, iAngles)
    <2>1. /\ DOMAIN iIdea = {"status", "explicit", "linked"} /\ iIdea.status = "new"
          /\ iIdea.explicit \in Explicit /\ iIdea.linked \in Linked
      BY <1>1
    <2>2. iIdea.explicit \in Seq(Items) /\ iIdea.linked \in Seq(Items)
      BY <2>1 DEF Idea!ResearchAssumption
    <2>3. QED
      BY <1>1, <2>1, <2>2 DEF StoredFits, StatusFits
  <1>3. ASSUME NEW c \in Callers PROVE CallFits(iRun[c], c, iDossier, iAngles)
    <2> DEFINE x == Idea!Waiting
    <2>1. DOMAIN x = CallFields /\ x.pc = "start" /\ x.ok = TRUE /\ x.answer = Idea!Nil
      BY DEF Idea!Waiting, CallFields
    <2>2. Idea!Nil # "ok"
      BY DEF Idea!Nil
    <2>3. iRun[c] = x
      BY <1>1
    <2> HIDE DEF x
    <2>4. QED
      BY <2>1, <2>2, <2>3 DEF CallFits, CallStages
  <1>4. ASSUME NEW u \in People PROVE PersonFits(iPerson[u], iAngles) /\ iPerson[u].pc = "look"
    BY <1>1 DEF PersonFits, Idea!Person, PersonFields
  <1>5. LocksApart(iPerson)
    BY <1>4 DEF LocksApart
  <1>6. QED
    BY <1>1, <1>2, <1>3, <1>4, <1>5 DEF ResearchInv

LEMMA GroundedHolds == ResearchInv => Idea!Grounded
  <1> SUFFICES ASSUME ResearchInv PROVE Idea!Grounded
    OBVIOUS
  <1>1. StoredFits(iIdea, iDossier, iAngles)
    BY DEF ResearchInv
  <1>2. ASSUME iDossier # Idea!NoDossier
        PROVE  /\ Rests(iDossier.claims, iDossier.evidence)
               /\ Len(iDossier.evidence) \in Idea!Minimum..MaxEvidence
               /\ \A i, j \in DOMAIN iDossier.evidence:
                    /\ Idea!Relevant(iDossier.evidence[i])
                    /\ i # j => iDossier.evidence[i].key # iDossier.evidence[j].key
    <2>1. DossierFits(iDossier)
      BY <1>1, <1>2 DEF StoredFits, Blank
    <2>2. EvidenceFits(iDossier.evidence) /\ Rests(iDossier.claims, iDossier.evidence)
      BY <2>1 DEF DossierFits
    <2> DEFINE e == iDossier.evidence
    <2>3. /\ e \in Seq(Items) /\ Len(e) \in Idea!Minimum..MaxEvidence /\ Apart(e)
          /\ \A i \in 1..Len(e): Idea!Relevant(e[i])
      BY <2>2 DEF EvidenceFits
    <2>4. DOMAIN e = 1..Len(e)
      BY <2>3
    <2> HIDE DEF e
    <2>5. \A i, j \in DOMAIN e: Idea!Relevant(e[i]) /\ (i # j => e[i].key # e[j].key)
      BY <2>3, <2>4 DEF Apart
    <2>6. QED
      BY <2>2, <2>3, <2>5 DEF e
  <1>3. ASSUME NEW a \in DOMAIN iAngles
        PROVE  iAngles[a].claims # {} /\ iAngles[a].claims \subseteq Idea!ClaimsOf(iDossier)
    <2>1. iAngles # <<>>
      BY <1>3
    <2>2. AnglesFit(iAngles, iDossier) /\ a \in 1..2
      BY <1>1, <1>3, <2>1, TwoAngles DEF StoredFits
    <2>3. QED
      BY <2>2 DEF AnglesFit
  <1>4. Len(iAngles) \in {0, 2}
    <2>1. Len(<<>>) = 0
      OBVIOUS
    <2>2. QED
      BY <2>1, TwoAngles
  <1>5. iIdea.status = CASE iAngles # <<>> -> "angles-ready" [] OTHER ->
                         IF iDossier = Idea!NoDossier THEN "new" ELSE "research-ready"
    BY <1>1 DEF StoredFits, StatusFits, Blank
  <1>6. QED
    BY <1>2, <1>3, <1>4, <1>5 DEF Idea!Grounded, Rests

LEMMA IdeaIsSound ==
  ResearchInv => Idea!TypeOK /\ Idea!SuccessIsReal /\ Idea!OneChosen
  <1> SUFFICES ASSUME ResearchInv
               PROVE  Idea!TypeOK /\ Idea!SuccessIsReal /\ Idea!OneChosen
    OBVIOUS
  <1>1. Idea!OneChosen
    <2>1. CASE iAngles = <<>>
      BY <2>1 DEF Idea!OneChosen
    <2>2. CASE iAngles # <<>>
      BY <2>2, RowsAre DEF Idea!OneChosen, OneSelected
    <2>3. QED
      BY <2>1, <2>2
  <1>2. ASSUME NEW c \in Callers,
               iRun[c].answer = "ok" \/ (Idea!At(c, "check") /\ iRun[c].ok)
        PROVE  Idea!Whole
    <2>1. CallFits(iRun[c], c, iDossier, iAngles)
      BY DEF ResearchInv
    <2>2. There(iDossier, iAngles)
      BY <1>2, <2>1 DEF CallFits, Idea!At
    <2>3. QED
      BY <2>2, TwoAngles
  <1>3. Idea!SuccessIsReal
    BY <1>2 DEF Idea!SuccessIsReal, Callers
  <1>4. Idea!TypeOK
    <2>1. iIdea.status \in {"new", "research-ready", "angles-ready"}
      BY DEF ResearchInv, StoredFits, StatusFits
    <2>2. iDossier.by \in Idea!Callers \cup {Idea!Nil} /\ iLock \in Idea!Callers \cup {Idea!Nil}
      <3>1. Blank.by = Idea!Nil
        BY DEF Blank, Idea!NoDossier
      <3>2. iDossier = Blank \/ iDossier.by \in Callers
        BY DEF ResearchInv, StoredFits, DossierFits, DossierState
      <3>3. QED
        BY <3>1, <3>2 DEF ResearchInv, Callers
    <2>3. ASSUME NEW a \in DOMAIN iAngles
          PROVE  /\ iAngles[a].by \in Idea!Callers
                 /\ iAngles[a].status \in {"candidate", "selected"}
                 /\ iAngles[a].version \in Nat \ {0}
      <3>1. iAngles # <<>>
        BY <2>3
      <3>2. iAngles[a] \in AngleState
        BY <2>3, <3>1, RowsAre
      <3>3. QED
        BY <3>2 DEF AngleState, Callers
    <2>4. \A c \in Idea!Callers:
            iRun[c].pc \in Idea!Inside \cup {"start", "connect", "check", "done"}
      BY DEF ResearchInv, CallFits, CallStages, Idea!Inside, Callers
    <2>5. \A u \in People: iPerson[u].pc \in {"look", "act", "locked", "done"}
      BY DEF ResearchInv, PersonFits
    <2>6. QED
      BY <2>1, <2>2, <2>3, <2>4, <2>5 DEF Idea!TypeOK
  <1>5. QED
    BY <1>1, <1>3, <1>4

(* What research stores stands on its evidence (relevant items, enough of   *)
(* them and told apart, claims that rest on them, two angles that rest on   *)
(* claims of that very dossier), success is reported only of a dossier and  *)
(* two angles that are there, at most one angle is chosen, and an angle is  *)
(* changed or chosen only by someone who has seen it as it is, for any      *)
(* requests, processes, crashes, evidence and answers of the models         *)
(* (ideaDeveloper.develop, selectAngle, editAngleFraming).                  *)
THEOREM ResearchHolds ==
  ASSUME Idea!ResearchAssumption
  PROVE  Idea!Spec => /\ [](/\ Idea!TypeOK /\ Idea!Grounded /\ Idea!SuccessIsReal
                            /\ Idea!OneChosen)
                      /\ [][Idea!SeenWhenChanged]_(Idea!vars)
  <1>1. ResearchInv => /\ Idea!TypeOK /\ Idea!Grounded /\ Idea!SuccessIsReal
                       /\ Idea!OneChosen
    BY GroundedHolds, IdeaIsSound
  <1>2. Idea!Init => ResearchInv
    BY ResearchBegins
  <1>3. ResearchInv /\ [Idea!Next]_(Idea!vars) => ResearchInv'
    BY ResearchStep
  <1>4. ResearchInv /\ [Idea!Next]_(Idea!vars) => [Idea!SeenWhenChanged]_(Idea!vars)
    BY ResearchStep
  <1>5. QED
    BY <1>1, <1>2, <1>3, <1>4, PTL DEF Idea!Spec
=============================================================================
