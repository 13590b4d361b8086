----------------------------- MODULE IdeaResearch -----------------------------
(***************************************************************************)
(* From an idea to two angles to choose from: a request develops the idea  *)
(* (evidence, a dossier, angles) under an advisory lock that holds one     *)
(* connection of its process while the work asks for others, and people    *)
(* select and edit the angles at expected versions.                        *)
(*                                                                         *)
(* An item of evidence is a record: its address, the key addresses are     *)
(* compared by, the anchors of the query its text matches, whether it      *)
(* names the product version the title names, and whether a dossier takes  *)
(* its address.  A claim is known by its dossier and its position.  One    *)
(* idea is enough: neither the lock nor a row is shared between two.       *)
(* Connections of selections and edits are left out of the pool: they wait *)
(* for rows only, and the database breaks their deadlocks.                 *)
(***************************************************************************)
EXTENDS Naturals, Sequences, FiniteSets, FiniteSetsExt, SequencesExt

CONSTANTS
  Routes,     \* POST .../research requests
  Creations,  \* ticks of the creation queue that develop the idea
  Process,    \* of each of them
  Pool,       \* connections of a process
  People,     \* requests that select or edit an angle
  Items,      \* the evidence the idea and the searches can give
  Anchors,    \* distinctive terms of the queries, outcome words left out
  Explicit,   \* what the addresses in the idea may give, in order
  Linked,     \* what the opportunity of the idea may give
  Searches,   \* [general, openalex, crossref]: what each search may answer
  Judgments,  \* claims the model may answer
  Strategies, \* candidates the model may answer, by the claims they cite
  MaxEvidence \* kept items (8 in the code)

VARIABLES
  idea,    \* its status, and the evidence it comes with
  dossier, \* the stored dossier
  angles,  \* the stored angles, in the order of their ids
  lock,    \* who has the advisory lock of the idea
  run,     \* what a developing request has in hand
  person   \* what a selecting or editing request has in hand

vars == <<idea, dossier, angles, lock, run, person>>

Nil == "none"
Callers == Routes \cup Creations
NoDossier == [by |-> Nil, evidence |-> <<>>, claims |-> <<>>]

Answers == [ok: BOOLEAN, found: Seq(Items)]
Claims == [cites: Seq(Nat),
           first: {"not-applicable", "authorized", "not-authorized"},
           verified: {"supported", "contradicted", "unresolved"}]

ResearchAssumption ==
  /\ {Pool, MaxEvidence} \subseteq Nat \ {0} /\ Nil \notin Callers \cup People
  /\ Routes \cap Creations = {} /\ DOMAIN Process = Callers
  /\ Explicit \cup Linked \subseteq Seq(Items)
  /\ Searches \subseteq [general: Answers, openalex: Answers, crossref: Answers]
  /\ Judgments \subseteq Seq(Claims) /\ Strategies \subseteq Seq(SUBSET Nat)
-----------------------------------------------------------------------------
(* Evidence.                                                               *)

KeyOf(x) == x.key

(* The items at these positions, in their order. *)
Where(items, positions) ==
  LET kept[n \in 0..Len(items)] ==
        IF n = 0 THEN <<>>
        ELSE IF n \in positions THEN Append(kept[n - 1], items[n])
                                ELSE kept[n - 1]
  IN kept[Len(items)]

(* isEvidenceRelevantToResearch: two anchors, one where there are only two.*)
Relevant(x) ==
  /\ x.named /\ Anchors # {}
  /\ Cardinality(Anchors \cap x.terms) >= IF Cardinality(Anchors) <= 2 THEN 1 ELSE 2
OnlyRelevant == [items \in Seq(Items) |->
  Where(items, {i \in DOMAIN items: Relevant(items[i])})]

First(items, n) == SubSeq(items, 1, Min({n, Len(items)}))
(* The first item of every key. *)
Distinct == [items \in Seq(Items) |->
  Where(items, {i \in DOMAIN items:
                  \A j \in 1..(i-1): KeyOf(items[j]) # KeyOf(items[i])})]

(* balancedUniqueEvidence: the first of every group, the second, ...       *)
Round(groups, i) ==
  LET longer == Where(groups, {g \in DOMAIN groups: Len(groups[g]) >= i})
  IN [k \in DOMAIN longer |-> longer[k][i]]
Longest(groups) == Max({0} \cup {Len(g): g \in ToSet(groups)})
InTurn == [groups \in Seq(Seq(Items)) |->
  FlattenSeq([i \in 1..Longest(groups) |-> Round(groups, i)])]
Balanced(groups) == First(Distinct[InTurn[groups]], MaxEvidence)

Minimum == Min({2, MaxEvidence})

Pins(pins) == OnlyRelevant[First(pins, MaxEvidence)]
PinsSuffice(pins) == pins = <<>> \/ Len(Pins(pins)) >= Min({Len(pins), Minimum})

(* A scholarly source is asked only for the words of pinned evidence; one  *)
(* that fails counts as empty.                                             *)
Groups(pins, s) ==
  LET pinned == IF Pins(pins) = <<>> THEN <<>> ELSE <<Pins(pins)>>
      scholarly == [k \in 1..2 |->
                      LET answer == <<s.openalex, s.crossref>>[k]
                      IN IF answer.ok THEN answer.found ELSE <<>>]
  IN IF Len(Pins(pins)) >= Minimum THEN pinned
     ELSE pinned \o <<s.general.found>> \o IF pins = <<>> THEN <<>> ELSE scholarly
Searchable(pins, s) == Len(Pins(pins)) >= Minimum \/ s.general.ok

(* An idea of an opportunity brings the evidence of the opportunity, but   *)
(* the research request sends the idea without its source.                 *)
PinnedOf(c) ==
  idea.explicit \o
    IF c \in Creations
      THEN Where(idea.linked, {k \in DOMAIN idea.linked:
                                 idea.linked[k] \notin ToSet(idea.explicit)})
      ELSE <<>>
-----------------------------------------------------------------------------
(* What the models answer.                                                 *)

(* normalizeClaim: cited items were given, each once, and no experience is *)
(* told that nobody authorized.                                            *)
SoundClaim(claim, evidence) ==
  /\ claim.cites # <<>> /\ ToSet(claim.cites) \subseteq DOMAIN evidence
  /\ IsInjective(claim.cites)
  /\ claim.first # "not-authorized"
(* publicHttpUrl, which only the dossier asks of an item. *)
Storable(x) == x.public
Sound(evidence, claims) ==
  /\ claims # <<>>
  /\ \A x \in ToSet(evidence): Storable(x)
  /\ \A claim \in ToSet(claims): SoundClaim(claim, evidence)

ClaimsOf(d) == {<<d.by, n>>: n \in DOMAIN d.claims}
Fresh(c, claims) ==
  [by |-> c, claims |-> claims, status |-> "candidate", version |-> 1, text |-> c]

(* The strategist's two candidates, and the angles that need no model.     *)
Strategic(d, s) ==
  /\ Len(s) \in 2..5
  /\ \A k \in DOMAIN s: s[k] # {} /\ s[k] \subseteq DOMAIN d.claims
Candidates(c, d, s) == [k \in 1..2 |-> Fresh(c, {<<d.by, n>>: n \in s[k]})]
Fallback(c, d) ==
  LET supported == {n \in DOMAIN d.claims: d.claims[n].verified = "supported"}
      pool == IF supported = {} THEN DOMAIN d.claims ELSE supported
      first == Min(pool)
      second == IF pool = {first} THEN first ELSE Min(pool \ {first})
  IN <<Fresh(c, {<<d.by, first>>}), Fresh(c, {<<d.by, second>>})>>
-----------------------------------------------------------------------------
Waiting == [pc |-> "start", groups |-> <<>>, dossier |-> NoDossier,
            angles |-> <<>>, again |-> FALSE, ok |-> TRUE, answer |-> Nil]
Person == [pc |-> "look", seen |-> <<>>, at |-> 0]

Init ==
  /\ idea \in [status: {"new"}, explicit: Explicit, linked: Linked]
  /\ dossier = NoDossier /\ angles = <<>> /\ lock = Nil
  /\ run = [c \in Callers |-> Waiting]
  /\ person = [u \in People |-> Person]

Inside == {"wait", "bundle", "search", "judge", "save", "reread", "plan", "put", "leave"}
Held(p) == {c \in Callers: Process[c] = p /\ run[c].pc \in Inside}
(* Whether the pool of the process has a connection to give. *)
Free(c) == Cardinality(Held(Process[c])) < Pool
At(c, l) == run[c].pc = l
Goto(c, l) == run' = [run EXCEPT ![c].pc = l]
Done(c, answer) ==
  run' = [run EXCEPT ![c] = [Waiting EXCEPT !.pc = "done", !.answer = answer]]
stored == <<idea, dossier, angles>>

Whole == dossier # NoDossier /\ Len(angles) >= 2

(* The request reads the idea before it asks for its development. *)
Start(c) ==
  /\ At(c, "start") /\ Free(c)
  /\ IF Whole THEN Done(c, "ok") ELSE Goto(c, "connect")
  /\ UNCHANGED <<stored, lock, person>>

(* PgIdeaDevelopmentLock.run: a connection first, the lock on it second. *)
Connect(c) ==
  /\ At(c, "connect") /\ Free(c)
  /\ Goto(c, "wait")
  /\ UNCHANGED <<stored, lock, person>>
Lock(c) ==
  /\ At(c, "wait") /\ lock = Nil
  /\ lock' = c
  /\ Goto(c, "bundle")
  /\ UNCHANGED <<stored, person>>

(* getIdeaBundle: with research and two angles there is nothing to do. *)
Bundle(c) ==
  /\ run[c].pc \in {"bundle", "reread"} /\ Free(c)
  /\ run' = [run EXCEPT ![c].dossier = dossier,
                        ![c].ok = dossier # NoDossier \/ At(c, "bundle"),
                        ![c].pc = CASE dossier # NoDossier /\ Len(angles) < 2 -> "plan"
                                    [] dossier = NoDossier /\ At(c, "bundle") -> "search"
                                    [] OTHER -> "leave"]
  /\ UNCHANGED <<stored, lock, person>>

Search(c) ==
  /\ At(c, "search")
  /\ \E s \in Searches:
       LET pins == PinnedOf(c)
           groups == Groups(pins, s)
           evidence == OnlyRelevant[Balanced(groups)]
       IN IF PinsSuffice(pins) /\ Searchable(pins, s) /\ Len(evidence) >= Minimum
            THEN run' = [run EXCEPT
                   ![c].groups = groups, ![c].pc = "judge",
                   ![c].dossier = [by |-> c, evidence |-> evidence, claims |-> <<>>]]
            ELSE run' = [run EXCEPT ![c].ok = FALSE, ![c].pc = "leave"]
  /\ UNCHANGED <<stored, lock, person>>

Judge(c) ==
  /\ At(c, "judge")
  /\ \E claims \in Judgments:
       IF Sound(run[c].dossier.evidence, claims)
         THEN run' = [run EXCEPT ![c].dossier.claims = claims, ![c].groups = <<>>,
                                 ![c].pc = "save"]
         ELSE run' = [run EXCEPT ![c].ok = FALSE, ![c].groups = <<>>, ![c].pc = "leave"]
  /\ UNCHANGED <<stored, lock, person>>

(* saveResearchDossier: the dossier an idea has stays. *)
Saved(c) ==
  IF dossier = NoDossier
    THEN /\ dossier' = run[c].dossier
         /\ idea' = [idea EXCEPT !.status = "research-ready"]
         /\ UNCHANGED angles
    ELSE UNCHANGED stored
Save(c) ==
  /\ At(c, "save") /\ Free(c)
  /\ Saved(c)
  /\ Goto(c, "reread")
  /\ UNCHANGED <<lock, person>>

(* What the strategist cannot give, the fallback does. *)
Plan(c) ==
  /\ At(c, "plan")
  /\ \E s \in Strategies:
       run' = [run EXCEPT ![c].pc = "put", ![c].again = ~Strategic(run[c].dossier, s),
                 ![c].angles = IF Strategic(run[c].dossier, s)
                                 THEN Candidates(c, run[c].dossier, s)
                                 ELSE Fallback(c, run[c].dossier)]
  /\ UNCHANGED <<stored, lock, person>>

(* saveCandidateAngles: the claims are looked for in the stored dossier. *)
KnownClaims(c) ==
  \A k \in DOMAIN run[c].angles: run[c].angles[k].claims \subseteq ClaimsOf(dossier)
PutAngles(c) ==
  IF Len(angles) >= 2 THEN UNCHANGED stored
  ELSE /\ KnownClaims(c)
       /\ angles' = angles \o run[c].angles
       /\ idea' = [idea EXCEPT !.status = "angles-ready"]
       /\ UNCHANGED dossier
Put(c) ==
  /\ At(c, "put") /\ Free(c)
  /\ PutAngles(c)
  /\ Goto(c, "leave")
  /\ UNCHANGED <<lock, person>>

(* A call throws, though what it stored may be there: a strategist that    *)
(* throws is followed by the fallback, everything else ends the work.      *)
Thrown(c) ==
  run' = IF At(c, "put") /\ ~run[c].again
           THEN [run EXCEPT ![c].again = TRUE, ![c].angles = Fallback(c, run[c].dossier)]
           ELSE [run EXCEPT ![c].ok = FALSE, ![c].groups = <<>>, ![c].pc = "leave"]
Throws(c) ==
  /\ \/ run[c].pc \in {"search", "judge"}
     \/ run[c].pc \in {"bundle", "save", "reread", "put"} /\ Free(c)
  /\ \/ UNCHANGED stored
     \/ At(c, "save") /\ Saved(c)
     \/ At(c, "put") /\ PutAngles(c)
  /\ Thrown(c)
  /\ UNCHANGED <<lock, person>>

(* The lock and its connection are given back, whatever the outcome. *)
Leave(c) ==
  /\ At(c, "leave")
  /\ lock' = Nil
  /\ Goto(c, "check")
  /\ UNCHANGED <<stored, person>>

(* The route reads again, after an error too; the queue only without one.  *)
Answered(c) ==
  IF Whole /\ (c \in Routes \/ run[c].ok) THEN "ok" ELSE "error"
Check(c) ==
  /\ At(c, "check") /\ Free(c)
  /\ Done(c, Answered(c))
  /\ UNCHANGED <<stored, lock, person>>

(* A process goes down with its requests, and their sessions with it. *)
Crash(p) ==
  LET down == {c \in Callers: Process[c] = p /\ ~At(c, "done")}
  IN /\ \E c \in down: run[c].pc \in Inside
     /\ run' = [c \in Callers |-> IF c \in down
                                    THEN [Waiting EXCEPT !.pc = "done", !.answer = "gone"]
                                    ELSE run[c]]
     /\ lock' = IF lock \in down THEN Nil ELSE lock
     /\ UNCHANGED <<stored, person>>
-----------------------------------------------------------------------------
View(angle) == [version |-> angle.version, status |-> angle.status, text |-> angle.text]

Look(u) ==
  /\ person[u].pc = "look" /\ angles # <<>>
  /\ person' = [person EXCEPT ![u].pc = "act",
                               ![u].seen = [a \in DOMAIN angles |-> View(angles[a])]]
  /\ UNCHANGED <<stored, lock, run>>

Ended(u) == person' = [person EXCEPT ![u] = [Person EXCEPT !.pc = "done"]]
(* A row another transaction has locked is waited for. *)
Locked(a) == \E u \in People: person[u].pc = "locked" /\ person[u].at = a

Expected(u, a) == angles[a].version = person[u].seen[a].version

(* selectAngle: only the row of the angle is locked and compared; the      *)
(* others are changed without a look.                                      *)
Select(u, a) ==
  /\ person[u].pc = "act" /\ ~Locked(a)
  /\ IF Expected(u, a) THEN person' = [person EXCEPT ![u].pc = "locked", ![u].at = a]
                       ELSE Ended(u)
  /\ UNCHANGED <<stored, lock, run>>
Unselected(angle) == [angle EXCEPT !.status = "candidate", !.version = @ + 1]
SelectRest(u) ==
  /\ person[u].pc = "locked"
  /\ \A b \in DOMAIN angles \ {person[u].at}: ~Locked(b)
  /\ angles' = [b \in DOMAIN angles |->
                  IF b = person[u].at
                    THEN [angles[b] EXCEPT !.status = "selected", !.version = @ + 1]
                    ELSE Unselected(angles[b])]
  /\ Ended(u)
  /\ UNCHANGED <<idea, dossier, lock, run>>

(* Two selections that wait for each other: the database ends one. *)
Deadlock(u) ==
  /\ person[u].pc = "locked"
  /\ \E b \in DOMAIN angles \ {person[u].at}: Locked(b)
  /\ Ended(u)
  /\ UNCHANGED <<stored, lock, run>>

(* editAngleFraming: one statement, where version=$6. *)
Edit(u, a) ==
  /\ person[u].pc = "act" /\ ~Locked(a)
  /\ IF Expected(u, a)
       THEN angles' = [angles EXCEPT ![a].text = u, ![a].version = @ + 1]
       ELSE UNCHANGED angles
  /\ Ended(u)
  /\ UNCHANGED <<idea, dossier, lock, run>>
-----------------------------------------------------------------------------
Step(c) ==
  \/ Start(c) \/ Connect(c) \/ Lock(c) \/ Bundle(c) \/ Search(c) \/ Judge(c)
  \/ Save(c) \/ Plan(c) \/ Put(c) \/ Throws(c) \/ Leave(c) \/ Check(c)
Act(u) ==
  \/ Look(u) \/ SelectRest(u) \/ Deadlock(u)
  \/ \E a \in DOMAIN angles: Select(u, a) \/ Edit(u, a)

Next ==
  \/ \E c \in Callers: Step(c)
  \/ \E p \in {Process[c]: c \in Callers}: Crash(p)
  \/ \E u \in People: Act(u)

Spec == Init /\ [][Next]_vars
FairSpec == /\ Spec
            /\ \A c \in Callers: WF_vars(Step(c))
            /\ \A u \in People: WF_vars(Act(u))
-----------------------------------------------------------------------------
TypeOK ==
  /\ idea.status \in {"new", "research-ready", "angles-ready"}
  /\ dossier.by \in Callers \cup {Nil} /\ lock \in Callers \cup {Nil}
  /\ \A a \in DOMAIN angles: /\ angles[a].by \in Callers
                             /\ angles[a].status \in {"candidate", "selected"}
                             /\ angles[a].version \in Nat \ {0}
  /\ \A c \in Callers: run[c].pc \in Inside \cup {"start", "connect", "check", "done"}
  /\ \A u \in People: person[u].pc \in {"look", "act", "locked", "done"}

(* What is stored stands on its evidence: the items of the dossier are     *)
(* relevant, enough and told apart, every claim rests on them, both angles *)
(* rest on claims of that very dossier, whichever request made them, and   *)
(* the status of the idea says what is there.                              *)
Grounded ==
  /\ dossier # NoDossier =>
       /\ dossier.claims # <<>>
       /\ \A claim \in ToSet(dossier.claims):
            claim.cites # <<>> /\ ToSet(claim.cites) \subseteq DOMAIN dossier.evidence
       /\ Len(dossier.evidence) \in Minimum..MaxEvidence
       /\ \A i, j \in DOMAIN dossier.evidence:
            /\ Relevant(dossier.evidence[i])
            /\ i # j => dossier.evidence[i].key # dossier.evidence[j].key
  /\ \A a \in DOMAIN angles:
       angles[a].claims # {} /\ angles[a].claims \subseteq ClaimsOf(dossier)
  /\ Len(angles) \in {0, 2}
  /\ idea.status = CASE angles # <<>> -> "angles-ready" [] OTHER ->
                     IF dossier = NoDossier THEN "new" ELSE "research-ready"

(* No source is starved and nothing the user pinned is pushed out: an item *)
(* of any group is there, under its key, unless enough other keys came in  *)
(* before it, an earlier round, or an earlier group of its round.          *)
Earlier(g, i, h, j) == j < i \/ (j = i /\ h < g)
EvenHanded ==
  \A c \in Callers:
    LET groups == run[c].groups
        kept == {x.key: x \in ToSet(run[c].dossier.evidence)}
        Places == UNION {{g} \X DOMAIN groups[g]: g \in DOMAIN groups}
        Item(p) == groups[p[1]][p[2]]
        Before(p) == {q \in Places: Earlier(p[1], p[2], q[1], q[2])}
        KeysBefore(p) == {Item(q).key: q \in Before(p)}
    IN At(c, "judge") =>
         \A p \in Places:
           Item(p).key \in kept <=>
             \E q \in Places:
               /\ Item(q).key = Item(p).key /\ Item(q).key \notin KeysBefore(q)
               /\ Cardinality(KeysBefore(q)) < MaxEvidence /\ Relevant(Item(q))
PinnedKept ==
  \A c \in Callers: At(c, "judge") =>
    \A x \in ToSet(Pins(PinnedOf(c))):
      \E y \in ToSet(run[c].dossier.evidence): y.key = x.key

(* Work that did not throw has left a dossier and two angles, and nothing  *)
(* else is reported as success.                                            *)
SuccessIsReal ==
  \A c \in Callers: run[c].answer = "ok" \/ (At(c, "check") /\ run[c].ok) => Whole

(* At most one angle of the idea is chosen. *)
OneChosen == \A a, b \in DOMAIN angles:
               angles[a].status = "selected" /\ angles[b].status = "selected" => a = b

(* A dossier is never replaced; a framing is changed, and an angle chosen, *)
(* only by someone who has seen it as it is at that moment.                *)
SeenWhenChanged ==
  /\ dossier # NoDossier => dossier' = dossier
  /\ \A a \in DOMAIN angles:
       LET Saw(u) == person'[u].pc = "done" /\ a \in DOMAIN person[u].seen
                     /\ person[u].seen[a] = View(angles[a])
       IN /\ angles'[a].text # angles[a].text =>
               \E u \in People: person[u].pc = "act" /\ Saw(u)
          /\ angles'[a].status = "selected" /\ angles[a].status # "selected" =>
               \E u \in People: person[u].at = a /\ person[u].pc = "locked" /\ Saw(u)

(* Requests stand still only in one way: the one that has the lock waits   *)
(* for a connection of its process, and the others of that process hold    *)
(* them all and wait for the lock.                                         *)
StandStill == ~(\E c \in Callers: ENABLED Step(c)) /\ \E c \in Callers: ~At(c, "done")
OnlyAFullPoolStops ==
  StandStill => \E c \in Callers: lock = c /\ Cardinality(Held(Process[c])) = Pool

Ends(c) == At(c, "done")
=============================================================================
