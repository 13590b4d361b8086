----------------------------- MODULE ShadowRetrieval -----------------------------
(***************************************************************************)
(* How the candidate lane searches: the intents of a discovery plan are    *)
(* balanced over its topics, a few of them may use the paid source, their  *)
(* searches run side by side, and what they found is merged in the order   *)
(* of the plan.  An intent is [topic, kind]; kind 0 is the brand's core,   *)
(* ..., and Explores the exploration of a neighbouring topic.              *)
(***************************************************************************)
EXTENDS Naturals, Sequences, FiniteSets, SequencesExt

CONSTANTS Plans,       \* sets of intents a plan may hold
          Rotations,   \* where the seed of the run starts the topics
          MaxIntents, MaxPaid, MaxSources,
          Sources,     \* [kind |-> its sources in order]
          Finds        \* what one source may answer: Found(items),
                       \* [key, source, about, unwanted], or Failed

VARIABLES plan, turn, intents, paid, answers, merged, at, bill

vars == <<plan, turn, intents, paid, answers, merged, at, bill>>

Explores == 7
PaidSource == "agent-reach"
Found(items) == [state |-> "found", items |-> items]
Failed == [state |-> "failed", items |-> <<>>]
Awaited == [state |-> "awaited", items |-> <<>>]

RetrievalAssumption == MaxIntents \in 1..24 /\ MaxPaid \in 0..6 /\ MaxSources \in 1..4
-----------------------------------------------------------------------------
Topics(S) == {i.topic: i \in S}
Sorted(S) == SetToSortSeq(S, LAMBDA a, b: a < b)
Rotated(s, k) == IF s = <<>> THEN s
                 ELSE [n \in 1..Len(s) |-> s[((n - 1 + k) % Len(s)) + 1]]
Before(i, j) == i.kind < j.kind \/ (i.kind = j.kind /\ i.topic < j.topic)
First(S) == CHOOSE i \in S: \A j \in S \ {i}: Before(i, j)

Core(S, t) == {i \in S: i.topic = t /\ i.kind # Explores}
Explorations(S) == {i \in S: i.kind = Explores}

(* The plan's topics in turn, one core intent each, and one exploration,   *)
(* of a topic that has none yet if there is one.                           *)
balanced(S, k) ==
  LET topics == SelectSeq(Rotated(Sorted(Topics(S)), k), LAMBDA t: Core(S, t) # {})
      all == Rotated(Sorted(Topics(S)), k)
      reserve == IF MaxIntents >= 2 /\ Explorations(S) # {} THEN 1 ELSE 0
      head == SubSeq(topics, 1, IF Len(topics) < MaxIntents - reserve THEN Len(topics)
                                ELSE MaxIntents - reserve)
      cores == [n \in DOMAIN head |-> First(Core(S, head[n]))]
      turnOf(i) == CHOOSE n \in DOMAIN all: all[n] = i.topic
      fresh == {i \in Explorations(S): \A n \in DOMAIN head: head[n] # i.topic}
      pool == IF fresh = {} THEN Explorations(S) ELSE fresh
      extra == IF reserve = 0 THEN <<>>
               ELSE <<CHOOSE i \in pool: \A j \in pool: turnOf(i) <= turnOf(j)>>
      rest == SubSeq(topics, Len(head) + 1, Len(topics))
      more == [n \in DOMAIN rest |-> First(Core(S, rest[n]))]
      whole == cores \o extra \o more IN
  SubSeq(whole, 1, IF Len(whole) < MaxIntents THEN Len(whole) ELSE MaxIntents)

(* Who may use the paid source: an exploration, then a core intent of each *)
(* topic still without one, then the others.                               *)
selectPaid(s) ==
  LET S == {s[n]: n \in DOMAIN s}
      byTopic == SetToSortSeq(Explorations(S), LAMBDA a, b: a.topic < b.topic)
      one == SubSeq(byTopic, 1, IF byTopic = <<>> THEN 0 ELSE 1)
      has == {one[n].topic: n \in DOMAIN one}
      topics == Sorted({t \in Topics(S): Core(S, t) # {} /\ t \notin has})
      each == [n \in DOMAIN topics |-> First(Core(S, topics[n]))]
      left == SetToSortSeq({i \in S: i.kind # Explores} \ {each[n]: n \in DOMAIN each}, Before)
      whole == one \o each \o left
                 \o (IF byTopic = <<>> THEN <<>> ELSE Tail(byTopic)) IN
  {whole[n]: n \in {m \in DOMAIN whole: m <= MaxPaid}}

Plan == /\ intents = <<>>
        /\ intents' = balanced(plan, turn)
        /\ paid' = selectPaid(intents')
        /\ answers' = [n \in DOMAIN intents' |-> Awaited]
        /\ at' = 1 /\ UNCHANGED <<plan, turn, merged, bill>>
-----------------------------------------------------------------------------
(* The sources an intent asks: the paid one only when it may. *)
Permitted(i) == LET s == SelectSeq(Sources[i.kind], LAMBDA x: x # PaidSource \/ i \in paid)
                IN SubSeq(s, 1, IF Len(s) < MaxSources THEN Len(s) ELSE MaxSources)
(* One failing source does not fail the search; all of them, or none, do.  *)
Search(n) ==
  /\ n \in DOMAIN answers /\ answers[n] = Awaited
  /\ LET ask == Permitted(intents[n]) IN
     \E found \in [DOMAIN ask -> Finds]:
       LET ok == {k \in DOMAIN ask: found[k] # Failed}
           kept == FlattenSeq([k \in DOMAIN ask |-> IF k \in ok THEN found[k].items ELSE <<>>]) IN
       /\ answers' = [answers EXCEPT ![n] = IF ok = {} THEN Failed ELSE Found(kept)]
       /\ bill' = bill + Cardinality({k \in ok: ask[k] = PaidSource})
  /\ UNCHANGED <<plan, turn, intents, paid, merged, at>>

(* The answers are read in the order of the plan, once all have come.  An  *)
(* item seen before adds its intent to the one that was kept.              *)
Kept(n) == SelectSeq(answers[n].items, LAMBDA x: ~x.unwanted)
FoundBy(key) == {n \in DOMAIN answers: answers[n] # Failed
                                       /\ \E k \in DOMAIN Kept(n): Kept(n)[k].key = key}
Keyed(m, key) == CHOOSE k \in DOMAIN m: m[k].key = key
Add(m, x, n) ==
  IF \E k \in DOMAIN m: m[k].key = x.key
  THEN [m EXCEPT ![Keyed(m, x.key)].intents = @ \cup {n}]
  ELSE Append(m, [key |-> x.key, source |-> x.source, about |-> x.about,
                  unwanted |-> x.unwanted, intents |-> {n}, with |-> {}])
Merge ==
  /\ at \in DOMAIN answers /\ \A n \in DOMAIN answers: answers[n] # Awaited
  /\ merged' = IF answers[at] = Failed THEN merged
               ELSE FoldLeft(LAMBDA m, x: Add(m, x, at), merged, Kept(at))
  /\ at' = at + 1 /\ UNCHANGED <<plan, turn, intents, paid, answers, bill>>

(* Two items of different sources about the same corroborate each other. *)
Corroborate ==
  /\ intents # <<>> /\ at = Len(intents) + 1
  /\ merged' = [k \in DOMAIN merged |->
       [merged[k] EXCEPT !.with =
          {merged[j].key: j \in {j \in DOMAIN merged:
             merged[j].source # merged[k].source /\ merged[j].about = merged[k].about}}]]
  /\ at' = at + 1 /\ UNCHANGED <<plan, turn, intents, paid, answers, bill>>

Init == /\ plan \in Plans /\ turn \in Rotations /\ intents = <<>> /\ paid = {}
        /\ answers = <<>> /\ merged = <<>> /\ at = 0 /\ bill = 0
Next == Plan \/ (\E n \in DOMAIN answers: Search(n)) \/ Merge \/ Corroborate
-----------------------------------------------------------------------------
Done == intents # <<>> /\ at = Len(intents) + 2
Covered == {intents[n].topic: n \in UNION {merged[k].intents: k \in DOMAIN merged}}

TypeOK == /\ Cardinality(paid) <= MaxPaid /\ at \in 0..(MaxIntents + 2)
          /\ intents # <<>> => Len(intents) \in 1..MaxIntents

(* Nothing unwanted is kept, an item names every intent that found it and  *)
(* no other, corroboration goes both ways between different sources, the   *)
(* paid source is asked once per permitted intent at most, and no topic    *)
(* goes without a search while another has two core ones.                  *)
RetrievalSound ==
  /\ bill <= MaxPaid
  /\ intents # <<>> =>
       \A n, m \in DOMAIN intents:
         n # m /\ intents[n].topic = intents[m].topic
           => Explores \in {intents[n].kind, intents[m].kind}
  /\ Done =>
       /\ \A k \in DOMAIN merged: ~merged[k].unwanted
            /\ merged[k].intents = FoundBy(merged[k].key)
       /\ \A n \in DOMAIN answers: answers[n] # Failed =>
            \A j \in DOMAIN answers[n].items:
              \/ answers[n].items[j].unwanted
              \/ \E k \in DOMAIN merged: merged[k].key = answers[n].items[j].key
       /\ \A k, j \in DOMAIN merged:
            merged[j].key \in merged[k].with =>
              /\ merged[k].key \in merged[j].with /\ merged[j].source # merged[k].source
=============================================================================
