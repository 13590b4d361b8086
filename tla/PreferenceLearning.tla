--------------------------- MODULE PreferenceLearning ---------------------------
(***************************************************************************)
(* What a brand's people teach it: the explicit feedback a request records *)
(* and the preference state it evolves in the same transaction             *)
(* (batch7-closed-loop-store.ts, feedback-preference-state.ts), the second *)
(* projector that replays a stream of events (feedback-learning-v2.ts) and *)
(* what the metrics of a published post say of its opportunity             *)
(* (hunter-outcome-attribution.ts).  A weight is counted in                *)
(* ten-thousandths, rounded down, time in weeks.  Reasons, evidence counts *)
(* and the times of single weights are left out: nothing is decided by     *)
(* them.                                                                   *)
(***************************************************************************)
EXTENDS Integers, Sequences, FiniteSets, FiniteSetsExt, SequencesExt

CONSTANTS Requests,        \* requests that record feedback
          Events,          \* what they may record: [opportunity, account, action, key]
          Pasts,           \* what may have been recorded before, in order
          Facets,          \* of each opportunity: its topic, audience, format, channel
          Signals,         \* what the second projector may be given
          Rows, Baselines, Direct,  \* metric rows of a post, the baselines of its channel
                           \* and format, and whether its opportunity is known
          MaxKept,         \* preferences kept of one kind (50 in the code)
          MaxEvents, MaxWeek, MaxLog   \* bounds

VARIABLES week, events, status, pref, tx, log, rows

Nil == "none"
LearningAssumption ==
  /\ {MaxKept, MaxEvents, MaxLog} \subseteq Nat \ {0} /\ MaxWeek \in Nat
  /\ \A e \in Events \cup UNION {ToSet(past): past \in Pasts}: e.opportunity \in DOMAIN Facets
  /\ Direct \in BOOLEAN /\ IsFiniteSet(Events) /\ IsFiniteSet(Baselines)

-----------------------------------------------------------------------------
(* Lists of preferences, strongest first.                                  *)

Least == 200
Most == 9500

Entry(list, key) == {i \in DOMAIN list: list[i].key = key}
WeightOf(list, key) == MapThenSumSet(LAMBDA i: list[i].weight, Entry(list, key))
Keys(list) == {list[i].key: i \in DOMAIN list}

Ahead(a, b) == a.weight >= b.weight
InOrder(list) ==
  FoldLeft(LAMBDA sorted, x:
             InsertAt(sorted, 1 + Cardinality({i \in DOMAIN sorted: Ahead(sorted[i], x)}), x),
           <<>>, list)

KeptOnly(list) == SelectSeq(list, LAMBDA x: x.weight >= Least)
Cut(list) == SubSeq(list, 1, Min({MaxKept, Len(list)}))

Reinforced(list, key, delta, share) ==
  LET new == [key |-> key,
              weight |-> Min({Most, (WeightOf(list, key) * share) \div 100 + delta})]
      rest == SelectSeq(list, LAMBDA x: x.key # key)
  IN IF key = Nil THEN list ELSE Cut(InOrder(KeptOnly(Append(rest, new))))
Positively(list, key, delta) == Reinforced(list, key, delta, 92)
Negatively(list, key, delta) == Reinforced(list, key, delta, 90)

Softened(list, key, amount) ==
  KeptOnly([i \in DOMAIN list |->
              IF list[i].key = key
              THEN [list[i] EXCEPT !.weight = Max({0, @ - amount})] ELSE list[i]])

Faded(list, percent, weeks) ==
  KeptOnly([i \in DOMAIN list |->
              [list[i] EXCEPT !.weight = (@ * percent ^ weeks) \div 100 ^ weeks]])

-----------------------------------------------------------------------------
(* The state a brand has learned.                                          *)

LongKinds == {"topic", "audience", "format", "channel", "mechanism"}
NegativeKinds == {"topic", "audience", "mechanism", "sourceClass"}

Empty(at) == [long |-> [k \in LongKinds |-> <<>>], active |-> <<>>,
              avoid |-> [k \in NegativeKinds |-> <<>>], budget |-> 1200,
              activeAt |-> at, at |-> at]

Decayed(state, at) ==
  LET weeks == at - state.at
  IN IF weeks <= 0 THEN state
     ELSE [state EXCEPT
             !.long = [k \in LongKinds |-> Faded(@[k], 98, weeks)],
             !.active = Faded(@, 88, weeks),
             !.avoid = [k \in NegativeKinds |-> Faded(@[k], 97, weeks)],
             !.activeAt = at, !.at = at]

Stamped(state, at) == [state EXCEPT !.activeAt = at, !.at = at]

(* What prepareBrandPreferenceState accepts: it throws on anything else.   *)
Lists(state) == {state.long[k]: k \in LongKinds} \cup {state.active}
                \cup {state.avoid[k]: k \in NegativeKinds}
Prepared(state) ==
  /\ state.activeAt <= state.at /\ state.budget \in 0..10000
  /\ \A list \in Lists(state):
       /\ Len(list) <= 200 /\ Cardinality(Keys(list)) = Len(list)
       /\ \A i \in DOMAIN list: list[i].weight \in 0..10000

Praise == [saved |-> 400, developed |-> 800, generated |-> 700,
           approved |-> 1000, published |-> 1200]
Blame == [dismissed |-> 800, not_relevant |-> 1800, seen_before |-> 1600,
          wrong_audience |-> 2200, wrong_brand |-> 2600, wrong_timing |-> 1200,
          not_credible |-> 2500]
Strength(table, action) == IF action \in DOMAIN table THEN table[action] ELSE 0
Passive(action) == Strength(Praise, action) = 0 /\ Strength(Blame, action) = 0

Times(delta, percent) == (delta * percent) \div 100
Burst(delta) == Min({1800, Times(delta, 150)})

(* What praise teaches, in both projectors.                                *)
Praised(state, of, delta) ==
  [state EXCEPT
     !.long["topic"] = Positively(@, of.topic, delta),
     !.long["audience"] = Positively(@, of.audience, Times(delta, 80)),
     !.long["format"] = Positively(@, of.format, Times(delta, 70)),
     !.long["channel"] = Positively(@, of.channel, Times(delta, 70)),
     !.active = Positively(@, of.topic, Burst(delta)),
     !.avoid["topic"] = Softened(@, of.topic, Times(delta, 50))]

Blamed(state, of, action, delta) ==
  [state EXCEPT
     !.avoid["topic"] = Negatively(@, of.topic, delta),
     !.avoid["audience"] =
        IF action = "wrong_audience" THEN Negatively(@, of.audience, delta) ELSE @,
     !.long["topic"] =
        IF action = "wrong_brand" THEN Softened(@, of.topic, Times(delta, 50)) ELSE @]

Evolved(state, of, action, at) ==
  LET base == Decayed(state, at)
      good == Strength(Praise, action)
  IN Stamped(IF good > 0 THEN Praised(base, of, good)
             ELSE Blamed(base, of, action, Strength(Blame, action)), at)

(* What the next hunt is told of a brand: the strongest of each kind.      *)
First(list, least, most) ==
  LET told == SelectSeq(list, LAMBDA x: x.weight >= least)
  IN Keys(SubSeq(told, 1, Min({most, Len(told)})))
PreferredTopics(state) == First(state.long["topic"], 800, 6)
ActiveTopics(state) == First(state.active, 800, 5)
AvoidedTopics(state) == First(state.avoid["topic"], 1200, 6)
Formats(state) == First(state.long["format"], 800, 4)
Channels(state) == First(state.long["channel"], 800, 4)

-----------------------------------------------------------------------------
(* A request records feedback in one transaction: the opportunity's row is *)
(* locked, the event inserted, then the state read for update and saved.   *)
(* pref also keeps, for the properties, which events have shaped it.       *)

NoPref == [state |-> Empty(0), learned |-> {}, blind |-> {}, there |-> FALSE]
NoEvent == [opportunity |-> Nil, account |-> Nil, action |-> Nil, key |-> Nil]
Idle == [pc |-> "idle", event |-> NoEvent, base |-> NoPref, at |-> 0]

PrefAfter(past) ==
  [state |-> FoldLeft(LAMBDA state, e: Evolved(state, Facets[e.opportunity], e.action, 0),
                      Empty(0), past),
   learned |-> ToSet(past), blind |-> {}, there |-> TRUE]

Init == /\ week = 0
        /\ \/ events = {} /\ pref = NoPref
           \/ \E past \in Pasts: events = ToSet(past) /\ pref = PrefAfter(past)
        /\ status = [o \in DOMAIN Facets |-> "new"]
        /\ tx = [r \in Requests |-> Idle]
        /\ log = <<>> /\ rows = {}

kept == <<week, events, status, pref>>
streams == <<log, rows>>

Open(r) == tx[r].pc # "idle"
OpportunityFree(o) == \A r \in Requests: Open(r) => tx[r].event.opportunity # o
(* A row that is not there yet cannot be locked.                           *)
HoldsState(r) == tx[r].pc = "read" /\ tx[r].base.there
StateFree == \A r \in Requests: ~HoldsState(r)

SameRow(e, f) == /\ e.opportunity = f.opportunity /\ e.account = f.account
                 /\ e.action = f.action
SameKey(e, f) == e.account = f.account /\ e.key = f.key /\ e.key # Nil

After(action, current) ==
  CASE action = "saved" -> "saved"
    [] action = "developed" -> "developing"
    [] Strength(Blame, action) > 0 -> "ignored"
    [] OTHER -> current

(* One of a kind: a second time only the opportunity's status follows.     *)
Repeat(e) ==
  /\ OpportunityFree(e.opportunity)
  /\ \E f \in events: SameRow(e, f)
  /\ status' = [status EXCEPT ![e.opportunity] = After(e.action, @)]
  /\ UNCHANGED <<week, events, pref, tx, streams>>

(* An idempotency key used for other feedback is a database error: the     *)
(* request fails and nothing of it stays.                                  *)
Record(r, e) ==
  /\ ~Open(r) /\ OpportunityFree(e.opportunity)
  /\ Cardinality(events \cap Events) + Cardinality({q \in Requests: Open(q)}) < MaxEvents
  /\ ~\E f \in events: SameRow(e, f) \/ SameKey(e, f)
  /\ \A q \in Requests: Open(q) => ~SameKey(e, tx[q].event)
  /\ tx' = [tx EXCEPT ![r] = [@ EXCEPT !.pc = "recorded", !.event = e]]
  /\ UNCHANGED <<kept, streams>>

ReadForUpdate(r) ==
  /\ tx[r].pc = "recorded" /\ StateFree
  /\ tx' = [tx EXCEPT ![r] = [@ EXCEPT !.pc = "read", !.base = pref, !.at = week]]
  /\ UNCHANGED <<kept, streams>>

(* Passive feedback saves what it found, if there was something.           *)
NextState(r) ==
  LET t == tx[r]
  IN IF Passive(t.event.action) THEN t.base.state
     ELSE Evolved(IF t.base.there THEN t.base.state ELSE Empty(t.at),
                  Facets[t.event.opportunity], t.event.action, t.at)

(* The insert overwrites a row that another request put meanwhile.         *)
Save(r) ==
  /\ tx[r].pc = "read" /\ Prepared(NextState(r))
  /\ \A q \in Requests \ {r}: ~HoldsState(q)
  /\ events' = events \cup {tx[r].event}
  /\ status' = [status EXCEPT ![tx[r].event.opportunity] = After(tx[r].event.action, @)]
  /\ pref' =
       IF Passive(tx[r].event.action) /\ ~tx[r].base.there THEN pref
       ELSE [state |-> NextState(r), there |-> TRUE,
             learned |-> tx[r].base.learned
                         \cup {e \in {tx[r].event}: ~Passive(e.action)},
             blind |-> IF tx[r].base.there THEN tx[r].base.blind
                       ELSE pref.blind \cup {tx[r].event}]
  /\ tx' = [tx EXCEPT ![r] = Idle]
  /\ UNCHANGED <<week, streams>>

Fail(r) ==
  /\ Open(r)
  /\ tx' = [tx EXCEPT ![r] = Idle]
  /\ UNCHANGED <<kept, streams>>

Tick == /\ week < MaxWeek /\ week' = week + 1
        /\ UNCHANGED <<events, status, pref, tx, streams>>

-----------------------------------------------------------------------------
(* The second projector: a stream of signals, replayed in the order of     *)
(* their times.  A signal's key counts once.                               *)

TopicBlame == [dismissed |-> 600, not_relevant |-> 1800, seen_before |-> 800,
               wrong_brand |-> 2600, wrong_timing |-> 600]
Ignored == {"impression", "opened", "performance_observed"}

PositivelyEach(list, keys, delta) ==
  FoldLeft(LAMBDA l, key: Positively(l, key, delta), list, keys)
NegativelyEach(list, keys, delta) ==
  FoldLeft(LAMBDA l, key: Negatively(l, key, delta), list, keys)
SoftenedEach(list, keys, amount) ==
  FoldLeft(LAMBDA l, key: Softened(l, key, amount), list, keys)

Budget(signal, state) ==
  LET good == Strength(Praise, signal.action)
      move == CASE signal.bucket # "exploration" -> 0
                [] good > 0 -> Min({200, Times(good, 12)})
                [] signal.action \in {"dismissed", "not_relevant", "wrong_brand"} -> -100
                [] OTHER -> 0
  IN IF move = 0 THEN state.budget ELSE Max({800, Min({2000, state.budget + move})})

PraisedBy(signal, state) ==
  LET delta == Strength(Praise, signal.action)
  IN IF delta = 0 THEN state
     ELSE [Praised(state, signal, delta) EXCEPT
             !.long["mechanism"] = PositivelyEach(@, signal.mechanisms, Times(delta, 75))]

BlamedBy(signal, state) ==
  LET topic == Strength(TopicBlame, signal.action)
      Said(action) == signal.action = action
  IN [state EXCEPT
        !.avoid["topic"] = IF topic > 0 THEN Negatively(@, signal.topic, topic) ELSE @,
        !.avoid["audience"] =
           IF Said("wrong_audience") THEN Negatively(@, signal.audience, 2200) ELSE @,
        !.avoid["sourceClass"] =
           IF Said("not_credible") THEN NegativelyEach(@, signal.sources, 2500) ELSE @,
        !.avoid["mechanism"] =
           IF Said("heavily_edited") THEN NegativelyEach(@, signal.mechanisms, 1400) ELSE @,
        !.long["mechanism"] =
           IF Said("heavily_edited") THEN SoftenedEach(@, signal.mechanisms, 700) ELSE @,
        !.long["topic"] =
           IF Said("wrong_brand") THEN Softened(@, signal.topic, 1300) ELSE @,
        !.active = IF Said("wrong_timing") THEN Softened(@, signal.topic, 1200) ELSE @]

Applied(state, signal) ==
  LET base == Decayed(state, signal.at)
      taught == BlamedBy(signal, PraisedBy(signal, base))
  IN Stamped([taught EXCEPT !.budget = Budget(signal, base)], signal.at)

Earlier(a, b) == \/ a.at < b.at
                 \/ a.at = b.at /\ a.id < b.id
InTime(signals) ==
  FoldLeft(LAMBDA sorted, x:
             InsertAt(sorted, 1 + Cardinality({i \in DOMAIN sorted: ~Earlier(x, sorted[i])}), x),
           <<>>, signals)

Projected(current, signals) ==
  FoldLeft(LAMBDA done, signal:
             IF signal.key \in done.keys THEN done
             ELSE IF signal.action \in Ignored
                  THEN [done EXCEPT !.keys = @ \cup {signal.key}]
             ELSE [keys |-> done.keys \cup {signal.key}, there |-> TRUE,
                   state |-> Applied(IF done.there THEN done.state
                                     ELSE Empty(signal.at), signal)],
           [keys |-> {}, there |-> current.there, state |-> current.state],
           InTime(signals))

(* The stream delivers a signal, perhaps again, perhaps late.              *)
Deliver(signal) == /\ Len(log) < MaxLog
                   /\ log' = Append(log, signal)
                   /\ UNCHANGED <<kept, tx, rows>>

-----------------------------------------------------------------------------
(* What the metrics of one post say: each against the closest baseline, in *)
(* thousandths.  A row is [name, at, value, stated], stated if available.  *)

MetricWeight == [impressions |-> 4, reach |-> 8, reactions |-> 5, likes |-> 5,
                 comments |-> 14, shares |-> 24, saves |-> 28, clicks |-> 12,
                 videoViews |-> 5]
AllMetrics == DOMAIN MetricWeight
Total == MapThenSumSet(LAMBDA m: MetricWeight[m], AllMetrics)

Collect(row) == /\ Cardinality(rows) < MaxLog
                /\ \A r \in rows: r.name = row.name => r.at # row.at
                /\ rows' = rows \cup {row}
                /\ UNCHANGED <<kept, tx, log>>

Latest(seen, m) ==
  {r \in seen: r.name = m /\ \A s \in seen: s.name = m => s.at <= r.at}

Priority(scope) == CASE scope = "brand-format" -> 0
                     [] scope = "brand-channel" -> 1
                     [] OTHER -> 2
Nearer(a, b) ==
  \/ Priority(a.scope) < Priority(b.scope)
  \/ Priority(a.scope) = Priority(b.scope) /\ a.samples >= b.samples
For(m) == {b \in Baselines: b.name = m /\ \A c \in Baselines: c.name = m => Nearer(b, c)}

Compared(seen) == {m \in AllMetrics: /\ \E r \in Latest(seen, m): r.stated
                                     /\ For(m) # {}}
Value(seen, m) == (CHOOSE r \in Latest(seen, m): TRUE).value
Base(m) == CHOOSE b \in For(m): TRUE

(* The relative lift x as x / (1 + |x|), of a value c to a baseline b.     *)
Lift(c, b) == CASE b = 0 -> IF c = 0 THEN 0 ELSE 500
                [] c >= b /\ b > 0 -> (1000 * (c - b)) \div c
                [] OTHER -> -((1000 * (b - c)) \div (2 * b - c))

WeightSum(ms) == MapThenSumSet(LAMBDA m: MetricWeight[m], ms)
BrandLift(seen) ==
  LET ms == Compared(seen)
  IN IF ms = {} THEN 0
     ELSE MapThenSumSet(LAMBDA m: Lift(Value(seen, m), Base(m).value) * MetricWeight[m], ms)
          \div WeightSum(ms)

Mean(F(_), ms) == MapThenSumSet(F, ms) \div Cardinality(ms)
(* log2(samples + 1) / 5, for the sample counts 1, 3, 7, 15 and 31.        *)
SampleScore(b) ==
  200 * (CHOOSE n \in 0..5: 2 ^ n <= b.samples + 1 /\ (n = 5 \/ b.samples + 1 < 2 ^ (n + 1)))
(* Three days of age halve the freshness: here the unit of age.            *)
Freshness(seen, m) == 1000 \div (1 + (MaxWeek - (CHOOSE r \in Latest(seen, m): TRUE).at))

Confidence(seen) ==
  LET ms == Compared(seen)
      Sample(m) == SampleScore(Base(m))
      Fresh(m) == Freshness(seen, m)
  IN IF ms = {} THEN 0
     ELSE ((IF Direct THEN 1000 ELSE 350) * 35 + Mean(Sample, ms) * 25
           + Mean(Fresh, ms) * 20 + ((1000 * WeightSum(ms)) \div Total) * 20) \div 100

(* What is proposed to remember: the post's topic, audience and mechanisms.*)
Remembered(seen) ==
  IF BrandLift(seen) >= 150 /\ Confidence(seen) >= 550
  THEN LET weight == 500 + Min({450, (BrandLift(seen) * 35) \div 100})
       IN {<<"topic", weight>>, <<"audience", (weight * 90) \div 100>>,
           <<"mechanism", (weight * 85) \div 100>>}
  ELSE {}

-----------------------------------------------------------------------------
Next == \/ \E e \in Events: Repeat(e)
        \/ \E r \in Requests, e \in Events: Record(r, e)
        \/ \E r \in Requests: ReadForUpdate(r) \/ Save(r) \/ Fail(r)
        \/ Tick
        \/ \E s \in Signals: Deliver(s)
        \/ \E row \in Rows: Collect(row)

LearningSpec == Init /\ [][Next]_<<kept, tx, streams>>

-----------------------------------------------------------------------------
TypeOK ==
  /\ week \in 0..MaxWeek /\ Cardinality(events \cap Events) <= MaxEvents
  /\ status \in [DOMAIN Facets -> {"new", "saved", "ignored", "developing"}]
  /\ \A r \in Requests: /\ tx[r].pc \in {"idle", "recorded", "read"}
                        /\ Open(r) <=> tx[r].event \in Events
  /\ log \in BoundedSeq(Signals, MaxLog) /\ rows \subseteq Rows

(* Whatever feedback came in whatever order, the state the next request    *)
(* would save is one the store accepts: no feedback is refused for good by *)
(* what a brand has learned before, and every weight is between the two    *)
(* bounds of the decay and the reinforcement.                              *)
NeverStuck ==
  \A r \in Requests:
    tx[r].pc = "read" =>
      /\ Prepared(NextState(r))
      /\ \A list \in Lists(NextState(r)):
           Len(list) <= MaxKept /\ \A i \in DOMAIN list: list[i].weight \in Least..Most

(* Nothing shapes the state but recorded feedback, all of it unless two    *)
(* requests of a brand without a state read that there was none: the lock  *)
(* of the state's row holds for every later one.                           *)
NothingForgotten ==
  /\ pref.learned \subseteq events
  /\ \/ {e \in events: ~Passive(e.action)} \subseteq pref.learned
     \/ Cardinality(pref.blind) >= 2

(* What a hunt is told the brand prefers was praised, what it is told to   *)
(* avoid was blamed, by feedback that was recorded.                        *)
TopicsOf(table) ==
  {Facets[e.opportunity].topic: e \in {f \in events: Strength(table, f.action) > 0}}
HeardRightly ==
  pref.there => /\ PreferredTopics(pref.state) \cup ActiveTopics(pref.state) \subseteq TopicsOf(Praise)
                /\ AvoidedTopics(pref.state) \subseteq TopicsOf(Blame)

(* The second projector: the order of delivery and a second delivery make  *)
(* no difference, a replay in two batches comes to the same if the second  *)
(* is later and new, and exploration stays between its two bounds.         *)
Came(signals) == {signals[i].key: i \in DOMAIN signals}
Later(batch, rest) ==
  \A i \in DOMAIN batch, j \in DOMAIN rest: Earlier(batch[i], rest[j])
ReplayedAlike ==
  LET all == Projected(NoPref, log)
  IN /\ Projected(NoPref, Reverse(log)) = all
     /\ Projected(NoPref, log \o log) = all
     /\ all.there => Prepared(all.state)
     /\ \A budget \in {800, 2000}:
          Projected([NoPref EXCEPT !.there = TRUE, !.state.budget = budget], log).state.budget
            \in 800..2000
     /\ \A n \in 1..Len(log) - 1:
          LET first == SubSeq(log, 1, n)
              rest == SubSeq(log, n + 1, Len(log))
          IN Later(first, rest) /\ Came(first) \cap Came(rest) = {} =>
               Projected(Projected(NoPref, first), rest).state = all.state

(* More of a metric never speaks less for the opportunity, a row that a    *)
(* newer one replaced says nothing, and what is remembered of it is above  *)
(* what the brand has seen.                                                *)
More(r) == [r EXCEPT !.value = @ + 1]
MoreSpeaksFor ==
  /\ \A r \in rows: BrandLift(rows) <= BrandLift((rows \ {r}) \cup {More(r)})
  /\ \A r, s \in rows:
       r.name = s.name /\ r.at < s.at => BrandLift(rows \ {r}) = BrandLift(rows)
  /\ Remembered(rows) # {} =>
       \E m \in Compared(rows): Value(rows, m) > Base(m).value
=============================================================================
