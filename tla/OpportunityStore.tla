---------------------------- MODULE OpportunityStore ----------------------------
(***************************************************************************)
(* What the Hunter records for one brand and what people do with it.       *)
(* Requests for recommendations join the run their server has in flight or *)
(* start one; a run writes public signals under advisory locks, compares   *)
(* each candidate with the opportunities it lists, creates an opportunity  *)
(* and attaches its intelligence.  Meanwhile people act on opportunities,  *)
(* develop them into ideas and give feedback that a preference state       *)
(* learns from.  A candidate is a record [key, hash, topic, direction,     *)
(* angle, long, scores]; topics and directions are classes of similar      *)
(* wording, a hash of "none" is a source that gave no content hash.        *)
(***************************************************************************)
EXTENDS Naturals, Sequences, FiniteSets

CONSTANTS Servers,        \* a process and the account that asks: inFlight is keyed by it
          Requests,
          Users,          \* accounts with access to the brand
          Lists,          \* what a run's selection may offer, before titles
          Actions,        \* what users do
          MaxRuns, MaxCrashes, MayFail

VARIABLES signals, holder, rows, ideas, events, preference, records, runs,
          requests, users, crashes

vars == <<signals, holder, rows, ideas, events, preference, records, runs,
          requests, users, crashes>>

Nothing == "none"
Feedbacks == {"opened", "saved", "developed", "dismissed"}
Candidates == UNION {{l[i]: i \in DOMAIN l}: l \in Lists}
ASSUME StoreAssumption ==
  /\ Lists \subseteq Seq(Candidates)
  /\ MaxRuns \in Nat \ {0} /\ MaxCrashes \in Nat
  /\ Actions \subseteq Feedbacks \cup {"save", "ignore", "develop", "development"}

Asking == [at |-> "idle", server |-> Nothing, titles |-> {}, run |-> 0]
Doing(at, action, i) == [at |-> at, action |-> action, of |-> i, had |-> FALSE, seen |-> {}]
Resting == Doing("idle", Nothing, 0)
Keys == {"key"} \X {c.key: c \in Candidates} \cup {"hash"} \X {c.hash: c \in Candidates}

Init == /\ signals = {} /\ holder = [k \in Keys |-> 0]
        /\ rows = <<>> /\ ideas = <<>> /\ events = {}
        /\ preference = [there |-> FALSE, of |-> {}]
        /\ records = <<>> /\ runs = <<>>
        /\ requests = [q \in Requests |-> Asking]
        /\ users = [u \in Users |-> Resting] /\ crashes = 0

Stored == <<signals, rows, ideas, events, preference, records>>
-----------------------------------------------------------------------------
(* An opportunity is shown with its intelligence in front: the proposed    *)
(* angle stands where the direction was.                                   *)
projectOpportunityFromIntelligence(row) == IF row.angle = Nothing THEN row.direction ELSE row.angle

overall(s) == 30 * s.relevance + 20 * s.audienceFit + 15 * s.novelty
                + 15 * s.evidence + 10 * s.timeliness + 10 * s.brandAuthority
evaluateOpportunity(s) ==
  /\ overall(s) >= 6500 /\ s.relevance >= 50 /\ s.evidence >= 40 /\ s.audienceFit >= 50

materiallySimilarOpportunity(c, row) ==
  c.topic = row.topic /\ c.direction = projectOpportunityFromIntelligence(row)
-----------------------------------------------------------------------------
(* The request reads what the brand has before it looks for a run to join. *)
Recommend(q, s) ==
  /\ requests[q].at = "idle"
  /\ requests' = [requests EXCEPT ![q] = [at |-> "ready", server |-> s, run |-> 0,
                    titles |-> {rows[i].topic: i \in DOMAIN rows}]]
  /\ UNCHANGED <<signals, holder, rows, ideas, events, preference, records, runs, users, crashes>>

Live(r) == runs[r].at # "ended"
InFlight(s) == {r \in DOMAIN runs: runs[r].server = s /\ Live(r)}

Join(q) ==
  /\ requests[q].at = "ready"
  /\ \E r \in InFlight(requests[q].server):
       requests' = [requests EXCEPT ![q].at = "waiting", ![q].run = r]
  /\ UNCHANGED <<Stored, holder, runs, users, crashes>>

(* Of the list a run was given, the candidates it is still to record. *)
WithoutTitles(l, titles) == {i \in DOMAIN l: l[i].topic \notin titles}
StartRun(q, l) ==
  LET s == requests[q].server IN
  /\ requests[q].at = "ready" /\ InFlight(s) = {} /\ Len(runs) < MaxRuns
  /\ requests' = [requests EXCEPT ![q].at = "waiting", ![q].run = Len(runs) + 1]
  /\ records' = Append(records, [status |-> "running", count |-> 0])
  /\ runs' = Append(runs, [server |-> s, at |-> "first", count |-> 0, seen |-> 0,
                           list |-> l, left |-> WithoutTitles(l, requests[q].titles),
                           titles |-> requests[q].titles])
  /\ UNCHANGED <<signals, holder, rows, ideas, events, preference, users, crashes>>

Least(S) == CHOOSE i \in S: \A j \in S: i <= j
Now(r) == runs[r].list[Least(runs[r].left)]
At(r, at) == r \in DOMAIN runs /\ runs[r].at = at
Goto(r, at) == runs' = [runs EXCEPT ![r].at = at]
NextCandidate(r) == [runs[r] EXCEPT !.at = "first", !.left = @ \ {Least(@)}]

\* (mutant) Only the first of the two keys of a signal is locked.
OnlyTheKey(c, n) == IF n = 1 THEN <<"key", c.key>> ELSE <<"hash", Nothing>>
LockKey(c, n) == IF n = 1 THEN <<"key", c.key>> ELSE <<"hash", c.hash>>

(* The keys are locked in sorted order, "duplicate:" before "hash:". *)
Lock(r, n) ==
  /\ At(r, IF n = 1 THEN "first" ELSE "second") /\ runs[r].left # {}
  /\ LET k == LockKey(Now(r), n) IN
     IF k = <<"hash", Nothing>> THEN UNCHANGED holder
     ELSE holder[k] = 0 /\ holder' = [holder EXCEPT ![k] = r]
  /\ Goto(r, IF n = 1 THEN "second" ELSE "look")
  /\ UNCHANGED <<Stored, requests, users, crashes>>

Same(c, s) == s.key = c.key \/ (c.hash # Nothing /\ s.hash = c.hash)
Freed(r) == [k \in Keys |-> IF holder[k] = r THEN 0 ELSE holder[k]]

LookForSignal(r) ==
  /\ At(r, "look")
  /\ IF \E s \in signals: Same(Now(r), s)
     THEN Goto(r, "list") /\ holder' = Freed(r)
     ELSE Goto(r, "insert") /\ UNCHANGED holder
  /\ UNCHANGED <<Stored, requests, users, crashes>>

InsertSignal(r) ==
  /\ At(r, "insert") /\ ~\E s \in signals: Same(Now(r), s)
  /\ signals' = signals \cup {[key |-> Now(r).key, hash |-> Now(r).hash]}
  /\ holder' = Freed(r) /\ Goto(r, "list")
  /\ UNCHANGED <<rows, ideas, events, preference, records, requests, users, crashes>>

ListAndCompare(r) ==
  /\ At(r, "list")
  /\ runs' = [runs EXCEPT ![r] =
       IF ~evaluateOpportunity(Now(r).scores)
            \/ \E i \in DOMAIN rows: materiallySimilarOpportunity(Now(r), rows[i])
       THEN NextCandidate(r) ELSE [@ EXCEPT !.at = "create", !.seen = Len(rows)]]
  /\ UNCHANGED <<Stored, holder, requests, users, crashes>>

CreateBrandOpportunity(r) ==
  /\ At(r, "create")
  /\ rows' = Append(rows, [topic |-> Now(r).topic, direction |-> Now(r).direction,
                           angle |-> Nothing, status |-> "new", run |-> r,
                           seen |-> runs[r].seen, scores |-> Now(r).scores])
  /\ runs' = [runs EXCEPT ![r].at = "intelligence", ![r].count = @ + 1]
  /\ UNCHANGED <<signals, holder, ideas, events, preference, records, requests, users, crashes>>

Mine(r) == CHOOSE i \in DOMAIN rows: rows[i].run = r /\ \A j \in DOMAIN rows: rows[j].run = r => j <= i
(* Texts that are too long are refused when the intelligence is prepared,  *)
(* and that is not caught; a write that fails is.                          *)
WriteIntelligence(r, saved) ==
  /\ At(r, "intelligence")
  /\ IF Now(r).long
     THEN Goto(r, "failing") /\ UNCHANGED rows
     ELSE /\ runs' = [runs EXCEPT ![r] = NextCandidate(r)]
          /\ rows' = IF saved THEN [rows EXCEPT ![Mine(r)].angle = Now(r).angle] ELSE rows
  /\ UNCHANGED <<signals, holder, ideas, events, preference, records, requests, users, crashes>>

(* A statement may fail or the context may not fit: the transaction is     *)
(* rolled back and the run ends with an error.                             *)
RunRaises(r) ==
  /\ MayFail /\ r \in DOMAIN runs
  /\ runs[r].at \in {"first", "second", "look", "insert", "list", "create"}
  /\ holder' = Freed(r) /\ Goto(r, "failing")
  /\ UNCHANGED <<Stored, requests, users, crashes>>

Finished(r, status, count) ==
  IF records[r].status = "running"
  THEN records' = [records EXCEPT ![r] = [status |-> status, count |-> count]]
  ELSE UNCHANGED records
\* (mutant) Who waits for a run is not told how it ended.
AnswerNobody(r) == requests
Answer(r) == [q \in Requests |-> IF requests[q].run = r /\ requests[q].at = "waiting"
                                 THEN [requests[q] EXCEPT !.at = "answered"] ELSE requests[q]]

(* The record may be completed and its answer lost: the run then fails     *)
(* over a record that is already terminal.                                 *)
Complete(r, heard) ==
  /\ At(r, "first") /\ runs[r].left = {}
  /\ Finished(r, "succeeded", runs[r].count)
  /\ IF heard THEN Goto(r, "ended") /\ requests' = Answer(r)
     ELSE MayFail /\ Goto(r, "failing") /\ UNCHANGED requests
  /\ UNCHANGED <<signals, holder, rows, ideas, events, preference, users, crashes>>

Fail(r, stored) ==
  /\ At(r, "failing")
  /\ IF stored THEN Finished(r, "failed", 0) ELSE MayFail /\ UNCHANGED records
  /\ Goto(r, "ended") /\ requests' = Answer(r)
  /\ UNCHANGED <<signals, holder, rows, ideas, events, preference, users, crashes>>

(* A process that dies ends every run of its accounts: a crash of each.    *)
Crash(s) ==
  /\ crashes < MaxCrashes /\ crashes' = crashes + 1
  /\ runs' = [r \in DOMAIN runs |-> IF runs[r].server = s THEN [runs[r] EXCEPT !.at = "ended"]
                                    ELSE runs[r]]
  /\ holder' = [k \in Keys |-> IF holder[k] # 0 /\ runs[holder[k]].server = s
                               THEN 0 ELSE holder[k]]
  /\ requests' = [q \in Requests |-> IF requests[q].server = s /\ requests[q].at # "answered"
                                     THEN [requests[q] EXCEPT !.at = "lost"] ELSE requests[q]]
  /\ UNCHANGED <<Stored, users>>
-----------------------------------------------------------------------------
(* People.  Acting reads the status and writes the next one later. *)
transitionOpportunityStatus(action) ==
  IF action = "save" THEN "saved" ELSE IF action = "ignore" THEN "ignored" ELSE "developing"
feedbackStatus(action, status) ==
  IF action = "saved" THEN "saved" ELSE IF action = "developed" THEN "developing"
  ELSE IF action = "dismissed" THEN "ignored" ELSE status

Locked(i) == \E u \in Users: users[u].of = i /\ users[u].at = "learn"

Act(u, i, action) ==
  /\ users[u].at = "idle" /\ action \in {"save", "ignore", "develop"}
  /\ rows[i].status \notin {"ignored", "developing"}
  /\ users' = [users EXCEPT ![u] = Doing("set", action, i)]
  /\ UNCHANGED <<Stored, holder, runs, requests, crashes>>

setBrandOpportunityStatus(u) ==
  /\ users[u].at = "set" /\ ~Locked(users[u].of)
  /\ rows' = [rows EXCEPT ![users[u].of].status = transitionOpportunityStatus(users[u].action)]
  /\ users' = [users EXCEPT ![u] = Resting]
  /\ UNCHANGED <<signals, holder, ideas, events, preference, records, runs, requests, crashes>>

Existing(i) == \E j \in DOMAIN ideas: ideas[j] = i

developOpportunity(u, i) ==
  /\ users[u].at = "idle" /\ ~Locked(i)
  /\ ideas' = IF Existing(i) THEN ideas ELSE Append(ideas, i)
  /\ rows' = [rows EXCEPT ![i].status = "developing"]
  /\ users' = [users EXCEPT ![u] = Doing("feedback", "developed", i)]
  /\ UNCHANGED <<signals, holder, events, preference, records, runs, requests, crashes>>

HoldsState(u) == users[u].at = "learn" /\ users[u].had

(* One transaction that holds the opportunity: the event, one for each     *)
(* account and action, the status, and what the preference state holds so  *)
(* far, locked when there is one.                                          *)
recordFeedback(u, i, action) ==
  /\ \/ users[u].at = "idle"
     \/ users[u].at = "feedback" /\ users[u].of = i /\ users[u].action = action
  /\ ~Locked(i) /\ action \in Feedbacks
  /\ rows' = [rows EXCEPT ![i].status = feedbackStatus(action, @)]
  /\ IF <<i, action, u>> \in events
     THEN UNCHANGED events /\ users' = [users EXCEPT ![u] = Resting]
     ELSE /\ ~\E v \in Users: HoldsState(v)
          /\ events' = events \cup {<<i, action, u>>}
          /\ users' = [users EXCEPT ![u] = [at |-> "learn", action |-> action, of |-> i,
                         had |-> preference.there, seen |-> preference.of]]
  /\ UNCHANGED <<signals, holder, ideas, preference, records, runs, requests, crashes>>

evolveBrandPreferenceState(u) ==
  /\ users[u].at = "learn" /\ ~\E v \in Users \ {u}: HoldsState(v)
  /\ preference' = IF users[u].action = "opened" THEN preference
                   ELSE [there |-> TRUE, of |-> users[u].seen \cup {<<users[u].of, users[u].action, u>>}]
  /\ users' = [users EXCEPT ![u] = Resting]
  /\ UNCHANGED <<signals, holder, rows, ideas, events, records, runs, requests, crashes>>

UserDoes(u, i, a) ==
  /\ a \in Actions
  /\ \/ Act(u, i, a)
     \/ a = "development" /\ developOpportunity(u, i)
     \/ recordFeedback(u, i, a)
UserEnds(u) ==
  \/ setBrandOpportunityStatus(u)
  \/ users[u].at = "feedback" /\ recordFeedback(u, users[u].of, "developed")
  \/ evolveBrandPreferenceState(u)

Step(r) == \/ Lock(r, 1) \/ Lock(r, 2) \/ LookForSignal(r) \/ InsertSignal(r)
           \/ ListAndCompare(r) \/ CreateBrandOpportunity(r)
           \/ WriteIntelligence(r, TRUE) \/ Complete(r, TRUE) \/ Fail(r, TRUE)
Faults(r) == \/ RunRaises(r) \/ Complete(r, FALSE) \/ Fail(r, FALSE)
             \/ MayFail /\ WriteIntelligence(r, FALSE)
Request(q) == Join(q) \/ \E l \in Lists: StartRun(q, l)

Next == \/ \E q \in Requests: Request(q) \/ \E s \in Servers: Recommend(q, s)
        \/ \E r \in DOMAIN runs: Step(r) \/ Faults(r)
        \/ \E s \in Servers: Crash(s)
        \/ \E u \in Users: UserEnds(u) \/ \E i \in DOMAIN rows, a \in Actions: UserDoes(u, i, a)

Spec == Init /\ [][Next]_vars
-----------------------------------------------------------------------------
(* The state is well formed: an idea, an event and a preference are of an  *)
(* opportunity there is, and only a run that is writing holds a key.       *)
TypeOK ==
  /\ holder \in [Keys -> 0..MaxRuns] /\ Len(records) = Len(runs) /\ Len(runs) <= MaxRuns
  /\ \A i \in DOMAIN rows: rows[i].status \in {"new", "saved", "ignored", "developing"}
  /\ \A i \in DOMAIN ideas: ideas[i] \in DOMAIN rows
  /\ preference.of \subseteq events /\ events \subseteq ((DOMAIN rows) \X Feedbacks \X Users)
  /\ \A k \in Keys: holder[k] # 0 => runs[holder[k]].at \in {"second", "look", "insert"}

(* A run that is about to insert a signal finds no row that its unique     *)
(* keys would clash with, whatever other runs insert since it looked.      *)
InsertsDoNotClash ==
  \A r \in DOMAIN runs: At(r, "insert") => ~\E s \in signals: Same(Now(r), s)

(* The same opportunity is recorded again only by a run that had listed    *)
(* before it was there, or when its proposed angle replaced the direction  *)
(* candidates are compared with.  A topic the request read is never        *)
(* recorded again by its run.                                              *)
RecordedOnce ==
  /\ \A i, j \in DOMAIN rows:
       i < j /\ rows[i].topic = rows[j].topic /\ rows[i].direction = rows[j].direction
         => i > rows[j].seen \/ rows[i].angle \notin {Nothing, rows[i].direction}
  /\ \A i \in DOMAIN rows: rows[i].topic \notin runs[rows[i].run].titles

(* At most one run of a brand and an account is live in a process, and a   *)
(* record that succeeded counts exactly the opportunities of its run.      *)
RunsAccounted ==
  /\ \A r, n \in DOMAIN runs: runs[r].server = runs[n].server /\ Live(r) /\ Live(n) => r = n
  /\ \A r \in DOMAIN records: records[r].status = "succeeded" =>
       records[r].count = Cardinality({i \in DOMAIN rows: rows[i].run = r})

(* An opportunity becomes one idea at most, however often and by however   *)
(* many people it is developed.                                            *)
OneIdea == \A i, j \in DOMAIN ideas: ideas[i] = ideas[j] => i = j

(* Whoever found a preference state writes over just what it read: only    *)
(* feedbacks that found none can lose another.                             *)
LearningKept ==
  \A u \in Users: users[u].at = "learn" /\ users[u].had => users[u].seen = preference.of

StoreSound == /\ TypeOK /\ InsertsDoNotClash /\ RecordedOnce /\ RunsAccounted
              /\ OneIdea /\ LearningKept
=============================================================================
