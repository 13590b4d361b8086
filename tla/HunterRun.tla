-------------------------------- MODULE HunterRun --------------------------------
(***************************************************************************)
(* One run of the Hunter: it asks the planned sources, drops what it found *)
(* twice, shortlists evidence across platforms, fetches what it can, lets  *)
(* a model propose candidates (once more when there are none), filters     *)
(* them by evidence, fit and diversity, reorders them, and has them        *)
(* recorded one by one.  Sources, fetches, the model and the records fail. *)
(* What was found and what was proposed keep their place, and the later    *)
(* stages are sets of places.  Scores are percentages; adjusted scores are *)
(* in hundredths of a percent.                                             *)
(***************************************************************************)
EXTENDS Naturals, Sequences, FiniteSets

CONSTANTS Plans,        \* source lists that the query planning may return
          Answers,      \* what a source may answer: sequences of items
          Proposals,    \* what the model may propose: sequences of candidates
          Similar,      \* pairs of titles that are the same opportunity
          Near,         \* pairs of titles that are much the same
          MaxEvidence, MaxCandidates, PerSource, PerTopic, EEITopics

VARIABLES given, phase, asked, found, kept, evidence, docs, offers, left,
          accepted, chosen, saved

hunterVars == <<given, phase, asked, found, kept, evidence, docs, offers, left,
                accepted, chosen, saved>>

Sources == DOMAIN Answers
Items == UNION {{a[i]: i \in DOMAIN a}: a \in UNION {Answers[s]: s \in Sources}}
Candidate == UNION {{o[i]: i \in DOMAIN o}: o \in Proposals}

ASSUME HunterAssumption ==
  /\ Plans \subseteq Seq(Sources) /\ Proposals \subseteq Seq(Candidate)
  /\ \A s \in Sources: Answers[s] \subseteq Seq({i \in Items: i.source = s})
  /\ \A i, j \in Items: i.url = j.url => i.key = j.key
  /\ \A p \in Similar: <<p[2], p[1]>> \in Similar
  /\ \A p \in Near: <<p[2], p[1]>> \in Near
  /\ {MaxEvidence, MaxCandidates, PerSource, PerTopic, EEITopics} \subseteq Nat \ {0}

HunterInit ==
  /\ given \in [plans: Plans, query: BOOLEAN, profile: BOOLEAN, fits: BOOLEAN]
  /\ phase = "search" /\ asked = <<>> /\ found = <<>>
  /\ kept = {} /\ evidence = {} /\ docs = {} /\ offers = <<>>
  /\ left = {} /\ accepted = {} /\ chosen = {} /\ saved = {}
-----------------------------------------------------------------------------
(* A source that failed is not asked again in this run.                    *)
Degraded == {asked[i].source: i \in {j \in DOMAIN asked: asked[j].answer = "failed"}}
Planned1 == Len(asked) < Len(given.plans)
Source1 == given.plans[Len(asked) + 1]
Ask(answer) == asked' = Append(asked, [source |-> Source1, answer |-> answer])

SkipDegraded ==
  /\ phase = "search" /\ Planned1 /\ Source1 \in Degraded
  /\ Ask("skipped")
  /\ UNCHANGED <<given, phase, found, kept, evidence, docs, offers, left, accepted, chosen, saved>>

SearchFound ==
  /\ phase = "search" /\ Planned1 /\ Source1 \notin Degraded
  /\ Ask("found") /\ \E a \in Answers[Source1]: found' = found \o a
  /\ UNCHANGED <<given, phase, kept, evidence, docs, offers, left, accepted, chosen, saved>>

SearchFailed ==
  /\ phase = "search" /\ Planned1 /\ Source1 \notin Degraded
  /\ Ask("failed")
  /\ UNCHANGED <<given, phase, found, kept, evidence, docs, offers, left, accepted, chosen, saved>>

Searched ==
  /\ phase = "search" /\ ~Planned1
  /\ phase' = (IF given.plans = <<>> THEN "done" ELSE "unique") /\ left' = DOMAIN found
  /\ UNCHANGED <<given, asked, found, kept, evidence, docs, offers, accepted, chosen, saved>>

(* The first of a page, and of a story, is kept; story 0 is no story.      *)
Repeats(i, k) == \/ found[i].key = found[k].key
                 \/ found[i].story # 0 /\ found[i].story = found[k].story
UniqueEvidence ==
  /\ phase = "unique"
  /\ \E i \in left:
       /\ \A k \in left: i <= k
       /\ left' = left \ {i}
       /\ kept' = IF \E k \in kept: Repeats(i, k) THEN kept ELSE kept \cup {i}
  /\ UNCHANGED <<given, phase, asked, found, evidence, docs, offers, accepted, chosen, saved>>

(* Platforms take turns, each with its best evidence first. *)
Outscores(i, k) == \/ found[i].score > found[k].score
                   \/ found[i].score = found[k].score /\ found[i].url < found[k].url
Turn(i) == Cardinality({k \in kept: found[k].platform = found[i].platform /\ Outscores(k, i)})
Leads(p, q) == \E i \in kept: /\ found[i].platform = p
                              /\ \A k \in kept: found[k].platform = q => Outscores(i, k)
Precedes(i, k) == \/ Turn(i) < Turn(k)
                  \/ Turn(i) = Turn(k) /\ Leads(found[i].platform, found[k].platform)
Shortlist == {i \in kept: Cardinality({k \in kept: Precedes(k, i)}) < MaxEvidence}

(* A page that cannot be fetched stays evidence, by its summary. *)
Enrich(fetched) ==
  /\ phase = "unique" /\ left = {}
  /\ evidence' = Shortlist /\ docs' = fetched \cap Shortlist
  /\ phase' = IF Shortlist = {} THEN "done" ELSE "judge"
  /\ UNCHANGED <<given, asked, found, kept, offers, left, accepted, chosen, saved>>
-----------------------------------------------------------------------------
(* The deterministic scores of a candidate and the page it cites.          *)
Cited(o) == {i \in evidence: found[i].url = o.url}
CitedBy(o) == CHOOSE i \in evidence: found[i].url = o.url
Quality(i) == IF i \in docs THEN found[i].read ELSE found[i].plain
AtMost(a, b) == IF a < b THEN a ELSE b
Unlike(known) == 10000 - (IF known <= 35 THEN 0 ELSE AtMost(3000, 55 * (known - 35)))

Adjusted(o) ==
  LET i == CitedBy(o) IN
  [relevance |-> IF given.profile
                 THEN 62 * o.says.relevance + 23 * o.fit.brand + 15 * o.fit.graph
                 ELSE 100 * o.says.relevance,
   evidence |-> 65 * o.says.evidence + 20 * Quality(i) + 15 * found[i].authority,
   audience |-> IF given.profile THEN 78 * o.says.audience + 22 * o.fit.audience
                ELSE 100 * o.says.audience,
   novelty |-> (o.says.novelty * Unlike(o.known)) \div 100,
   timeliness |-> IF found[i].dated THEN 65 * o.says.timeliness + 35 * found[i].fresh
                  ELSE 100 * AtMost(o.says.timeliness, 75),
   authority |-> 70 * o.says.authority + 20 * found[i].authority + 10 * o.fit.graph]

OverallOf(s) == (30 * s.relevance + 20 * s.audience + 15 * s.novelty + 15 * s.evidence
                   + 10 * s.timeliness + 10 * s.authority + 50) \div 100

(* The floor includes the domain's own: 65, 50, 40 and 50 percent. *)
PassesFloor(o) ==
  LET s == Adjusted(o) IN
  /\ OverallOf(s) >= 7000 /\ s.relevance >= 6200 /\ s.evidence >= 5200
  /\ s.audience >= 5800 /\ s.novelty >= 4500 /\ s.authority >= 5000
  /\ given.profile => o.fit.brand >= 20

(* Candidates cite evidence of this run, are wanted, and are not known. *)
Prepared(os) == {k \in DOMAIN os: /\ k <= 36 /\ Cited(os[k]) # {}
                                  /\ ~(given.profile /\ os[k].unwanted) /\ os[k].known < 72
                                  /\ PassesFloor(os[k])}

Goes(os) == offers' = os /\ phase' = "rank" /\ left' = Prepared(os)

(* A context that does not fit throws before the model is called. *)
TooLarge ==
  /\ phase = "judge" /\ ~given.fits /\ phase' = "thrown"
  /\ UNCHANGED <<given, asked, found, kept, evidence, docs, offers, left, accepted, chosen, saved>>

Judge ==
  /\ phase = "judge" /\ given.fits
  /\ \E os \in Proposals:
       IF os = <<>> /\ ~given.query
       THEN phase' = "retry" /\ UNCHANGED <<offers, left>>
       ELSE Goes(os)
  /\ UNCHANGED <<given, asked, found, kept, evidence, docs, accepted, chosen, saved>>

(* A model that fails, or answers out of form, is one more degraded source. *)
JudgeFailed ==
  /\ phase = "judge" /\ given.fits /\ phase' = "unjudged"
  /\ UNCHANGED <<given, asked, found, kept, evidence, docs, offers, left, accepted, chosen, saved>>

Retry ==
  /\ phase = "retry"
  /\ \E os \in Proposals \cup {<<>>}: Goes(os)
  /\ UNCHANGED <<given, asked, found, kept, evidence, docs, accepted, chosen, saved>>
-----------------------------------------------------------------------------
(* The best first, by adjusted scores, then by title and page. *)
Ahead(k, n) ==
  LET a == Adjusted(offers[k])
      b == Adjusted(offers[n])
      x == <<OverallOf(a), a.relevance, a.evidence, a.timeliness>>
      y == <<OverallOf(b), b.relevance, b.evidence, b.timeliness>>
      u == <<offers[k].title, offers[k].url, k>>
      v == <<offers[n].title, offers[n].url, n>> IN
  \/ \E i \in 1..4: x[i] > y[i] /\ \A j \in 1..(i - 1): x[j] = y[j]
  \/ x = y /\ \E i \in 1..3: u[i] < v[i] /\ \A j \in 1..(i - 1): u[j] = v[j]

(* Topic 0 has no meaningful word and shares no quota here; the reranking   *)
(* counts by the words of the topic.                                       *)
KeyOf(k) == found[CitedBy(offers[k])].key
Duplicates(k, n) ==
  \/ <<offers[k].title, offers[n].title>> \in Similar
  \/ KeyOf(k) = KeyOf(n) /\ <<offers[k].title, offers[n].title>> \in Near
\* (mutant) the page has no quota
RoomOnAnyPage(k) ==
  /\ \A n \in accepted: ~Duplicates(k, n)
  /\ offers[k].topic # 0
       => Cardinality({n \in accepted: offers[n].topic = offers[k].topic}) < PerTopic
Room(k) ==
  /\ \A n \in accepted: ~Duplicates(k, n)
  /\ Cardinality({n \in accepted: KeyOf(n) = KeyOf(k)}) < PerSource
  /\ offers[k].topic # 0
       => Cardinality({n \in accepted: offers[n].topic = offers[k].topic}) < PerTopic

RankNext ==
  /\ phase = "rank" /\ Cardinality(accepted) < MaxCandidates
  /\ \E k \in left:
       /\ \A n \in left \ {k}: Ahead(k, n)
       /\ left' = left \ {k}
       /\ accepted' = IF Room(k) THEN accepted \cup {k} ELSE accepted
  /\ UNCHANGED <<given, phase, asked, found, kept, evidence, docs, offers, chosen, saved>>

(* Any flagged manipulation blocks: one reason is half of the scale. *)
Ranked ==
  /\ phase = "rank" /\ (left = {} \/ Cardinality(accepted) >= MaxCandidates)
  /\ phase' = "rerank" /\ left' = {k \in accepted: ~offers[k].risky}
  /\ UNCHANGED <<given, asked, found, kept, evidence, docs, offers, accepted, chosen, saved>>

ValueOf(k) ==
  LET s == Adjusted(offers[k]) IN
  46 * OverallOf(s) + 12 * s.relevance + 12 * s.evidence + 10 * s.audience
    + 8 * s.novelty + 7 * s.authority + 5 * s.timeliness
Worthier(k, n) ==
  LET a == Adjusted(offers[k])
      b == Adjusted(offers[n])
      x == <<ValueOf(k), a.evidence, a.relevance>>
      y == <<ValueOf(n), b.evidence, b.relevance>> IN
  \/ \E i \in 1..3: x[i] > y[i] /\ \A j \in 1..(i - 1): x[j] = y[j]
  \/ x = y /\ Ahead(k, n)

Rerank ==
  /\ phase = "rerank"
  /\ \E k \in left:
       /\ \A n \in left \ {k}: Worthier(k, n)
       /\ left' = left \ {k}
       /\ chosen' = IF Cardinality({n \in chosen: offers[n].words = offers[k].words}) < EEITopics
                    THEN chosen \cup {k} ELSE chosen
  /\ UNCHANGED <<given, phase, asked, found, kept, evidence, docs, offers, accepted, saved>>

Reranked ==
  /\ phase = "rerank" /\ left = {} /\ phase' = "record" /\ left' = chosen
  /\ UNCHANGED <<given, asked, found, kept, evidence, docs, offers, accepted, chosen, saved>>

(* The record of a candidate may be refused as known, and may raise; after *)
(* it the projection of its intelligence may raise too.  A failed write of *)
(* the intelligence is caught.                                             *)
Record(outcome) ==
  /\ phase = "record"
  /\ \E k \in left:
       /\ \A n \in left \ {k}: Worthier(k, n)
       /\ left' = left \ {k}
       /\ saved' = IF outcome \in {"saved", "unprojected"} THEN saved \cup {k} ELSE saved
  /\ phase' = IF outcome \in {"raised", "unprojected"} THEN "thrown" ELSE phase
  /\ UNCHANGED <<given, asked, found, kept, evidence, docs, offers, accepted, chosen>>

Recorded ==
  /\ phase = "record" /\ left = {} /\ phase' = "done"
  /\ UNCHANGED <<given, asked, found, kept, evidence, docs, offers, left, accepted, chosen, saved>>

Outcomes == {"saved", "similar", "raised", "unprojected"}
HunterNext ==
  \/ SkipDegraded
  \/ SearchFound
  \/ SearchFailed
  \/ Searched
  \/ UniqueEvidence
  \/ \E fetched \in SUBSET kept: Enrich(fetched)
  \/ TooLarge
  \/ Judge
  \/ JudgeFailed
  \/ Retry
  \/ RankNext
  \/ Ranked
  \/ Rerank
  \/ Reranked
  \/ \E outcome \in Outcomes: Record(outcome)
  \/ Recorded

HunterSpec == HunterInit /\ [][HunterNext]_hunterVars
-----------------------------------------------------------------------------
(* The stages hand on places of what was found and proposed. *)
HunterTypeOK ==
  /\ phase \in {"search", "unique", "judge", "retry", "rank", "rerank", "record",
                "unjudged", "thrown", "done"}
  /\ Len(asked) <= Len(given.plans) /\ docs \subseteq evidence /\ evidence \subseteq kept
  /\ kept \subseteq DOMAIN found /\ accepted \subseteq DOMAIN offers
  /\ chosen \subseteq accepted /\ saved \subseteq chosen

(* A source is asked until it fails and never after, and nothing is found  *)
(* but by a source that answered.                                          *)
SourcesHeeded ==
  /\ \A i, j \in DOMAIN asked:
       i < j /\ asked[i].source = asked[j].source /\ asked[i].answer = "failed"
         => asked[j].answer = "skipped"
  /\ \A i \in DOMAIN found: \E j \in DOMAIN asked:
       asked[j].source = found[i].source /\ asked[j].answer = "found"

(* No page and no story is shortlisted twice, and what is accepted cites   *)
(* one page of this run, is wanted, not known, and no repetition of what   *)
(* else is accepted: within the shares of its page and its topic, and what *)
(* is chosen of it within the share of the words of its topic.             *)
Diverse ==
  /\ \A i, k \in evidence: i # k => ~Repeats(i, k)
  /\ Cardinality(accepted) <= MaxCandidates
  /\ \A k \in accepted:
       /\ Cardinality(Cited(offers[k])) = 1
       /\ ~(given.profile /\ offers[k].unwanted)
       /\ offers[k].known < 72 /\ PassesFloor(offers[k])
       /\ Cardinality({n \in accepted: KeyOf(n) = KeyOf(k)}) <= PerSource
       /\ offers[k].topic # 0
            => Cardinality({n \in accepted: offers[n].topic = offers[k].topic}) <= PerTopic
  /\ \A k \in chosen:
       Cardinality({n \in chosen: offers[n].words = offers[k].words}) <= EEITopics
  /\ \A k, n \in accepted:
       k # n => /\ <<offers[k].title, offers[n].title>> \notin Similar
                /\ KeyOf(k) # KeyOf(n) \/ <<offers[k].title, offers[n].title>> \notin Near

(* What is recorded was chosen and manipulates nobody, and is not recorded *)
(* again; a run that was not judged on evidence records nothing.           *)
RecordedIsChosen ==
  /\ \A k \in saved: k \in chosen /\ ~offers[k].risky
  /\ phase = "record" => saved \cap left = {}
  /\ phase \in {"search", "unique", "judge", "retry", "rank", "rerank", "unjudged"} => saved = {}
  /\ saved # {} => evidence # {} /\ given.fits

HunterSound == HunterTypeOK /\ SourcesHeeded /\ Diverse /\ RecordedIsChosen
=============================================================================
