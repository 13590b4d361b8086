-------------------------------- MODULE MCHunter --------------------------------
(***************************************************************************)
(* The Hunter on small instances, one part at a time: one run from its     *)
(* sources to what it has recorded ("hunt"), what runs record, with two    *)
(* processes that crash and statements that fail ("record"), and what two  *)
(* people do with the opportunities of one run ("people").  This module    *)
(* extends the components of the parts.                                    *)
(***************************************************************************)
EXTENDS OpportunityStore, HunterRun, TLC

CONSTANTS s1, s2

VARIABLES part

Scores(n) == [relevance |-> n, evidence |-> n, novelty |-> 90, timeliness |-> 90,
              brandAuthority |-> 90, audienceFit |-> n]
Offer(k, h, t, a, long) == [key |-> k, hash |-> h, topic |-> t, direction |-> "d",
                            angle |-> a, long |-> long, scores |-> Scores(65)]
A == Offer(1, "h", "a", "d", FALSE)
B == Offer(2, "h", "b", "d", FALSE)
Weak == [Offer(1, "none", "c", "d", FALSE) EXCEPT !.scores = Scores(49)]
Offers == {<<A, B>>, <<Offer(2, "h", "a", "e", FALSE)>>,
           <<Weak, Offer(1, "none", "c", "d", TRUE)>>}
Deeds == {"ignore", "development", "saved", "opened"}

(* Two sources, a page both have, a story told twice, and candidates that  *)
(* repeat one another, crowd a page or a topic, manipulate or are known.   *)
Page(source, url, key, story, score) ==
  [source |-> source, url |-> url, key |-> key, story |-> story, score |-> score,
   platform |-> source, plain |-> 70, read |-> 95, authority |-> 90, dated |-> url > 1,
   fresh |-> 90]
PlansOf == {<<>>, <<"a", "b">>, <<"a", "a", "b">>}
AnswersOf == [a |-> {<<Page("a", 1, 1, 1, 9), Page("a", 2, 2, 0, 8)>>, <<>>},
              b |-> {<<Page("b", 3, 1, 2, 9), Page("b", 4, 4, 1, 5), Page("b", 5, 5, 0, 9)>>}]

Idea(title, url, topic) ==
  [title |-> title, url |-> url, topic |-> topic, words |-> topic, known |-> 0,
   unwanted |-> FALSE, risky |-> FALSE,
   says |-> [relevance |-> 90, evidence |-> 80, audience |-> 90, novelty |-> 90,
             timeliness |-> 90, authority |-> 90],
   fit |-> [brand |-> 60, graph |-> 60, audience |-> 60]]
Idea1 == Idea(1, 1, 1)
ProposalsOf ==
  {<<>>,
   <<Idea1, Idea(2, 1, 2), Idea(3, 1, 2), [Idea(4, 1, 2) EXCEPT !.risky = TRUE]>>,
   <<Idea1, Idea(2, 5, 1), Idea(3, 2, 1), Idea(5, 2, 0), Idea(6, 2, 0)>>,
   <<[Idea1 EXCEPT !.known = 60, !.says.timeliness = 99], Idea(3, 9, 1),
     [Idea(2, 1, 1) EXCEPT !.known = 72], [Idea(4, 5, 1) EXCEPT !.unwanted = TRUE],
     [Idea(5, 5, 0) EXCEPT !.says.evidence = 30], [Idea(6, 5, 3) EXCEPT !.fit.brand = 19]>>}
SimilarOf == {<<2, 6>>, <<6, 2>>}
NearOf == {<<3, 4>>, <<4, 3>>, <<3, 5>>, <<5, 3>>}

suite == <<part, vars, hunterVars>>

AtRest == /\ given = [plans |-> <<>>, query |-> FALSE, profile |-> FALSE, fits |-> FALSE]
          /\ HunterInit
SuiteInit == /\ Init
             /\ \/ part = "hunt" /\ HunterInit
                \/ part \in {"record", "people"} /\ AtRest

OnlyRecord == part = "record" /\ UNCHANGED <<part, hunterVars>>
OnlyPeople == part = "people" /\ UNCHANGED <<part, hunterVars>>
OnlyHunt == part = "hunt" /\ UNCHANGED <<part, vars>>

SuiteNext ==
  \/ \E q \in Requests: \/ OnlyRecord /\ \E s \in Servers: Recommend(q, s)
                        \/ OnlyRecord /\ Join(q)
                        \/ OnlyRecord /\ \E l \in Lists: StartRun(q, l)
  \/ OnlyPeople /\ Recommend(1, s1)
  \/ OnlyPeople /\ StartRun(1, <<A, B>>)
  \/ \E r \in DOMAIN runs:
       \/ Step(r) /\ UNCHANGED <<part, hunterVars>>
       \/ OnlyRecord /\ RunRaises(r)
       \/ OnlyRecord /\ Complete(r, FALSE)
       \/ OnlyRecord /\ Fail(r, FALSE)
       \/ OnlyRecord /\ WriteIntelligence(r, FALSE)
  \/ OnlyRecord /\ Crash(s1) \* the one crash; the processes are alike
  \/ \E u \in Users:
       \/ OnlyPeople /\ setBrandOpportunityStatus(u)
       \/ OnlyPeople /\ UserEnds(u)
       \/ OnlyPeople /\ \E i \in DOMAIN rows, a \in Actions:
            /\ a = "opened" => u = 1 /\ i = 1    \* bounds: who opens and who
            /\ a = "saved" => u = 2 /\ i = 2     \* saves what; all else is free
            /\ UserDoes(u, i, a)
  \/ HunterNext /\ OnlyHunt

SuiteSpec ==
  /\ SuiteInit /\ [][SuiteNext]_suite
  /\ \A r \in 1..MaxRuns:
       WF_suite(r \in DOMAIN runs /\ Step(r) /\ UNCHANGED <<part, hunterVars>>)
  /\ WF_suite(HunterNext /\ OnlyHunt)

(* Every run ends in every process that goes on, though two runs lock the  *)
(* same signals, and whoever waited for one is answered; a run of the      *)
(* Hunter ends whatever its sources, its model and its records do.         *)
RunsEnd ==
  /\ \A q \in Requests: requests[q].at = "waiting" ~> requests[q].at # "waiting"
  /\ (part = "hunt") ~> (phase \in {"done", "unjudged", "thrown"})
=============================================================================
