---------------------------- MODULE MarketingEvidence ----------------------------
(***************************************************************************)
(* The Marketing Lab's two runs: the paired execution of a native and a    *)
(* challenger skill over fixed cases (marketing-shadow-evidence-run.ts and *)
(* its runner), and the evaluation of the stored pairs by a critic         *)
(* (marketing-shadow-quality-evaluation-run.ts).  An operator authorizes   *)
(* one run of one release at a time; a process of that release uses the    *)
(* authorization up, and the row it leaves is never begun again.  The API  *)
(* asks on a timer; the critic's worker asks once and exits.  A deployment *)
(* starts a process with a release whose fixtures may have changed: a      *)
(* fingerprint is the version of a fixture.                                *)
(***************************************************************************)
EXTENDS Naturals, Sequences, FiniteSets

CONSTANTS Ticking, Once,        \* API processes, and the critic's workers
          Releases, Source,     \* releases; the one whose pairs are evaluated
          Fixture,              \* [Releases -> sequence of fixture versions]
          Routes,               \* model routes an answer may come from
          Tries,                \* 3: attempts to store an outcome
          Faults, Starts, Grants \* bounds: faults, starts, authorizations

VARIABLES authorization,  \* <<>> or <<run, release>>: at most one row
          row,            \* the row of each run
          process,        \* what each process is doing
          sanctioned,     \* history: what was ever authorized
          begun,          \* history: how often each run was executed
          faults, starts

vars == <<authorization, row, process, sanctioned, begun, faults, starts>>

EvidenceAssumption ==
  /\ Ticking \cap Once = {}
  /\ Source \in Releases /\ Tries \in Nat \ {0}
  /\ Fixture \in [Releases -> Seq(Nat)]
  /\ \A r, s \in Releases: Len(Fixture[r]) = Len(Fixture[s]) /\ Fixture[r] # <<>>
  /\ Faults \in Nat /\ Starts \in Nat /\ Grants \in Nat

Processes == Ticking \cup Once
Runs == {"pairs", "quality"}
Run(p) == IF p \in Once THEN "quality" ELSE "pairs"
Ended == {"completed", "failed"}
NoRow == [status |-> "none", release |-> "none", evidence |-> <<>>]

(* evidence: what was measured so far, a <<fixture, route, route>> a case. *)
Fresh(release) == [at |-> "idle", release |-> release, evidence |-> <<>>, left |-> 0]

Init ==
  /\ authorization = <<>> /\ row = [r \in Runs |-> NoRow]
  /\ process \in [Processes -> {Fresh(r): r \in Releases}]
  /\ sanctioned = {} /\ begun = [r \in Runs |-> 0] /\ faults = 0 /\ starts = 0

At(p, step) == process[p].at = step
Goes(p, step) == process' = [process EXCEPT ![p].at = step]
Executing == {"source", "measure", "complete", "fail"}

-----------------------------------------------------------------------------
(* The operator.                                                           *)

Authorize(run, release) ==
  /\ authorization = <<>> /\ Cardinality(sanctioned) < Grants
  /\ authorization' = <<run, release>>
  /\ sanctioned' = sanctioned \cup {<<run, release>>}
  /\ UNCHANGED <<row, process, begun, faults, starts>>

Withdraw ==
  /\ authorization # <<>> /\ authorization' = <<>>
  /\ UNCHANGED <<row, process, sanctioned, begun, faults, starts>>

-----------------------------------------------------------------------------
(* Finding out whether there is something to do, and claiming it.          *)

(* A timer looks again when there is nothing yet, a worker exits.          *)
Rests(p) == IF p \in Once THEN "over" ELSE "idle"
(* After an error the timer reads the status before it decides.            *)
Doubts(p) == IF p \in Once THEN "over" ELSE "doubt"

(* store.status, its first statement.  A row of another release throws.    *)
LookRow(p) ==
  LET r == row[Run(p)] IN
  /\ At(p, "idle")
  /\ Goes(p, IF r.status = "none" THEN "looked"
             ELSE IF r.release = process[p].release THEN "over" ELSE Doubts(p))
  /\ UNCHANGED <<authorization, row, sanctioned, begun, faults, starts>>

Mine(p) == authorization = <<Run(p), process[p].release>>
Others(p) == authorization # <<>> /\ authorization[1] = Run(p) /\ ~Mine(p)

LookAuthorization(p) ==
  /\ At(p, "looked")
  /\ Goes(p, IF Mine(p) THEN "authorized" ELSE IF Others(p) THEN Doubts(p) ELSE Rests(p))
  /\ UNCHANGED <<authorization, row, sanctioned, begun, faults, starts>>

(* The claim's transaction: the delete of the authorization decides.       *)
Wins(p) == row[Run(p)].status = "none" /\ Mine(p)

Consume(p) ==
  /\ authorization' = <<>>
  /\ row' = [row EXCEPT ![Run(p)] =
               [NoRow EXCEPT !.status = "started", !.release = process[p].release]]

Claim(p) ==
  LET r == row[Run(p)] IN
  /\ At(p, "authorized")
  /\ IF Wins(p)
     THEN /\ Consume(p) /\ Goes(p, "source")
          /\ begun' = [begun EXCEPT ![Run(p)] = @ + 1]
     ELSE /\ UNCHANGED <<authorization, row, begun>>
          /\ Goes(p, IF r.status = "none"
                     THEN IF Others(p) THEN Doubts(p) ELSE Rests(p)
                     ELSE IF r.release = process[p].release THEN "over" ELSE Doubts(p))
  /\ UNCHANGED <<sanctioned, faults, starts>>

(* The timer's second look: a run that is there is not tried again.        *)
Check(p) ==
  LET r == row[Run(p)] IN
  /\ At(p, "doubt")
  /\ Goes(p, IF r.status # "none" /\ r.release = process[p].release
             THEN "over" ELSE "idle")
  /\ UNCHANGED <<authorization, row, sanctioned, begun, faults, starts>>

-----------------------------------------------------------------------------
(* The work.                                                               *)

Begins(p, step) == process' = [process EXCEPT ![p].at = step, ![p].left = Tries]

Usable(r) == r.status = "completed" /\ r.release = Source

(* The pinned snapshot of the challenger is fetched; the critic reads the  *)
(* stored pairs.  Either may fail, and stored pairs that are not there do. *)
Fetch(p, ok) ==
  /\ At(p, "source")
  /\ IF ok /\ (p \in Once => Usable(row["pairs"]))
     THEN process' = [process EXCEPT ![p].at = "measure", ![p].evidence = <<>>]
     ELSE Begins(p, "fail")
  /\ UNCHANGED <<authorization, row, sanctioned, begun, faults, starts>>

(* The source of a critic is the row it read: a completed row stays.       *)
Stored == row["pairs"].evidence
Case(p) == Len(process[p].evidence) + 1
Last(p) == Case(p) = Len(Fixture[process[p].release])

Appended(p, entry) ==
  process' = [process EXCEPT ![p].evidence = Append(@, entry), ![p].left = Tries,
                             ![p].at = IF Last(p) THEN "complete" ELSE "measure"]

(* What a lane may come to: the route that answered, or none, when it      *)
(* failed, breaks the plan, leaves a required claim out or uses another,   *)
(* or its cost, latency or route were not measured.                        *)
NativeAnswers == Routes \cup {"none"}
ChallengerAnswers == Routes \cup {"none"}

(* One case in both lanes, of one input and on one route.                  *)
Measure(p, native, challenger) ==
  /\ At(p, "measure") /\ p \in Ticking
  /\ IF /\ native \in Routes /\ challenger = native
        /\ process[p].evidence # <<>> => process[p].evidence[1][2] = native
     THEN Appended(p, <<Fixture[process[p].release][Case(p)], native, challenger>>)
     ELSE Begins(p, "fail")
  /\ UNCHANGED <<authorization, row, sanctioned, begun, faults, starts>>

(* Whether a critic's answer is a whole evaluation of both candidates.     *)
Judgements == BOOLEAN

(* One stored pair is given to the critic if its fingerprint is that of    *)
(* the fixture this release has.                                           *)
Evaluate(p, ok) ==
  LET fixtures == Fixture[process[p].release] IN
  /\ At(p, "measure") /\ p \in Once
  /\ IF /\ ok /\ Len(Stored) = Len(fixtures)
        /\ Stored[Case(p)][1] = fixtures[Case(p)]
     THEN Appended(p, <<fixtures[Case(p)], "critic", "critic">>)
     ELSE Begins(p, "fail")
  /\ UNCHANGED <<authorization, row, sanctioned, begun, faults, starts>>

-----------------------------------------------------------------------------
(* Storing what came of it: tried three times, and a try that finds the    *)
(* row already as it wants it has succeeded.                               *)

Status(p) == IF At(p, "complete") THEN "completed" ELSE "failed"
Written(p) ==
  IF row[Run(p)].status = "started"
  THEN [row EXCEPT ![Run(p)].status = Status(p),
                   ![Run(p)].evidence = IF At(p, "complete") THEN process[p].evidence
                                        ELSE <<>>]
  ELSE row

Over(p) == IF At(p, "complete") THEN "over" ELSE Doubts(p)
Again(p) == IF process[p].left > 1
            THEN process' = [process EXCEPT ![p].left = @ - 1]
            ELSE Goes(p, Doubts(p))

Store(p) ==
  /\ process[p].at \in {"complete", "fail"} /\ row' = Written(p)
  /\ IF Written(p)[Run(p)].status = Status(p) THEN Goes(p, Over(p)) ELSE Again(p)
  /\ UNCHANGED <<authorization, sanctioned, begun, faults, starts>>

-----------------------------------------------------------------------------
(* Faults.                                                                 *)

Faulty == faults < Faults /\ faults' = faults + 1

(* A statement fails, or it is committed and its answer lost.              *)
LookFails(p) ==
  /\ process[p].at \in {"idle", "looked", "authorized"} /\ Faulty /\ Goes(p, Doubts(p))
  /\ UNCHANGED <<authorization, row, sanctioned, begun, starts>>

CheckFails(p) ==
  /\ At(p, "doubt") /\ Faulty /\ Goes(p, "idle")
  /\ UNCHANGED <<authorization, row, sanctioned, begun, starts>>

ClaimUnanswered(p) ==
  /\ At(p, "authorized") /\ Wins(p) /\ Faulty
  /\ Consume(p) /\ Goes(p, Doubts(p))
  /\ UNCHANGED <<sanctioned, begun, starts>>

StoreFails(p, committed) ==
  /\ process[p].at \in {"complete", "fail"} /\ Faulty
  /\ row' = IF committed THEN Written(p) ELSE row
  /\ Again(p)
  /\ UNCHANGED <<authorization, sanctioned, begun, starts>>

Crash(p) ==
  /\ process[p].at # "over" /\ Faulty /\ Goes(p, "over")
  /\ UNCHANGED <<authorization, row, sanctioned, begun, starts>>

(* A process is started, with the release that is deployed then.           *)
Restart(p, release) ==
  /\ At(p, "over") /\ starts < Starts /\ starts' = starts + 1
  /\ process' = [process EXCEPT ![p] = Fresh(release)]
  /\ UNCHANGED <<authorization, row, sanctioned, begun, faults>>

Step(p) ==
  \/ LookRow(p) \/ LookAuthorization(p) \/ Claim(p) \/ Check(p) \/ Store(p)
  \/ \E ok \in BOOLEAN: Fetch(p, ok)
  \/ \E ok \in Judgements: Evaluate(p, ok)
  \/ \E a \in NativeAnswers, b \in ChallengerAnswers: Measure(p, a, b)

Fails(p) == \/ LookFails(p) \/ CheckFails(p) \/ ClaimUnanswered(p) \/ Crash(p)
            \/ \E committed \in BOOLEAN: StoreFails(p, committed)

Next ==
  \/ \E run \in Runs, release \in Releases: Authorize(run, release)
  \/ Withdraw
  \/ \E p \in Processes: Step(p) \/ Fails(p)
  \/ \E p \in Processes, release \in Releases: Restart(p, release)

EvidenceSpec == Init /\ [][Next]_vars /\ \A p \in Processes: WF_vars(Step(p))

-----------------------------------------------------------------------------
EvidenceTypeOK ==
  /\ authorization \in {<<>>} \cup (Runs \X Releases)
  /\ \A r \in Runs: /\ row[r].status \in {"none", "started"} \cup Ended
                    /\ row[r].release \in Releases \cup {"none"}
  /\ \A p \in Processes: /\ process[p].release \in Releases
                         /\ process[p].left \in 0..Tries

(* An authorization is good for one execution of its release.              *)
UsedOnce ==
  \A r \in Runs: /\ begun[r] <= 1
                 /\ row[r].status # "none" => <<r, row[r].release>> \in sanctioned

(* Who works on a run holds its row, alone.                                *)
OneExecutes ==
  \A p \in Processes:
    process[p].at \in Executing =>
      /\ row[Run(p)].release = process[p].release
      /\ At(p, "source") \/ At(p, "measure") => row[Run(p)].status = "started"
      /\ \A q \in Processes: q # p /\ Run(q) = Run(p) => process[q].at \notin Executing

(* Pairs that are stored are of every case of their release, in order, and *)
(* on one route; a row that failed or has not ended holds none.            *)
PairsWhole ==
  LET r == row["pairs"] IN
  IF r.status = "completed"
  THEN /\ [i \in DOMAIN r.evidence |-> r.evidence[i][1]] = Fixture[r.release]
       /\ \A i, j \in DOMAIN r.evidence: r.evidence[i][2] = r.evidence[j][3]
  ELSE r.evidence = <<>>

(* What a critic stored is about the pairs of the approved release, case by*)
(* case, and its own fixtures are those the pairs were made of.            *)
JudgedTheSame ==
  row["quality"].status = "completed" =>
    /\ Usable(row["pairs"])
    /\ Fixture[row["quality"].release] = Fixture[Source]
    /\ Len(row["quality"].evidence) = Len(Stored)

EvidenceSound == UsedOnce /\ OneExecutes /\ PairsWhole /\ JudgedTheSame

(* Who executes comes to an end, and an authorization that stands is found *)
(* by an API process of its release that keeps running.                    *)
ExecutionEnds(p) == process[p].at \in Executing ~> process[p].at \notin Executing

Standing(p) == /\ authorization = <<Run(p), process[p].release>>
               /\ row[Run(p)].status = "none" /\ ~At(p, "over")
AuthorizationFound(p) == Standing(p) ~> ~Standing(p)
=============================================================================
