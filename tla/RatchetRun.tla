------------------------------ MODULE RatchetRun ------------------------------
(***************************************************************************)
(* One run of the ratchet engine (ratchet-engine.mjs): attempts on a       *)
(* workspace, each checkpointed, evaluated and kept or reverted, in a      *)
(* store (run-store.mjs) that outlives the process, while the workspace is *)
(* edited and restored (workspace-adapters.mjs) by steps of its own.  The  *)
(* caller saves the run after each call of the engine, and restores the    *)
(* checkpoint of an attempt it is told to revert.                          *)
(*                                                                         *)
(* The content of the workspace is the number of the attempt that wrote    *)
(* it, 0 for what the run began with.  Higher scores are better.           *)
(***************************************************************************)
EXTENDS Integers, Sequences

CONSTANTS Scores,       \* what a candidate may score
          Baseline,     \* baselineScore
          MaxAttempts,
          MaxUsage      \* the budget; usage is counted up to one more

ASSUME RatchetAssumption ==
  /\ Scores \subseteq Int /\ Baseline \in Int
  /\ MaxAttempts \in Nat \ {0} /\ MaxUsage \in Nat

VARIABLES run,     \* the stored run
          disk,    \* content of the mutable files
          alive    \* the process between two crashes

ratchetVars == <<run, disk, alive>>

Terminal == {"kept", "reverted", "recovered-reverted"}

RatchetInit == /\ run = [status |-> "running", attempts |-> <<>>, usage |-> 0,
                         score |-> Baseline, accepted |-> 0]
               /\ disk = 0
               /\ alive = TRUE

Current == Len(run.attempts)
Active == Current > 0 /\ run.attempts[Current].status \notin Terminal
Attempt == run.attempts[Current]
InState(status) == alive /\ Active /\ Attempt.status = status

\* The run with its current attempt replaced.
Revised(a) == [run EXCEPT !.attempts[Current] = a]

NewAttempt == [status |-> "running", base |-> run.score, before |-> disk,
               artifact |-> FALSE, score |-> 0, decision |-> "none"]

\* beginAttempt, after the checkpoint was taken.
Begin == /\ alive /\ run.status = "running"
         /\ Current < MaxAttempts /\ ~Active
         /\ run' = [run EXCEPT !.attempts = Append(@, NewAttempt)]
         /\ UNCHANGED <<disk, alive>>

\* The worker of the attempt writes the candidate.
WriteCandidate == /\ InState("running")
                  /\ disk' = Current
                  /\ UNCHANGED <<run, alive>>

Attach == /\ InState("running")
          /\ run' = Revised([Attempt EXCEPT !.artifact = TRUE])
          /\ UNCHANGED <<disk, alive>>

\* evaluateAttempt and ratchetDecision: a candidate that crashed has no score.
Evaluate == /\ InState("running")
            /\ \/ \E s \in Scores :
                    run' = Revised([Attempt EXCEPT !.status = "evaluated", !.score = s,
                                      !.decision = IF s > Attempt.base THEN "keep" ELSE "revert"])
               \/ run' = Revised([Attempt EXCEPT !.status = "evaluated",
                                                 !.decision = "revert"])
            /\ UNCHANGED <<disk, alive>>

\* The caller restores the checkpoint of an attempt it reverts.
Restore == /\ InState("evaluated") /\ Attempt.decision = "revert"
           /\ disk' = Attempt.before
           /\ UNCHANGED <<run, alive>>

Stopped(r) == IF Len(r.attempts) >= MaxAttempts
                THEN [r EXCEPT !.status = "stopped"] ELSE r

\* finalizeAttempt
Keep == /\ InState("evaluated") /\ Attempt.decision = "keep" /\ Attempt.artifact
        /\ run' = Stopped([Revised([Attempt EXCEPT !.status = "kept"])
                             EXCEPT !.score = Attempt.score, !.accepted = disk])
        /\ UNCHANGED <<disk, alive>>

Revert == /\ InState("evaluated") /\ Attempt.decision = "revert"
          /\ disk = Attempt.before
          /\ run' = Stopped(Revised([Attempt EXCEPT !.status = "reverted"]))
          /\ UNCHANGED <<disk, alive>>

\* updateRunUsage: a run beyond its budget is stopped, its attempt is not.
Use == /\ alive /\ run.usage <= MaxUsage
       /\ run' = [run EXCEPT !.usage = @ + 1,
                    !.status = IF run.usage + 1 > MaxUsage THEN "stopped" ELSE @]
       /\ UNCHANGED <<disk, alive>>

Crash == /\ alive /\ alive' = FALSE
         /\ UNCHANGED <<run, disk>>

\* (mutant) the workspace of an evaluated attempt is left as it is.
RecoveredDisk == IF Active /\ Attempt.status = "running" THEN Attempt.before ELSE disk

\* What recoverInterruptedRun restores.
Recovered == IF Active THEN Attempt.before ELSE disk

\* recoverInterruptedRun on the reloaded run.
Recover == /\ ~alive /\ alive' = TRUE
           /\ disk' = Recovered
           /\ run' = IF Active
                       THEN [Revised([Attempt EXCEPT !.status = "recovered-reverted",
                                                     !.decision = "revert"])
                               EXCEPT !.status = "running"]
                       ELSE run

RatchetNext == \/ Begin \/ WriteCandidate \/ Attach \/ Evaluate
               \/ Restore \/ Keep \/ Revert \/ Use \/ Crash \/ Recover

RatchetSpec == RatchetInit /\ [][RatchetNext]_ratchetVars
-----------------------------------------------------------------------------
\* The state is well formed.
RatchetTypeOK == /\ run.status \in {"running", "stopped"}
                 /\ Current <= MaxAttempts /\ run.usage \in 0..(MaxUsage + 1)
                 /\ disk \in 0..MaxAttempts /\ alive \in BOOLEAN

(* Between attempts the workspace is exactly what was last accepted, in      *)
(* spite of crashes at any step: no rejected or interrupted candidate stays. *)
WorkspaceIsAccepted == alive /\ ~Active => disk = run.accepted

Kept == {i \in 1..Current : run.attempts[i].status = "kept"}

(* The accepted score only ever improves, and is that of the last kept       *)
(* attempt: no regression and no crashed candidate is kept.                  *)
OnlyImproves ==
  /\ \A i \in Kept : run.attempts[i].score > Baseline
  /\ \A i, j \in Kept : i < j => run.attempts[i].score < run.attempts[j].score
  /\ Kept = {} => run.score = Baseline
  /\ Kept # {} => \E i \in Kept : /\ \A j \in Kept : j <= i
                                  /\ run.score = run.attempts[i].score

(* What a run leaves of the workspace and of the score, through crashes at   *)
(* any step.                                                                 *)
RatchetSound == WorkspaceIsAccepted /\ OnlyImproves
=============================================================================
