---------------------------- MODULE MetricCollection ----------------------------
(***************************************************************************)
(* What Instagram says of a published post, asked for some time after it   *)
(* was published (instagram-metric-runner.ts, instagram-insights.ts).      *)
(* Every window of a post is a row, made when the post is published or,    *)
(* when the account could not be read then, by the tick of an API process. *)
(* The tick claims a row under a lease that lapses, asks the provider, and *)
(* settles the row if it still holds it.  The lease is held by `api-<pid>`,*)
(* a name two processes may share.  A row keeps the credential the account *)
(* had when the row was made; an owner connects the account again, which   *)
(* revokes it.  Time is an order: what is due or lapses does so in a step. *)
(***************************************************************************)
EXTENDS Naturals, Sequences, FiniteSets, FiniteSetsExt

CONSTANTS Posts, Windows,      \* posts, and when they are measured
          Processes, Name,     \* API processes, and the lease owner of each
          MaxAttempts,         \* 3
          Metrics,             \* how many insights are asked for, one by one
          MaxCredentials,      \* bound: how often an account is connected
          Faults               \* bound: crashes and faults of the stores

VARIABLES published,   \* the posts that are
          account,     \* [status, credential] of the channel account
          revoked,     \* the credentials that no longer resolve
          job,         \* the rows of metric_collection_jobs, by post and window
          process,     \* what each process is doing
          snapshots,   \* the rows of metric_snapshots of each job
          faults       \* how many faults there were

vars == <<published, account, revoked, job, process, snapshots, faults>>

CollectionAssumption ==
  /\ IsFiniteSet(Posts) /\ IsFiniteSet(Windows) /\ IsFiniteSet(Processes)
  /\ MaxAttempts \in Nat \ {0} /\ Metrics \in Nat \ {0}
  /\ MaxCredentials \in Nat /\ Faults \in Nat

Jobs == Posts \X Windows
Ended == {"complete", "unavailable", "failed"}
NoJob == [status |-> "none", attempt |-> 0, owner |-> 0, due |-> FALSE,
          lapsed |-> FALSE, credential |-> 0, reason |-> "none"]
Idle == [at |-> "idle", job |-> <<>>, attempt |-> 0, result |-> "none"]

Init ==
  /\ published = {} /\ account = [status |-> "connected", credential |-> 1]
  /\ revoked = {} /\ job = [j \in Jobs |-> NoJob]
  /\ process = [p \in Processes |-> Idle]
  /\ snapshots = [j \in Jobs |-> 0] /\ faults = 0

-----------------------------------------------------------------------------
(* The account: connected again with another credential, and the one       *)
(* before revoked; given up; or found to have run out.                     *)

Reconnect ==
  /\ account.credential < MaxCredentials
  /\ revoked' = revoked \cup {account.credential}
  /\ account' = [status |-> "connected", credential |-> account.credential + 1]
  /\ UNCHANGED <<published, job, process, snapshots, faults>>

Disconnect ==
  /\ account.status # "disabled" /\ account' = [account EXCEPT !.status = "disabled"]
  /\ revoked' = revoked \cup {account.credential}
  /\ UNCHANGED <<published, job, process, snapshots, faults>>

(* markExpiredConnectionsReconnectRequired: the token has run out.         *)
Expire ==
  /\ account.status = "connected"
  /\ account' = [account EXCEPT !.status = "reconnect-required"]
  /\ UNCHANGED <<published, revoked, job, process, snapshots, faults>>

-----------------------------------------------------------------------------
(* The rows.                                                               *)

(* The insert of the windows of posts: nothing for an account that is not  *)
(* connected or whose credential is revoked, and rows that are stay.       *)
Enqueued(posts) ==
  IF account.status = "connected" /\ account.credential \notin revoked
  THEN [j \in Jobs |->
         IF j[1] \in posts /\ job[j].status = "none"
         THEN [NoJob EXCEPT !.status = "queued", !.credential = account.credential]
         ELSE job[j]]
  ELSE job

Publish(post) ==
  /\ post \notin published /\ published' = published \cup {post}
  /\ job' = Enqueued({post})
  /\ UNCHANGED <<account, revoked, process, snapshots, faults>>

(* Time passes: a queued row comes due, a lease lapses.                    *)
Due(j) == /\ job[j].status = "queued" /\ ~job[j].due
          /\ job' = [job EXCEPT ![j].due = TRUE]
          /\ UNCHANGED <<published, account, revoked, process, snapshots, faults>>

Lapse(j) == /\ job[j].status = "running" /\ ~job[j].lapsed
            /\ job' = [job EXCEPT ![j].lapsed = TRUE]
            /\ UNCHANGED <<published, account, revoked, process, snapshots, faults>>

-----------------------------------------------------------------------------
(* One pass of a process over the rows.                                    *)

Seed(p) ==
  /\ process[p].at = "idle" /\ process' = [process EXCEPT ![p].at = "seeded"]
  /\ job' = Enqueued(published)
  /\ UNCHANGED <<published, account, revoked, snapshots, faults>>

End(row, status, reason) ==
  [row EXCEPT !.status = status, !.owner = 0, !.lapsed = FALSE, !.due = FALSE,
              !.reason = reason]

(* Rows whose last lease lapsed are given up, in the transaction of every  *)
(* claim.                                                                  *)
GivenUp ==
  [j \in Jobs |->
    IF job[j].status = "running" /\ job[j].attempt >= MaxAttempts /\ job[j].lapsed
    THEN End(job[j], "failed", "attempts") ELSE job[j]]

Claimable(row) ==
  /\ row.attempt < MaxAttempts
  /\ \/ row.status = "queued" /\ row.due
     \/ row.status = "running" /\ row.lapsed

(* The next row that is due, or one whose lease lapsed; a pass that finds  *)
(* none is over.  Which of several comes first is left open.               *)
Claim(p) ==
  /\ process[p].at = "seeded"
  /\ IF \E j \in Jobs: Claimable(GivenUp[j])
     THEN \E j \in Jobs:
            /\ Claimable(GivenUp[j])
            /\ job' = [GivenUp EXCEPT ![j].status = "running", ![j].due = FALSE,
                         ![j].attempt = @ + 1, ![j].owner = Name[p], ![j].lapsed = FALSE]
            /\ process' = [process EXCEPT ![p] =
                 [at |-> "claimed", job |-> j, attempt |-> job[j].attempt + 1,
                  result |-> "none"]]
     ELSE job' = GivenUp /\ process' = [process EXCEPT ![p] = Idle]
  /\ UNCHANGED <<published, account, revoked, snapshots, faults>>

(* What one request for an insight may be answered.  A metric the provider *)
(* does not support is passed over, any other refusal ends the collection. *)
Answers == {"read", "unsupported", "busy", "denied", "missing", "broken"}
Ends(answer) ==
  CASE answer = "busy" -> "retry" [] answer = "denied" -> "permission"
    [] answer = "missing" -> "ineligible" [] answer = "broken" -> "failed"

(* What the insights and then the engagement of a post come to: the first  *)
(* refusal, or whether anything was read.  The engagement is optional: only*)
(* a permission that is gone or a busy provider stop there.                *)
Collected(answers, engagement) ==
  LET refused == {i \in DOMAIN answers: answers[i] \notin {"read", "unsupported"}} IN
  IF refused # {} THEN Ends(answers[Min(refused)])
  ELSE IF engagement \in {"denied", "busy"} THEN Ends(engagement)
  ELSE IF engagement = "read" \/ \E i \in DOMAIN answers: answers[i] = "read"
       THEN "collected" ELSE "ineligible"

(* PerformanceCollectionWorker.execute: no retry after the last attempt.   *)
Executed(attempt, result) ==
  IF result = "retry" /\ attempt >= MaxAttempts THEN "failed" ELSE result

(* A credential that does not resolve asks nothing.                        *)
Ask(p) ==
  LET j == process[p].job IN
  /\ process[p].at = "claimed"
  /\ IF job[j].credential \in revoked
     THEN process' = [process EXCEPT ![p].at = "answered", ![p].result = "permission"]
     ELSE \E answers \in [1..Metrics -> Answers], engagement \in Answers:
            process' = [process EXCEPT ![p].at = "answered", ![p].result =
                          Executed(process[p].attempt, Collected(answers, engagement))]
  /\ UNCHANGED <<published, account, revoked, job, snapshots, faults>>

Holds(p) == /\ job[process[p].job].status = "running"
            /\ job[process[p].job].owner = Name[p]
            /\ job[process[p].job].attempt = process[p].attempt

(* The row after an answer.                                                *)
Settled(row, result, attempt) ==
  CASE result = "collected" -> End(row, "complete", "none")
    [] result = "retry" /\ attempt < MaxAttempts -> End(row, "queued", "busy")
    [] result \in {"permission", "ineligible"} -> End(row, "unavailable", result)
    [] OTHER -> End(row, "failed", IF result = "retry" THEN "busy" ELSE result)

(* The answer is stored with what it was read from, and an account that    *)
(* may not be read asks for a reconnection, in one transaction.  A process *)
(* whose row was claimed again throws its answer away.                     *)
Settle(p) ==
  LET j == process[p].job  result == process[p].result IN
  /\ process[p].at = "answered" /\ process' = [process EXCEPT ![p] = Idle]
  /\ IF Holds(p)
     THEN /\ job' = [job EXCEPT ![j] = Settled(@, result, process[p].attempt)]
          /\ snapshots' = [snapshots EXCEPT ![j] = @ + IF result = "collected" THEN 1 ELSE 0]
          /\ account' = IF result = "permission" /\ account.status = "connected"
                        THEN [account EXCEPT !.status = "reconnect-required"]
                        ELSE account
     ELSE UNCHANGED <<job, snapshots, account>>
  /\ UNCHANGED <<published, revoked, faults>>

-----------------------------------------------------------------------------
(* Faults.                                                                 *)

Faulty == faults < Faults /\ faults' = faults + 1

(* The process ends, or a statement or the collector throws: the pass is   *)
(* over and its row waits for its lease to lapse.                          *)
Crash(p) ==
  /\ process[p].at # "idle" /\ Faulty
  /\ process' = [process EXCEPT ![p] = Idle]
  /\ UNCHANGED <<published, account, revoked, job, snapshots>>

(* The vault could not be read, which is taken for a credential that is    *)
(* gone.                                                                   *)
VaultFails(p) ==
  /\ process[p].at = "claimed" /\ Faulty
  /\ process' = [process EXCEPT ![p].at = "answered", ![p].result = "permission"]
  /\ UNCHANGED <<published, account, revoked, job, snapshots>>

Pass(p) == Seed(p) \/ Claim(p) \/ Ask(p) \/ Settle(p)

TimePasses(j) == Due(j) \/ Lapse(j)

Next ==
  \/ Reconnect \/ Disconnect \/ Expire
  \/ \E post \in Posts: Publish(post)
  \/ \E j \in Jobs: TimePasses(j)
  \/ \E p \in Processes: Pass(p) \/ Crash(p) \/ VaultFails(p)

CollectionSpec ==
  /\ Init /\ [][Next]_vars
  /\ \A p \in Processes: WF_vars(Pass(p))
  /\ \A j \in Jobs: WF_vars(TimePasses(j))

-----------------------------------------------------------------------------
(* What was measured is stored once with the row that says so, however     *)
(* many processes worked on it.                                            *)
MeasuredOnce == \A j \in Jobs: snapshots[j] = IF job[j].status = "complete" THEN 1 ELSE 0

(* Two processes never both may settle a row, though they share a name.    *)
OneHolder ==
  \A p, q \in Processes:
    p # q /\ process[p].at \in {"claimed", "answered"}
          /\ process[q].at \in {"claimed", "answered"} /\ process[p].job = process[q].job
      => ~(Holds(p) /\ Holds(q))

(* A row is given up for its attempts only when it has had them all.       *)
WithinLimit ==
  \A j \in Jobs: /\ job[j].attempt <= MaxAttempts
                 /\ job[j].reason = "attempts" => job[j].attempt = MaxAttempts

(* A row that waits can still be claimed, so none is stranded: queued rows *)
(* have attempts left, and a row without a process will lapse.             *)
NoneStranded == \A j \in Jobs: job[j].status = "queued" => job[j].attempt < MaxAttempts

CollectionSound == MeasuredOnce /\ OneHolder /\ WithinLimit /\ NoneStranded

(* Every row comes to an end.                                              *)
RowsEnd == \A j \in Jobs: job[j].status = "queued" ~> job[j].status \in Ended
=============================================================================
