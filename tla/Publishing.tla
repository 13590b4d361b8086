------------------------------ MODULE Publishing ------------------------------
(***************************************************************************)
(* The life of a publish command: the rows of publish_commands,            *)
(* publish_attempts, published_posts and operational_failures, the worker  *)
(* processes that claim, post and settle, and the operators' calls of      *)
(* PublishingService, which read, decide and write in separate steps.      *)
(* One row holds what one command owns in the four tables; every SQL       *)
(* statement is an operator from a row to a row.                           *)
(***************************************************************************)
EXTENDS Integers

CONSTANTS Commands,   \* publish commands, one per content approval
          Workers,    \* lease owners: publishing worker processes
          Callers,    \* people at the console, one call in flight each
          None        \* no lease owner, no job, no call

ASSUME NoneAssumption == None \notin Workers

Limit == 3            \* attempts, in publishing.ts and in the claim's SQL
Attempts == 1..Limit

Statuses == {"absent", "scheduled", "dispatching", "published", "failed",
             "unknown", "manual-required", "cancelled"}
Lives == {"approved", "publishing", "processing", "published", "failed"}
AttemptStatuses == {"none", "dispatching", "published", "failed", "unknown"}
Dispositions == {"none", "safe", "blocked", "manual-review"}
Leases == {"none", "live", "lapsed"}

\* What the executor can answer. "retryable" and "final" are its two kinds of
\* failure, "tracked" is an unknown outcome with a provider correlation id.
Answers == {"published", "retryable", "final", "unknown", "tracked", "manual"}

Rows == [status : Statuses, life : Lives, n : 0..Limit, lease : Leases,
         owner : Workers \cup {None}, due : BOOLEAN,
         att : [Attempts -> AttemptStatuses],
         filed : [Attempts -> Dispositions], post : 0..Limit]

Jobs == [c : Commands, k : Attempts, answer : Answers \cup {"pending"}]
Ops == {"begin", "reconcile", "retry", "cancel"}
Calls == [op : Ops, c : Commands, n : 0..Limit, life : Lives, k : 0..Limit]

VARIABLES row,        \* what the database holds of each command
          moved,      \* commands whose asset has a newer current version
          connected,  \* the channel account's status is "connected"
          made,       \* the attempts whose post exists at the provider
          job,        \* the job each worker process holds in memory
          call        \* the call each person has in flight

vars == <<row, moved, connected, made, job, call>>

NoRow == [status |-> "absent", life |-> "approved", n |-> 0, lease |-> "none",
          owner |-> None, due |-> FALSE,
          att |-> [k \in Attempts |-> "none"],
          filed |-> [k \in Attempts |-> "none"], post |-> 0]

Init == /\ row = [c \in Commands |-> NoRow]
        /\ moved = {}
        /\ connected = TRUE
        /\ made = [c \in Commands |-> {}]
        /\ job = [w \in Workers |-> None]
        /\ call = [o \in Callers |-> None]

-----------------------------------------------------------------------------
(* Statements on one row. *)

\* (mutant) the trigger forgets the attempts whose retry is already scheduled.
DispositionOfEnded(status) ==
    CASE status = "failed" -> "blocked"
      [] status \in {"unknown", "manual-required"} -> "manual-review"
      [] status \in {"scheduled", "published"} -> "none"

\* The failure an update of a dispatching row to this status projects.
Disposition(status) == CASE status = "scheduled" -> "safe"
                         [] status = "failed" -> "blocked"
                         [] status = "unknown" -> "manual-review"
                         [] status = "manual-required" -> "manual-review"
                         [] status = "published" -> "none"

\* The trigger on publish_commands.status: a row that leaves "dispatching"
\* files one failure for its current attempt; an id already there stays.
Filed(r, status) ==
    [r.filed EXCEPT ![r.n] = IF @ = "none" THEN Disposition(status) ELSE @]

\* A command whose lease ran out: nobody knows what its attempt did.
Expired(r) == r.status = "dispatching" /\ r.lease = "lapsed"

\* The first two statements of a claim.
Expire(r) ==
    IF Expired(r)
      THEN [r EXCEPT !.status = "unknown", !.owner = None, !.lease = "none",
                     !.att[r.n] = "unknown", !.filed = Filed(r, "unknown")]
      ELSE r

\* The third: a due command whose asset moved on is cancelled.
DropMoved(r, isMoved) ==
    IF r.status = "scheduled" /\ r.due /\ isMoved
      THEN [r EXCEPT !.status = "cancelled"] ELSE r

Swept(r, isMoved) == DropMoved(Expire(r), isMoved)

\* (mutant) a lease left behind by a reconciled attempt blocks the claim.
ClaimableUnleased(r) == /\ r.status = "scheduled" /\ r.due /\ r.n < Limit
                        /\ r.lease = "none"

Claimable(r) == /\ r.status = "scheduled" /\ r.due /\ r.n < Limit
                /\ r.lease # "live"

Claimed(r, w) ==
    [r EXCEPT !.status = "dispatching", !.life = "publishing", !.n = r.n + 1,
              !.owner = w, !.lease = "live", !.att[r.n + 1] = "dispatching"]

\* (mutant) the last attempt too is put back in the queue.
AlwaysRescheduled(answer, n) ==
    CASE answer = "published" -> "published"
      [] answer \in {"unknown", "tracked"} -> "unknown"
      [] answer = "manual" -> "manual-required"
      [] answer = "retryable" -> "scheduled"
      [] answer = "final" -> "failed"

\* state(): what an answer to attempt n makes of the command.
StatusFor(answer, n) ==
    CASE answer = "published" -> "published"
      [] answer \in {"unknown", "tracked"} -> "unknown"
      [] answer = "manual" -> "manual-required"
      [] answer = "retryable" -> IF n < Limit THEN "scheduled" ELSE "failed"
      [] answer = "final" -> "failed"

LifeFor(answer, n) ==
    CASE answer = "published" -> "published"
      [] answer = "tracked" -> "processing"
      [] answer \in {"unknown", "manual", "final"} -> "failed"
      [] answer = "retryable" -> IF n < Limit THEN "approved" ELSE "failed"

AttemptFor(answer) == CASE answer = "published" -> "published"
                        [] answer \in {"unknown", "tracked"} -> "unknown"
                        [] answer \in {"manual", "retryable", "final"} -> "failed"

\* (mutant) the lease is checked by its owner alone.
HoldsByOwner(r, w, k) == r.owner = w

\* settle(): the row is written only while the job's attempt is the live one.
Holds(r, w, k) == r.status = "dispatching" /\ r.owner = w /\ r.n = k

Settled(r, answer) ==
    LET status == StatusFor(answer, r.n) IN
    [r EXCEPT !.status = status, !.life = LifeFor(answer, r.n),
              !.owner = None, !.lease = "none",
              !.due = (status # "scheduled"),
              !.att[r.n] = AttemptFor(answer), !.filed = Filed(r, status),
              !.post = IF answer = "published" THEN r.n ELSE @]

\* recordDispatch(): an attempt begun by hand. It takes no lease.
Begun(r) == [r EXCEPT !.status = "dispatching", !.life = "publishing",
                      !.n = r.n + 1, !.att[r.n + 1] = "dispatching"]

\* recordOutcome(): the outcome a person reports; the lease columns stay.
Reconciled(r, outcome, life) ==
    [r EXCEPT !.status = outcome, !.life = life, !.att[r.n] = outcome,
              !.filed = Filed(r, outcome),
              !.post = IF outcome = "published" THEN r.n ELSE @]

Retried(r) == [r EXCEPT !.status = "scheduled", !.life = "approved"]

Cancelled(r) ==
    [r EXCEPT !.status = "cancelled", !.owner = None, !.lease = "none"]

-----------------------------------------------------------------------------
(* PublishingService.schedule: one command per approval, queued at once or *)
(* left to a person when the account cannot publish this content itself.   *)

Schedule(c) ==
    /\ row[c].status = "absent"
    /\ \E status \in {"scheduled", "manual-required"} :
         row' = [row EXCEPT ![c].status = status]
    /\ UNCHANGED <<moved, connected, made, job, call>>

\* A newer version of the asset is approved or written.
MoveOn(c) == /\ c \notin moved
             /\ moved' = moved \cup {c}
             /\ UNCHANGED <<row, connected, made, job, call>>

\* The account asks to be reconnected, or is connected again.
Toggle == /\ connected' = ~connected
          /\ UNCHANGED <<row, moved, made, job, call>>

\* Time: a scheduled time or a retry delay is reached, a lease runs out.
FallDue(c) == /\ row[c].status = "scheduled" /\ ~row[c].due
              /\ row' = [row EXCEPT ![c].due = TRUE]
              /\ UNCHANGED <<moved, connected, made, job, call>>

Lapse(c) == /\ row[c].lease = "live"
            /\ row' = [row EXCEPT ![c].lease = "lapsed"]
            /\ UNCHANGED <<moved, connected, made, job, call>>

-----------------------------------------------------------------------------
(* The worker: claimNext, execute, settle. *)

Sweep(c) == Swept(row[c], c \in moved)

ClaimOne(w, c) ==
    /\ job[w] = None
    /\ connected
    /\ Claimable(Sweep(c))
    /\ row' = [d \in Commands |->
                 IF d = c THEN Claimed(Sweep(c), w) ELSE Sweep(d)]
    /\ job' = [job EXCEPT ![w] =
                 [c |-> c, k |-> row[c].n + 1, answer |-> "pending"]]
    /\ UNCHANGED <<moved, connected, made, call>>

\* (mutant) a claim that finds nothing rolls the sweep back.
ClaimRollsBack(w) ==
    /\ job[w] = None
    /\ ~ \E c \in Commands : connected /\ Claimable(Sweep(c))
    /\ UNCHANGED vars

\* Nothing to claim: what the sweep did is committed all the same.
ClaimNone(w) ==
    /\ job[w] = None
    /\ ~ \E c \in Commands : connected /\ Claimable(Sweep(c))
    /\ row' = [d \in Commands |-> Sweep(d)]
    /\ UNCHANGED <<moved, connected, made, job, call>>

Claim(w) == (\E c \in Commands : ClaimOne(w, c)) \/ ClaimNone(w)

\* The provider is called. Only a refusal leaves surely nothing behind, and
\* only "published" is sure of a post: a 5xx or a lost answer may hide one.
Posted(c, k) == made' = [made EXCEPT ![c] = @ \cup {k}]

Execute(w) ==
    /\ job[w] # None /\ job[w].answer = "pending"
    /\ \E answer \in Answers :
         /\ job' = [job EXCEPT ![w].answer = answer]
         /\ \/ answer # "published" /\ UNCHANGED made
            \/ answer \notin {"final", "manual"} /\ Posted(job[w].c, job[w].k)
    /\ UNCHANGED <<row, moved, connected, call>>

\* A settle that finds its lease gone raises; the job is forgotten either way.
Settle(w) ==
    /\ job[w] # None /\ job[w].answer # "pending"
    /\ LET c == job[w].c IN
       row' = IF Holds(row[c], w, job[w].k)
                THEN [row EXCEPT ![c] = Settled(@, job[w].answer)] ELSE row
    /\ job' = [job EXCEPT ![w] = None]
    /\ UNCHANGED <<moved, connected, made, call>>

\* The process dies or the tick throws: the job is gone, the lease is not. The
\* provider may already have been called.
Crash(w) ==
    /\ job[w] # None
    /\ job' = [job EXCEPT ![w] = None]
    /\ \/ UNCHANGED made
       \/ job[w].answer = "pending" /\ Posted(job[w].c, job[w].k)
    /\ UNCHANGED <<row, moved, connected, call>>

-----------------------------------------------------------------------------
(* The console: a call reads the command and decides, and writes later. *)

\* (mutant) a hand-begun attempt is not counted against the limit.
AllowedBeyond(op, r) ==
    CASE op = "begin" -> r.status \in {"scheduled", "failed"}
      [] op = "reconcile" -> r.status # "absent"
      [] op = "retry" -> r.status = "failed" /\ r.n < Limit
      [] op = "cancel" -> r.status \in {"scheduled", "manual-required"}

\* (mutant) a retry looks at the attempts only.
AllowedInDoubt(op, r) ==
    CASE op = "begin" -> r.status \in {"scheduled", "failed"} /\ r.n < Limit
      [] op = "reconcile" -> r.status # "absent"
      [] op = "retry" -> r.status \in {"failed", "unknown"} /\ r.n < Limit
      [] op = "cancel" -> r.status \in {"scheduled", "manual-required"}

\* The domain functions' guards on the command that was read.
Allowed(op, r) ==
    CASE op = "begin" -> r.status \in {"scheduled", "failed"} /\ r.n < Limit
      [] op = "reconcile" -> r.status # "absent"
      [] op = "retry" -> r.status = "failed" /\ r.n < Limit
      [] op = "cancel" -> r.status \in {"scheduled", "manual-required"}

\* A call keeps what its write will use of the row it read.
Read(o, op, c) ==
    /\ call[o] = None
    /\ Allowed(op, row[c])
    /\ call' = [call EXCEPT ![o] =
                  [op |-> op, c |-> c, k |-> 0,
                   n |-> IF op = "cancel" THEN 0 ELSE row[c].n,
                   life |-> IF op = "reconcile" THEN row[c].life
                            ELSE "approved"]]
    /\ UNCHANGED <<row, moved, connected, made, job>>

\* reconcile reads the latest attempt in a second query and refuses one that
\* does not follow the command it read, or that is published.
ReadAttempt(o) ==
    /\ call[o] # None /\ call[o].op = "reconcile" /\ call[o].k = 0
    /\ LET r == row[call[o].c] IN
       call' = [call EXCEPT ![o] =
                 IF /\ r.n > 0 /\ r.n \in {call[o].n, call[o].n + 1}
                    /\ r.att[r.n] # "published"
                   THEN [@ EXCEPT !.k = r.n] ELSE None]
    /\ UNCHANGED <<row, moved, connected, made, job>>

Returns(o) == /\ call' = [call EXCEPT ![o] = None]
              /\ UNCHANGED <<moved, connected, made, job>>

\* (mutant) the outcome is recorded on whatever the command is now.
AnyOutcome(r, k) == r.n = k /\ r.att[k] # "published"

\* The where clauses of the four writes; a row that does not match raises a
\* conflict and nothing is written.
StillDispatchable(r, n) == r.n = n /\ r.status \in {"scheduled", "failed"}
StillRetryable(r, n) == r.n = n /\ r.status \in {"failed", "unknown"}
StillCancellable(r) == r.status \in {"scheduled", "manual-required"}
StillLive(r, k) ==
    r.n = k /\ r.status = "dispatching" /\ r.att[k] = "dispatching"

Begin(o) ==
    /\ call[o] # None /\ call[o].op = "begin"
    /\ row' = IF StillDispatchable(row[call[o].c], call[o].n)
                THEN [row EXCEPT ![call[o].c] = Begun(@)] ELSE row
    /\ Returns(o)

Retry(o) ==
    /\ call[o] # None /\ call[o].op = "retry"
    /\ row' = IF StillRetryable(row[call[o].c], call[o].n)
                THEN [row EXCEPT ![call[o].c] = Retried(@)] ELSE row
    /\ Returns(o)

Cancel(o) ==
    /\ call[o] # None /\ call[o].op = "cancel"
    /\ row' = IF StillCancellable(row[call[o].c])
                THEN [row EXCEPT ![call[o].c] = Cancelled(@)] ELSE row
    /\ Returns(o)

Outcomes == {"published", "failed", "unknown"}

\* People report what they see at the provider: a post they can name, or none.
Reports(c, k) == {"unknown"} \cup
                 (IF k \in made[c] THEN {"published"} ELSE {"failed"})

\* applyPublishAttempt: an unknown outcome keeps the life that was read.
LifeOf(outcome, life) == IF outcome = "unknown" THEN life ELSE outcome

\* The body names no post for "published", or its texts are too long.
RefuseReport(o) ==
    /\ call[o] # None /\ call[o].op = "reconcile" /\ call[o].k > 0
    /\ row' = row
    /\ Returns(o)

Reconcile(o, outcome) ==
    /\ call[o] # None /\ call[o].op = "reconcile" /\ call[o].k > 0
    /\ LET c == call[o].c  k == call[o].k IN
       /\ outcome \in Reports(c, k)
       /\ row' = IF StillLive(row[c], k)
                   THEN [row EXCEPT ![c] =
                          Reconciled(@, outcome, LifeOf(outcome, call[o].life))]
                   ELSE row
    /\ Returns(o)

\* Operations: a safe retry of the failure of attempt k pulls the scheduled
\* retry forward, in the transaction that records the request.
SafeRetry(c, k) ==
    /\ row[c].filed[k] = "safe" /\ k < Limit
    /\ row[c].status = "scheduled" /\ row[c].n = k
    /\ row' = [row EXCEPT ![c].due = TRUE]
    /\ UNCHANGED <<moved, connected, made, job, call>>

-----------------------------------------------------------------------------
Console == \E o \in Callers :
              \/ \E op \in Ops, c \in Commands : Read(o, op, c)
              \/ ReadAttempt(o) \/ Begin(o) \/ Retry(o) \/ Cancel(o)
              \/ (\E outcome \in Outcomes : Reconcile(o, outcome)) \/ RefuseReport(o)

Environment == \/ \E c \in Commands : \/ Schedule(c) \/ MoveOn(c)
                                      \/ FallDue(c) \/ Lapse(c)
                                      \/ \E k \in Attempts : SafeRetry(c, k)
               \/ Toggle

Next == \/ \E w \in Workers : Claim(w) \/ Execute(w) \/ Settle(w) \/ Crash(w)
        \/ Console
        \/ Environment

Spec == Init /\ [][Next]_vars

\* The tick of a worker process is rescheduled for ever and time goes on;
\* nobody has to call the console, connect an account or stay alive.
Fairness == /\ \A w \in Workers : WF_vars(Claim(w)) /\ WF_vars(Execute(w))
                                  /\ WF_vars(Settle(w))
            /\ \A c \in Commands : WF_vars(FallDue(c)) /\ WF_vars(Lapse(c))

FairSpec == Spec /\ Fairness

\* Nobody has to reconcile; here is somebody who does not give up: calls go
\* on, each command is read for it again and again, and what the person ends up
\* reporting is what came of the attempt.
Answered(o) == ReadAttempt(o) \/ Begin(o) \/ Retry(o) \/ Cancel(o)

Insistence ==
    \A o \in Callers :
      /\ WF_vars(Answered(o))
      /\ \A c \in Commands : SF_vars(Read(o, "reconcile", c))
      /\ SF_vars(\E outcome \in {"published", "failed"} : Reconcile(o, outcome))

InsistentSpec == FairSpec /\ Insistence

-----------------------------------------------------------------------------
\* What the rows mean to the abstract promise.
PhaseOf(r) == CASE r.status \in {"absent", "scheduled", "failed",
                                 "manual-required"} -> "waiting"
                [] r.status = "dispatching" -> "trying"
                [] r.status = "published" -> "posted"
                [] r.status = "unknown" -> "doubt"
                [] r.status = "cancelled" -> "closed"

Promise == INSTANCE PublishPromise WITH
             phase <- [c \in Commands |-> PhaseOf(row[c])],
             tries <- [c \in Commands |-> row[c].n],
             made <- made

(* The lifecycle keeps the promise of PublishPromise: at most Limit tries,   *)
(* none after a post or a doubt, and "posted" only of the try that posted.   *)
KeepsPromise == Promise!Spec

(* Types of the state: every row, job and call is one the code can write. *)
TypeOK == /\ row \in [Commands -> Rows]
          /\ moved \subseteq Commands
          /\ connected \in BOOLEAN
          /\ made \in [Commands -> SUBSET Attempts]
          /\ job \in [Workers -> Jobs \cup {None}]
          /\ call \in [Callers -> Calls \cup {None}]

\* A command with an attempt in flight has exactly one, its latest.
OneLive(r) == \A k \in Attempts :
                 (r.att[k] = "dispatching") <=> (r.status = "dispatching" /\ k = r.n)

\* Attempts are numbered without gaps, and one follows another only when the
\* earlier one was answered as a failure.
OnlyFailuresRepeat(r) ==
    \A k \in Attempts : /\ (k > r.n) <=> (r.att[k] = "none")
                        /\ k < r.n => r.att[k] = "failed"

(* An attempt whose outcome is unknown, or which published, is the command's *)
(* last: no claim, hand-begun attempt, retry or late settle, in any order,   *)
(* starts another. It is what keeps a lost answer from being posted twice.   *)
DoubtStops == \A c \in Commands : OneLive(row[c]) /\ OnlyFailuresRepeat(row[c])

(* A published_posts row stands for a post that exists, made by the          *)
(* command's last attempt, and a command says "published" exactly then, in   *)
(* its status and in the life its page shows.                                *)
PublishedIsReal == \A c \in Commands :
    LET r == row[c] IN
    /\ r.status = "published" <=> r.post > 0
    /\ r.status = "published" <=> r.life = "published"
    /\ r.post > 0 => r.post = r.n /\ r.att[r.n] = "published" /\ r.n \in made[c]

(* Every attempt that ended without a post is filed once with operations,    *)
(* and none that is in flight or published is; only a failed attempt that    *)
(* left another to take is offered as safe to retry.                         *)
FailuresFiled == \A c \in Commands, k \in Attempts :
    /\ row[c].filed[k] # "none" <=> row[c].att[k] \in {"failed", "unknown"}
    /\ row[c].filed[k] = "safe" => row[c].att[k] = "failed" /\ k < Limit

(* A queued command can still be claimed: a retry is never scheduled for a   *)
(* command that has used up its attempts, where no claim would pick it up.   *)
QueuedHasTries == \A c \in Commands :
                     row[c].status = "scheduled" => row[c].n < Limit

(* Settled outcomes stand: a late settle, a stale call or a sweep never      *)
(* changes a command that is published, unknown or cancelled.                *)
Closed == {"published", "unknown", "cancelled"}
SettledStands == [][\A c \in Commands :
                      row[c].status \in Closed => row'[c].status = row[c].status]_vars

(* A leased attempt ends, whatever happens to the worker that holds it.      *)
LeaseEnds == \A c \in Commands :
    (row[c].status = "dispatching" /\ row[c].lease # "none") ~>
    (row[c].status # "dispatching")

(* A due command is taken up as long as its account stays connected.         *)
DueServed == \A c \in Commands :
    (row[c].status = "scheduled" /\ row[c].due) ~>
    (row[c].status # "scheduled" \/ ~connected)

(* retryPublishCommand and the operations summary say an unknown outcome     *)
(* "requires reconciliation": when a person keeps calling reconcile and      *)
(* reports what came of the attempt, the command leaves "unknown". The call  *)
(* is the service's only one for such a command, and its last statement,     *)
(* recordOutcome, is what refuses it.                                        *)
UnknownReconciled == \A c \in Commands :
    (row[c].status = "unknown") ~> (row[c].status # "unknown")
=============================================================================
