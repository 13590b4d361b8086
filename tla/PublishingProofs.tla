--------------------------- MODULE PublishingProofs ---------------------------
(***************************************************************************)
(* The safety of the publish-command lifecycle, for any number of          *)
(* commands, worker processes and callers. One inductive invariant, row by *)
(* row: what a row says of its attempts, failures and post, and what the   *)
(* jobs and calls in flight still know of their row.                       *)
(***************************************************************************)
EXTENDS Publishing, TLAPS

\* The attempts of a row that waits for a further one all failed.
Waits(r) ==
    /\ r.status \in {"scheduled", "failed", "cancelled", "manual-required"}
    /\ r.n > 0
    => r.att[r.n] = "failed"

RowInv(r, m) ==
    /\ r \in Rows
    /\ m \subseteq 1..r.n
    /\ OneLive(r) /\ OnlyFailuresRepeat(r) /\ Waits(r)
    /\ r.status = "absent" => r.n = 0
    /\ r.status = "failed" => r.n > 0
    /\ r.status = "dispatching" => r.n > 0
    /\ r.status = "scheduled" => r.n < Limit
    /\ r.status = "unknown" => r.n > 0 /\ r.att[r.n] = "unknown"
    /\ r.status = "published" <=> r.post > 0
    /\ r.status = "published" <=> r.life = "published"
    /\ r.post > 0 => r.post = r.n /\ r.att[r.n] = "published" /\ r.n \in m
    /\ \A k \in Attempts :
         /\ r.filed[k] # "none" <=> r.att[k] \in {"failed", "unknown"}
         /\ r.filed[k] = "safe" => r.att[k] = "failed" /\ k < Limit

JobInv(j, r, m) == /\ j \in Jobs
                   /\ j.k <= r.n
                   /\ j.answer = "published" => j.k \in m

CallInv(x, r) == /\ x \in Calls
                 /\ x.n <= r.n /\ x.k <= r.n
                 /\ x.op = "retry" => x.n > 0 /\ x.n < Limit /\ r.att[x.n] = "failed"
                 /\ x.op = "begin" => x.n < Limit
                 /\ x.life = "published" => r.status = "published"

Inv == /\ row \in [Commands -> Rows]
       /\ moved \subseteq Commands
       /\ connected \in BOOLEAN
       /\ made \in [Commands -> SUBSET Attempts]
       /\ job \in [Workers -> Jobs \cup {None}]
       /\ call \in [Callers -> Calls \cup {None}]
       /\ \A c \in Commands : RowInv(row[c], made[c])
       /\ \A w \in Workers : job[w] # None =>
            JobInv(job[w], row[job[w].c], made[job[w].c])
       /\ \A o \in Callers : call[o] # None => CallInv(call[o], row[call[o].c])

\* What no statement takes back.
Follows(r, s) == /\ s.n >= r.n
                 /\ r.status \in Closed => s.status = r.status
                 /\ \A k \in Attempts : r.att[k] = "failed" => s.att[k] = "failed"

\* How one statement moves a command in the abstract promise.
Moves(r, s, m) ==
    \/ PhaseOf(r) = "waiting" /\ PhaseOf(s) = "trying" /\ r.n < Limit /\ s.n = r.n + 1
    \/ /\ PhaseOf(r) = "trying" /\ PhaseOf(s) \in {"waiting", "posted", "doubt"}
       /\ s.n = r.n /\ (PhaseOf(s) = "posted" => r.n \in m)
    \/ PhaseOf(r) = "waiting" /\ PhaseOf(s) = "closed" /\ s.n = r.n
    \/ PhaseOf(r) = PhaseOf(s) /\ s.n = r.n

Good(r, s, m) == RowInv(s, m) /\ Follows(r, s) /\ Moves(r, s, m)

-----------------------------------------------------------------------------
(* One lemma for each statement: it keeps the row, takes nothing back and  *)
(* is a move of the promise.                                               *)

LEMMA SameRow == ASSUME NEW r, NEW m, RowInv(r, m) PROVE Good(r, r, m)
  BY DEF Good, Follows, Moves, RowInv, Rows, PhaseOf, Statuses

LEMMA ExpiredRow ==
  ASSUME NEW r, NEW m, RowInv(r, m), Expired(r)
  PROVE Good(r, Expire(r), m)
<1> DEFINE s == Expire(r)
<1>1. /\ r \in Rows /\ r.n \in 1..Limit /\ r.filed[r.n] = "none" /\ r.post = 0
      /\ r.att[r.n] = "dispatching" /\ r.life # "published"
      /\ r.status = "dispatching"
  BY DEF Expired, RowInv, Rows, OneLive, OnlyFailuresRepeat, Waits, Limit,
     Attempts
<1>2. /\ s.status = "unknown" /\ s.life = r.life
      /\ s.n = r.n /\ s.post = r.post
      /\ s.att = [r.att EXCEPT ![r.n] = "unknown"]
      /\ s.filed = [r.filed EXCEPT ![r.n] = "manual-review"]
  BY <1>1 DEF Expire, Expired, Filed, Disposition, Rows
<1>3. s \in Rows
  BY <1>1, <1>2 DEF Expire, Expired, Filed, Disposition, Rows, Statuses, Lives, AttemptStatuses,
     Dispositions, Leases, Limit, Attempts
<1>4. RowInv(s, m)
  <2>1. /\ m \subseteq 1..s.n /\ OneLive(s) /\ OnlyFailuresRepeat(s) /\ Waits(s)
    BY <1>1, <1>2 DEF RowInv, Rows, OneLive, OnlyFailuresRepeat, Waits, Limit, Attempts
  <2>2. \A k \in Attempts :
         /\ s.filed[k] # "none" <=> s.att[k] \in {"failed", "unknown"}
         /\ s.filed[k] = "safe" => s.att[k] = "failed" /\ k < Limit
    BY <1>1, <1>2 DEF RowInv, Rows, OneLive, OnlyFailuresRepeat, Limit, Attempts
  <2>3. /\ s.status = "absent" => s.n = 0
        /\ s.status \in {"failed", "dispatching", "unknown"} => s.n > 0
        /\ s.status = "scheduled" => s.n < Limit
        /\ s.status = "unknown" => s.att[s.n] = "unknown"
        /\ s.status = "published" <=> s.post > 0
        /\ s.status = "published" <=> s.life = "published"
        /\ s.post > 0 => s.post = s.n /\ s.att[s.n] = "published" /\ s.n \in m
    BY <1>1, <1>2 DEF RowInv, Rows, Limit, Attempts
  <2> QED BY <1>3, <2>1, <2>2, <2>3 DEF RowInv
<1>5. Follows(r, s) /\ Moves(r, s, m)
  BY <1>1, <1>2 DEF RowInv, Rows, Follows, Moves, PhaseOf, Closed, OneLive,
     OnlyFailuresRepeat, Limit, Attempts
<1> QED BY <1>4, <1>5 DEF Good

LEMMA ExpireRow == ASSUME NEW r, NEW m, RowInv(r, m) PROVE Good(r, Expire(r), m)
<1>1. CASE ~Expired(r)
  BY <1>1, SameRow DEF Expire
<1>2. CASE Expired(r)
  BY <1>2, ExpiredRow
<1> QED BY <1>1, <1>2

LEMMA CancelledRow ==
  ASSUME NEW r, NEW m, RowInv(r, m), StillCancellable(r)
  PROVE Good(r, Cancelled(r), m)
<1> DEFINE s == Cancelled(r)
<1>1. r \in Rows /\ r.status \in {"scheduled", "manual-required"}
  BY DEF RowInv, StillCancellable
<1>2. /\ s.status = "cancelled" /\ s.life = r.life
      /\ s.n = r.n /\ s.post = r.post
      /\ s.att = r.att
      /\ s.filed = r.filed
  BY <1>1 DEF Cancelled, Rows
<1>3. s \in Rows
  BY <1>1, <1>2 DEF Cancelled, Rows, Statuses, Lives, AttemptStatuses,
     Dispositions, Leases, Limit, Attempts
<1>4. RowInv(s, m)
  <2>1. /\ m \subseteq 1..s.n /\ OneLive(s) /\ OnlyFailuresRepeat(s) /\ Waits(s)
    BY <1>1, <1>2 DEF RowInv, Rows, OneLive, OnlyFailuresRepeat, Waits, Limit, Attempts
  <2>2. \A k \in Attempts :
         /\ s.filed[k] # "none" <=> s.att[k] \in {"failed", "unknown"}
         /\ s.filed[k] = "safe" => s.att[k] = "failed" /\ k < Limit
    BY <1>1, <1>2 DEF RowInv, Rows, OneLive, OnlyFailuresRepeat, Limit, Attempts
  <2>3. /\ s.status = "absent" => s.n = 0
        /\ s.status \in {"failed", "dispatching", "unknown"} => s.n > 0
        /\ s.status = "scheduled" => s.n < Limit
        /\ s.status = "unknown" => s.att[s.n] = "unknown"
        /\ s.status = "published" <=> s.post > 0
        /\ s.status = "published" <=> s.life = "published"
        /\ s.post > 0 => s.post = s.n /\ s.att[s.n] = "published" /\ s.n \in m
    BY <1>1, <1>2 DEF RowInv, Rows, Limit, Attempts
  <2> QED BY <1>3, <2>1, <2>2, <2>3 DEF RowInv
<1>5. Follows(r, s) /\ Moves(r, s, m)
  BY <1>1, <1>2 DEF RowInv, Rows, Follows, Moves, PhaseOf, Closed, OneLive,
     OnlyFailuresRepeat, Limit, Attempts
<1> QED BY <1>4, <1>5 DEF Good

LEMMA DroppedRow ==
  ASSUME NEW r, NEW m, RowInv(r, m), r.status = "scheduled", r.due
  PROVE Good(r, DropMoved(r, TRUE), m)
<1> DEFINE s == DropMoved(r, TRUE)
<1>1. r \in Rows /\ r.status = "scheduled"
  BY DEF RowInv, Rows, OneLive, OnlyFailuresRepeat, Waits, Limit, Attempts
<1>2. /\ s.status = "cancelled" /\ s.life = r.life
      /\ s.n = r.n /\ s.post = r.post
      /\ s.att = r.att
      /\ s.filed = r.filed
  BY <1>1 DEF DropMoved, Rows
<1>3. s \in Rows
  BY <1>1, <1>2 DEF DropMoved, Rows, Statuses, Lives, AttemptStatuses,
     Dispositions, Leases, Limit, Attempts
<1> HIDE DEF s
<1>4. RowInv(s, m)
  <2>1. /\ m \subseteq 1..s.n /\ OneLive(s) /\ OnlyFailuresRepeat(s) /\ Waits(s)
    BY <1>1, <1>2 DEF RowInv, Rows, OneLive, OnlyFailuresRepeat, Waits, Limit, Attempts
  <2>2. \A k \in Attempts :
         /\ s.filed[k] # "none" <=> s.att[k] \in {"failed", "unknown"}
         /\ s.filed[k] = "safe" => s.att[k] = "failed" /\ k < Limit
    BY <1>1, <1>2 DEF RowInv, Rows, OneLive, OnlyFailuresRepeat, Limit, Attempts
  <2>3. /\ s.status = "absent" => s.n = 0
        /\ s.status \in {"failed", "dispatching", "unknown"} => s.n > 0
        /\ s.status = "scheduled" => s.n < Limit
        /\ s.status = "unknown" => s.att[s.n] = "unknown"
        /\ s.status = "published" <=> s.post > 0
        /\ s.status = "published" <=> s.life = "published"
        /\ s.post > 0 => s.post = s.n /\ s.att[s.n] = "published" /\ s.n \in m
    BY <1>1, <1>2 DEF RowInv, Rows, Limit, Attempts
  <2> QED BY <1>3, <2>1, <2>2, <2>3 DEF RowInv
<1>5. Follows(r, s) /\ Moves(r, s, m)
  BY <1>1, <1>2 DEF RowInv, Rows, Follows, Moves, PhaseOf, Closed, OneLive,
     OnlyFailuresRepeat, Limit, Attempts
<1> QED BY <1>4, <1>5 DEF Good, s

LEMMA DropRow ==
  ASSUME NEW r, NEW m, NEW b \in BOOLEAN, RowInv(r, m)
  PROVE Good(r, DropMoved(r, b), m)
<1>1. CASE ~(r.status = "scheduled" /\ r.due /\ b)
  BY <1>1, SameRow DEF DropMoved
<1>2. CASE r.status = "scheduled" /\ r.due /\ b
  BY <1>2, DroppedRow
<1> QED BY <1>1, <1>2

LEMMA ClaimedRow ==
  ASSUME NEW r, NEW m, NEW w \in Workers, RowInv(r, m),
         r.status = "scheduled"
  PROVE Good(r, Claimed(r, w), m)
<1> DEFINE s == Claimed(r, w)
<1>1. /\ r \in Rows /\ r.n \in 0..Limit /\ r.n + 1 \in Attempts /\ r.post = 0
      /\ r.filed[r.n + 1] = "none" /\ r.att[r.n + 1] = "none"
      /\ r.n > 0 => r.att[r.n] = "failed"
  BY DEF RowInv, Rows, OneLive, OnlyFailuresRepeat, Waits, Limit, Attempts
<1>2. /\ s.status = "dispatching" /\ s.life = "publishing"
      /\ s.n = r.n + 1 /\ s.post = r.post
      /\ s.att = [r.att EXCEPT ![r.n + 1] = "dispatching"]
      /\ s.filed = r.filed
  BY <1>1 DEF Claimed, Rows
<1>3. s \in Rows
  <2>1. s.att \in [Attempts -> AttemptStatuses]
    BY <1>1, <1>2 DEF Rows, AttemptStatuses
  <2>2. s.n \in 0..Limit
    BY <1>1, <1>2 DEF Limit, Attempts
  <2> QED BY <1>1, <1>2, <2>1, <2>2 DEF Claimed, Rows, Statuses, Lives, Leases
<1>4. RowInv(s, m)
  <2>1. /\ m \subseteq 1..s.n /\ OneLive(s) /\ OnlyFailuresRepeat(s) /\ Waits(s)
    BY <1>1, <1>2 DEF RowInv, Rows, OneLive, OnlyFailuresRepeat, Waits, Limit, Attempts
  <2>2. \A k \in Attempts :
         /\ s.filed[k] # "none" <=> s.att[k] \in {"failed", "unknown"}
         /\ s.filed[k] = "safe" => s.att[k] = "failed" /\ k < Limit
    BY <1>1, <1>2 DEF RowInv, Rows, OneLive, OnlyFailuresRepeat, Limit, Attempts
  <2>3. /\ s.status = "absent" => s.n = 0
        /\ s.status \in {"failed", "dispatching", "unknown"} => s.n > 0
        /\ s.status = "scheduled" => s.n < Limit
        /\ s.status = "unknown" => s.att[s.n] = "unknown"
        /\ s.status = "published" <=> s.post > 0
        /\ s.status = "published" <=> s.life = "published"
        /\ s.post > 0 => s.post = s.n /\ s.att[s.n] = "published" /\ s.n \in m
    BY <1>1, <1>2 DEF RowInv, Rows, Limit, Attempts
  <2> QED BY <1>3, <2>1, <2>2, <2>3 DEF RowInv
<1>5. Follows(r, s) /\ Moves(r, s, m)
  BY <1>1, <1>2 DEF RowInv, Rows, Follows, Moves, PhaseOf, Closed, OneLive,
     OnlyFailuresRepeat, Limit, Attempts
<1> QED BY <1>4, <1>5 DEF Good

LEMMA BegunRow ==
  ASSUME NEW r, NEW m, RowInv(r, m), r.status \in {"scheduled", "failed"},
         r.n < Limit
  PROVE Good(r, Begun(r), m)
<1> DEFINE s == Begun(r)
<1>1. /\ r \in Rows /\ r.n \in 0..Limit /\ r.n + 1 \in Attempts /\ r.post = 0
      /\ r.filed[r.n + 1] = "none" /\ r.att[r.n + 1] = "none"
      /\ r.n > 0 => r.att[r.n] = "failed"
  BY DEF RowInv, Rows, OneLive, OnlyFailuresRepeat, Waits, Limit, Attempts
<1>2. /\ s.status = "dispatching" /\ s.life = "publishing"
      /\ s.n = r.n + 1 /\ s.post = r.post
      /\ s.att = [r.att EXCEPT ![r.n + 1] = "dispatching"]
      /\ s.filed = r.filed
  BY <1>1 DEF Begun, Rows
<1>3. s \in Rows
  <2>1. s.att \in [Attempts -> AttemptStatuses]
    BY <1>1, <1>2 DEF Rows, AttemptStatuses
  <2>2. s.n \in 0..Limit
    BY <1>1, <1>2 DEF Limit, Attempts
  <2> QED BY <1>1, <1>2, <2>1, <2>2 DEF Begun, Rows, Statuses, Lives, Leases
<1>4. RowInv(s, m)
  <2>1. /\ m \subseteq 1..s.n /\ OneLive(s) /\ OnlyFailuresRepeat(s) /\ Waits(s)
    BY <1>1, <1>2 DEF RowInv, Rows, OneLive, OnlyFailuresRepeat, Waits, Limit, Attempts
  <2>2. \A k \in Attempts :
         /\ s.filed[k] # "none" <=> s.att[k] \in {"failed", "unknown"}
         /\ s.filed[k] = "safe" => s.att[k] = "failed" /\ k < Limit
    BY <1>1, <1>2 DEF RowInv, Rows, OneLive, OnlyFailuresRepeat, Limit, Attempts
  <2>3. /\ s.status = "absent" => s.n = 0
        /\ s.status \in {"failed", "dispatching", "unknown"} => s.n > 0
        /\ s.status = "scheduled" => s.n < Limit
        /\ s.status = "unknown" => s.att[s.n] = "unknown"
        /\ s.status = "published" <=> s.post > 0
        /\ s.status = "published" <=> s.life = "published"
        /\ s.post > 0 => s.post = s.n /\ s.att[s.n] = "published" /\ s.n \in m
    BY <1>1, <1>2 DEF RowInv, Rows, Limit, Attempts
  <2> QED BY <1>3, <2>1, <2>2, <2>3 DEF RowInv
<1>5. Follows(r, s) /\ Moves(r, s, m)
  BY <1>1, <1>2 DEF RowInv, Rows, Follows, Moves, PhaseOf, Closed, OneLive,
     OnlyFailuresRepeat, Limit, Attempts
<1> QED BY <1>4, <1>5 DEF Good

LEMMA SettledRow ==
  ASSUME NEW r, NEW m, NEW answer \in Answers, RowInv(r, m),
         r.status = "dispatching", answer = "published" => r.n \in m
  PROVE Good(r, Settled(r, answer), m)
<1> DEFINE s == Settled(r, answer)
           status == StatusFor(answer, r.n)
<1>1. /\ r.n \in 1..Limit /\ r \in Rows
      /\ r.att[r.n] = "dispatching" /\ r.filed[r.n] = "none" /\ r.post = 0
  BY DEF RowInv, Rows, OneLive, Limit, Attempts
<1>2. /\ s.status = status /\ s.life = LifeFor(answer, r.n)
      /\ s.n = r.n /\ s.post = (IF answer = "published" THEN r.n ELSE r.post)
      /\ s.att = [r.att EXCEPT ![r.n] = AttemptFor(answer)]
      /\ s.filed = [r.filed EXCEPT ![r.n] = Disposition(status)]
      /\ s.owner = None /\ s.lease = "none" /\ s.due = (status # "scheduled")
  BY <1>1 DEF Settled, Filed, Rows
<1>3. s \in Rows
  <2>1. /\ status \in Statuses /\ LifeFor(answer, r.n) \in Lives
        /\ AttemptFor(answer) \in AttemptStatuses
        /\ Disposition(status) \in Dispositions
    BY <1>1 DEF StatusFor, LifeFor, AttemptFor, Disposition, Answers, Statuses,
       Lives, AttemptStatuses, Dispositions
  <2>2. /\ s.att \in [Attempts -> AttemptStatuses]
        /\ s.filed \in [Attempts -> Dispositions]
    BY <1>1, <1>2, <2>1 DEF Rows
  <2> HIDE DEF status
  <2> QED BY <1>1, <1>2, <2>1, <2>2 DEF Settled, Rows, Leases, Limit
<1>4. RowInv(s, m)
  <2>1. /\ m \subseteq 1..s.n /\ OneLive(s) /\ OnlyFailuresRepeat(s) /\ Waits(s)
    BY <1>1, <1>2 DEF RowInv, Rows, OneLive, OnlyFailuresRepeat, Waits, StatusFor,
       AttemptFor, Answers, Limit, Attempts
  <2>2. \A k \in Attempts :
         /\ s.filed[k] # "none" <=> s.att[k] \in {"failed", "unknown"}
         /\ s.filed[k] = "safe" => s.att[k] = "failed" /\ k < Limit
    BY <1>1, <1>2 DEF RowInv, Rows, StatusFor, AttemptFor, Disposition, Answers,
       Limit, Attempts
  <2>3. /\ s.status \notin {"absent", "dispatching"}
        /\ s.n > 0
        /\ s.status = "scheduled" => s.n < Limit
        /\ s.status = "unknown" => s.att[s.n] = "unknown"
        /\ s.status = "published" <=> s.post > 0
        /\ s.status = "published" <=> s.life = "published"
        /\ s.post > 0 => s.post = s.n /\ s.att[s.n] = "published" /\ s.n \in m
    BY <1>1, <1>2 DEF RowInv, Rows, StatusFor, LifeFor, AttemptFor, Answers,
       Limit, Attempts
  <2> QED BY <1>3, <2>1, <2>2, <2>3 DEF RowInv
<1>5. Follows(r, s) /\ Moves(r, s, m)
  BY <1>1, <1>2 DEF Follows, Moves, PhaseOf, Closed, StatusFor, Answers, Rows,
     Limit, Attempts
<1> QED BY <1>4, <1>5 DEF Good

LEMMA ReconciledRow ==
  ASSUME NEW r, NEW m, NEW outcome \in {"published", "failed", "unknown"},
         NEW life \in Lives, RowInv(r, m), r.status = "dispatching",
         outcome = "published" => r.n \in m, life # "published"
  PROVE Good(r, Reconciled(r, outcome, LifeOf(outcome, life)), m)
<1> DEFINE s == Reconciled(r, outcome, LifeOf(outcome, life))
<1>1. /\ r \in Rows /\ r.n \in 1..Limit /\ r.filed[r.n] = "none" /\ r.post = 0
      /\ r.att[r.n] = "dispatching" /\ r.life # "published"
  BY DEF RowInv, Rows, OneLive, OnlyFailuresRepeat, Waits, Limit, Attempts
<1>2. /\ s.status = outcome /\ s.life = LifeOf(outcome, life)
      /\ s.n = r.n /\ s.post = (IF outcome = "published" THEN r.n ELSE r.post)
      /\ s.att = [r.att EXCEPT ![r.n] = outcome]
      /\ s.filed = [r.filed EXCEPT ![r.n] = Disposition(outcome)]
  BY <1>1 DEF Reconciled, Filed, Rows
<1>3. s \in Rows
  BY <1>1, <1>2 DEF Reconciled, Filed, LifeOf, Disposition, Rows, Statuses, Lives,
     AttemptStatuses, Dispositions, Leases, Limit, Attempts
<1>4. RowInv(s, m)
  <2>1. /\ m \subseteq 1..s.n /\ OneLive(s) /\ OnlyFailuresRepeat(s) /\ Waits(s)
    BY <1>1, <1>2 DEF RowInv, Rows, OneLive, OnlyFailuresRepeat, Waits, Limit, Attempts
  <2>2. \A k \in Attempts :
         /\ s.filed[k] # "none" <=> s.att[k] \in {"failed", "unknown"}
         /\ s.filed[k] = "safe" => s.att[k] = "failed" /\ k < Limit
    BY <1>1, <1>2 DEF RowInv, Rows, Disposition, OneLive, OnlyFailuresRepeat, Limit,
       Attempts
  <2>3. /\ s.status = "absent" => s.n = 0
        /\ s.status \in {"failed", "dispatching", "unknown"} => s.n > 0
        /\ s.status = "scheduled" => s.n < Limit
        /\ s.status = "unknown" => s.att[s.n] = "unknown"
        /\ s.status = "published" <=> s.post > 0
        /\ s.status = "published" <=> s.life = "published"
        /\ s.post > 0 => s.post = s.n /\ s.att[s.n] = "published" /\ s.n \in m
    BY <1>1, <1>2 DEF RowInv, Rows, LifeOf, Limit, Attempts
  <2> QED BY <1>3, <2>1, <2>2, <2>3 DEF RowInv
<1>5. Follows(r, s) /\ Moves(r, s, m)
  BY <1>1, <1>2 DEF RowInv, Rows, Follows, Moves, PhaseOf, Closed, OneLive,
     OnlyFailuresRepeat, Limit, Attempts
<1> QED BY <1>4, <1>5 DEF Good

LEMMA RetriedRow ==
  ASSUME NEW r, NEW m, RowInv(r, m), r.status \in {"failed", "unknown"},
         r.n < Limit, r.att[r.n] = "failed"
  PROVE Good(r, Retried(r), m)
<1> DEFINE s == Retried(r)
<1>1. r \in Rows /\ r.status = "failed"
  BY DEF RowInv, Rows, OneLive, OnlyFailuresRepeat, Waits, Limit, Attempts
<1>2. /\ s.status = "scheduled" /\ s.life = "approved"
      /\ s.n = r.n /\ s.post = r.post
      /\ s.att = r.att
      /\ s.filed = r.filed
  BY <1>1 DEF Retried, Rows
<1>3. s \in Rows
  BY <1>1, <1>2 DEF Retried, Rows, Statuses, Lives, AttemptStatuses,
     Dispositions, Leases, Limit, Attempts
<1>4. RowInv(s, m)
  <2>1. /\ m \subseteq 1..s.n /\ OneLive(s) /\ OnlyFailuresRepeat(s) /\ Waits(s)
    BY <1>1, <1>2 DEF RowInv, Rows, OneLive, OnlyFailuresRepeat, Waits, Limit, Attempts
  <2>2. \A k \in Attempts :
         /\ s.filed[k] # "none" <=> s.att[k] \in {"failed", "unknown"}
         /\ s.filed[k] = "safe" => s.att[k] = "failed" /\ k < Limit
    BY <1>1, <1>2 DEF RowInv, Rows, OneLive, OnlyFailuresRepeat, Limit, Attempts
  <2>3. /\ s.status = "absent" => s.n = 0
        /\ s.status \in {"failed", "dispatching", "unknown"} => s.n > 0
        /\ s.status = "scheduled" => s.n < Limit
        /\ s.status = "unknown" => s.att[s.n] = "unknown"
        /\ s.status = "published" <=> s.post > 0
        /\ s.status = "published" <=> s.life = "published"
        /\ s.post > 0 => s.post = s.n /\ s.att[s.n] = "published" /\ s.n \in m
    BY <1>1, <1>2 DEF RowInv, Rows, Limit, Attempts
  <2> QED BY <1>3, <2>1, <2>2, <2>3 DEF RowInv
<1>5. Follows(r, s) /\ Moves(r, s, m)
  BY <1>1, <1>2 DEF RowInv, Rows, Follows, Moves, PhaseOf, Closed, OneLive,
     OnlyFailuresRepeat, Limit, Attempts
<1> QED BY <1>4, <1>5 DEF Good

-----------------------------------------------------------------------------
(* The invariant.                                                          *)

LEMMA Kept ==
  ASSUME NEW r, NEW s, NEW m, NEW mm, m \subseteq mm, Good(r, s, mm),
         RowInv(r, m)
  PROVE  /\ \A j : JobInv(j, r, m) => JobInv(j, s, mm)
         /\ \A x : CallInv(x, r) => CallInv(x, s)
  BY DEF Good, Follows, JobInv, CallInv, RowInv, Rows, Calls, Jobs, Closed,
     Attempts, Limit

\* A step that moves the rows by statements, adds posts of started attempts,
\* and leaves or takes over jobs and calls that know their row.
LEMMA Step ==
  ASSUME Inv, moved' \subseteq Commands, connected' \in BOOLEAN,
         row' \in [Commands -> Rows], made' \in [Commands -> SUBSET Attempts],
         job' \in [Workers -> Jobs \cup {None}],
         call' \in [Callers -> Calls \cup {None}],
         \A c \in Commands : made[c] \subseteq made'[c],
         \A c \in Commands : Good(row[c], row'[c], made'[c]),
         \A w \in Workers : job'[w] \in {None, job[w]} \/
            JobInv(job'[w], row'[job'[w].c], made'[job'[w].c]),
         \A o \in Callers : call'[o] \in {None, call[o]} \/
            CallInv(call'[o], row'[call'[o].c])
  PROVE  Inv'
<1>1. \A c \in Commands : RowInv(row'[c], made'[c])
  BY DEF Good
<1>2. ASSUME NEW w \in Workers, job'[w] # None
      PROVE JobInv(job'[w], row'[job'[w].c], made'[job'[w].c])
  <2>1. CASE job'[w] = job[w]
    <3>1. job[w] \in Jobs /\ job[w].c \in Commands
      BY <1>2, <2>1 DEF Inv, Jobs
    <3> QED BY <1>2, <2>1, <3>1, Kept DEF Inv
  <2> QED BY <1>2, <2>1
<1>3. ASSUME NEW o \in Callers, call'[o] # None
      PROVE CallInv(call'[o], row'[call'[o].c])
  <2>1. CASE call'[o] = call[o]
    <3>1. call[o] \in Calls /\ call[o].c \in Commands
      BY <1>3, <2>1 DEF Inv, Calls
    <3> QED BY <1>3, <2>1, <3>1, Kept DEF Inv
  <2> QED BY <1>3, <2>1
<1> QED BY <1>1, <1>2, <1>3 DEF Inv

\* One row moves, by a statement that keeps it.
LEMMA OneRow ==
  ASSUME Inv, NEW c \in Commands, NEW s, Good(row[c], s, made[c]),
         row' = [row EXCEPT ![c] = s] \/ row' = row, UNCHANGED made
  PROVE  /\ row' \in [Commands -> Rows]
         /\ \A d \in Commands : Good(row[d], row'[d], made'[d])
<1>1. s \in Rows
  BY DEF Good, RowInv
<1>2. \A d \in Commands : Good(row[d], row[d], made[d])
  BY SameRow DEF Inv
<1> QED BY <1>1, <1>2 DEF Inv

LEMMA GrownRow ==
  ASSUME NEW r, NEW m, NEW k \in 1..r.n, RowInv(r, m)
  PROVE  Good(r, r, m \cup {k})
<1>1. RowInv(r, m \cup {k})
  BY DEF RowInv
<1> QED BY <1>1 DEF Good, Follows, Moves, RowInv, Rows, PhaseOf, Statuses

\* The post of a started attempt appears and the rows stay.
LEMMA Appears ==
  ASSUME Inv, NEW c \in Commands, NEW k \in 1..row[c].n, Posted(c, k),
         UNCHANGED row
  PROVE  /\ made' \in [Commands -> SUBSET Attempts]
         /\ \A d \in Commands : made[d] \subseteq made'[d]
         /\ \A d \in Commands : Good(row[d], row'[d], made'[d])
<1>1. k \in Attempts
  BY DEF Inv, Rows, Attempts, Limit
<1>2. \A d \in Commands : made'[d] = IF d = c THEN made[d] \cup {k} ELSE made[d]
  BY DEF Posted, Inv
<1>3. made' \in [Commands -> SUBSET Attempts]
  BY <1>1 DEF Posted, Inv
<1>4. ASSUME NEW d \in Commands PROVE Good(row[d], row[d], made'[d])
  <2>1. RowInv(row[d], made[d]) /\ RowInv(row[c], made[c])
    BY DEF Inv
  <2>2. CASE d = c
    <3>1. Good(row[c], row[c], made[c] \cup {k})
      BY <2>1, GrownRow
    <3> QED BY <1>2, <2>2, <3>1
  <2>3. CASE d # c
    BY <1>2, <2>1, <2>3, SameRow
  <2> QED BY <2>2, <2>3
<1> QED BY <1>2, <1>3, <1>4

\* What every step does to the rows and the posts.
Progress ==
    /\ \A c \in Commands : Good(row[c], row'[c], made'[c])
    /\ \/ UNCHANGED made
       \/ /\ UNCHANGED row
          /\ \E c \in Commands : \E k \in 1..row[c].n : Posted(c, k)

LEMMA RowsStay == ASSUME Inv, UNCHANGED <<row, made>> PROVE Progress
  BY SameRow DEF Inv, Progress

LEMMA ScheduleStep ==
  ASSUME Inv, NEW c \in Commands, Schedule(c) PROVE Inv' /\ Progress
<1>1. PICK status \in {"scheduled", "manual-required"} :
         row' = [row EXCEPT ![c].status = status]
  BY DEF Schedule
<1> DEFINE s == [row[c] EXCEPT !.status = status]
<1>2. row' = [row EXCEPT ![c] = s]
  BY <1>1
<1>3. Good(row[c], s, made[c])
  <2>1. RowInv(row[c], made[c]) /\ row[c].status = "absent" /\ row[c].n = 0
    BY DEF Inv, Schedule, RowInv
  <2> QED
    BY <2>1 DEF Good, RowInv, Rows, Statuses, Follows, Moves, PhaseOf, Closed,
       OneLive, OnlyFailuresRepeat, Waits, Attempts, Limit
<1>4. Progress /\ row' \in [Commands -> Rows]
  BY <1>2, <1>3, OneRow DEF Schedule, Progress
<1> QED BY <1>4, Step DEF Schedule, Progress, Inv

\* The clock and the safe retry only touch what no conjunct speaks of.
LEMMA ClockRow ==
  ASSUME NEW r, NEW m, RowInv(r, m),
         NEW s, s = [r EXCEPT !.due = TRUE] \/ s = [r EXCEPT !.lease = "lapsed"]
  PROVE  Good(r, s, m)
<1>1. /\ s \in Rows /\ s.status = r.status /\ s.life = r.life /\ s.n = r.n
      /\ s.att = r.att /\ s.filed = r.filed /\ s.post = r.post
  BY DEF RowInv, Rows, Leases
<1> QED BY <1>1 DEF Good, RowInv, Rows, Follows, Moves, PhaseOf, Closed, OneLive,
            OnlyFailuresRepeat, Waits, Statuses, Attempts, Limit

LEMMA ClockStep ==
  ASSUME Inv, NEW c \in Commands, NEW k \in Attempts,
         FallDue(c) \/ Lapse(c) \/ SafeRetry(c, k)
  PROVE  Inv' /\ Progress
<1>1. PICK s : /\ s = [row[c] EXCEPT !.due = TRUE] \/
                  s = [row[c] EXCEPT !.lease = "lapsed"]
               /\ row' = [row EXCEPT ![c] = s]
  BY DEF FallDue, Lapse, SafeRetry
<1>2. Good(row[c], s, made[c])
  BY <1>1, ClockRow DEF Inv
<1>3. UNCHANGED <<moved, connected, made, job, call>>
  BY DEF FallDue, Lapse, SafeRetry
<1>4. Progress /\ row' \in [Commands -> Rows]
  BY <1>1, <1>2, <1>3, OneRow DEF Progress
<1> QED BY <1>3, <1>4, Step DEF Progress, Inv

LEMMA OutsideStep ==
  ASSUME Inv, NEW c \in Commands, MoveOn(c) \/ Toggle PROVE Inv' /\ Progress
<1>1. UNCHANGED <<row, made, job, call>> /\ moved' \subseteq Commands
      /\ connected' \in BOOLEAN
  BY DEF MoveOn, Toggle, Inv
<1>2. Progress
  BY <1>1, RowsStay
<1> QED BY <1>1, <1>2, Step DEF Progress, Inv

LEMMA SweepRow ==
  ASSUME NEW r, NEW m, NEW b \in BOOLEAN, RowInv(r, m)
  PROVE  Good(r, Swept(r, b), m) /\ (Swept(r, b).status = "scheduled" =>
            Swept(r, b) = r)
<1>1. Good(r, Expire(r), m) /\ Good(Expire(r), Swept(r, b), m)
  BY ExpireRow, DropRow DEF Swept, Good
<1>2. CASE Expired(r)
  <2>1. Expire(r).status = "unknown"
    BY <1>2 DEF Expire, RowInv, Rows
  <2>2. Swept(r, b) = Expire(r)
    BY <2>1 DEF Swept, DropMoved
  <2> QED BY <1>1, <2>1, <2>2
<1>3. CASE ~Expired(r)
  <2>1. Expire(r) = r
    BY <1>3 DEF Expire
  <2>2. Swept(r, b).status = "scheduled" => Swept(r, b) = r
    BY <2>1 DEF Swept, DropMoved, RowInv, Rows
  <2> QED BY <1>1, <2>1, <2>2
<1> QED BY <1>2, <1>3

LEMMA ClaimStep ==
  ASSUME Inv, NEW w \in Workers, Claim(w) PROVE Inv' /\ Progress
<1>1. ASSUME NEW c \in Commands
      PROVE  Good(row[c], Sweep(c), made[c])
             /\ (Sweep(c).status = "scheduled" => Sweep(c) = row[c])
  <2>1. (c \in moved) \in BOOLEAN /\ RowInv(row[c], made[c])
    BY DEF Inv
  <2> QED BY <2>1, SweepRow DEF Sweep
<1>2. CASE ClaimNone(w)
  <2>1. Progress /\ row' \in [Commands -> Rows]
    BY <1>1, <1>2 DEF ClaimNone, Progress, Good, RowInv
  <2> QED BY <1>2, <2>1, Step DEF ClaimNone, Progress, Inv
<1>3. ASSUME NEW c \in Commands, ClaimOne(w, c) PROVE Inv' /\ Progress
  <2>1. Sweep(c) = row[c] /\ row[c].status = "scheduled"
    BY <1>1, <1>3 DEF ClaimOne, Claimable
  <2>2. Good(row[c], Claimed(row[c], w), made[c])
    BY <2>1, ClaimedRow DEF Inv
  <2>3. Progress /\ row' \in [Commands -> Rows]
    BY <1>1, <1>3, <2>1, <2>2 DEF ClaimOne, Progress, Good, RowInv
  <2>4. row[c].n + 1 \in Attempts /\ row'[c].n = row[c].n + 1
    <3>1. row[c] \in Rows /\ row[c].n < Limit
      BY <1>3, <2>1 DEF Inv, ClaimOne, Claimable
    <3>2. row'[c] = Claimed(row[c], w)
      BY <1>3, <2>1 DEF ClaimOne
    <3> QED BY <3>1, <3>2 DEF Claimed, Rows, Attempts, Limit
  <2>5. JobInv(job'[w], row'[job'[w].c], made'[job'[w].c])
        /\ job' \in [Workers -> Jobs \cup {None}]
        /\ \A v \in Workers : v # w => job'[v] = job[v]
    BY <1>3, <2>4 DEF ClaimOne, JobInv, Jobs, Inv, Attempts
  <2>6. UNCHANGED <<moved, connected, made, call>>
    BY <1>3 DEF ClaimOne
  <2> QED BY <2>3, <2>5, <2>6, Step DEF Progress, Inv
<1> QED BY <1>2, <1>3 DEF Claim

LEMMA ExecuteStep ==
  ASSUME Inv, NEW w \in Workers, Execute(w) \/ Crash(w) PROVE Inv' /\ Progress
<1> DEFINE c == job[w].c
           k == job[w].k
<1>1. /\ job[w] \in Jobs /\ c \in Commands /\ k \in Attempts
      /\ k <= row[c].n /\ row[c] \in Rows
  BY DEF Execute, Crash, Inv, Jobs, JobInv
<1>2. k \in 1..row[c].n
  BY <1>1 DEF Rows, Attempts, Limit
<1>3. UNCHANGED <<row, moved, connected, call>> /\ (UNCHANGED made \/ Posted(c, k))
  BY DEF Execute, Crash
<1>4. /\ Progress
      /\ made' \in [Commands -> SUBSET Attempts]
      /\ \A d \in Commands : made[d] \subseteq made'[d]
  <2>1. CASE UNCHANGED made
    BY <1>3, <2>1, RowsStay DEF Inv
  <2>2. CASE Posted(c, k)
    BY <1>1, <1>2, <1>3, <2>2, Appears DEF Progress
  <2> QED BY <1>3, <2>1, <2>2
<1>5. CASE Crash(w)
  <2>1. job' \in [Workers -> Jobs \cup {None}]
        /\ \A v \in Workers : job'[v] \in {None, job[v]}
    BY <1>5 DEF Crash, Inv
  <2> QED BY <1>3, <1>4, <2>1, Step DEF Progress, Inv
<1>6. CASE Execute(w)
  <2>1. PICK answer \in Answers :
          /\ job' = [job EXCEPT ![w].answer = answer]
          /\ \/ answer # "published" /\ UNCHANGED made
             \/ answer \notin {"final", "manual"} /\ Posted(c, k)
    BY <1>6 DEF Execute
  <2>2. answer = "published" => k \in made'[c]
    BY <1>1, <2>1 DEF Posted, Inv
  <2>3. /\ job' \in [Workers -> Jobs \cup {None}]
        /\ \A v \in Workers : v # w => job'[v] = job[v]
        /\ job'[w] = [job[w] EXCEPT !.answer = answer]
    BY <1>1, <2>1 DEF Inv, Jobs
  <2>4. JobInv(job'[w], row'[job'[w].c], made'[job'[w].c])
    BY <1>1, <1>3, <2>2, <2>3 DEF JobInv, Jobs
  <2> QED BY <1>3, <1>4, <2>3, <2>4, Step DEF Progress, Inv
<1> QED BY <1>5, <1>6

LEMMA SettleStep ==
  ASSUME Inv, NEW w \in Workers, Settle(w) PROVE Inv' /\ Progress
<1> DEFINE c == job[w].c
<1>1. /\ job[w] \in Jobs /\ c \in Commands /\ job[w].answer \in Answers
      /\ JobInv(job[w], row[c], made[c]) /\ RowInv(row[c], made[c])
  BY DEF Settle, Inv, Jobs
<1>2. PICK s : Good(row[c], s, made[c]) /\ (row' = row \/ row' = [row EXCEPT ![c] = s])
  <2>1. CASE Holds(row[c], w, job[w].k)
    <3>1. Good(row[c], Settled(row[c], job[w].answer), made[c])
      BY <1>1, <2>1, SettledRow DEF Holds, JobInv
    <3>2. row' = [row EXCEPT ![c] = Settled(row[c], job[w].answer)]
      BY <2>1 DEF Settle
    <3> QED BY <3>1, <3>2
  <2>2. CASE ~Holds(row[c], w, job[w].k)
    BY <1>1, <2>2, SameRow DEF Settle
  <2> QED BY <2>1, <2>2
<1>3. UNCHANGED <<moved, connected, made, call>>
      /\ job' = [job EXCEPT ![w] = None]
  BY DEF Settle
<1>4. Progress /\ row' \in [Commands -> Rows]
  BY <1>1, <1>2, <1>3, OneRow DEF Progress
<1>5. job' \in [Workers -> Jobs \cup {None}]
      /\ \A v \in Workers : job'[v] \in {None, job[v]}
  BY <1>3 DEF Inv
<1> QED BY <1>3, <1>4, <1>5, Step DEF Progress, Inv

LEMMA ReadStep ==
  ASSUME Inv, NEW o \in Callers, NEW op \in Ops, NEW c \in Commands,
         Read(o, op, c) \/ ReadAttempt(o)
  PROVE  Inv' /\ Progress
<1>1. UNCHANGED <<row, moved, connected, made, job>>
  BY DEF Read, ReadAttempt
<1>2. Progress
  BY <1>1, RowsStay
<1>3. /\ call' \in [Callers -> Calls \cup {None}]
      /\ \A p \in Callers : p # o => call'[p] = call[p]
      /\ call'[o] = None \/ CallInv(call'[o], row'[call'[o].c])
  <2>1. CASE Read(o, op, c)
    <3> DEFINE x == [op |-> op, c |-> c, k |-> 0,
                     n |-> IF op = "cancel" THEN 0 ELSE row[c].n,
                     life |-> IF op = "reconcile" THEN row[c].life
                              ELSE "approved"]
    <3>1. call' = [call EXCEPT ![o] = x] /\ Allowed(op, row[c])
      BY <2>1 DEF Read
    <3>2. RowInv(row[c], made[c]) /\ row[c] \in Rows
      BY DEF Inv
    <3>3. x \in Calls
      BY <3>2 DEF Calls, Rows, Lives, Limit, Ops
    <3>4. x.n <= row[c].n /\ x.k <= row[c].n
      BY <3>2 DEF Rows, Limit
    <3>5. op = "retry" => /\ row[c].n > 0 /\ row[c].n < Limit
                          /\ row[c].att[row[c].n] = "failed"
      BY <3>1, <3>2 DEF Allowed, RowInv, Waits
    <3>6. op = "begin" => row[c].n < Limit
      BY <3>1 DEF Allowed
    <3>7. CallInv(x, row[c])
      BY <3>2, <3>3, <3>4, <3>5, <3>6 DEF CallInv, RowInv
    <3> QED BY <1>1, <3>1, <3>3, <3>7 DEF Inv
  <2>2. CASE ReadAttempt(o)
    <3> DEFINE x == call[o]
               r == row[call[o].c]
    <3>1. x \in Calls /\ x.c \in Commands /\ CallInv(x, r) /\ r \in Rows
      BY <2>2 DEF ReadAttempt, Inv, Calls
    <3>2. CASE /\ r.n > 0 /\ r.n \in {x.n, x.n + 1}
               /\ r.att[r.n] # "published"
      <4>1. call' = [call EXCEPT ![o] = [x EXCEPT !.k = r.n]]
        BY <2>2, <3>2 DEF ReadAttempt
      <4>2. [x EXCEPT !.k = r.n] \in Calls /\ CallInv([x EXCEPT !.k = r.n], r)
        BY <3>1 DEF CallInv, Calls, Rows, Limit
      <4> QED BY <1>1, <3>1, <4>1, <4>2 DEF Inv, Calls
    <3>3. CASE ~ /\ r.n > 0 /\ r.n \in {x.n, x.n + 1}
                 /\ r.att[r.n] # "published"
      <4>1. call' = [call EXCEPT ![o] = None]
        BY <2>2, <3>3 DEF ReadAttempt
      <4> QED BY <4>1 DEF Inv
    <3> QED BY <3>2, <3>3
  <2> QED BY <2>1, <2>2
<1> QED BY <1>1, <1>2, <1>3, Step DEF Progress, Inv

LEMMA WriteStep ==
  ASSUME Inv, NEW o \in Callers,
         \/ Begin(o) \/ Retry(o) \/ Cancel(o) \/ RefuseReport(o)
         \/ \E outcome \in Outcomes : Reconcile(o, outcome)
  PROVE  Inv' /\ Progress
<1> DEFINE x == call[o]
           c == x.c
           r == row[c]
<1>1. /\ x \in Calls /\ c \in Commands /\ CallInv(x, r)
      /\ RowInv(r, made[c]) /\ r \in Rows
  BY DEF Begin, Retry, Cancel, RefuseReport, Reconcile, Inv, Calls
<1>2. UNCHANGED <<moved, connected, made, job>> /\ call' = [call EXCEPT ![o] = None]
  BY DEF Begin, Retry, Cancel, RefuseReport, Reconcile, Returns
<1>3. PICK s : Good(r, s, made[c]) /\ (row' = row \/ row' = [row EXCEPT ![c] = s])
  <2>1. CASE row' = row
    BY <1>1, <2>1, SameRow
  <2>2. CASE Begin(o) /\ StillDispatchable(r, x.n) /\ r.n < Limit
    <3>1. Good(r, Begun(r), made[c])
      BY <1>1, <2>2, BegunRow DEF StillDispatchable
    <3> QED BY <2>2, <3>1 DEF Begin
  <2>3. CASE Retry(o) /\ StillRetryable(r, x.n)
    <3>1. r.n < Limit /\ r.att[r.n] = "failed"
      BY <1>1, <2>3 DEF Retry, StillRetryable, CallInv
    <3>2. Good(r, Retried(r), made[c])
      BY <1>1, <2>3, <3>1, RetriedRow DEF StillRetryable
    <3> QED BY <2>3, <3>2 DEF Retry
  <2>4. CASE Cancel(o) /\ StillCancellable(r)
    <3>1. Good(r, Cancelled(r), made[c])
      BY <1>1, <2>4, CancelledRow
    <3> QED BY <2>4, <3>1 DEF Cancel
  <2>5. ASSUME NEW outcome \in Outcomes, Reconcile(o, outcome), row' # row
        PROVE  \E s : /\ Good(r, s, made[c])
                      /\ row' = row \/ row' = [row EXCEPT ![c] = s]
    <3>1. /\ StillLive(r, x.k) /\ outcome \in Reports(c, x.k)
          /\ row' = [row EXCEPT ![c] =
                       Reconciled(r, outcome, LifeOf(outcome, x.life))]
      BY <2>5 DEF Reconcile
    <3>3. /\ outcome \in {"published", "failed", "unknown"}
          /\ outcome = "published" => r.n \in made[c]
          /\ x.life \in Lives /\ x.life # "published" /\ r.status = "dispatching"
      BY <1>1, <3>1 DEF Reports, StillLive, CallInv, Calls
    <3>4. Good(r, Reconciled(r, outcome, LifeOf(outcome, x.life)), made[c])
      BY <1>1, <3>3, ReconciledRow
    <3> QED BY <3>1, <3>4
  <2>6. Begin(o) /\ StillDispatchable(r, x.n) => r.n < Limit
    BY <1>1 DEF StillDispatchable, CallInv, Begin
  <2> QED BY <2>1, <2>2, <2>3, <2>4, <2>5, <2>6
          DEF Begin, Retry, Cancel, RefuseReport
<1>4. Progress /\ row' \in [Commands -> Rows]
  BY <1>1, <1>2, <1>3, OneRow DEF Progress
<1>5. call' \in [Callers -> Calls \cup {None}]
      /\ \A p \in Callers : call'[p] \in {None, call[p]}
  BY <1>2 DEF Inv
<1> QED BY <1>2, <1>4, <1>5, Step DEF Progress, Inv

-----------------------------------------------------------------------------
(* The theorems.                                                           *)

LEMMA InitInv == Init => Inv
<1> SUFFICES ASSUME Init PROVE Inv
  OBVIOUS
<1>1. NoRow \in Rows /\ RowInv(NoRow, {})
  BY DEF NoRow, RowInv, Rows, Statuses, Lives, AttemptStatuses, Dispositions,
     Leases, Limit, Attempts, OneLive, OnlyFailuresRepeat, Waits
<1> QED BY <1>1 DEF Init, Inv

LEMMA NextInv == Inv /\ [Next]_vars => Inv' /\ Progress
<1> SUFFICES ASSUME Inv, [Next]_vars PROVE Inv' /\ Progress
  OBVIOUS
<1>1. CASE UNCHANGED vars
  <2>1. UNCHANGED <<row, moved, connected, made, job, call>>
    BY <1>1 DEF vars
  <2> QED BY <2>1, RowsStay, Step DEF Progress, Inv
<1>2. ASSUME NEW w \in Workers, Claim(w) \/ Execute(w) \/ Settle(w) \/ Crash(w)
      PROVE Inv' /\ Progress
  BY <1>2, ClaimStep, ExecuteStep, SettleStep
<1>3. CASE Console
  <2>1. PICK o \in Callers :
          \/ \E op \in Ops, c \in Commands : Read(o, op, c)
          \/ ReadAttempt(o) \/ Begin(o) \/ Retry(o) \/ Cancel(o)
          \/ RefuseReport(o) \/ \E outcome \in Outcomes : Reconcile(o, outcome)
    BY <1>3 DEF Console
  <2>2. CASE ReadAttempt(o)
    <3>1. call[o].c \in Commands /\ "begin" \in Ops
      BY <2>2 DEF ReadAttempt, Inv, Calls, Ops
    <3> QED BY <2>2, <3>1, ReadStep
  <2> QED BY <2>1, <2>2, ReadStep, WriteStep
<1>4. CASE Environment
  <2>1. 1 \in Attempts
    BY DEF Attempts, Limit
  <2>2. ASSUME NEW c \in Commands,
               Schedule(c) \/ MoveOn(c) \/ FallDue(c) \/ Lapse(c) \/
               \E k \in Attempts : SafeRetry(c, k)
        PROVE Inv' /\ Progress
    BY <2>1, <2>2, ScheduleStep, ClockStep, OutsideStep
  <2>3. CASE Toggle
    <3>1. UNCHANGED <<row, moved, made, job, call>> /\ connected' \in BOOLEAN
      BY <2>3 DEF Toggle, Inv
    <3> QED BY <3>1, RowsStay, Step DEF Progress, Inv
  <2> QED BY <1>4, <2>2, <2>3 DEF Environment
<1> QED BY <1>1, <1>2, <1>3, <1>4 DEF Next

LEMMA Invariance == Spec => []Inv
  BY InitInv, NextInv, PTL DEF Spec

(* The state is well typed for any commands, workers and callers: claimNext *)
(* and recordDispatch never number a fourth attempt.                        *)
THEOREM TypesHold == Spec => []TypeOK
<1>1. Inv => TypeOK
  BY DEF Inv, TypeOK
<1> QED BY <1>1, Invariance, PTL

(* No attempt follows an unknown or published one, whatever the order of    *)
(* claimNext, settle, begin, reconcile and retry.                           *)
THEOREM DoubtHolds == Spec => []DoubtStops
<1>1. Inv => DoubtStops
  BY DEF Inv, RowInv, DoubtStops
<1> QED BY <1>1, Invariance, PTL

(* "published" is said of a post that exists, by settle and by reconcile.   *)
THEOREM PublishedHolds == Spec => []PublishedIsReal
<1>1. Inv => PublishedIsReal
  BY DEF Inv, RowInv, PublishedIsReal
<1> QED BY <1>1, Invariance, PTL

(* The trigger of migration 0011 files every attempt that ended badly.      *)
THEOREM FailuresHold == Spec => []FailuresFiled
<1>1. Inv => FailuresFiled
  BY DEF Inv, RowInv, FailuresFiled
<1> QED BY <1>1, Invariance, PTL

(* settle's retry and the console's retry only queue what can be claimed.   *)
THEOREM QueueHolds == Spec => []QueuedHasTries
<1>1. Inv => QueuedHasTries
  BY DEF Inv, RowInv, QueuedHasTries
<1> QED BY <1>1, Invariance, PTL

(* No write, late or stale, changes a published, unknown or cancelled       *)
(* command.                                                                 *)
THEOREM SettledHold == Spec => SettledStands
<1>1. Inv /\ [Next]_vars =>
        [\A c \in Commands :
           row[c].status \in Closed => row'[c].status = row[c].status]_vars
  BY NextInv DEF Progress, Good, Follows
<1> QED BY <1>1, Invariance, PTL DEF Spec, SettledStands

(* The lifecycle implements PublishPromise: every statement, sweep, call and *)
(* answer is a move of the promise or leaves it alone.                       *)
THEOREM PromiseKept == Spec => KeepsPromise
<1> DEFINE phase == [c \in Commands |-> PhaseOf(row[c])]
           tries == [c \in Commands |-> row[c].n]
<1>1. Init => Promise!PromiseInit
  BY DEF Init, Promise!PromiseInit, NoRow, PhaseOf
<1>2. Inv /\ [Next]_vars => [Promise!PromiseNext]_(Promise!promise)
  <2> SUFFICES ASSUME Inv, [Next]_vars
               PROVE  Promise!PromiseNext \/ UNCHANGED Promise!promise
    OBVIOUS
  <2>1. Progress
    BY NextInv
  <2>2. CASE UNCHANGED made
    <3>1. ASSUME NEW c \in Commands
          PROVE  \/ Promise!Try(c) \/ Promise!Fail(c) \/ Promise!Succeed(c)
                 \/ Promise!Doubt(c) \/ Promise!Close(c) \/ Promise!Stays(c)
      <4>1. Moves(row[c], row'[c], made[c])
        BY <2>1, <2>2 DEF Progress, Good
      <4>2. /\ phase[c] = PhaseOf(row[c]) /\ phase'[c] = PhaseOf(row'[c])
            /\ tries[c] = row[c].n /\ tries'[c] = row'[c].n
        OBVIOUS
      <4> QED BY <4>1, <4>2 DEF Moves, Promise!Try, Promise!Fail,
              Promise!Succeed, Promise!Doubt, Promise!Close, Promise!Stays
    <3> QED BY <2>2, <3>1 DEF Promise!Commit, Promise!PromiseNext
  <2>3. CASE UNCHANGED row /\ \E c \in Commands : \E k \in 1..row[c].n : Posted(c, k)
    <3>1. PICK c \in Commands : \E k \in 1..row[c].n : Posted(c, k)
      BY <2>3
    <3>2. Promise!Appear(c)
      BY <2>3, <3>1 DEF Posted, Promise!Appear
    <3> QED BY <3>1, <3>2 DEF Promise!PromiseNext
  <2> QED BY <2>1, <2>2, <2>3 DEF Progress
<1> QED BY <1>1, <1>2, Invariance, PTL DEF Spec, KeepsPromise, Promise!Spec
=============================================================================
