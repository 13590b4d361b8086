---------------------------- MODULE PublishPromise ----------------------------
(***************************************************************************)
(* What the publishing subsystem promises of one content approval, without *)
(* rows, leases, workers or calls: tries are numbered and limited, a try   *)
(* follows another only after a failure, and a command is reported posted  *)
(* only for the post its own last try made. A post may come into being     *)
(* late, after its try was given up: that is the provider's liberty.       *)
(***************************************************************************)
EXTENDS Integers

CONSTANTS Commands, Limit

VARIABLES phase, tries, made

promise == <<phase, tries, made>>

PromiseInit == /\ phase = [c \in Commands |-> "waiting"]
               /\ tries = [c \in Commands |-> 0]
               /\ made = [c \in Commands |-> {}]

\* Several commands may move in one transaction, each by one of these moves.
Try(c) == /\ phase[c] = "waiting" /\ phase'[c] = "trying"
          /\ tries[c] < Limit /\ tries'[c] = tries[c] + 1

Fail(c) == /\ phase[c] = "trying" /\ phase'[c] = "waiting"
           /\ tries'[c] = tries[c]

Succeed(c) == /\ phase[c] = "trying" /\ phase'[c] = "posted"
              /\ tries[c] \in made[c] /\ tries'[c] = tries[c]

Doubt(c) == /\ phase[c] = "trying" /\ phase'[c] = "doubt"
            /\ tries'[c] = tries[c]

Close(c) == /\ phase[c] = "waiting" /\ phase'[c] = "closed"
            /\ tries'[c] = tries[c]

Stays(c) == phase'[c] = phase[c] /\ tries'[c] = tries[c]

Commit == /\ \A c \in Commands : \/ Try(c) \/ Fail(c) \/ Succeed(c)
                                 \/ Doubt(c) \/ Close(c) \/ Stays(c)
          /\ UNCHANGED made

\* The provider creates the post of a try that was started.
Appear(c) == /\ \E k \in 1..tries[c] : made' = [made EXCEPT ![c] = @ \cup {k}]
             /\ UNCHANGED <<phase, tries>>

PromiseNext == Commit \/ \E c \in Commands : Appear(c)

Spec == PromiseInit /\ [][PromiseNext]_promise
=============================================================================
