------------------------- MODULE ChannelConnection -------------------------
(***************************************************************************)
(* Connecting a Meta account to a brand: the OAuth intent, the candidates  *)
(* it discovers, the choice of one, and the secrets each of them has in    *)
(* the vault.  InstagramConnectionService and MetaChannelConnectionService *)
(* share the tables and the vault; their select is a saga over five stores *)
(* whose compensations differ, and nothing serialises two requests.        *)
(*                                                                         *)
(* A secret is named by its candidate and its use: <<c, "publish">> is the *)
(* credentialRef of c and <<c, "insights">> its insightsCredentialRef.     *)
(* The biggest gap is the provider's answer, which is any set of targets;  *)
(* expiry of a connected token is in MetricCollection.                     *)
(***************************************************************************)
EXTENDS Naturals, FiniteSets

CONSTANTS
  Intents,       \* OAuth intents of the brand
  Targets,       \* Instagram accounts the user may hold
  Requests,      \* requests of the connection routes, each used many times
  MetaRequests,  \* those served by MetaChannelConnectionService
  MayFail,       \* what may go wrong, a subset of Faults
  None

(* A call of the vault or of a store in complete and select, the answer to *)
(* a write that was done, the provider's snapshot, a step of the           *)
(* compensation, a step of disconnect, the process.                        *)
Faults == {"vault", "store", "reply", "import", "compensation",
           "disconnect", "process"}
Candidates == Intents \X Targets
Refs == Candidates \X {"publish", "insights"}

ASSUME ConnectionAssumption ==
  /\ IsFiniteSet(Intents) /\ IsFiniteSet(Targets)
  /\ MetaRequests \subseteq Requests
  /\ MayFail \subseteq Faults
  /\ None \notin Candidates

VARIABLES
  intent,      \* channel_oauth_intents: how far the code flow came
  expired,     \* intents whose expires_at is past
  candidates,  \* channel_oauth_candidates
  selected,    \* candidates with selected_at set
  live,        \* channel_credentials that are not revoked
  account,     \* channel_accounts, by account_ref
  req          \* the request each handler is serving

vars == <<intent, expired, candidates, selected, live, account, req>>

RefsOf(c) == {c} \X {"publish", "insights"}
Status == {"none", "connected", "disabled"}
Account ==
  [status: Status, publish: Candidates \cup {None},
   insights: Candidates \cup {None}]
NoAccount == [status |-> "none", publish |-> None, insights |-> None]

(* connectionCredentialsByAccountRef and connectionCredentials. *)
CredentialsOf(t) ==
  {<<account[t].publish, "publish">>, <<account[t].insights, "insights">>}
    \cap Refs

Phase == {"idle", "exchange", "mark", "previous", "save", "record", "import",
          "revoke", "others", "release", "disable", "withdraw", "cut", "off"}
Request ==
  [pc: Phase, intent: Intents \cup {None}, cand: Candidates \cup {None},
   target: Targets \cup {None}, listed: SUBSET Candidates, prev: SUBSET Refs,
   written: BOOLEAN]
Idle == [pc |-> "idle", intent |-> None, cand |-> None, target |-> None,
         listed |-> {}, prev |-> {}, written |-> FALSE]

Init ==
  /\ intent = [i \in Intents |-> "none"]
  /\ expired = {}
  /\ candidates = {}
  /\ selected = {}
  /\ live = {}
  /\ account = [t \in Targets |-> NoAccount]
  /\ req = [r \in Requests |-> Idle]

Stay(r) == req' = [req EXCEPT ![r] = Idle]
To(r, pc) == req' = [req EXCEPT ![r].pc = pc]
Of(c) == {d \in candidates: d[1] = c[1]}
-----------------------------------------------------------------------------
(* begin: a fresh state, stored by its hash. *)
Begin(i) ==
  /\ intent[i] = "none"
  /\ intent' = [intent EXCEPT ![i] = "open"]
  /\ UNCHANGED <<expired, candidates, selected, live, account, req>>

Expire(i) ==
  /\ intent[i] # "none"
  /\ expired' = expired \cup {i}
  /\ UNCHANGED <<intent, candidates, selected, live, account, req>>

(* complete: the state is used up before the provider is asked. *)
Consume(r, i) ==
  /\ req[r].pc = "idle"
  /\ intent[i] = "open"
  /\ i \notin expired
  /\ intent' = [intent EXCEPT ![i] = "used"]
  /\ req' = [req EXCEPT ![r] = [Idle EXCEPT !.pc = "exchange", !.intent = i]]
  /\ UNCHANGED <<expired, candidates, selected, live, account>>

(* One discovered account: its two secrets go into the vault. *)
StoreSecrets(r, t) ==
  LET c == <<req[r].intent, t>> IN
  /\ req[r].pc = "exchange"
  /\ c \notin req[r].listed
  /\ live' = live \cup RefsOf(c)
  /\ req' = [req EXCEPT ![r].listed = @ \cup {c}]
  /\ UNCHANGED <<intent, expired, candidates, selected, account>>

(* The exchange fails or grants too little, or a secret is not stored.     *)
(* Only the Instagram service stores secrets inside its try; the try of    *)
(* the other one covers saveCandidates alone.                              *)
ExchangeFails(r) ==
  /\ req[r].pc = "exchange"
  /\ req[r].listed = {} \/ "vault" \in MayFail
  /\ live' = IF r \in MetaRequests THEN live
             ELSE live \ UNION {RefsOf(c): c \in req[r].listed}
  /\ Stay(r)
  /\ UNCHANGED <<intent, expired, candidates, selected, account>>

(* saveCandidates; a single candidate is selected at once. *)
SaveCandidates(r) ==
  /\ req[r].pc = "exchange"
  /\ candidates' = candidates \cup req[r].listed
  /\ intent' = [intent EXCEPT ![req[r].intent] = "saved"]
  /\ IF Cardinality(req[r].listed) = 1
     THEN req' = [req EXCEPT ![r].pc = "mark",
                             ![r].cand = CHOOSE c \in req[r].listed: TRUE]
     ELSE Stay(r)
  /\ UNCHANGED <<expired, selected, live, account>>

SaveCandidatesFails(r) ==
  /\ req[r].pc = "exchange"
  /\ "store" \in MayFail
  /\ live' = live \ UNION {RefsOf(c): c \in req[r].listed}
  /\ Stay(r)
  /\ UNCHANGED <<intent, expired, candidates, selected, account>>
-----------------------------------------------------------------------------
(* select, up to the list of candidates it reads. *)
Select(r, c) ==
  /\ req[r].pc = "idle"
  /\ c \in candidates \ selected
  /\ c[1] \notin expired
  /\ req' = [req EXCEPT ![r] = [Idle EXCEPT !.pc = "mark", !.cand = c,
                                            !.listed = Of(c)]]
  /\ UNCHANGED <<intent, expired, candidates, selected, live, account>>

(* (mutant) only the row itself must not be selected yet *)
MarkableByRow(c) == c[1] \notin expired /\ c \notin selected

(* markSelected and the unique index on the selected row of an intent. *)
Markable(c) ==
  /\ c[1] \notin expired
  /\ Of(c) \cap selected = {}

Mark(r) ==
  /\ req[r].pc = "mark"
  /\ Markable(req[r].cand)
  /\ selected' = selected \cup {req[r].cand}
  /\ To(r, "previous")
  /\ UNCHANGED <<intent, expired, candidates, live, account>>

MarkRefused(r) ==
  /\ req[r].pc = "mark"
  /\ ~Markable(req[r].cand)
  /\ Stay(r)
  /\ UNCHANGED <<intent, expired, candidates, selected, live, account>>

(* The refs the account has now; this read is outside the try. *)
ReadPrevious(r) ==
  /\ req[r].pc = "previous"
  /\ req' = [req EXCEPT ![r].pc = "save",
                        ![r].prev = CredentialsOf(req[r].cand[2])
                                      \ RefsOf(req[r].cand)]
  /\ UNCHANGED <<intent, expired, candidates, selected, live, account>>

ReadPreviousFails(r) ==
  /\ req[r].pc = "previous"
  /\ "store" \in MayFail
  /\ Stay(r)
  /\ UNCHANGED <<intent, expired, candidates, selected, live, account>>

(* saveChannelAccount: an upsert of everything but the insights secret. *)
Saved(c) ==
  account' = [account EXCEPT ![c[2]].status = "connected",
                             ![c[2]].publish = c]

SaveAccount(r) ==
  /\ req[r].pc = "save"
  /\ Saved(req[r].cand)
  /\ req' = [req EXCEPT ![r].pc = "record", ![r].written = TRUE]
  /\ UNCHANGED <<intent, expired, candidates, selected, live>>

(* The upsert is done but the read after it fails: select has no account. *)
SaveUnanswered(r) ==
  /\ req[r].pc = "save"
  /\ "reply" \in MayFail
  /\ Saved(req[r].cand)
  /\ To(r, "release")
  /\ UNCHANGED <<intent, expired, candidates, selected, live>>

RecordMetadata(r) ==
  /\ req[r].pc = "record"
  /\ account' = [account EXCEPT ![req[r].cand[2]].insights = req[r].cand]
  /\ To(r, "import")
  /\ UNCHANGED <<intent, expired, candidates, selected, live>>

(* importSnapshot resolves the publish secret before it asks the provider. *)
ImportSnapshot(r) ==
  /\ req[r].pc = "import"
  /\ <<req[r].cand, "publish">> \in live
  /\ To(r, "revoke")
  /\ UNCHANGED <<intent, expired, candidates, selected, live, account>>

(* Any of the three fails, or the secret is already revoked. *)
ConnectFails(r) ==
  /\ \/ req[r].pc \in {"save", "record"} /\ "store" \in MayFail
     \/ req[r].pc = "import" /\ "import" \in MayFail
     \/ req[r].pc = "import" /\ <<req[r].cand, "publish">> \notin live
  /\ To(r, "release")
  /\ UNCHANGED <<intent, expired, candidates, selected, live, account>>

Others(r) ==
  UNION {RefsOf(c): c \in req[r].listed \ {req[r].cand}}

RevokePrevious(r) ==
  /\ req[r].pc = "revoke"
  /\ live' = live \ req[r].prev
  /\ To(r, "others")
  /\ UNCHANGED <<intent, expired, candidates, selected, account>>

RevokeOthers(r) ==
  /\ req[r].pc = "others"
  /\ live' = live \ Others(r)
  /\ Stay(r)
  /\ UNCHANGED <<intent, expired, candidates, selected, account>>

(* revokeAllStrict goes through the refs of an account or of a sibling in  *)
(* their order, the publish secret first, and stops at the first failure.  *)
InOrder(some, refs) ==
  \A x \in some, y \in refs:
    x[2] = "insights" /\ y[2] = "publish" /\ x[1][2] = y[1][2] => y \in some

Revoking(r) == IF req[r].pc \in {"revoke", "cut"} THEN req[r].prev ELSE Others(r)

(* The failure is thrown into the catch; the Meta service swallows it,     *)
(* secret by secret, and goes on.                                          *)
RevokeFails(r) ==
  /\ req[r].pc \in {"revoke", "others"}
  /\ "vault" \in MayFail
  /\ \E some \in SUBSET Revoking(r):
       /\ r \in MetaRequests \/ InOrder(some, Revoking(r))
       /\ live' = live \ some
  /\ IF r \notin MetaRequests THEN To(r, "release")
     ELSE IF req[r].pc = "revoke" THEN To(r, "others") ELSE Stay(r)
  /\ UNCHANGED <<intent, expired, candidates, selected, account>>
-----------------------------------------------------------------------------
(* The catch of select.  Each of its steps swallows its own error.         *)
Swallowed == "compensation" \in MayFail

Release(r) ==
  /\ req[r].pc = "release"
  /\ \/ selected' = selected \ {req[r].cand}
     \/ Swallowed /\ UNCHANGED selected
  /\ IF req[r].written /\ r \notin MetaRequests THEN To(r, "disable")
     ELSE To(r, "withdraw")
  /\ UNCHANGED <<intent, expired, candidates, live, account>>

DisableAgain(r) ==
  /\ req[r].pc = "disable"
  /\ \/ account' = [account EXCEPT ![req[r].cand[2]].status = "disabled"]
     \/ Swallowed /\ UNCHANGED account
  /\ To(r, "withdraw")
  /\ UNCHANGED <<intent, expired, candidates, selected, live>>

Withdraw(r) ==
  /\ req[r].pc = "withdraw"
  /\ \/ live' = live \ RefsOf(req[r].cand)
     \/ /\ Swallowed
        /\ \E some \in SUBSET RefsOf(req[r].cand): live' = live \ some
  /\ Stay(r)
  /\ UNCHANGED <<intent, expired, candidates, selected, account>>
-----------------------------------------------------------------------------
(* disconnect: the secrets first, the account row last. *)
Disconnect(r, t) ==
  /\ req[r].pc = "idle"
  /\ account[t].status # "none"
  /\ req' = [req EXCEPT ![r] = [Idle EXCEPT !.pc = "cut", !.target = t,
                                            !.prev = CredentialsOf(t)]]
  /\ UNCHANGED <<intent, expired, candidates, selected, live, account>>

Cut(r) ==
  /\ req[r].pc = "cut"
  /\ live' = live \ req[r].prev
  /\ To(r, "off")
  /\ UNCHANGED <<intent, expired, candidates, selected, account>>

SwitchOff(r) ==
  /\ req[r].pc = "off"
  /\ account' = [account EXCEPT ![req[r].target].status = "disabled"]
  /\ Stay(r)
  /\ UNCHANGED <<intent, expired, candidates, selected, live>>

DisconnectFails(r) ==
  /\ req[r].pc \in {"cut", "off"}
  /\ "disconnect" \in MayFail
  /\ \/ req[r].pc = "off" /\ UNCHANGED live
     \/ /\ req[r].pc = "cut"
        /\ \E some \in SUBSET Revoking(r):
             InOrder(some, Revoking(r)) /\ live' = live \ some
  /\ Stay(r)
  /\ UNCHANGED <<intent, expired, candidates, selected, account>>

(* (mutant) only candidates whose intent was never completed *)
PendingUnsaved ==
  {c \in candidates: c[1] \in expired /\ c \notin selected
                       /\ intent[c[1]] # "saved"}

(* purgeExpiredPendingCredentials, once a minute in every API process. *)
Pending == {c \in candidates: c[1] \in expired /\ c \notin selected}

Purge ==
  /\ live' = live \ UNION {RefsOf(c): c \in Pending}
  /\ live' # live
  /\ UNCHANGED <<intent, expired, candidates, selected, account, req>>

(* The process dies with the request. *)
Die(r) ==
  /\ req[r].pc # "idle"
  /\ "process" \in MayFail
  /\ Stay(r)
  /\ UNCHANGED <<intent, expired, candidates, selected, live, account>>
-----------------------------------------------------------------------------
CompleteStep(r) ==
  \/ \E i \in Intents: Consume(r, i)
  \/ \E t \in Targets: StoreSecrets(r, t)
  \/ ExchangeFails(r) \/ SaveCandidates(r) \/ SaveCandidatesFails(r)

SelectStep(r) ==
  \/ \E c \in Candidates: Select(r, c)
  \/ Mark(r) \/ MarkRefused(r)
  \/ ReadPrevious(r) \/ ReadPreviousFails(r)
  \/ SaveAccount(r) \/ SaveUnanswered(r)
  \/ RecordMetadata(r) \/ ImportSnapshot(r) \/ ConnectFails(r)
  \/ RevokePrevious(r) \/ RevokeOthers(r) \/ RevokeFails(r)
  \/ Release(r) \/ DisableAgain(r) \/ Withdraw(r)

DisconnectStep(r) ==
  \/ \E t \in Targets: Disconnect(r, t)
  \/ Cut(r) \/ SwitchOff(r) \/ DisconnectFails(r)

Next ==
  \/ \E i \in Intents: Begin(i) \/ Expire(i)
  \/ \E r \in Requests:
       CompleteStep(r) \/ SelectStep(r) \/ DisconnectStep(r) \/ Die(r)
  \/ Purge

Spec == Init /\ [][Next]_vars

-----------------------------------------------------------------------------
TypeOK ==
  /\ intent \in [Intents -> {"none", "open", "used", "saved"}]
  /\ expired \subseteq Intents
  /\ candidates \subseteq Candidates
  /\ selected \subseteq candidates
  /\ live \subseteq Refs
  /\ account \in [Targets -> Account]
  /\ req \in [Requests -> Request]

(* No request is between the first and the last write of select or of      *)
(* disconnect for this account.                                            *)
AtWork(r, t) ==
  /\ req[r].pc \notin {"idle", "exchange", "mark", "previous", "save"}
  /\ t \in {req[r].target} \cup {c[2]: c \in {req[r].cand} \ {None}}

Quiet(t) == \A r \in Requests: ~AtWork(r, t)

(* An account that is shown as connected can publish and collect: both of  *)
(* its secrets are in the vault, and they are one candidate's (select,     *)
(* its compensation, disconnect and the purge together).                   *)
ConnectedIsUsable ==
  \A t \in Targets:
    account[t].status = "connected" /\ Quiet(t) =>
      /\ account[t].publish = account[t].insights
      /\ CredentialsOf(t) \subseteq live

(* The state given out by begin buys one connection: however two requests  *)
(* for its candidates interleave and fail, they do not leave two accounts  *)
(* connected (markSelected, its index, and the order of the compensation). *)
OneConnectionPerIntent ==
  \A t, u \in Targets:
    /\ t # u
    /\ account[t].status = "connected" /\ Quiet(t)
    /\ account[u].status = "connected" /\ Quiet(u)
    => account[t].publish[1] # account[u].publish[1]

(* The minute sweep that revokes what nobody chose never revokes what an   *)
(* account uses: a connected account is backed by a selected candidate.    *)
ConnectedIsSelected ==
  \A t \in Targets:
    account[t].status = "connected" /\ Quiet(t) =>
      account[t].publish \in selected

(* Both, as one: what a connected account stands on.                       *)
AccountsBacked == OneConnectionPerIntent /\ ConnectedIsSelected

(* Secrets of candidates nobody chose do not stay: once the intent has     *)
(* expired they are revoked, or the candidate was chosen before.           *)
PendingSecretsPurged ==
  \A c \in Candidates:
    c \in candidates /\ c[1] \in expired
      ~> RefsOf(c) \cap live = {} \/ c \in selected
=============================================================================
