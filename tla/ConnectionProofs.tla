-------------------------- MODULE ConnectionProofs --------------------------
(***************************************************************************)
(* Connecting an account, for any number of intents, accounts and requests *)
(* of the Instagram service.  First what holds whatever fails: the rows    *)
(* are well formed and the unique index allows one chosen candidate of an  *)
(* intent.  Then, where a write that was done is answered, a step of the   *)
(* compensation that is begun succeeds and a request is not cut off, what  *)
(* a connected account stands on.  The invariant follows the candidate a   *)
(* request holds from markSelected to its release, and the account that    *)
(* shows a released candidate to the request about to disable it.  And,    *)
(* while one request is served at a time, that a connected account has the *)
(* secrets it shows.                                                       *)
(* Then collecting metrics: what a posting's row says of its attempts, for *)
(* any postings, windows, processes and faults.  Then a Drive: what its    *)
(* connection stands on whatever requests interleave, what it lists and    *)
(* keeps while they come one at a time, and the walk of its folders, which *)
(* is complete unless it says that it is not.                              *)
(***************************************************************************)
EXTENDS ChannelConnection, Integers, Sequences, TLAPS, FiniteSetTheorems,
        WellFoundedInduction

Choosing == {"mark", "previous", "save", "record", "import", "revoke",
             "others", "release", "disable", "withdraw"}

Sound(v, C) ==
  /\ v.pc = "exchange" => v.intent \in Intents
  /\ v.pc \in Choosing => v.cand \in C
  /\ v.pc \in {"cut", "off"} => v.target \in Targets

(* The unique index on the selected row of an intent.                      *)
OneChosen == \A c, d \in selected: c[1] = d[1] => c = d

Rows == TypeOK /\ OneChosen /\ \A r \in Requests: Sound(req[r], candidates)

(* Request r goes on at p, and no other request moves.                     *)
Goes(r, p) ==
  /\ req' \in [Requests -> Request]
  /\ \A q \in Requests \ {r}: req'[q] = req[q]
  /\ req'[r].pc = p

Same(r) ==
  /\ req'[r].cand = req[r].cand /\ req'[r].target = req[r].target
  /\ req'[r].intent = req[r].intent /\ req'[r].written = req[r].written

-----------------------------------------------------------------------------
LEMMA ToGoes ==
  ASSUME TypeOK, NEW r \in Requests, NEW p \in Phase, To(r, p)
  PROVE  Goes(r, p) /\ Same(r)
  <1>1. req \in [Requests -> Request]
    BY DEF TypeOK
  <1>2. req[r] \in Request
    BY <1>1
  <1> DEFINE v == [req[r] EXCEPT !.pc = p]
  <1>3. /\ v \in Request /\ v.pc = p /\ v.cand = req[r].cand /\ v.target = req[r].target
        /\ v.intent = req[r].intent /\ v.written = req[r].written
    BY <1>2 DEF Request
  <1>4. req' = [req EXCEPT ![r] = v]
    BY DEF To
  <1> HIDE DEF v
  <1>5. req' \in [Requests -> Request] /\ req'[r] = v /\ \A q \in Requests \ {r}: req'[q] = req[q]
    BY <1>1, <1>3, <1>4
  <1>6. QED
    BY <1>3, <1>5 DEF Goes, Same

LEMMA NewGoes ==
  ASSUME TypeOK, NEW r \in Requests, NEW v \in Request, req' = [req EXCEPT ![r] = v]
  PROVE  Goes(r, v.pc) /\ req'[r] = v
  BY DEF TypeOK, Goes

LEMMA IdleType == Idle \in Request /\ Idle.pc = "idle"
  BY DEF Idle, Request, Phase

LEMMA StayGoes ==
  ASSUME TypeOK, NEW r \in Requests, Stay(r)
  PROVE  Goes(r, "idle")
  BY IdleType, NewGoes DEF Stay

(* A candidate that a request chose is a row, of an intent and a target.   *)
LEMMA Chosen ==
  ASSUME Rows, NEW r \in Requests, req[r].pc \in Choosing
  PROVE  /\ req[r].cand \in candidates /\ req[r].cand \in Candidates
         /\ req[r].cand[1] \in Intents /\ req[r].cand[2] \in Targets
  BY DEF Rows, TypeOK, Sound, Candidates

LEMMA AccountSaved ==
  ASSUME Rows, NEW c \in Candidates, Saved(c)
  PROVE  /\ account' \in [Targets -> Account]
         /\ account'[c[2]].status = "connected" /\ account'[c[2]].publish = c
         /\ \A t \in Targets: t # c[2] => account'[t] = account[t]
  <1>1. account \in [Targets -> Account] /\ c[2] \in Targets
    BY DEF Rows, TypeOK, Candidates
  <1> DEFINE x == [account EXCEPT ![c[2]].status = "connected"]
  <1>2. x \in [Targets -> Account] /\ x[c[2]].status = "connected"
    BY <1>1 DEF Account, Status
  <1>3. \A t \in Targets: t # c[2] => x[t] = account[t]
    BY <1>1
  <1>4. account' = [x EXCEPT ![c[2]].publish = c]
    BY DEF Saved
  <1> HIDE DEF x
  <1>5. /\ [x[c[2]] EXCEPT !.publish = c] \in Account
        /\ [x[c[2]] EXCEPT !.publish = c].status = "connected"
        /\ [x[c[2]] EXCEPT !.publish = c].publish = c
    BY <1>1, <1>2 DEF Account
  <1>6. account' = [x EXCEPT ![c[2]] = [x[c[2]] EXCEPT !.publish = c]]
    BY <1>4
  <1>7. QED
    BY <1>1, <1>2, <1>3, <1>5, <1>6

LEMMA AccountDisabled ==
  ASSUME Rows, NEW t \in Targets, account' = [account EXCEPT ![t].status = "disabled"]
  PROVE  /\ account' \in [Targets -> Account] /\ account'[t].status = "disabled"
         /\ \A u \in Targets: u # t => account'[u] = account[u]
  BY DEF Rows, TypeOK, Account, Status

LEMMA AccountRecorded ==
  ASSUME Rows, NEW c \in Candidates, account' = [account EXCEPT ![c[2]].insights = c]
  PROVE  /\ account' \in [Targets -> Account]
         /\ \A t \in Targets: account'[t].status = account[t].status
                              /\ account'[t].publish = account[t].publish
  BY DEF Rows, TypeOK, Account, Candidates

-----------------------------------------------------------------------------
(* Whatever a step writes besides, the requests stay sound when the one    *)
(* that moved is.                                                          *)
LEMMA RowsAfter ==
  ASSUME Rows, NEW r \in Requests, NEW p \in Phase, Goes(r, p),
         candidates \subseteq candidates', candidates' \subseteq Candidates,
         Sound(req'[r], candidates'), OneChosen',
         selected' \subseteq candidates', live' \subseteq Refs,
         intent' \in [Intents -> {"none", "open", "used", "saved"}],
         expired' \subseteq Intents, account' \in [Targets -> Account]
  PROVE  Rows'
  <1>1. \A q \in Requests \ {r}: Sound(req'[q], candidates')
    BY DEF Rows, Goes, Sound
  <1>2. \A q \in Requests: Sound(req'[q], candidates')
    BY <1>1
  <1>3. TypeOK'
    BY DEF TypeOK, Goes
  <1>4. QED
    BY <1>2, <1>3 DEF Rows

LEMMA RefsOfType == \A c \in Candidates: RefsOf(c) \subseteq Refs
  BY DEF RefsOf, Refs

LEMMA InitRows == Init => Rows
  <1> SUFFICES ASSUME Init PROVE Rows
    OBVIOUS
  <1>1. req \in [Requests -> Request] /\ \A r \in Requests: req[r].pc = "idle"
    BY IdleType DEF Init
  <1>2. account \in [Targets -> Account]
    BY DEF Init, NoAccount, Account, Status
  <1>3. TypeOK
    BY <1>1, <1>2 DEF Init, TypeOK
  <1>4. QED
    BY <1>1, <1>3 DEF Rows, OneChosen, Sound, Choosing, Init

-----------------------------------------------------------------------------
(* Where each handler that starts or goes on with more than a place goes.  *)

LEMMA ConsumeGoes ==
  ASSUME Rows, NEW r \in Requests, NEW i \in Intents, Consume(r, i)
  PROVE  Goes(r, "exchange") /\ req'[r].intent = i /\ ~req'[r].written
  <1> DEFINE w == [Idle EXCEPT !.pc = "exchange"]
             v == [Idle EXCEPT !.pc = "exchange", !.intent = i]
  <1>1. req' = [req EXCEPT ![r] = v] /\ v = [w EXCEPT !.intent = i]
    BY DEF Consume
  <1> HIDE DEF v
  <1>2. w \in Request /\ w.pc = "exchange" /\ ~w.written
    BY DEF Idle, Request, Phase
  <1> HIDE DEF w
  <1>3. v \in Request /\ v.pc = "exchange" /\ v.intent = i /\ ~v.written
    BY <1>1, <1>2 DEF Request
  <1>4. QED
    BY <1>1, <1>3, NewGoes DEF Rows

LEMMA SelectGoes ==
  ASSUME Rows, NEW r \in Requests, NEW c \in Candidates, Select(r, c)
  PROVE  Goes(r, "mark") /\ req'[r].cand = c /\ ~req'[r].written
  <1> DEFINE listed == Of(c)
             w == [Idle EXCEPT !.pc = "mark"]
             x == [w EXCEPT !.cand = c]
             v == [Idle EXCEPT !.pc = "mark", !.cand = c, !.listed = listed]
  <1>1. req' = [req EXCEPT ![r] = v] /\ v = [x EXCEPT !.listed = listed]
    BY DEF Select
  <1>2. listed \subseteq Candidates
    BY DEF Of, Rows, TypeOK
  <1> HIDE DEF v, listed
  <1>3. w \in Request /\ w.pc = "mark" /\ ~w.written
    BY DEF Idle, Request, Phase
  <1> HIDE DEF w
  <1>4. x \in Request /\ x.pc = "mark" /\ ~x.written /\ x.cand = c
    BY <1>3 DEF Request
  <1> HIDE DEF x
  <1>5. v \in Request /\ v.pc = "mark" /\ v.cand = c /\ ~v.written
    BY <1>1, <1>2, <1>4 DEF Request
  <1>6. QED
    BY <1>1, <1>5, NewGoes DEF Rows

LEMMA DisconnectGoes ==
  ASSUME Rows, NEW r \in Requests, NEW t \in Targets, Disconnect(r, t)
  PROVE  Goes(r, "cut") /\ req'[r].target = t
  <1> DEFINE refs == CredentialsOf(t)
             w == [Idle EXCEPT !.pc = "cut"]
             x == [w EXCEPT !.target = t]
             v == [Idle EXCEPT !.pc = "cut", !.target = t, !.prev = refs]
  <1>1. req' = [req EXCEPT ![r] = v] /\ v = [x EXCEPT !.prev = refs]
    BY DEF Disconnect
  <1>2. refs \subseteq Refs
    BY DEF CredentialsOf
  <1> HIDE DEF v, refs
  <1>3. w \in Request /\ w.pc = "cut"
    BY DEF Idle, Request, Phase
  <1> HIDE DEF w
  <1>4. x \in Request /\ x.pc = "cut" /\ x.target = t
    BY <1>3 DEF Request
  <1> HIDE DEF x
  <1>5. v \in Request /\ v.pc = "cut" /\ v.target = t
    BY <1>1, <1>2, <1>4 DEF Request
  <1>6. QED
    BY <1>1, <1>5, NewGoes DEF Rows

LEMMA StoreSecretsGoes ==
  ASSUME Rows, NEW r \in Requests, NEW t \in Targets, StoreSecrets(r, t)
  PROVE  /\ Goes(r, "exchange") /\ Same(r)
         /\ <<req[r].intent, t>> \in Candidates
  <1>1. req[r] \in Request /\ req[r].pc = "exchange" /\ req[r].intent \in Intents
    BY DEF Rows, TypeOK, Sound, StoreSecrets
  <1>2. <<req[r].intent, t>> \in Candidates
    BY <1>1 DEF Candidates
  <1> DEFINE v == [req[r] EXCEPT !.listed = @ \cup {<<req[r].intent, t>>}]
  <1>3. /\ v \in Request /\ v.pc = "exchange" /\ v.cand = req[r].cand /\ v.target = req[r].target
        /\ v.intent = req[r].intent /\ v.written = req[r].written
    BY <1>1, <1>2 DEF Request
  <1>4. req' = [req EXCEPT ![r] = v]
    BY DEF StoreSecrets
  <1> HIDE DEF v
  <1>5. Goes(r, "exchange") /\ req'[r] = v
    BY <1>3, <1>4, NewGoes DEF Rows
  <1>6. QED
    BY <1>2, <1>3, <1>5 DEF Same

(* A lone candidate is chosen at once; otherwise the person chooses later. *)
LEMMA SaveCandidatesGoes ==
  ASSUME Rows, NEW r \in Requests, SaveCandidates(r)
  PROVE  \/ Goes(r, "idle")
         \/ /\ Goes(r, "mark") /\ req'[r].written = req[r].written
            /\ req'[r].cand \in req[r].listed
  <1>1. req[r] \in Request /\ req[r].listed \subseteq Candidates
    BY DEF Rows, TypeOK, Request
  <1>2. IsFiniteSet(req[r].listed)
    BY <1>1, ConnectionAssumption, FS_Product, FS_Subset DEF Candidates
  <1>3. CASE Cardinality(req[r].listed) = 1
    <2>1. PICK c: req[r].listed = {c}
      BY <1>2, <1>3, FS_Singleton
    <2> DEFINE d == CHOOSE x \in req[r].listed: TRUE
               v == [req[r] EXCEPT !.pc = "mark", !.cand = d]
               w == [req[r] EXCEPT !.pc = "mark"]
    <2>2. d = c /\ d \in Candidates /\ d \in req[r].listed
      BY <1>1, <2>1
    <2>3. v = [w EXCEPT !.cand = d]
      OBVIOUS
    <2>4. req' = [req EXCEPT ![r] = v]
      BY <1>3 DEF SaveCandidates
    <2> HIDE DEF d, v
    <2>5. w \in Request /\ w.pc = "mark" /\ w.written = req[r].written
      BY <1>1 DEF Request, Phase
    <2> HIDE DEF w
    <2>6. v \in Request /\ v.pc = "mark" /\ v.cand = d /\ v.written = req[r].written
      BY <2>2, <2>3, <2>5 DEF Request
    <2>7. Goes(r, "mark") /\ req'[r] = v
      BY <2>4, <2>6, NewGoes DEF Rows
    <2>8. QED
      BY <2>2, <2>6, <2>7
  <1>4. CASE Cardinality(req[r].listed) # 1
    BY <1>4, StayGoes DEF SaveCandidates, Rows
  <1>5. QED
    BY <1>3, <1>4

LEMMA ReadPreviousGoes ==
  ASSUME Rows, NEW r \in Requests, ReadPrevious(r)
  PROVE  Goes(r, "save") /\ Same(r)
  <1>1. req[r] \in Request
    BY DEF Rows, TypeOK
  <1> DEFINE refs == CredentialsOf(req[r].cand[2]) \ RefsOf(req[r].cand)
             w == [req[r] EXCEPT !.pc = "save"]
             v == [req[r] EXCEPT !.pc = "save", !.prev = refs]
  <1>2. refs \subseteq Refs
    BY DEF CredentialsOf
  <1>3. req' = [req EXCEPT ![r] = v] /\ v = [w EXCEPT !.prev = refs]
    BY DEF ReadPrevious
  <1> HIDE DEF v, refs
  <1>4. /\ w \in Request /\ w.pc = "save" /\ w.cand = req[r].cand /\ w.target = req[r].target
        /\ w.intent = req[r].intent /\ w.written = req[r].written
    BY <1>1 DEF Request, Phase
  <1> HIDE DEF w
  <1>5. /\ v \in Request /\ v.pc = "save" /\ v.cand = req[r].cand /\ v.target = req[r].target
        /\ v.intent = req[r].intent /\ v.written = req[r].written
    BY <1>2, <1>3, <1>4 DEF Request
  <1>6. Goes(r, "save") /\ req'[r] = v
    BY <1>3, <1>5, NewGoes DEF Rows
  <1>7. QED
    BY <1>5, <1>6 DEF Same

LEMMA SaveAccountGoes ==
  ASSUME Rows, NEW r \in Requests, SaveAccount(r)
  PROVE  /\ Goes(r, "record") /\ req'[r].written
         /\ req'[r].cand = req[r].cand
  <1>1. req[r] \in Request
    BY DEF Rows, TypeOK
  <1> DEFINE w == [req[r] EXCEPT !.pc = "record"]
             v == [req[r] EXCEPT !.pc = "record", !.written = TRUE]
  <1>3. req' = [req EXCEPT ![r] = v] /\ v = [w EXCEPT !.written = TRUE]
    BY DEF SaveAccount
  <1> HIDE DEF v
  <1>4. w \in Request /\ w.pc = "record" /\ w.cand = req[r].cand
    BY <1>1 DEF Request, Phase
  <1> HIDE DEF w
  <1>5. v \in Request /\ v.pc = "record" /\ v.cand = req[r].cand /\ v.written
    BY <1>3, <1>4 DEF Request
  <1>6. QED
    BY <1>3, <1>5, NewGoes DEF Rows

-----------------------------------------------------------------------------
(* Every step keeps the rows well formed, whatever fails.                  *)

(* A step that moves on along a place, and writes at most secrets.         *)
LEMMA RowsOfMove ==
  ASSUME Rows, NEW r \in Requests, NEW p \in Phase, Goes(r, p), live' \subseteq Refs,
         UNCHANGED <<intent, expired, candidates, selected, account>>,
         Sound(req'[r], candidates)
  PROVE  Rows'
  <1>1. /\ OneChosen' /\ selected' \subseteq candidates'
        /\ intent' \in [Intents -> {"none", "open", "used", "saved"}]
        /\ expired' \subseteq Intents /\ account' \in [Targets -> Account]
        /\ candidates \subseteq candidates' /\ candidates' \subseteq Candidates
    BY DEF Rows, TypeOK, OneChosen
  <1>2. QED
    BY <1>1, RowsAfter

LEMMA SoundMove ==
  ASSUME Rows, NEW r \in Requests, NEW p \in Phase, Goes(r, p), Same(r),
         p \in Choosing => req[r].pc \in Choosing,
         p = "exchange" => req[r].pc = "exchange",
         p \in {"cut", "off"} => req[r].pc \in {"cut", "off"}
  PROVE  Sound(req'[r], candidates)
  BY DEF Rows, Sound, Goes, Same

LEMMA SoundIdle ==
  ASSUME NEW r \in Requests, Goes(r, "idle"), NEW C
  PROVE  Sound(req'[r], C)
  BY DEF Goes, Sound, Choosing

LEMMA LiveType == Rows => /\ live \subseteq Refs
                         /\ \A S: live \ S \subseteq Refs
                         /\ \A c \in Candidates: live \cup RefsOf(c) \subseteq Refs
  BY RefsOfType DEF Rows, TypeOK

LEMMA CompleteRows ==
  ASSUME Rows, NEW r \in Requests, CompleteStep(r)
  PROVE  Rows'
  <1>1. ASSUME NEW i \in Intents, Consume(r, i) PROVE Rows'
    <2>1. Goes(r, "exchange") /\ req'[r].intent = i
      BY <1>1, ConsumeGoes
    <2>2. Sound(req'[r], candidates')
      BY <2>1 DEF Goes, Sound, Choosing
    <2>3. intent' \in [Intents -> {"none", "open", "used", "saved"}]
      BY <1>1 DEF Consume, Rows, TypeOK
    <2>4. /\ OneChosen' /\ selected' \subseteq candidates' /\ live' \subseteq Refs
          /\ expired' \subseteq Intents /\ account' \in [Targets -> Account]
          /\ candidates \subseteq candidates' /\ candidates' \subseteq Candidates
      BY <1>1 DEF Consume, Rows, TypeOK, OneChosen
    <2>5. "exchange" \in Phase
      BY DEF Phase
    <2>6. QED
      BY <2>1, <2>2, <2>3, <2>4, <2>5, RowsAfter
  <1>2. ASSUME NEW t \in Targets, StoreSecrets(r, t) PROVE Rows'
    <2>1. /\ Goes(r, "exchange") /\ Same(r) /\ <<req[r].intent, t>> \in Candidates
          /\ req[r].pc = "exchange" /\ "exchange" \in Phase
      BY <1>2, StoreSecretsGoes DEF StoreSecrets, Phase
    <2>2. Sound(req'[r], candidates)
      BY <2>1, SoundMove DEF Choosing
    <2>3. live' \subseteq Refs
      BY <1>2, <2>1, LiveType DEF StoreSecrets
    <2>4. QED
      BY <1>2, <2>1, <2>2, <2>3, RowsOfMove DEF StoreSecrets
  <1>3. ASSUME ExchangeFails(r) \/ SaveCandidatesFails(r) PROVE Rows'
    <2>1. Goes(r, "idle")
      BY <1>3, StayGoes DEF ExchangeFails, SaveCandidatesFails, Rows
    <2>2. live' \subseteq Refs
      BY <1>3, LiveType DEF ExchangeFails, SaveCandidatesFails
    <2>3. QED
      BY <1>3, <2>1, <2>2, SoundIdle, RowsOfMove DEF ExchangeFails, SaveCandidatesFails, Phase
  <1>4. ASSUME SaveCandidates(r) PROVE Rows'
    <2>1. req[r] \in Request /\ req[r].intent \in Intents /\ req[r].listed \subseteq Candidates
      BY <1>4 DEF Rows, TypeOK, Sound, SaveCandidates, Request
    <2>2. /\ intent' \in [Intents -> {"none", "open", "used", "saved"}]
          /\ candidates \subseteq candidates' /\ candidates' \subseteq Candidates
          /\ req[r].listed \subseteq candidates'
      BY <1>4, <2>1 DEF SaveCandidates, Rows, TypeOK
    <2>3. /\ OneChosen' /\ selected' \subseteq candidates' /\ live' \subseteq Refs
          /\ expired' \subseteq Intents /\ account' \in [Targets -> Account]
      BY <1>4 DEF SaveCandidates, Rows, TypeOK, OneChosen
    <2>4. CASE Goes(r, "idle")
      BY <2>2, <2>3, <2>4, SoundIdle, RowsAfter DEF Phase
    <2>5. CASE Goes(r, "mark") /\ req'[r].cand \in req[r].listed
      <3>1. Sound(req'[r], candidates') /\ "mark" \in Phase
        BY <2>2, <2>5 DEF Goes, Sound, Phase
      <3>2. QED
        BY <2>2, <2>3, <2>5, <3>1, RowsAfter
    <2>6. QED
      BY <1>4, <2>4, <2>5, SaveCandidatesGoes
  <1>5. QED
    BY <1>1, <1>2, <1>3, <1>4 DEF CompleteStep

(* Where the steps of select go that write at most secrets.                *)
LEMMA PlainGoes ==
  ASSUME Rows, NEW r \in Requests
  PROVE  /\ ReadPrevious(r) => req[r].pc = "previous" /\ Goes(r, "save") /\ Same(r)
         /\ ImportSnapshot(r) => req[r].pc = "import" /\ Goes(r, "revoke") /\ Same(r)
         /\ ConnectFails(r) => /\ req[r].pc \in {"save", "record", "import"}
                               /\ Goes(r, "release") /\ Same(r)
         /\ RevokePrevious(r) => req[r].pc = "revoke" /\ Goes(r, "others") /\ Same(r)
         /\ RevokeFails(r) => /\ req[r].pc \in {"revoke", "others"}
                              /\ \/ Goes(r, "release") /\ Same(r)
                                 \/ Goes(r, "others") /\ Same(r) /\ req[r].pc = "revoke"
                                 \/ Goes(r, "idle")
  <1>1. TypeOK
    BY DEF Rows
  <1>2. {"revoke", "release", "others"} \subseteq Phase
    BY DEF Phase
  <1>3. ReadPrevious(r) => req[r].pc = "previous" /\ Goes(r, "save") /\ Same(r)
    BY ReadPreviousGoes DEF ReadPrevious
  <1>4. ImportSnapshot(r) => req[r].pc = "import" /\ Goes(r, "revoke") /\ Same(r)
    BY <1>1, <1>2, ToGoes DEF ImportSnapshot
  <1>5. ConnectFails(r) => /\ req[r].pc \in {"save", "record", "import"}
                           /\ Goes(r, "release") /\ Same(r)
    BY <1>1, <1>2, ToGoes DEF ConnectFails
  <1>6. RevokePrevious(r) => req[r].pc = "revoke" /\ Goes(r, "others") /\ Same(r)
    BY <1>1, <1>2, ToGoes DEF RevokePrevious
  <1>7. ASSUME RevokeFails(r)
        PROVE  /\ req[r].pc \in {"revoke", "others"}
               /\ \/ Goes(r, "release") /\ Same(r)
                  \/ Goes(r, "others") /\ Same(r) /\ req[r].pc = "revoke"
                  \/ Goes(r, "idle")
    <2>1. \/ To(r, "release")
          \/ To(r, "others") /\ req[r].pc = "revoke"
          \/ Stay(r)
      BY <1>7 DEF RevokeFails
    <2>2. req[r].pc \in {"revoke", "others"}
      BY <1>7 DEF RevokeFails
    <2>3. QED
      BY <1>1, <1>2, <2>1, <2>2, ToGoes, StayGoes
  <1>8. QED
    BY <1>3, <1>4, <1>5, <1>6, <1>7

LEMMA PlainRows ==
  ASSUME Rows, NEW r \in Requests,
         ReadPrevious(r) \/ ImportSnapshot(r) \/ ConnectFails(r)
           \/ RevokePrevious(r) \/ RevokeFails(r)
  PROVE  Rows'
  <1>1. UNCHANGED <<intent, expired, candidates, selected, account>>
    BY DEF ReadPrevious, ImportSnapshot, ConnectFails, RevokePrevious, RevokeFails
  <1>2. live' \subseteq Refs
    BY LiveType DEF ReadPrevious, ImportSnapshot, ConnectFails, RevokePrevious, RevokeFails
  <1>3. ASSUME NEW p \in {"save", "revoke", "release", "others"}, Goes(r, p), Same(r),
               req[r].pc \in {"previous", "import", "save", "record", "revoke", "others"}
        PROVE Rows'
    <2>1. p \in Phase /\ p # "exchange" /\ p \notin {"cut", "off"} /\ req[r].pc \in Choosing
      BY <1>3 DEF Phase, Choosing
    <2>2. Sound(req'[r], candidates)
      BY <1>3, <2>1, SoundMove
    <2>3. QED
      BY <1>1, <1>2, <1>3, <2>1, <2>2, RowsOfMove
  <1>4. ASSUME Goes(r, "idle") PROVE Rows'
    BY <1>1, <1>2, <1>4, SoundIdle, RowsOfMove DEF Phase
  <1>5. QED
    BY <1>3, <1>4, PlainGoes

LEMMA MarkOneChosen ==
  ASSUME Rows, NEW r \in Requests, Mark(r)
  PROVE  OneChosen' /\ selected' \subseteq candidates
  <1>1. req[r].cand \in candidates /\ selected \subseteq candidates
    BY Chosen DEF Mark, Choosing, Rows, TypeOK
  <1>2. \A c \in selected: c[1] # req[r].cand[1]
    BY <1>1 DEF Mark, Markable, Of
  <1>3. QED
    BY <1>1, <1>2 DEF Mark, OneChosen, Rows

LEMMA SelectRows ==
  ASSUME Rows, NEW r \in Requests, SelectStep(r)
  PROVE  Rows'
  <1>0. /\ OneChosen /\ selected \subseteq candidates /\ live \subseteq Refs /\ TypeOK
        /\ intent \in [Intents -> {"none", "open", "used", "saved"}]
        /\ expired \subseteq Intents /\ account \in [Targets -> Account]
        /\ candidates \subseteq Candidates
    BY DEF Rows, TypeOK
  <1>1. ASSUME NEW c \in Candidates, Select(r, c) PROVE Rows'
    <2>1. Goes(r, "mark") /\ req'[r].cand = c /\ c \in candidates /\ "mark" \in Phase
      BY <1>1, SelectGoes DEF Select, Phase
    <2>2. Sound(req'[r], candidates)
      BY <2>1 DEF Sound, Goes
    <2>3. QED
      BY <1>0, <1>1, <2>1, <2>2, RowsOfMove DEF Select
  <1>2. ASSUME Mark(r) PROVE Rows'
    <2>1. Goes(r, "previous") /\ Same(r) /\ req[r].pc = "mark" /\ "previous" \in Phase
      BY <1>0, <1>2, ToGoes DEF Mark, Phase
    <2>2. Sound(req'[r], candidates)
      BY <2>1, SoundMove DEF Choosing
    <2>3. OneChosen' /\ selected' \subseteq candidates'
      BY <1>2, MarkOneChosen DEF Mark
    <2>4. /\ UNCHANGED <<intent, expired, candidates, live, account>>
      BY <1>2 DEF Mark
    <2>5. QED
      BY <1>0, <2>1, <2>2, <2>3, <2>4, RowsAfter
  <1>3. ASSUME MarkRefused(r) \/ ReadPreviousFails(r) \/ RevokeOthers(r) PROVE Rows'
    <2>1. Goes(r, "idle") /\ Sound(req'[r], candidates) /\ "idle" \in Phase
      BY <1>0, <1>3, StayGoes, SoundIdle DEF MarkRefused, ReadPreviousFails, RevokeOthers, Phase
    <2>2. live' \subseteq Refs
      BY <1>0, <1>3, LiveType DEF MarkRefused, ReadPreviousFails, RevokeOthers
    <2>3. QED
      BY <1>3, <2>1, <2>2, RowsOfMove DEF MarkRefused, ReadPreviousFails, RevokeOthers
  <1>4. ASSUME SaveAccount(r) \/ SaveUnanswered(r) PROVE Rows'
    <2>1. req[r].pc = "save" /\ req[r].pc \in Choosing
      BY <1>4 DEF SaveAccount, SaveUnanswered, Choosing
    <2>2. req[r].cand \in candidates /\ req[r].cand \in Candidates
      BY <2>1, Chosen
    <2>3. account' \in [Targets -> Account]
      BY <1>4, <2>2, AccountSaved DEF SaveAccount, SaveUnanswered
    <2>4. PICK p \in {"record", "release"}: Goes(r, p) /\ req'[r].cand = req[r].cand
      <3>1. {"record", "release"} \subseteq Phase
        BY DEF Phase
      <3>2. CASE SaveAccount(r)
        BY <3>2, SaveAccountGoes
      <3>3. CASE SaveUnanswered(r)
        BY <1>0, <3>1, <3>3, ToGoes DEF SaveUnanswered, Same
      <3>4. QED
        BY <1>4, <3>2, <3>3
    <2>5. Sound(req'[r], candidates) /\ p \in Phase
      BY <2>2, <2>4 DEF Sound, Goes, Phase
    <2>6. UNCHANGED <<intent, expired, candidates, selected, live>>
      BY <1>4 DEF SaveAccount, SaveUnanswered
    <2>7. OneChosen'
      BY <1>0, <2>6 DEF OneChosen
    <2>8. QED
      BY <1>0, <2>3, <2>4, <2>5, <2>6, <2>7, RowsAfter
  <1>5. ASSUME RecordMetadata(r) \/ DisableAgain(r) PROVE Rows'
    <2>1. req[r].pc \in {"record", "disable"} /\ req[r].pc \in Choosing
      BY <1>5 DEF RecordMetadata, DisableAgain, Choosing
    <2>2. req[r].cand \in Candidates /\ req[r].cand[2] \in Targets
      BY <2>1, Chosen
    <2>3. account' \in [Targets -> Account]
      BY <1>0, <1>5, <2>2, AccountRecorded, AccountDisabled DEF RecordMetadata, DisableAgain
    <2>4. PICK p \in {"import", "withdraw"}: Goes(r, p) /\ Same(r)
      BY <1>0, <1>5, ToGoes DEF RecordMetadata, DisableAgain, Phase
    <2>5. Sound(req'[r], candidates) /\ p \in Phase
      BY <2>1, <2>4, SoundMove DEF Phase
    <2>6. UNCHANGED <<intent, expired, candidates, selected, live>>
      BY <1>5 DEF RecordMetadata, DisableAgain
    <2>7. OneChosen'
      BY <1>0, <2>6 DEF OneChosen
    <2>8. QED
      BY <1>0, <2>3, <2>4, <2>5, <2>6, <2>7, RowsAfter
  <1>6. ASSUME Release(r) PROVE Rows'
    <2>1. req[r].pc = "release" /\ req[r].pc \in Choosing
      BY <1>6 DEF Release, Choosing
    <2>2. PICK p \in {"disable", "withdraw"}: Goes(r, p) /\ Same(r)
      BY <1>0, <1>6, ToGoes DEF Release, Phase
    <2>3. Sound(req'[r], candidates) /\ p \in Phase
      BY <2>1, <2>2, SoundMove DEF Phase
    <2>4. UNCHANGED <<intent, expired, candidates, live, account>> /\ selected' \subseteq selected
      BY <1>6 DEF Release
    <2>5. OneChosen'
      BY <1>0, <2>4 DEF OneChosen
    <2>6. QED
      BY <1>0, <2>2, <2>3, <2>4, <2>5, RowsAfter
  <1>7. ASSUME Withdraw(r) PROVE Rows'
    <2>1. Goes(r, "idle") /\ Sound(req'[r], candidates) /\ "idle" \in Phase
      BY <1>0, <1>7, StayGoes, SoundIdle DEF Withdraw, Phase
    <2>2. live' \subseteq Refs
      BY <1>7, LiveType DEF Withdraw
    <2>3. QED
      BY <1>7, <2>1, <2>2, RowsOfMove DEF Withdraw
  <1>8. QED
    BY <1>1, <1>2, <1>3, <1>4, <1>5, <1>6, <1>7, PlainRows DEF SelectStep

LEMMA DisconnectRows ==
  ASSUME Rows, NEW r \in Requests, DisconnectStep(r) \/ Die(r)
  PROVE  Rows'
  <1>0. /\ OneChosen /\ selected \subseteq candidates /\ live \subseteq Refs /\ TypeOK
        /\ intent \in [Intents -> {"none", "open", "used", "saved"}]
        /\ expired \subseteq Intents /\ candidates \subseteq Candidates
        /\ {"cut", "off", "idle"} \subseteq Phase
    BY DEF Rows, TypeOK, Phase
  <1>1. ASSUME NEW t \in Targets, Disconnect(r, t) PROVE Rows'
    <2>1. Goes(r, "cut") /\ req'[r].target = t
      BY <1>1, DisconnectGoes
    <2>2. Sound(req'[r], candidates)
      BY <2>1 DEF Sound, Goes, Choosing
    <2>3. QED
      BY <1>0, <1>1, <2>1, <2>2, RowsOfMove DEF Disconnect
  <1>2. ASSUME Cut(r) PROVE Rows'
    <2>1. Goes(r, "off") /\ Same(r) /\ req[r].pc = "cut"
      BY <1>0, <1>2, ToGoes DEF Cut
    <2>2. Sound(req'[r], candidates)
      BY <1>0, <2>1, SoundMove DEF Choosing
    <2>3. live' \subseteq Refs
      BY <1>2, LiveType DEF Cut
    <2>4. QED
      BY <1>0, <1>2, <2>1, <2>2, <2>3, RowsOfMove DEF Cut
  <1>3. ASSUME DisconnectFails(r) \/ Die(r) PROVE Rows'
    <2>1. Goes(r, "idle") /\ Sound(req'[r], candidates)
      BY <1>0, <1>3, StayGoes, SoundIdle DEF DisconnectFails, Die
    <2>2. live' \subseteq Refs
      BY <1>0, <1>3, LiveType DEF DisconnectFails, Die
    <2>3. QED
      BY <1>0, <1>3, <2>1, <2>2, RowsOfMove DEF DisconnectFails, Die
  <1>4. ASSUME SwitchOff(r) PROVE Rows'
    <2>1. req[r].target \in Targets
      BY <1>4 DEF Rows, Sound, SwitchOff
    <2>2. account' \in [Targets -> Account]
      BY <1>4, <2>1, AccountDisabled DEF SwitchOff
    <2>3. Goes(r, "idle") /\ Sound(req'[r], candidates)
      BY <1>0, <1>4, StayGoes, SoundIdle DEF SwitchOff
    <2>4. UNCHANGED <<intent, expired, candidates, selected, live>>
      BY <1>4 DEF SwitchOff
    <2>5. OneChosen'
      BY <1>0, <2>4 DEF OneChosen
    <2>6. QED
      BY <1>0, <2>2, <2>3, <2>4, <2>5, RowsAfter
  <1>5. QED
    BY <1>1, <1>2, <1>3, <1>4 DEF DisconnectStep

LEMMA NextRows == Rows /\ [Next]_vars => Rows'
  <1> SUFFICES ASSUME Rows, [Next]_vars PROVE Rows'
    OBVIOUS
  <1>1. ASSUME NEW i \in Intents, Begin(i) \/ Expire(i) PROVE Rows'
    <2>1. /\ UNCHANGED <<candidates, selected, live, account, req>>
          /\ intent' \in [Intents -> {"none", "open", "used", "saved"}]
          /\ expired' \subseteq Intents
      BY <1>1 DEF Begin, Expire, Rows, TypeOK
    <2>2. QED
      BY <2>1 DEF Rows, TypeOK, OneChosen
  <1>2. ASSUME Purge PROVE Rows'
    <2>1. live' \subseteq Refs /\ UNCHANGED <<intent, expired, candidates, selected, account, req>>
      BY <1>2, LiveType DEF Purge
    <2>2. QED
      BY <2>1 DEF Rows, TypeOK, OneChosen
  <1>3. ASSUME UNCHANGED vars PROVE Rows'
    BY <1>3 DEF vars, Rows, TypeOK, OneChosen
  <1>4. QED
    BY <1>1, <1>2, <1>3, CompleteRows, SelectRows, DisconnectRows DEF Next

LEMMA RowsHold == Spec => []Rows
  BY InitRows, NextRows, PTL DEF Spec

(* The rows of intents, candidates, secrets and accounts and every request *)
(* are well formed, whatever fails and however requests interleave.        *)
THEOREM ConnectionTyped == Spec => []TypeOK
  <1>1. Rows => TypeOK
    BY DEF Rows
  <1>2. QED
    BY <1>1, RowsHold, PTL

(* At most one candidate of an intent is ever chosen, whatever fails and   *)
(* however often its requests are repeated (markSelected and its index).   *)
THEOREM OneIsChosen == Spec => []OneChosen
  <1>1. Rows => OneChosen
    BY DEF Rows
  <1>2. QED
    BY <1>1, RowsHold, PTL

-----------------------------------------------------------------------------
(* Where the compensation is not itself cut short: a write that is done is *)
(* answered, what the catch of select begins succeeds, no process dies in  *)
(* a request, and the service is that of Instagram, which disables the     *)
(* account again.  Vault, stores, imports and disconnects may still fail.  *)
Compensated ==
  MayFail \cap {"reply", "compensation", "process"} = {} /\ MetaRequests = {}

Holds(v) == v.pc \in {"previous", "save", "record", "import", "revoke", "others", "release"}
Unsaved(v) == v.pc \in {"previous", "save"} \/ (v.pc = "release" /\ ~v.written)
Flagged(v) ==
  /\ v.pc \in {"exchange", "mark", "previous", "save"} => ~v.written
  /\ v.pc \in {"record", "import", "revoke", "others"} => v.written

Connected(t) == account[t].status = "connected"
Disabling(r, t) == req[r].pc = "disable" /\ req[r].cand[2] = t

(* What a request holds is chosen, and held by no other request.           *)
HeldIsChosen == \A r \in Requests: Holds(req[r]) => req[r].cand \in selected
HeldByOne ==
  \A r, q \in Requests:
    r # q /\ Holds(req[r]) /\ Holds(req[q]) => req[r].cand # req[q].cand

(* An account shows a candidate of its own, which is chosen but while a    *)
(* request that released it is about to disable the account.               *)
ShowsItsOwn ==
  \A t \in Targets: Connected(t) =>
    account[t].publish \in Candidates /\ account[t].publish[2] = t
ShownIsChosen ==
  \A t \in Targets: Connected(t) =>
    account[t].publish \in selected \/ \E q \in Requests: Disabling(q, t)

(* Nor does an account show what a request chose and did not yet save,     *)
(* but while it is about to be disabled.                                   *)
UnsavedIsNotShown ==
  \A r \in Requests, t \in Targets:
    Unsaved(req[r]) /\ Connected(t) /\ account[t].publish = req[r].cand
      => \E q \in Requests: Disabling(q, t)

Followed ==
  /\ Rows /\ HeldIsChosen /\ HeldByOne /\ ShowsItsOwn /\ ShownIsChosen
  /\ UnsavedIsNotShown /\ \A r \in Requests: Flagged(req[r])

(* A step that takes nothing new and connects no account, and is not the   *)
(* end of a disabling that still has to come.                              *)
LEMMA FollowedAfter ==
  ASSUME Followed, Rows', NEW r \in Requests, NEW p \in Phase, Goes(r, p),
         UNCHANGED selected, Flagged(req'[r]),
         Holds(req'[r]) => Holds(req[r]) /\ req'[r].cand = req[r].cand
                           /\ (Unsaved(req'[r]) => Unsaved(req[r])),
         \A t \in Targets: account'[t].status = "connected" =>
            Connected(t) /\ account'[t].publish = account[t].publish /\ ~Disabling(r, t)
  PROVE  Followed'
  <1>1. \A q \in Requests \ {r}: req'[q] = req[q]
    BY DEF Goes
  <1>2. HeldIsChosen'
    BY <1>1 DEF Followed, HeldIsChosen
  <1>3. HeldByOne'
    BY <1>1 DEF Followed, HeldByOne
  <1>4. ShowsItsOwn'
    BY DEF Followed, ShowsItsOwn, Connected
  <1>5. ASSUME NEW t \in Targets, account'[t].status = "connected",
               \E q \in Requests: Disabling(q, t)
        PROVE \E q \in Requests: Disabling(q, t)'
    BY <1>1, <1>5 DEF Disabling
  <1>6. ShownIsChosen'
    BY <1>5 DEF Followed, ShownIsChosen, Connected
  <1>7. UnsavedIsNotShown'
    <2> SUFFICES ASSUME NEW s \in Requests, NEW t \in Targets, Unsaved(req'[s]),
                        account'[t].status = "connected", account'[t].publish = req'[s].cand
                 PROVE \E q \in Requests: Disabling(q, t)'
      BY DEF UnsavedIsNotShown, Connected
    <2>1. Unsaved(req[s]) /\ req'[s].cand = req[s].cand
      BY <1>1 DEF Unsaved, Holds
    <2>2. Connected(t) /\ account[t].publish = req[s].cand
      BY <2>1
    <2>3. \E q \in Requests: Disabling(q, t)
      BY <2>1, <2>2 DEF Followed, UnsavedIsNotShown
    <2>4. QED
      BY <1>5, <2>3
  <1>8. \A q \in Requests: Flagged(req'[q])
    BY <1>1 DEF Followed
  <1>9. QED
    BY <1>2, <1>3, <1>4, <1>6, <1>7, <1>8 DEF Followed

LEMMA InitFollowed == Init => Followed
  <1> SUFFICES ASSUME Init PROVE Followed
    OBVIOUS
  <1>1. Rows
    BY InitRows
  <1>2. \A r \in Requests: req[r].pc = "idle"
    BY IdleType DEF Init
  <1>3. \A t \in Targets: ~Connected(t)
    BY DEF Init, NoAccount, Connected
  <1>4. QED
    BY <1>1, <1>2, <1>3 DEF Followed, HeldIsChosen, HeldByOne, ShowsItsOwn, ShownIsChosen,
                            UnsavedIsNotShown, Flagged, Holds, Unsaved

(* A step that leaves every account as it is and ends no disabling.        *)
LEMMA FollowedAlong ==
  ASSUME Followed, Rows', NEW r \in Requests, NEW p \in Phase, Goes(r, p),
         UNCHANGED <<selected, account>>, req[r].pc # "disable", Flagged(req'[r]),
         Holds(req'[r]) => Holds(req[r]) /\ req'[r].cand = req[r].cand
                           /\ (Unsaved(req'[r]) => Unsaved(req[r]))
  PROVE  Followed'
  <1>1. \A t \in Targets: account'[t].status = "connected" =>
          Connected(t) /\ account'[t].publish = account[t].publish /\ ~Disabling(r, t)
    BY DEF Connected, Disabling
  <1>2. QED
    BY <1>1, FollowedAfter

LEMMA FollowedIdle ==
  ASSUME Followed, Rows', NEW r \in Requests, Goes(r, "idle"),
         UNCHANGED <<selected, account>>, req[r].pc # "disable"
  PROVE  Followed'
  <1>1. Flagged(req'[r]) /\ ~Holds(req'[r]) /\ "idle" \in Phase
    BY DEF Goes, Flagged, Holds, Phase
  <1>2. QED
    BY <1>1, FollowedAlong

LEMMA CompleteFollowed ==
  ASSUME Followed, Rows', NEW r \in Requests, CompleteStep(r)
  PROVE  Followed'
  <1>0. Rows /\ TypeOK /\ Flagged(req[r]) /\ {"exchange", "mark", "idle"} \subseteq Phase
    BY DEF Followed, Rows, Phase
  <1>1. ASSUME NEW i \in Intents, Consume(r, i) PROVE Followed'
    <2>1. Goes(r, "exchange") /\ ~req'[r].written
      BY <1>0, <1>1, ConsumeGoes
    <2>2. Flagged(req'[r]) /\ ~Holds(req'[r])
      BY <2>1 DEF Goes, Flagged, Holds
    <2>3. QED
      BY <1>0, <1>1, <2>1, <2>2, FollowedAlong DEF Consume
  <1>2. ASSUME NEW t \in Targets, StoreSecrets(r, t) PROVE Followed'
    <2>1. Goes(r, "exchange") /\ Same(r) /\ req[r].pc = "exchange"
      BY <1>0, <1>2, StoreSecretsGoes DEF StoreSecrets
    <2>2. Flagged(req'[r]) /\ ~Holds(req'[r])
      BY <1>0, <2>1 DEF Goes, Flagged, Holds, Same
    <2>3. QED
      BY <1>0, <1>2, <2>1, <2>2, FollowedAlong DEF StoreSecrets
  <1>3. ASSUME ExchangeFails(r) \/ SaveCandidatesFails(r) PROVE Followed'
    <2>1. Goes(r, "idle")
      BY <1>0, <1>3, StayGoes DEF ExchangeFails, SaveCandidatesFails
    <2>2. QED
      BY <1>3, <2>1, FollowedIdle DEF ExchangeFails, SaveCandidatesFails
  <1>4. ASSUME SaveCandidates(r) PROVE Followed'
    <2>1. req[r].pc = "exchange" /\ ~req[r].written /\ UNCHANGED <<selected, account>>
      BY <1>0, <1>4 DEF SaveCandidates, Flagged
    <2>2. CASE Goes(r, "idle")
      BY <2>1, <2>2, FollowedIdle
    <2>3. CASE Goes(r, "mark") /\ req'[r].written = req[r].written
      <3>1. Flagged(req'[r]) /\ ~Holds(req'[r])
        BY <2>1, <2>3 DEF Goes, Flagged, Holds
      <3>2. QED
        BY <1>0, <2>1, <2>3, <3>1, FollowedAlong
    <2>4. QED
      BY <1>0, <1>4, <2>2, <2>3, SaveCandidatesGoes
  <1>5. QED
    BY <1>1, <1>2, <1>3, <1>4 DEF CompleteStep

LEMMA DisconnectFollowed ==
  ASSUME Followed, Rows', NEW r \in Requests, DisconnectStep(r)
  PROVE  Followed'
  <1>0. Rows /\ TypeOK /\ {"cut", "off", "idle"} \subseteq Phase
    BY DEF Followed, Rows, Phase
  <1>1. ASSUME NEW t \in Targets, Disconnect(r, t) PROVE Followed'
    <2>1. Goes(r, "cut")
      BY <1>0, <1>1, DisconnectGoes
    <2>2. Flagged(req'[r]) /\ ~Holds(req'[r])
      BY <2>1 DEF Goes, Flagged, Holds
    <2>3. QED
      BY <1>0, <1>1, <2>1, <2>2, FollowedAlong DEF Disconnect
  <1>2. ASSUME Cut(r) PROVE Followed'
    <2>1. Goes(r, "off")
      BY <1>0, <1>2, ToGoes DEF Cut
    <2>2. Flagged(req'[r]) /\ ~Holds(req'[r])
      BY <2>1 DEF Goes, Flagged, Holds
    <2>3. QED
      BY <1>0, <1>2, <2>1, <2>2, FollowedAlong DEF Cut
  <1>3. ASSUME DisconnectFails(r) PROVE Followed'
    <2>1. Goes(r, "idle")
      BY <1>0, <1>3, StayGoes DEF DisconnectFails
    <2>2. QED
      BY <1>3, <2>1, FollowedIdle DEF DisconnectFails
  <1>4. ASSUME SwitchOff(r) PROVE Followed'
    <2>1. req[r].target \in Targets /\ req[r].pc = "off"
      BY <1>0, <1>4 DEF Rows, Sound, SwitchOff
    <2>2. /\ account'[req[r].target].status = "disabled"
          /\ \A u \in Targets: u # req[r].target => account'[u] = account[u]
      BY <1>0, <1>4, <2>1, AccountDisabled DEF SwitchOff
    <2>3. Goes(r, "idle") /\ UNCHANGED selected
      BY <1>0, <1>4, StayGoes DEF SwitchOff
    <2>4. Flagged(req'[r]) /\ ~Holds(req'[r])
      BY <2>3 DEF Goes, Flagged, Holds
    <2>5. \A t \in Targets: account'[t].status = "connected" =>
            Connected(t) /\ account'[t].publish = account[t].publish /\ ~Disabling(r, t)
      BY <2>1, <2>2 DEF Connected, Disabling
    <2>6. QED
      BY <1>0, <2>3, <2>4, <2>5, FollowedAfter
  <1>5. QED
    BY <1>1, <1>2, <1>3, <1>4 DEF DisconnectStep

(* Nobody holds what is marked, since nothing of its intent is chosen; and *)
(* what shows it is about to be disabled.                                  *)
LEMMA MarkFollowed ==
  ASSUME Followed, Rows', NEW r \in Requests, Mark(r)
  PROVE  Followed'
  <1>0. Rows /\ TypeOK /\ Flagged(req[r]) /\ "previous" \in Phase
    BY DEF Followed, Rows, Phase
  <1>1. Goes(r, "previous") /\ Same(r) /\ req[r].pc = "mark"
    BY <1>0, ToGoes DEF Mark
  <1>2. selected' = selected \cup {req[r].cand} /\ UNCHANGED account
    BY DEF Mark
  <1>3. req[r].cand \notin selected
    BY <1>0, <1>1, Chosen DEF Mark, Markable, Of, Choosing
  <1>4. \A q \in Requests \ {r}: req'[q] = req[q]
    BY <1>1 DEF Goes
  <1>5. req'[r].pc = "previous" /\ req'[r].cand = req[r].cand /\ ~req'[r].written
    BY <1>0, <1>1 DEF Goes, Same, Flagged
  <1>6. HeldIsChosen'
    BY <1>2, <1>4, <1>5 DEF Followed, HeldIsChosen
  <1>7. \A q \in Requests \ {r}: Holds(req[q]) => req[q].cand # req[r].cand
    BY <1>3 DEF Followed, HeldIsChosen
  <1>8. HeldByOne'
    BY <1>4, <1>5, <1>7 DEF Followed, HeldByOne
  <1>9. ShowsItsOwn'
    BY <1>2 DEF Followed, ShowsItsOwn, Connected
  <1>10. \A t \in Targets: (\E q \in Requests: Disabling(q, t))
                            => \E q \in Requests: Disabling(q, t)'
    BY <1>1, <1>4 DEF Disabling
  <1>11. ShownIsChosen'
    BY <1>2, <1>10 DEF Followed, ShownIsChosen, Connected
  <1>12. UnsavedIsNotShown'
    <2> SUFFICES ASSUME NEW s \in Requests, NEW t \in Targets, Unsaved(req'[s]),
                        Connected(t), account[t].publish = req'[s].cand
                 PROVE \E q \in Requests: Disabling(q, t)
      BY <1>2, <1>10 DEF UnsavedIsNotShown, Connected
    <2>1. CASE s = r
      BY <1>3, <1>5, <2>1 DEF Followed, ShownIsChosen
    <2>2. CASE s # r
      BY <1>4, <2>2 DEF Followed, UnsavedIsNotShown
    <2>3. QED
      BY <2>1, <2>2
  <1>13. \A q \in Requests: Flagged(req'[q])
    BY <1>4, <1>5 DEF Followed, Flagged
  <1>14. QED
    BY <1>6, <1>8, <1>9, <1>11, <1>12, <1>13 DEF Followed

(* What is saved is chosen, and nobody else holds it.                      *)
LEMMA SaveFollowed ==
  ASSUME Followed, Rows', NEW r \in Requests, SaveAccount(r)
  PROVE  Followed'
  <1>0. Rows /\ TypeOK /\ req[r].pc = "save"
    BY DEF Followed, Rows, SaveAccount
  <1>1. Goes(r, "record") /\ req'[r].written /\ req'[r].cand = req[r].cand
    BY <1>0, SaveAccountGoes
  <1> DEFINE c == req[r].cand
  <1>2. c \in Candidates /\ c[2] \in Targets
    BY <1>0, Chosen DEF Choosing
  <1>3. /\ account'[c[2]].status = "connected" /\ account'[c[2]].publish = c
        /\ \A t \in Targets: t # c[2] => account'[t] = account[t]
    BY <1>0, <1>2, AccountSaved DEF SaveAccount
  <1>4. c \in selected /\ UNCHANGED selected
    BY <1>0 DEF Followed, HeldIsChosen, Holds, SaveAccount
  <1>5. \A q \in Requests \ {r}: req'[q] = req[q]
    BY <1>1 DEF Goes
  <1>6. req'[r].pc = "record"
    BY <1>1 DEF Goes
  <1>7. HeldIsChosen'
    BY <1>1, <1>4, <1>5 DEF Followed, HeldIsChosen
  <1>8. Holds(req[r])
    BY <1>0 DEF Holds
  <1>9. HeldByOne'
    BY <1>1, <1>5, <1>8 DEF Followed, HeldByOne
  <1>10. ShowsItsOwn'
    BY <1>2, <1>3 DEF Followed, ShowsItsOwn, Connected
  <1>11. \A t \in Targets: (\E q \in Requests: Disabling(q, t))
                            => \E q \in Requests: Disabling(q, t)'
    BY <1>0, <1>5 DEF Disabling
  <1>12. ShownIsChosen'
    <2> SUFFICES ASSUME NEW t \in Targets, account'[t].status = "connected"
                 PROVE account'[t].publish \in selected \/ \E q \in Requests: Disabling(q, t)'
      BY <1>4 DEF ShownIsChosen, Connected
    <2>1. CASE t = c[2]
      BY <1>3, <1>4, <2>1
    <2>2. CASE t # c[2]
      BY <1>3, <1>11, <2>2 DEF Followed, ShownIsChosen, Connected
    <2>3. QED
      BY <2>1, <2>2
  <1>13. UnsavedIsNotShown'
    <2> SUFFICES ASSUME NEW s \in Requests, NEW t \in Targets, Unsaved(req'[s]),
                        account'[t].status = "connected", account'[t].publish = req'[s].cand
                 PROVE \E q \in Requests: Disabling(q, t)'
      BY DEF UnsavedIsNotShown, Connected
    <2>1. s # r /\ req'[s] = req[s]
      BY <1>5, <1>6 DEF Unsaved
    <2>2. req[s].cand # c
      BY <1>8, <2>1 DEF Followed, HeldByOne, Unsaved, Holds
    <2>3. t # c[2]
      BY <1>3, <2>1, <2>2
    <2>4. Connected(t) /\ account[t].publish = req[s].cand /\ Unsaved(req[s])
      BY <1>3, <2>1, <2>3 DEF Connected
    <2>5. QED
      BY <1>11, <2>4 DEF Followed, UnsavedIsNotShown
  <1>14. \A q \in Requests: Flagged(req'[q])
    BY <1>1, <1>5, <1>6 DEF Followed, Flagged
  <1>15. QED
    BY <1>7, <1>9, <1>10, <1>12, <1>13, <1>14 DEF Followed

(* Releasing takes the choice back; the account that shows it belongs to   *)
(* the request, which goes on to disable it, or is being disabled already. *)
LEMMA ReleaseFollowed ==
  ASSUME Compensated, Followed, Rows', NEW r \in Requests, Release(r)
  PROVE  Followed'
  <1>0. Rows /\ TypeOK /\ req[r].pc = "release" /\ {"disable", "withdraw"} \subseteq Phase
    BY DEF Followed, Rows, Release, Phase
  <1> DEFINE c == req[r].cand
  <1>1. selected' = selected \ {c} /\ UNCHANGED account
    BY DEF Release, Swallowed, Compensated
  <1>2. /\ req[r].written => Goes(r, "disable") /\ Same(r)
        /\ ~req[r].written => Goes(r, "withdraw") /\ Same(r)
    BY <1>0, ToGoes DEF Release, Compensated
  <1>3. /\ \A q \in Requests \ {r}: req'[q] = req[q]
        /\ req'[r].pc \in {"disable", "withdraw"} /\ req'[r].cand = c
    BY <1>2 DEF Goes, Same
  <1>4. Holds(req[r]) /\ ~Holds(req'[r]) /\ ~Unsaved(req'[r])
    BY <1>0, <1>3 DEF Holds, Unsaved
  <1>5. HeldIsChosen'
    BY <1>1, <1>3, <1>4 DEF Followed, HeldIsChosen, HeldByOne
  <1>6. HeldByOne'
    BY <1>3, <1>4 DEF Followed, HeldByOne
  <1>7. ShowsItsOwn'
    BY <1>1 DEF Followed, ShowsItsOwn, Connected
  <1>8. \A t \in Targets: (\E q \in Requests: Disabling(q, t))
                            => \E q \in Requests: Disabling(q, t)'
    BY <1>0, <1>3 DEF Disabling
  <1>9. ShownIsChosen'
    <2> SUFFICES ASSUME NEW t \in Targets, Connected(t)
                 PROVE account[t].publish \in selected' \/ \E q \in Requests: Disabling(q, t)'
      BY <1>1 DEF ShownIsChosen, Connected
    <2>1. CASE account[t].publish # c
      BY <1>1, <1>8, <2>1 DEF Followed, ShownIsChosen
    <2>2. CASE account[t].publish = c /\ req[r].written
      <3>1. c[2] = t
        BY <2>2 DEF Followed, ShowsItsOwn
      <3>2. Disabling(r, t)'
        BY <1>2, <1>3, <2>2, <3>1 DEF Disabling, Goes
      <3>3. QED
        BY <3>2
    <2>3. CASE account[t].publish = c /\ ~req[r].written
      <3>1. Unsaved(req[r])
        BY <1>0, <2>3 DEF Unsaved
      <3>2. QED
        BY <1>8, <2>3, <3>1 DEF Followed, UnsavedIsNotShown
    <2>4. QED
      BY <2>1, <2>2, <2>3
  <1>10. UnsavedIsNotShown'
    <2> SUFFICES ASSUME NEW s \in Requests, NEW t \in Targets, Unsaved(req'[s]),
                        Connected(t), account[t].publish = req'[s].cand
                 PROVE \E q \in Requests: Disabling(q, t)'
      BY <1>1 DEF UnsavedIsNotShown, Connected
    <2>1. req'[s] = req[s]
      BY <1>3, <1>4
    <2>2. QED
      BY <1>8, <2>1 DEF Followed, UnsavedIsNotShown
  <1>11. \A q \in Requests: Flagged(req'[q])
    BY <1>3 DEF Followed, Flagged
  <1>12. QED
    BY <1>5, <1>6, <1>7, <1>9, <1>10, <1>11 DEF Followed

LEMMA SelectFollowed ==
  ASSUME Compensated, Followed, Rows', NEW r \in Requests, SelectStep(r)
  PROVE  Followed'
  <1>0. /\ Rows /\ TypeOK /\ Flagged(req[r]) /\ r \notin MetaRequests
        /\ {"mark", "save", "record", "import", "revoke", "others", "release",
            "withdraw", "idle"} \subseteq Phase
    BY DEF Followed, Rows, Phase, Compensated
  <1>1. ASSUME NEW c \in Candidates, Select(r, c) PROVE Followed'
    <2>1. Goes(r, "mark") /\ ~req'[r].written
      BY <1>0, <1>1, SelectGoes
    <2>2. Flagged(req'[r]) /\ ~Holds(req'[r])
      BY <2>1 DEF Goes, Flagged, Holds
    <2>3. QED
      BY <1>0, <1>1, <2>1, <2>2, FollowedAlong DEF Select
  <1>2. ASSUME MarkRefused(r) \/ ReadPreviousFails(r) \/ RevokeOthers(r) \/ Withdraw(r)
        PROVE Followed'
    <2>1. Goes(r, "idle")
      BY <1>0, <1>2, StayGoes DEF MarkRefused, ReadPreviousFails, RevokeOthers, Withdraw
    <2>2. QED
      BY <1>2, <2>1, FollowedIdle DEF MarkRefused, ReadPreviousFails, RevokeOthers, Withdraw
  <1>3. ASSUME ReadPrevious(r) \/ ImportSnapshot(r) \/ ConnectFails(r)
                 \/ RevokePrevious(r) \/ RevokeFails(r)
        PROVE Followed'
    <2>1. UNCHANGED <<selected, account>>
      BY <1>3 DEF ReadPrevious, ImportSnapshot, ConnectFails, RevokePrevious, RevokeFails
    <2>2. PICK p \in {"save", "revoke", "release", "others", "idle"}:
            /\ Goes(r, p) /\ (p # "idle" => Same(r))
            /\ req[r].pc \in {"previous", "import", "save", "record", "revoke", "others"}
            /\ p = "save" => req[r].pc = "previous"
            /\ p \in {"revoke", "others"} => req[r].pc \in {"import", "revoke"}
      BY <1>0, <1>3, PlainGoes
    <2>3. CASE p = "idle"
      BY <2>1, <2>2, <2>3, FollowedIdle
    <2>4. CASE p # "idle"
      <3>1. req'[r].pc = p /\ req'[r].written = req[r].written /\ req'[r].cand = req[r].cand
        BY <2>2, <2>4 DEF Goes, Same
      <3>2. Holds(req[r])
        BY <2>2 DEF Holds
      <3>3. Flagged(req'[r])
        BY <1>0, <2>2, <2>4, <3>1 DEF Flagged
      <3>4. Unsaved(req'[r]) => Unsaved(req[r])
        BY <1>0, <2>2, <2>4, <3>1 DEF Unsaved, Flagged
      <3>5. p \in Phase
        BY <1>0, <2>2
      <3>6. QED
        BY <2>1, <2>2, <3>1, <3>2, <3>3, <3>4, <3>5, FollowedAlong
    <2>5. QED
      BY <2>3, <2>4
  <1>4. ASSUME RecordMetadata(r) PROVE Followed'
    <2>1. Goes(r, "import") /\ Same(r) /\ req[r].pc = "record" /\ UNCHANGED selected
      BY <1>0, <1>4, ToGoes DEF RecordMetadata
    <2>2. req[r].cand \in Candidates
      BY <1>0, <2>1, Chosen DEF Choosing
    <2>3. \A t \in Targets: account'[t].status = account[t].status
                            /\ account'[t].publish = account[t].publish
      BY <1>0, <1>4, <2>2, AccountRecorded DEF RecordMetadata
    <2>4. \A t \in Targets: account'[t].status = "connected" =>
            Connected(t) /\ account'[t].publish = account[t].publish /\ ~Disabling(r, t)
      BY <2>1, <2>3 DEF Connected, Disabling
    <2>5. /\ Flagged(req'[r]) /\ Holds(req[r]) /\ req'[r].cand = req[r].cand
          /\ ~Unsaved(req'[r])
      BY <1>0, <2>1 DEF Flagged, Holds, Unsaved, Goes, Same
    <2>6. QED
      BY <1>0, <2>1, <2>4, <2>5, FollowedAfter
  <1>5. ASSUME DisableAgain(r) PROVE Followed'
    <2>1. Goes(r, "withdraw") /\ req[r].pc = "disable" /\ UNCHANGED selected
      BY <1>0, <1>5, ToGoes DEF DisableAgain
    <2>2. req[r].cand[2] \in Targets
      BY <1>0, <2>1, Chosen DEF Choosing
    <2>3. account' = [account EXCEPT ![req[r].cand[2]].status = "disabled"]
      BY <1>5 DEF DisableAgain, Swallowed, Compensated
    <2>4. /\ account'[req[r].cand[2]].status = "disabled"
          /\ \A u \in Targets: u # req[r].cand[2] => account'[u] = account[u]
      BY <1>0, <2>2, <2>3, AccountDisabled
    <2>5. \A t \in Targets: account'[t].status = "connected" =>
            Connected(t) /\ account'[t].publish = account[t].publish /\ ~Disabling(r, t)
      BY <2>2, <2>4 DEF Connected, Disabling
    <2>6. Flagged(req'[r]) /\ ~Holds(req'[r])
      BY <2>1 DEF Goes, Flagged, Holds
    <2>7. QED
      BY <1>0, <2>1, <2>5, <2>6, FollowedAfter
  <1>6. ~SaveUnanswered(r)
    BY DEF SaveUnanswered, Compensated
  <1>7. QED
    BY <1>1, <1>2, <1>3, <1>4, <1>5, <1>6, MarkFollowed, SaveFollowed, ReleaseFollowed
    DEF SelectStep

LEMMA NextFollowed ==
  ASSUME Compensated, Followed, [Next]_vars
  PROVE  Followed'
  <1>0. Rows'
    BY NextRows DEF Followed
  <1>1. ASSUME UNCHANGED <<selected, account, req>> PROVE Followed'
    BY <1>0, <1>1 DEF Followed, HeldIsChosen, HeldByOne, ShowsItsOwn, ShownIsChosen,
                      UnsavedIsNotShown, Connected, Disabling
  <1>2. ASSUME NEW i \in Intents, Begin(i) \/ Expire(i) PROVE Followed'
    BY <1>1, <1>2 DEF Begin, Expire
  <1>3. CASE Purge \/ UNCHANGED vars
    BY <1>1, <1>3 DEF Purge, vars
  <1>4. \A r \in Requests: ~Die(r)
    BY DEF Die, Compensated
  <1>5. QED
    BY <1>0, <1>2, <1>3, <1>4, CompleteFollowed, SelectFollowed, DisconnectFollowed DEF Next

(* An account that is quiet has nobody about to disable it.                *)
LEMMA FollowedBacked ==
  ASSUME Followed
  PROVE  AccountsBacked
  <1>1. ASSUME NEW t \in Targets, Connected(t), Quiet(t)
        PROVE  /\ account[t].publish \in selected /\ account[t].publish[2] = t
               /\ account[t].publish \in Candidates
    <2>1. \A q \in Requests: ~Disabling(q, t)
      <3> SUFFICES ASSUME NEW q \in Requests, Disabling(q, t) PROVE AtWork(q, t)
        BY <1>1 DEF Quiet
      <3>1. req[q].cand \in Candidates
        BY Chosen DEF Disabling, Choosing, Followed
      <3>2. req[q].cand \in {req[q].cand} \ {None}
        BY <3>1, ConnectionAssumption
      <3>3. QED
        BY <3>2 DEF AtWork, Disabling
    <2>2. QED
      BY <1>1, <2>1 DEF Followed, ShownIsChosen, ShowsItsOwn
  <1>2. ConnectedIsSelected
    BY <1>1 DEF ConnectedIsSelected, Connected
  <1>3. OneConnectionPerIntent
    <2> SUFFICES ASSUME NEW t \in Targets, NEW u \in Targets, t # u,
                        Connected(t), Quiet(t), Connected(u), Quiet(u),
                        account[t].publish[1] = account[u].publish[1]
                 PROVE FALSE
      BY DEF OneConnectionPerIntent, Connected
    <2>1. account[t].publish = account[u].publish
      BY <1>1 DEF Followed, Rows, OneChosen
    <2>2. QED
      BY <1>1, <2>1
  <1>4. QED
    BY <1>2, <1>3 DEF AccountsBacked

(* Where the compensation is not itself cut short, an authorization gives  *)
(* one account and a connected account shows a chosen candidate, for any   *)
(* number of intents, accounts and requests that interleave and fail       *)
(* (select and its catch, complete, disconnect and the purge).             *)
THEOREM AccountsHold ==
  ASSUME Compensated
  PROVE  Spec => []AccountsBacked
  <1>1. Init => Followed
    BY InitFollowed
  <1>2. Followed /\ [Next]_vars => Followed'
    BY NextFollowed
  <1>3. Followed => AccountsBacked
    BY FollowedBacked
  <1>4. QED
    BY <1>1, <1>2, <1>3, PTL DEF Spec

-----------------------------------------------------------------------------
(* One request at a time, where a vault, a store or the import may fail: a *)
(* connected account has the secrets it shows.  The invariant says, of the *)
(* account a request works on, what its row shows after each write and, of *)
(* every secret that may still be revoked, that no standing account shows  *)
(* it: what a request revokes is of the account's own past, of a sibling   *)
(* nobody chose, or of the candidate it gives up itself.  C, S and L are   *)
(* the candidates, the selected ones and the live secrets.                 *)
Untouched(c, L) == RefsOf(c) \cap L = {}
\* The publish secret goes first: where it is left, so is the other.
Whole(c, L) == RefsOf(c) \subseteq L \/ <<c, "publish">> \notin L
Shown(a) == {a.publish, a.insights} \ {None}
Marked == {"previous", "save", "record", "import", "revoke", "others", "release"}
Written == {"record", "import", "revoke", "others"}
Undoing == {"release", "disable", "withdraw"}

Chooses(v, c) == v.pc \in Choosing /\ v.cand = c
GaveUp(v, c) == v.pc \in {"disable", "withdraw"} /\ v.cand = c
Writes(v) == v.pc \in Written \/ (v.pc \in Undoing /\ v.written)
Works(v, t) == (Writes(v) /\ v.cand[2] = t) \/ (v.pc = "off" /\ v.target = t)

\* An account that nobody works on.
Rests(a, S, L) == a.status = "connected" => /\ a.publish = a.insights /\ a.publish \in S
                                             /\ RefsOf(a.publish) \subseteq L
\* What an account shows was its own, and is selected or revoked altogether.
Past(v, a, t, C, S, L) ==
  \A c \in Shown(a): /\ c \in C /\ c[2] = t
                     /\ c \in S \/ Untouched(c, L) \/ GaveUp(v, c)
Accounts(v, A, C, S, L) ==
  \A t \in Targets: Past(v, A[t], t, C, S, L) /\ (~Works(v, t) => Rests(A[t], S, L))

\* What the account of the request shows.
Own(v, A, S, L) ==
  /\ Writes(v) => A[v.cand[2]].publish = v.cand
  /\ v.pc \in {"import", "revoke", "others"} => A[v.cand[2]].insights = v.cand
  /\ v.pc \in {"revoke", "others"} => RefsOf(v.cand) \subseteq L
  /\ v.pc = "withdraw" /\ v.written => A[v.cand[2]].status # "connected"
  /\ v.pc \in {"previous", "save"} \cup Undoing /\ ~v.written =>
       ~(A[v.cand[2]].status = "connected" /\ A[v.cand[2]].publish = v.cand)
  /\ v.pc \in Written \cup {"disable"} => v.written
  /\ v.pc \in {"exchange", "mark", "previous", "save"} => ~v.written
  /\ v.pc \in Marked => v.cand \in S

\* What the request may still revoke.
Revocable(v, A, C, S, L) ==
  /\ v.pc \in {"save", "record", "import", "revoke"} =>
       \A x \in v.prev: /\ x[1] \in C /\ x[1][2] = v.cand[2] /\ x[1] # v.cand
                        /\ x[1] \in S \/ Untouched(x[1], L)
  /\ v.pc \in Choosing => \A d \in v.listed: d[1] = v.cand[1] /\ d \in C
  /\ v.pc = "cut" => \A x \in v.prev: x[1] \in Shown(A[v.target])

Secrets(v, C, S, L) == \A c \in C: c \notin S \/ Chooses(v, c) => Whole(c, L)

Exchanged(v, C, L, states) ==
  /\ \A c \in C: states[c[1]] = "saved"
  /\ v.pc = "exchange" => /\ states[v.intent] = "used"
                          /\ \A d \in v.listed: /\ d[1] = v.intent /\ d \in Candidates
                                                /\ RefsOf(d) \subseteq L

ConnectedInv(r) ==
  /\ Accounts(req[r], account, candidates, selected, live)
  /\ Own(req[r], account, selected, live)
  /\ Revocable(req[r], account, candidates, selected, live)
  /\ Secrets(req[r], candidates, selected, live)
  /\ Exchanged(req[r], candidates, live, intent)

\* Nothing fails but the vault, a store and the import, and there is one
\* request, of the Instagram service.
OneAtATime(r) == /\ Requests = {r} /\ MetaRequests = {}
                 /\ MayFail \subseteq {"vault", "store", "import"}

LEMMA RefIsOf == ASSUME NEW x \in Refs, NEW c PROVE x \in RefsOf(c) <=> x[1] = c
  BY DEF Refs, RefsOf

LEMMA RefsApart == ASSUME NEW c, NEW d, c # d PROVE RefsOf(c) \cap RefsOf(d) = {}
  BY DEF RefsOf

LEMMA SelectedNotNone == ASSUME Rows PROVE None \notin candidates /\ selected \subseteq candidates
  BY ConnectionAssumption DEF Rows, TypeOK

LEMMA Lost ==
  ASSUME NEW c, NEW L, NEW D
  PROVE  /\ Untouched(c, L) => Untouched(c, L \ D)
         /\ RefsOf(c) \cap D = {} /\ RefsOf(c) \subseteq L => RefsOf(c) \subseteq L \ D
         /\ RefsOf(c) \cap D = {} /\ Whole(c, L) => Whole(c, L \ D)
         /\ RefsOf(c) \subseteq D => Untouched(c, L \ D)
         /\ Untouched(c, L) => Whole(c, L)
  BY DEF Untouched, Whole, RefsOf

\* Secrets that are revoked touch no account that stands.
LEMMA AccountsShrink ==
  ASSUME NEW v, NEW w, NEW A, NEW C, NEW S, NEW L, NEW D,
         Accounts(v, A, C, S, L),
         \A c: GaveUp(v, c) => GaveUp(w, c) \/ RefsOf(c) \subseteq D,
         \A t \in Targets: ~Works(w, t) => Rests(A[t], S, L),
         \A t \in Targets: ~Works(w, t) /\ A[t].status = "connected"
                             => RefsOf(A[t].publish) \cap D = {}
  PROVE  Accounts(w, A, C, S, L \ D)
  <1> SUFFICES ASSUME NEW t \in Targets
               PROVE  Past(w, A[t], t, C, S, L \ D) /\ (~Works(w, t) => Rests(A[t], S, L \ D))
    BY DEF Accounts
  <1>1. Past(w, A[t], t, C, S, L \ D)
    <2>1. Past(v, A[t], t, C, S, L)
      BY DEF Accounts
    <2>2. QED
      BY <2>1, Lost DEF Past
  <1>2. ~Works(w, t) => Rests(A[t], S, L \ D)
    BY Lost DEF Rests
  <1>3. QED
    BY <1>1, <1>2

LEMMA AccountsStay ==
  ASSUME NEW v, NEW w, NEW A, NEW C, NEW S, NEW L, Accounts(v, A, C, S, L),
         \A c: GaveUp(v, c) => GaveUp(w, c),
         \A t \in Targets: Works(v, t) => Works(w, t)
  PROVE  Accounts(w, A, C, S, L)
  BY DEF Accounts, Past

LEMMA SecretsShrink ==
  ASSUME NEW v, NEW w, NEW C, NEW S, NEW L, NEW D, Secrets(v, C, S, L),
         \A c: Chooses(w, c) => Chooses(v, c),
         \A c \in C: c \notin S \/ Chooses(w, c) =>
           RefsOf(c) \cap D = {} \/ RefsOf(c) \subseteq D \/ Untouched(c, L)
             \/ Whole(c, L \ D)
  PROVE  Secrets(w, C, S, L \ D)
  BY Lost DEF Secrets

-----------------------------------------------------------------------------
(* What a request is after a step.                                         *)
Keeps(v, w) == /\ w.intent = v.intent /\ w.cand = v.cand /\ w.target = v.target
               /\ w.listed = v.listed /\ w.prev = v.prev /\ w.written = v.written

LEMMA WentTo ==
  ASSUME TypeOK, NEW r \in Requests, NEW p, To(r, p)
  PROVE  req'[r].pc = p /\ Keeps(req[r], req'[r])
  <1>1. req \in [Requests -> Request] /\ req[r] \in Request
    BY DEF TypeOK
  <1> DEFINE v == [req[r] EXCEPT !.pc = p]
  <1>2. v.pc = p /\ Keeps(req[r], v)
    BY <1>1 DEF Request, Keeps
  <1>3. req' = [req EXCEPT ![r] = v]
    BY DEF To
  <1> HIDE DEF v
  <1>4. QED
    BY <1>1, <1>2, <1>3

LEMMA WentIdle ==
  ASSUME TypeOK, NEW r \in Requests, Stay(r) PROVE req'[r].pc = "idle"
  BY StayGoes DEF Goes

LEMMA WentSelect ==
  ASSUME Rows, NEW r \in Requests, NEW c \in Candidates, Select(r, c)
  PROVE  LET w == req'[r] IN w.pc = "mark" /\ w.cand = c /\ ~w.written /\ w.listed = Of(c)
  <1> DEFINE l == Of(c)
             v == [Idle EXCEPT !.pc = "mark", !.cand = c, !.listed = l]
  <1>1. req' = [req EXCEPT ![r] = v]
    BY DEF Select
  <1> HIDE DEF l
  <1>2. v.pc = "mark" /\ v.cand = c /\ ~v.written /\ v.listed = l
    BY DEF Idle
  <1> HIDE DEF v
  <1>3. req'[r] = v
    BY <1>1 DEF Rows, TypeOK
  <1>4. QED
    BY <1>2, <1>3 DEF l

LEMMA WentDisconnect ==
  ASSUME Rows, NEW r \in Requests, NEW t \in Targets, Disconnect(r, t)
  PROVE  LET w == req'[r] IN w.pc = "cut" /\ w.target = t /\ w.prev = CredentialsOf(t)
  <1> DEFINE p == CredentialsOf(t)
             v == [Idle EXCEPT !.pc = "cut", !.target = t, !.prev = p]
  <1>1. req' = [req EXCEPT ![r] = v]
    BY DEF Disconnect
  <1> HIDE DEF p
  <1>2. v.pc = "cut" /\ v.target = t /\ v.prev = p
    BY DEF Idle
  <1> HIDE DEF v
  <1>3. req'[r] = v
    BY <1>1 DEF Rows, TypeOK
  <1>4. QED
    BY <1>2, <1>3 DEF p

LEMMA WentConsume ==
  ASSUME Rows, NEW r \in Requests, NEW i \in Intents, Consume(r, i)
  PROVE  LET w == req'[r] IN w.pc = "exchange" /\ w.intent = i /\ ~w.written /\ w.listed = {}
  <1> DEFINE v == [Idle EXCEPT !.pc = "exchange", !.intent = i]
  <1>1. req' = [req EXCEPT ![r] = v]
    BY DEF Consume
  <1>2. v.pc = "exchange" /\ v.intent = i /\ ~v.written /\ v.listed = {}
    BY DEF Idle
  <1> HIDE DEF v
  <1>3. req'[r] = v
    BY <1>1 DEF Rows, TypeOK
  <1>4. QED
    BY <1>2, <1>3

LEMMA WentStoreSecrets ==
  ASSUME Rows, NEW r \in Requests, NEW t \in Targets, StoreSecrets(r, t)
  PROVE  LET v == req[r] w == req'[r] IN
         /\ w.pc = "exchange" /\ w.intent = v.intent /\ w.written = v.written
         /\ w.listed = v.listed \cup {<<v.intent, t>>}
  <1>1. req \in [Requests -> Request] /\ req[r] \in Request
    BY DEF Rows, TypeOK
  <1> DEFINE l == req[r].listed \cup {<<req[r].intent, t>>}
             v == [req[r] EXCEPT !.listed = l]
  <1>2. req' = [req EXCEPT ![r] = v] /\ req[r].pc = "exchange"
    BY DEF StoreSecrets
  <1> HIDE DEF l
  <1>3. v.pc = req[r].pc /\ v.intent = req[r].intent /\ v.written = req[r].written /\ v.listed = l
    BY <1>1 DEF Request
  <1> HIDE DEF v
  <1>4. QED
    BY <1>1, <1>2, <1>3 DEF l

LEMMA WentSave ==
  ASSUME Rows, NEW r \in Requests, SaveCandidates(r)
  PROVE  LET v == req[r] w == req'[r] IN
         \/ w.pc = "idle"
         \/ /\ w.pc = "mark" /\ w.written = v.written /\ w.listed = v.listed
            /\ w.listed = {w.cand}
  <1>1. req \in [Requests -> Request] /\ req[r] \in Request /\ req[r].listed \subseteq Candidates
    BY DEF Rows, TypeOK, Request
  <1>2. IsFiniteSet(req[r].listed)
    BY <1>1, ConnectionAssumption, FS_Product, FS_Subset DEF Candidates
  <1>3. CASE Cardinality(req[r].listed) = 1
    <2>1. PICK c: req[r].listed = {c}
      BY <1>2, <1>3, FS_Singleton
    <2> DEFINE d == CHOOSE x \in req[r].listed: TRUE
               v == [req[r] EXCEPT !.pc = "mark", !.cand = d]
    <2>2. d = c
      BY <2>1
    <2>3. req' = [req EXCEPT ![r] = v]
      BY <1>3 DEF SaveCandidates
    <2> HIDE DEF d
    <2>4. /\ v.pc = "mark" /\ v.cand = d /\ v.written = req[r].written
          /\ v.listed = req[r].listed
      BY <1>1 DEF Request
    <2> HIDE DEF v
    <2>5. QED
      BY <1>1, <2>1, <2>2, <2>3, <2>4
  <1>4. CASE Cardinality(req[r].listed) # 1
    BY <1>4, WentIdle DEF SaveCandidates, Rows
  <1>5. QED
    BY <1>3, <1>4

LEMMA WentReadPrevious ==
  ASSUME Rows, NEW r \in Requests, ReadPrevious(r)
  PROVE  LET v == req[r] w == req'[r] IN
         /\ w.pc = "save" /\ w.cand = v.cand /\ w.listed = v.listed /\ w.written = v.written
         /\ w.prev = CredentialsOf(v.cand[2]) \ RefsOf(v.cand)
  <1>1. req \in [Requests -> Request] /\ req[r] \in Request
    BY DEF Rows, TypeOK
  <1> DEFINE p == CredentialsOf(req[r].cand[2]) \ RefsOf(req[r].cand)
             v == [req[r] EXCEPT !.pc = "save", !.prev = p]
  <1>2. req' = [req EXCEPT ![r] = v]
    BY DEF ReadPrevious
  <1> HIDE DEF p
  <1>3. /\ v.pc = "save" /\ v.cand = req[r].cand /\ v.listed = req[r].listed
        /\ v.written = req[r].written /\ v.prev = p
    BY <1>1 DEF Request
  <1> HIDE DEF v
  <1>4. QED
    BY <1>1, <1>2, <1>3 DEF p

LEMMA WentSaveAccount ==
  ASSUME Rows, NEW r \in Requests, SaveAccount(r)
  PROVE  LET v == req[r] w == req'[r] IN
         /\ w.pc = "record" /\ w.cand = v.cand /\ w.listed = v.listed /\ w.prev = v.prev
         /\ w.written
  <1>1. req \in [Requests -> Request] /\ req[r] \in Request
    BY DEF Rows, TypeOK
  <1> DEFINE v == [req[r] EXCEPT !.pc = "record", !.written = TRUE]
  <1>2. req' = [req EXCEPT ![r] = v]
    BY DEF SaveAccount
  <1>3. /\ v.pc = "record" /\ v.cand = req[r].cand /\ v.listed = req[r].listed
        /\ v.prev = req[r].prev /\ v.written
    BY <1>1 DEF Request
  <1> HIDE DEF v
  <1>4. QED
    BY <1>1, <1>2, <1>3

-----------------------------------------------------------------------------
(* Each step, by what it leaves of the invariant.                          *)
ConnectedParts(v, A, C, S, L, states) ==
  /\ Accounts(v, A, C, S, L) /\ Own(v, A, S, L) /\ Revocable(v, A, C, S, L)
  /\ Secrets(v, C, S, L) /\ Exchanged(v, C, L, states)

LEMMA PartsAre ==
  ASSUME NEW r
  PROVE  /\ ConnectedInv(r) <=> ConnectedParts(req[r], account, candidates, selected, live, intent)
         /\ ConnectedInv(r)' <=>
              ConnectedParts(req'[r], account', candidates', selected', live', intent')
  BY DEF ConnectedInv, ConnectedParts

(* A request that ends without having chosen anything. *)
LEMMA PartsLetGo ==
  ASSUME NEW v, NEW w, NEW A, NEW C, NEW S, NEW L, NEW states,
         ConnectedParts(v, A, C, S, L, states),
         v.pc \in {"idle", "exchange", "mark", "previous"}, w.pc = "idle"
  PROVE  ConnectedParts(w, A, C, S, L, states)
  <1>1. \A t \in Targets: ~(v.pc # "idle" /\ Works(v, t))
    BY DEF ConnectedParts, Own, Works, Writes, Written, Undoing
  <1>2. Accounts(w, A, C, S, L)
    BY <1>1, AccountsStay DEF ConnectedParts, GaveUp, Works, Writes, Written, Undoing
  <1>3. Secrets(w, C, S, L)
    BY DEF ConnectedParts, Secrets, Chooses, Choosing
  <1>4. QED
    BY <1>2, <1>3 DEF ConnectedParts, Own, Revocable, Exchanged, Writes, Written, Undoing, Marked,
       Choosing

(* The secrets of new candidates are no account's. *)
LEMMA PartsOfLost ==
  ASSUME NEW v, NEW w, NEW A, NEW C, NEW S, NEW L, NEW states, NEW D,
         ConnectedParts(v, A, C, S, L, states), S \subseteq C,
         \A c \in C: RefsOf(c) \cap D = {},
         v.pc = "exchange", w.pc = "idle"
  PROVE  ConnectedParts(w, A, C, S, L \ D, states)
  <1>1. ConnectedParts(w, A, C, S, L, states)
    BY PartsLetGo
  <1>2. \A t \in Targets: ~Works(w, t)
    BY DEF Works, Writes, Written, Undoing
  <1>3. \A t \in Targets: Rests(A[t], S, L)
    BY <1>1, <1>2 DEF ConnectedParts, Accounts
  <1>4. \A t \in Targets: A[t].status = "connected" => RefsOf(A[t].publish) \cap D = {}
    BY <1>3 DEF Rests
  <1>5. Accounts(w, A, C, S, L \ D)
    BY <1>1, <1>3, <1>4, AccountsShrink DEF ConnectedParts
  <1>6. Secrets(w, C, S, L \ D)
    BY <1>1, SecretsShrink DEF ConnectedParts
  <1>7. QED
    BY <1>1, <1>5, <1>6 DEF ConnectedParts, Own, Revocable, Exchanged, Writes, Written, Undoing,
       Marked, Choosing

LEMMA BeginConnected ==
  ASSUME Rows, NEW r \in Requests, ConnectedInv(r), NEW i \in Intents, Begin(i)
  PROVE  ConnectedInv(r)'
  <1>1. \A j \in Intents: intent[j] # "none" => intent'[j] = intent[j]
    BY DEF Begin, Rows, TypeOK
  <1>2. \A c \in candidates: c[1] \in Intents
    BY DEF Rows, TypeOK, Candidates
  <1>3. req[r].pc = "exchange" => req[r].intent \in Intents
    BY DEF Rows, Sound
  <1>4. Exchanged(req[r], candidates, live, intent')
    BY <1>1, <1>2, <1>3 DEF ConnectedInv, Exchanged
  <1>5. QED
    BY <1>4 DEF ConnectedInv, Begin

LEMMA ConsumeConnected ==
  ASSUME Rows, NEW r \in Requests, ConnectedInv(r), NEW i \in Intents, Consume(r, i)
  PROVE  ConnectedInv(r)'
  <1> DEFINE w == req'[r]
  <1>1. w.pc = "exchange" /\ w.intent = i /\ ~w.written /\ w.listed = {}
    BY WentConsume
  <1>2. UNCHANGED <<candidates, selected, live, account>> /\ req[r].pc = "idle"
    BY DEF Consume
  <1>3. \A c \in candidates: c[1] \in Intents
    BY DEF Rows, TypeOK, Candidates
  <1>4. \A c \in candidates: intent'[c[1]] = "saved"
    BY <1>3 DEF Consume, Rows, TypeOK, ConnectedInv, Exchanged
  <1>5. intent'[i] = "used"
    BY DEF Consume, Rows, TypeOK
  <1> HIDE DEF w
  <1>6. Exchanged(w, candidates, live, intent')
    BY <1>1, <1>4, <1>5 DEF Exchanged
  <1>7. \A t \in Targets: ~Works(req[r], t)
    BY <1>2 DEF Works, Writes, Written, Undoing
  <1>8. Accounts(w, account, candidates, selected, live)
    BY <1>2, <1>7, AccountsStay DEF ConnectedInv, GaveUp
  <1>9. Secrets(w, candidates, selected, live)
    BY <1>1 DEF ConnectedInv, Secrets, Chooses, Choosing
  <1>10. Own(w, account, selected, live) /\ Revocable(w, account, candidates, selected, live)
    BY <1>1 DEF Own, Revocable, Writes, Written, Undoing, Marked, Choosing
  <1>11. QED
    BY <1>2, <1>6, <1>8, <1>9, <1>10 DEF ConnectedInv, w

LEMMA StoreSecretsConnected ==
  ASSUME Rows, NEW r \in Requests, ConnectedInv(r), NEW t \in Targets, StoreSecrets(r, t)
  PROVE  ConnectedInv(r)'
  <1> DEFINE v == req[r]
             w == req'[r]
             c == <<v.intent, t>>
  <1>1. /\ w.pc = "exchange" /\ w.intent = v.intent /\ w.written = v.written
        /\ w.listed = v.listed \cup {c}
    BY WentStoreSecrets
  <1>2. /\ UNCHANGED <<intent, candidates, selected, account>> /\ v.pc = "exchange"
        /\ live' = live \cup RefsOf(c)
    BY DEF StoreSecrets
  <1>3. v.intent \in Intents
    BY <1>2 DEF Rows, Sound
  <1>4. c \in Candidates /\ c[1] = v.intent
    BY <1>3 DEF Candidates
  <1>5. Exchanged(v, candidates, live, intent)
    BY DEF ConnectedInv
  <1> HIDE DEF v, w, c
  <1>6. c \notin candidates
    BY <1>2, <1>4, <1>5 DEF Exchanged
  <1>7. Exchanged(w, candidates, live', intent)
    BY <1>1, <1>2, <1>4, <1>5 DEF Exchanged
  <1>8. \A d \in candidates: /\ Untouched(d, live) => Untouched(d, live')
                             /\ Whole(d, live) => Whole(d, live')
    BY <1>2, <1>6, RefsApart DEF Untouched, Whole, RefsOf
  <1>9. \A u \in Targets: ~Works(v, u) /\ ~Works(w, u)
    BY <1>1, <1>2 DEF Works, Writes, Written, Undoing
  <1>10. Accounts(v, account, candidates, selected, live) /\ Secrets(v, candidates, selected, live)
    BY DEF ConnectedInv, v
  <1>11. Accounts(w, account, candidates, selected, live')
    <2>1. ASSUME NEW u \in Targets
          PROVE  Past(w, account[u], u, candidates, selected, live')
      BY <1>2, <1>8, <1>10 DEF Accounts, Past, GaveUp
    <2>2. ASSUME NEW u \in Targets
          PROVE  Rests(account[u], selected, live')
      BY <1>2, <1>9, <1>10 DEF Accounts, Rests
    <2>3. QED
      BY <2>1, <2>2 DEF Accounts
  <1>12. Secrets(w, candidates, selected, live')
    BY <1>1, <1>2, <1>8, <1>10 DEF Secrets, Chooses, Choosing
  <1>13. Own(v, account, selected, live)
    BY DEF ConnectedInv, v
  <1>14. ~w.written
    BY <1>1, <1>2, <1>13 DEF Own
  <1>15. Own(w, account, selected, live') /\ Revocable(w, account, candidates, selected, live')
    BY <1>1, <1>14 DEF Own, Revocable, Writes, Written, Undoing, Marked, Choosing
  <1>16. QED
    BY <1>2, <1>7, <1>11, <1>12, <1>15 DEF ConnectedInv, w

LEMMA ExchangeEndsConnected ==
  ASSUME Rows, NEW r \in Requests, ConnectedInv(r), OneAtATime(r),
         ExchangeFails(r) \/ SaveCandidatesFails(r)
  PROVE  ConnectedInv(r)'
  <1> DEFINE D == UNION {RefsOf(c): c \in req[r].listed}
  <1>1. /\ UNCHANGED <<intent, candidates, selected, account>> /\ req[r].pc = "exchange"
        /\ live' = live \ D /\ Stay(r)
    BY DEF OneAtATime, ExchangeFails, SaveCandidatesFails
  <1>2. req'[r].pc = "idle"
    BY <1>1, WentIdle DEF Rows
  <1>3. \A c \in candidates: c \notin req[r].listed
    BY <1>1 DEF ConnectedInv, Exchanged
  <1>4. \A c \in candidates: RefsOf(c) \cap D = {}
    BY <1>3, RefsApart
  <1>5. selected \subseteq candidates
    BY DEF Rows, TypeOK
  <1> HIDE DEF D
  <1>6. ConnectedParts(req'[r], account, candidates, selected, live \ D, intent)
    BY <1>1, <1>2, <1>4, <1>5, PartsOfLost, PartsAre
  <1>7. QED
    BY <1>1, <1>6, PartsAre

LEMMA SaveConnected ==
  ASSUME Rows, NEW r \in Requests, ConnectedInv(r), SaveCandidates(r)
  PROVE  ConnectedInv(r)'
  <1> DEFINE v == req[r]
             w == req'[r]
  <1>1. \/ w.pc = "idle"
        \/ w.pc = "mark" /\ w.written = v.written /\ w.listed = v.listed /\ w.listed = {w.cand}
    BY WentSave
  <1>2. /\ UNCHANGED <<selected, account, live>> /\ v.pc = "exchange"
        /\ candidates' = candidates \cup v.listed
    BY DEF SaveCandidates
  <1>3. v.intent \in Intents
    BY <1>2 DEF Rows, Sound
  <1>4. Exchanged(v, candidates, live, intent) /\ Own(v, account, selected, live)
        /\ Accounts(v, account, candidates, selected, live)
        /\ Secrets(v, candidates, selected, live)
    BY DEF ConnectedInv
  <1>5. \A c \in candidates: c[1] \in Intents
    BY DEF Rows, TypeOK, Candidates
  <1>6. \A c \in candidates': intent'[c[1]] = "saved"
    <2>1. intent'[v.intent] = "saved" /\ \A i \in Intents: i # v.intent => intent'[i] = intent[i]
      BY <1>3 DEF SaveCandidates, Rows, TypeOK
    <2> HIDE DEF v
    <2>2. QED
      BY <1>2, <1>4, <1>5, <2>1 DEF Exchanged
  <1> HIDE DEF v, w
  <1>7. Exchanged(w, candidates', live, intent')
    BY <1>1, <1>6 DEF Exchanged
  <1>8. \A c \in v.listed: Whole(c, live)
    BY <1>2, <1>4 DEF Exchanged, Whole
  <1>9. Secrets(w, candidates', selected, live)
    <2> SUFFICES ASSUME NEW c \in candidates', c \notin selected \/ Chooses(w, c)
                 PROVE  Whole(c, live)
      BY DEF Secrets
    <2>1. CASE c \in v.listed
      BY <2>1, <1>8
    <2>2. CASE c \notin v.listed
      BY <2>2, <1>1, <1>2, <1>4 DEF Secrets, Chooses, Choosing
    <2>3. QED
      BY <2>1, <2>2
  <1>10. \A u \in Targets: ~Works(v, u) /\ ~Works(w, u)
    BY <1>1, <1>2 DEF Works, Writes, Written, Undoing
  <1>11. Accounts(w, account, candidates', selected, live)
    BY <1>2, <1>4, <1>10 DEF Accounts, Past, GaveUp
  <1>12. Own(w, account, selected, live) 
    <2>1. selected \subseteq candidates /\ ~v.written
      BY <1>2, <1>4 DEF Own, Rows, TypeOK
    <2>2. QED
      BY <1>1, <2>1 DEF Own, Writes, Written, Undoing, Marked
  <1>13. Revocable(w, account, candidates', selected, live)
    BY <1>1, <1>2 DEF Revocable, Choosing
  <1>14. QED
    BY <1>2, <1>7, <1>9, <1>11, <1>12, <1>13 DEF ConnectedInv, w

LEMMA SelectConnected ==
  ASSUME Rows, NEW r \in Requests, ConnectedInv(r), NEW c \in Candidates, Select(r, c)
  PROVE  ConnectedInv(r)'
  <1> DEFINE w == req'[r]
  <1>1. w.pc = "mark" /\ w.cand = c /\ ~w.written /\ w.listed = Of(c)
    BY WentSelect
  <1>2. /\ UNCHANGED <<intent, candidates, selected, live, account>> /\ req[r].pc = "idle"
        /\ c \in candidates \ selected
    BY DEF Select
  <1> HIDE DEF w
  <1>3. Exchanged(w, candidates, live, intent)
    BY <1>1 DEF ConnectedInv, Exchanged
  <1>4. \A t \in Targets: ~Works(req[r], t)
    BY <1>2 DEF Works, Writes, Written, Undoing
  <1>5. Accounts(w, account, candidates, selected, live)
    BY <1>2, <1>4, AccountsStay DEF ConnectedInv, GaveUp
  <1>6. Secrets(w, candidates, selected, live)
    BY <1>1, <1>2 DEF ConnectedInv, Secrets, Chooses
  <1>7. Own(w, account, selected, live)
    BY <1>1 DEF Own, Writes, Written, Undoing, Marked
  <1>8. Revocable(w, account, candidates, selected, live)
    BY <1>1 DEF Revocable, Of
  <1>9. QED
    BY <1>2, <1>3, <1>5, <1>6, <1>7, <1>8 DEF ConnectedInv, w

LEMMA MarkConnected ==
  ASSUME Rows, NEW r \in Requests, ConnectedInv(r), Mark(r)
  PROVE  ConnectedInv(r)'
  <1> DEFINE v == req[r]
             w == req'[r]
  <1>1. w.pc = "previous" /\ Keeps(v, w)
    BY WentTo DEF Mark, Rows
  <1>2. /\ UNCHANGED <<intent, candidates, live, account>> /\ v.pc = "mark"
        /\ selected' = selected \cup {v.cand} /\ Markable(v.cand)
    BY DEF Mark
  <1>3. v.cand \in candidates
    BY <1>2, Chosen DEF Choosing
  <1>4. v.cand \notin selected
    BY <1>2, <1>3 DEF Markable, Of
  <1>5. /\ Accounts(v, account, candidates, selected, live) /\ Own(v, account, selected, live)
        /\ Revocable(v, account, candidates, selected, live)
        /\ Secrets(v, candidates, selected, live) /\ Exchanged(v, candidates, live, intent)
    BY DEF ConnectedInv
  <1> HIDE DEF v, w
  <1>6. \A t \in Targets: ~Works(v, t) /\ ~Works(w, t)
    BY <1>1, <1>2 DEF Works, Writes, Written, Undoing
  <1>7. Accounts(w, account, candidates, selected', live)
    BY <1>2, <1>5, <1>6 DEF Accounts, Past, GaveUp, Rests
  <1>8. Secrets(w, candidates, selected', live)
    BY <1>1, <1>2, <1>5 DEF Secrets, Chooses, Keeps, Choosing
  <1>9. Exchanged(w, candidates, live, intent)
    BY <1>1, <1>5 DEF Exchanged
  <1>10. v.cand[2] \in Targets
    BY <1>2, Chosen DEF Choosing, v
  <1>11. ~(account[v.cand[2]].status = "connected" /\ account[v.cand[2]].publish = v.cand)
    BY <1>4, <1>5, <1>6, <1>10 DEF Accounts, Rests
  <1>12. Own(w, account, selected', live)
    BY <1>1, <1>2, <1>5, <1>11 DEF Own, Keeps, Writes, Written, Undoing, Marked
  <1>13. Revocable(w, account, candidates, selected', live)
    BY <1>1, <1>2, <1>5 DEF Revocable, Keeps, Choosing
  <1>14. QED
    BY <1>2, <1>7, <1>8, <1>9, <1>12, <1>13 DEF ConnectedInv, w

LEMMA RefusedConnected ==
  ASSUME Rows, NEW r \in Requests, ConnectedInv(r), MarkRefused(r) \/ ReadPreviousFails(r)
  PROVE  ConnectedInv(r)'
  <1>1. /\ UNCHANGED <<intent, candidates, selected, live, account>>
        /\ req[r].pc \in {"mark", "previous"} /\ Stay(r)
    BY DEF MarkRefused, ReadPreviousFails
  <1>2. req'[r].pc = "idle"
    BY <1>1, WentIdle DEF Rows
  <1>3. ConnectedParts(req'[r], account, candidates, selected, live, intent)
    BY <1>1, <1>2, PartsLetGo, PartsAre
  <1>4. QED
    BY <1>1, <1>3, PartsAre

(* The secrets of an account are those of what it shows. *)
LEMMA CredentialsShown ==
  ASSUME NEW t \in Targets, NEW x \in CredentialsOf(t)
  PROVE  x \in Refs /\ x[1] \in Shown(account[t])
  <1>1. x \in Refs /\ x[1] \in {account[t].publish, account[t].insights}
    BY DEF CredentialsOf
  <1>2. x[1] \in Candidates
    BY <1>1 DEF Refs
  <1>3. QED
    BY <1>1, <1>2, ConnectionAssumption DEF Shown

LEMMA ReadPreviousConnected ==
  ASSUME Rows, NEW r \in Requests, ConnectedInv(r), ReadPrevious(r)
  PROVE  ConnectedInv(r)'
  <1> DEFINE v == req[r]
             w == req'[r]
             t == v.cand[2]
  <1>1. /\ w.pc = "save" /\ w.cand = v.cand /\ w.listed = v.listed /\ w.written = v.written
        /\ w.prev = CredentialsOf(t) \ RefsOf(v.cand)
    BY WentReadPrevious
  <1>2. UNCHANGED <<intent, candidates, selected, live, account>> /\ v.pc = "previous"
    BY DEF ReadPrevious
  <1>3. t \in Targets
    BY <1>2, Chosen DEF Choosing
  <1>4. /\ Accounts(v, account, candidates, selected, live) /\ Own(v, account, selected, live)
        /\ Revocable(v, account, candidates, selected, live)
        /\ Secrets(v, candidates, selected, live) /\ Exchanged(v, candidates, live, intent)
    BY DEF ConnectedInv
  <1>5. ASSUME NEW x \in CredentialsOf(t) \ RefsOf(v.cand)
        PROVE  /\ x[1] \in candidates /\ x[1][2] = t /\ x[1] # v.cand
               /\ x[1] \in selected \/ Untouched(x[1], live)
    <2>1. x \in Refs /\ x[1] \in Shown(account[t])
      BY <1>3, CredentialsShown
    <2>2. x[1] # v.cand
      BY <2>1, RefIsOf
    <2>3. Past(v, account[t], t, candidates, selected, live)
      BY <1>3, <1>4 DEF Accounts
    <2>4. QED
      BY <1>2, <2>1, <2>2, <2>3 DEF Past, GaveUp
  <1>6. w.prev = CredentialsOf(t) \ RefsOf(w.cand)
    BY <1>1
  <1> HIDE DEF v, w
  <1>7. \A u \in Targets: ~Works(v, u) /\ ~Works(w, u)
    BY <1>1, <1>2 DEF Works, Writes, Written, Undoing
  <1>8. Accounts(w, account, candidates, selected, live)
    BY <1>2, <1>4, <1>7, AccountsStay DEF GaveUp
  <1>9. Secrets(w, candidates, selected, live)
    BY <1>1, <1>2, <1>4 DEF Secrets, Chooses, Choosing
  <1>10. Exchanged(w, candidates, live, intent)
    BY <1>1, <1>4 DEF Exchanged
  <1>11. Own(w, account, selected, live)
    BY <1>1, <1>2, <1>4 DEF Own, Writes, Written, Undoing, Marked
  <1>12. Revocable(w, account, candidates, selected, live)
    BY <1>1, <1>2, <1>4, <1>5 DEF Revocable, Choosing
  <1>13. QED
    BY <1>2, <1>8, <1>9, <1>10, <1>11, <1>12 DEF ConnectedInv, w

(* What a write of an account leaves of it. *)
LEMMA SavedKeeps ==
  ASSUME Rows, NEW c \in Candidates, Saved(c)
  PROVE  account'[c[2]].insights = account[c[2]].insights
  <1>1. account \in [Targets -> Account] /\ c[2] \in Targets
    BY DEF Rows, TypeOK, Candidates
  <1> DEFINE x == [account EXCEPT ![c[2]].status = "connected"]
  <1>2. /\ x \in [Targets -> Account] /\ x[c[2]].insights = account[c[2]].insights
    BY <1>1 DEF Account, Status
  <1>3. account' = [x EXCEPT ![c[2]].publish = c]
    BY DEF Saved
  <1> HIDE DEF x
  <1>4. account'[c[2]].insights = x[c[2]].insights
    BY <1>1, <1>2, <1>3 DEF Account
  <1>5. QED
    BY <1>2, <1>4

LEMMA RecordedIs ==
  ASSUME Rows, NEW c \in Candidates, account' = [account EXCEPT ![c[2]].insights = c]
  PROVE  /\ account'[c[2]].insights = c
         /\ \A t \in Targets: t # c[2] => account'[t] = account[t]
  BY DEF Rows, TypeOK, Account, Candidates

LEMMA DisabledKeeps ==
  ASSUME Rows, NEW t \in Targets, account' = [account EXCEPT ![t].status = "disabled"]
  PROVE  Shown(account'[t]) = Shown(account[t]) /\ account'[t].publish = account[t].publish
  <1>1. /\ account'[t].publish = account[t].publish
        /\ account'[t].insights = account[t].insights
    BY DEF Rows, TypeOK, Account, Status
  <1>2. QED
    BY <1>1 DEF Shown

LEMMA SaveAccountConnected ==
  ASSUME Rows, NEW r \in Requests, ConnectedInv(r), SaveAccount(r)
  PROVE  ConnectedInv(r)'
  <1> DEFINE v == req[r]
             w == req'[r]
             t == v.cand[2]
  <1>1. /\ w.pc = "record" /\ w.cand = v.cand /\ w.listed = v.listed /\ w.prev = v.prev
        /\ w.written
    BY WentSaveAccount
  <1>2. UNCHANGED <<intent, candidates, selected, live>> /\ v.pc = "save" /\ Saved(v.cand)
    BY DEF SaveAccount
  <1>3. v.cand \in candidates /\ v.cand \in Candidates /\ t \in Targets
    BY <1>2, Chosen DEF Choosing
  <1>4. /\ account'[t].status = "connected" /\ account'[t].publish = v.cand
        /\ account'[t].insights = account[t].insights
        /\ \A u \in Targets: u # t => account'[u] = account[u]
    BY <1>2, <1>3, AccountSaved, SavedKeeps
  <1>5. /\ Accounts(v, account, candidates, selected, live) /\ Own(v, account, selected, live)
        /\ Revocable(v, account, candidates, selected, live)
        /\ Secrets(v, candidates, selected, live) /\ Exchanged(v, candidates, live, intent)
    BY DEF ConnectedInv
  <1>6. w.cand[2] = t
    BY <1>1
  <1>7. t = v.cand[2]
    OBVIOUS
  <1> HIDE DEF v, w, t
  <1>8. v.cand \in selected
    BY <1>2, <1>5 DEF Own, Marked
  <1>9. Accounts(w, account', candidates, selected, live)
    <2> SUFFICES ASSUME NEW u \in Targets
                 PROVE  /\ Past(w, account'[u], u, candidates, selected, live)
                        /\ ~Works(w, u) => Rests(account'[u], selected, live)
      BY DEF Accounts
    <2>1. Past(v, account[u], u, candidates, selected, live)
      BY <1>5 DEF Accounts
    <2>2. CASE u = t
      <3>1. Works(w, u)
        BY <2>2, <1>1, <1>6 DEF Works, Writes, Written
      <3>2. Shown(account'[u]) \subseteq {v.cand} \cup Shown(account[u])
        BY <2>2, <1>4 DEF Shown
      <3>3. Past(w, account'[u], u, candidates, selected, live)
        BY <2>1, <2>2, <3>2, <1>2, <1>3, <1>7, <1>8 DEF Past, GaveUp
      <3>4. QED
        BY <3>1, <3>3
    <2>3. CASE u # t
      <3>1. ~Works(v, u)
        BY <1>2 DEF Works, Writes, Written, Undoing
      <3>2. account'[u] = account[u] /\ Rests(account[u], selected, live)
        BY <2>3, <3>1, <1>4, <1>5 DEF Accounts
      <3>3. QED
        BY <2>1, <3>2, <1>2 DEF Past, GaveUp
    <2>4. QED
      BY <2>2, <2>3
  <1>10. Secrets(w, candidates, selected, live)
    BY <1>1, <1>2, <1>5 DEF Secrets, Chooses, Choosing
  <1>11. Exchanged(w, candidates, live, intent)
    BY <1>1, <1>5 DEF Exchanged
  <1>12. Own(w, account', selected, live)
    BY <1>1, <1>4, <1>6, <1>8 DEF Own, Writes, Written, Undoing, Marked
  <1>13. Revocable(w, account', candidates, selected, live)
    BY <1>1, <1>2, <1>5 DEF Revocable, Choosing
  <1>14. QED
    BY <1>2, <1>9, <1>10, <1>11, <1>12, <1>13 DEF ConnectedInv, w

LEMMA RecordConnected ==
  ASSUME Rows, NEW r \in Requests, ConnectedInv(r), RecordMetadata(r)
  PROVE  ConnectedInv(r)'
  <1> DEFINE v == req[r]
             w == req'[r]
             t == v.cand[2]
  <1>1. w.pc = "import" /\ Keeps(v, w)
    BY WentTo DEF RecordMetadata, Rows
  <1>2. UNCHANGED <<intent, candidates, selected, live>> /\ v.pc = "record"
    BY DEF RecordMetadata
  <1>3. v.cand \in candidates /\ v.cand \in Candidates /\ t \in Targets
    BY <1>2, Chosen DEF Choosing
  <1>4. /\ account'[t].status = account[t].status /\ account'[t].publish = account[t].publish
        /\ account'[t].insights = v.cand
        /\ \A u \in Targets: u # t => account'[u] = account[u]
    <2>1. account' = [account EXCEPT ![t].insights = v.cand]
      BY DEF RecordMetadata
    <2>2. QED
      BY <1>3, <2>1, AccountRecorded, RecordedIs
  <1>5. /\ Accounts(v, account, candidates, selected, live) /\ Own(v, account, selected, live)
        /\ Revocable(v, account, candidates, selected, live)
        /\ Secrets(v, candidates, selected, live) /\ Exchanged(v, candidates, live, intent)
    BY DEF ConnectedInv
  <1>6. w.cand[2] = t
    BY <1>1 DEF Keeps
  <1>7. t = v.cand[2]
    OBVIOUS
  <1> HIDE DEF v, w, t
  <1>8. v.cand \in selected /\ v.written /\ account[t].publish = v.cand
    BY <1>2, <1>5, <1>7 DEF Own, Marked, Writes, Written
  <1>9. Accounts(w, account', candidates, selected, live)
    <2> SUFFICES ASSUME NEW u \in Targets
                 PROVE  /\ Past(w, account'[u], u, candidates, selected, live)
                        /\ ~Works(w, u) => Rests(account'[u], selected, live)
      BY DEF Accounts
    <2>1. CASE u = t
      <3>1. Works(w, u)
        BY <2>1, <1>1, <1>6 DEF Works, Writes, Written
      <3>2. Shown(account'[u]) \subseteq {v.cand}
        BY <2>1, <1>4, <1>8 DEF Shown
      <3>3. Past(w, account'[u], u, candidates, selected, live)
        BY <2>1, <3>2, <1>3, <1>7, <1>8 DEF Past
      <3>4. QED
        BY <3>1, <3>3
    <2>2. CASE u # t
      <3>1. ~Works(v, u)
        BY <2>2, <1>2, <1>7 DEF Works, Writes, Written, Undoing
      <3>2. /\ account'[u] = account[u] /\ Rests(account[u], selected, live)
            /\ Past(v, account[u], u, candidates, selected, live)
        BY <2>2, <3>1, <1>4, <1>5 DEF Accounts
      <3>3. QED
        BY <3>2, <1>2 DEF Past, GaveUp
    <2>3. QED
      BY <2>1, <2>2
  <1>10. Secrets(w, candidates, selected, live)
    BY <1>1, <1>2, <1>5 DEF Secrets, Chooses, Choosing, Keeps
  <1>11. Exchanged(w, candidates, live, intent)
    BY <1>1, <1>5 DEF Exchanged
  <1>12. Own(w, account', selected, live)
    BY <1>1, <1>4, <1>6, <1>8 DEF Own, Writes, Written, Undoing, Marked, Keeps
  <1>13. Revocable(w, account', candidates, selected, live)
    BY <1>1, <1>2, <1>5 DEF Revocable, Choosing, Keeps
  <1>14. QED
    BY <1>2, <1>9, <1>10, <1>11, <1>12, <1>13 DEF ConnectedInv, w

LEMMA ImportConnected ==
  ASSUME Rows, NEW r \in Requests, ConnectedInv(r), ImportSnapshot(r)
  PROVE  ConnectedInv(r)'
  <1> DEFINE v == req[r]
             w == req'[r]
  <1>1. w.pc = "revoke" /\ Keeps(v, w)
    BY WentTo DEF ImportSnapshot, Rows
  <1>2. /\ UNCHANGED <<intent, candidates, selected, live, account>> /\ v.pc = "import"
        /\ <<v.cand, "publish">> \in live
    BY DEF ImportSnapshot
  <1>3. v.cand \in candidates
    BY <1>2, Chosen DEF Choosing
  <1>4. /\ Accounts(v, account, candidates, selected, live) /\ Own(v, account, selected, live)
        /\ Revocable(v, account, candidates, selected, live)
        /\ Secrets(v, candidates, selected, live) /\ Exchanged(v, candidates, live, intent)
    BY DEF ConnectedInv
  <1> HIDE DEF v, w
  <1>5. RefsOf(v.cand) \subseteq live
    <2>1. Whole(v.cand, live)
      BY <1>2, <1>3, <1>4 DEF Secrets, Chooses, Choosing
    <2>2. <<v.cand, "publish">> \in RefsOf(v.cand)
      BY DEF RefsOf
    <2>3. QED
      BY <1>2, <2>1 DEF Whole
  <1>6. Accounts(w, account, candidates, selected, live)
    BY <1>1, <1>2, <1>4, AccountsStay DEF GaveUp, Works, Writes, Written, Undoing, Keeps
  <1>7. Secrets(w, candidates, selected, live)
    BY <1>1, <1>2, <1>4 DEF Secrets, Chooses, Choosing, Keeps
  <1>8. Exchanged(w, candidates, live, intent)
    BY <1>1, <1>4 DEF Exchanged
  <1>9. Own(w, account, selected, live)
    BY <1>1, <1>2, <1>4, <1>5 DEF Own, Writes, Written, Undoing, Marked, Keeps
  <1>10. Revocable(w, account, candidates, selected, live)
    BY <1>1, <1>2, <1>4 DEF Revocable, Choosing, Keeps
  <1>11. QED
    BY <1>2, <1>6, <1>7, <1>8, <1>9, <1>10 DEF ConnectedInv, w

LEMMA ConnectFailsConnected ==
  ASSUME Rows, NEW r \in Requests, ConnectedInv(r), ConnectFails(r)
  PROVE  ConnectedInv(r)'
  <1> DEFINE v == req[r]
             w == req'[r]
  <1>1. w.pc = "release" /\ Keeps(v, w)
    BY WentTo DEF ConnectFails, Rows
  <1>2. /\ UNCHANGED <<intent, candidates, selected, live, account>>
        /\ v.pc \in {"save", "record", "import"}
    BY DEF ConnectFails
  <1>3. /\ Accounts(v, account, candidates, selected, live) /\ Own(v, account, selected, live)
        /\ Revocable(v, account, candidates, selected, live)
        /\ Secrets(v, candidates, selected, live) /\ Exchanged(v, candidates, live, intent)
    BY DEF ConnectedInv
  <1> HIDE DEF v, w
  <1>4. \/ v.pc = "save" /\ ~v.written
        \/ v.pc \in Written /\ v.written
    BY <1>2, <1>3 DEF Own, Written
  <1>5. \A t \in Targets: Works(v, t) <=> Works(w, t)
    BY <1>1, <1>2, <1>4 DEF Works, Writes, Written, Undoing, Keeps
  <1>6. Accounts(w, account, candidates, selected, live)
    BY <1>2, <1>3, <1>5, AccountsStay DEF GaveUp
  <1>7. Secrets(w, candidates, selected, live)
    BY <1>1, <1>2, <1>3 DEF Secrets, Chooses, Choosing, Keeps
  <1>8. Exchanged(w, candidates, live, intent)
    BY <1>1, <1>3 DEF Exchanged
  <1>9. Own(w, account, selected, live)
    BY <1>1, <1>2, <1>3, <1>4 DEF Own, Writes, Written, Undoing, Marked, Keeps
  <1>10. Revocable(w, account, candidates, selected, live)
    BY <1>1, <1>2, <1>3 DEF Revocable, Choosing, Keeps
  <1>11. QED
    BY <1>2, <1>6, <1>7, <1>8, <1>9, <1>10 DEF ConnectedInv, w

LEMMA RevokePreviousConnected ==
  ASSUME Rows, NEW r \in Requests, ConnectedInv(r), RevokePrevious(r)
  PROVE  ConnectedInv(r)'
  <1> DEFINE v == req[r]
             w == req'[r]
             D == v.prev
  <1>1. w.pc = "others" /\ Keeps(v, w)
    BY WentTo DEF RevokePrevious, Rows
  <1>2. /\ UNCHANGED <<intent, candidates, selected, account>> /\ v.pc = "revoke"
        /\ live' = live \ D
    BY DEF RevokePrevious
  <1>3. /\ Accounts(v, account, candidates, selected, live) /\ Own(v, account, selected, live)
        /\ Revocable(v, account, candidates, selected, live)
        /\ Secrets(v, candidates, selected, live) /\ Exchanged(v, candidates, live, intent)
    BY DEF ConnectedInv
  <1>4. D \subseteq Refs
    BY DEF Rows, TypeOK, Request
  <1>5. \A x \in D: /\ x[1] \in candidates /\ x[1][2] = v.cand[2] /\ x[1] # v.cand
                    /\ x[1] \in selected \/ Untouched(x[1], live)
    BY <1>2, <1>3 DEF Revocable
  <1> HIDE DEF v, w, D
  <1>6. \A c: (\A x \in D: x[1] # c) => RefsOf(c) \cap D = {}
    BY <1>4, RefIsOf
  <1>7. RefsOf(v.cand) \cap D = {}
    BY <1>5, <1>6
  <1>8. \A u \in Targets: Works(v, u) <=> Works(w, u)
    BY <1>1, <1>2 DEF Works, Writes, Written, Undoing, Keeps
  <1>9. \A u \in Targets: ~Works(w, u) => u # v.cand[2]
    BY <1>1 DEF Works, Writes, Written, Keeps
  <1>10. ASSUME NEW u \in Targets, ~Works(w, u)
         PROVE  /\ Rests(account[u], selected, live)
                /\ account[u].status = "connected" => RefsOf(account[u].publish) \cap D = {}
    <2>1. Rests(account[u], selected, live) /\ Past(v, account[u], u, candidates, selected, live)
      BY <1>3, <1>8, <1>10 DEF Accounts
    <2>2. ASSUME account[u].status = "connected"
          PROVE  account[u].publish[2] = u
      <3>1. account[u].publish \in Shown(account[u])
        BY <2>1, <2>2, SelectedNotNone DEF Rests, Shown
      <3>2. QED
        BY <2>1, <3>1 DEF Past
    <2>3. QED
      BY <1>5, <1>6, <1>9, <1>10, <2>1, <2>2
  <1>11. Accounts(w, account, candidates, selected, live \ D)
    BY <1>2, <1>3, <1>10, AccountsShrink DEF GaveUp
  <1>12. Secrets(w, candidates, selected, live \ D)
    <2>1. \A c: Chooses(w, c) <=> Chooses(v, c)
      BY <1>1, <1>2 DEF Chooses, Choosing, Keeps
    <2>2. ASSUME NEW c \in candidates, c \notin selected \/ Chooses(w, c)
          PROVE  RefsOf(c) \cap D = {} \/ Untouched(c, live)
      <3>1. c = v.cand \/ c \notin selected
        BY <2>1, <2>2 DEF Chooses
      <3>2. QED
        BY <3>1, <1>5, <1>6, <1>7
    <2>3. QED
      BY <1>3, <2>1, <2>2, SecretsShrink
  <1>13. Exchanged(w, candidates, live \ D, intent)
    BY <1>1, <1>3 DEF Exchanged
  <1>14. Own(w, account, selected, live \ D)
    BY <1>1, <1>2, <1>3, <1>7 DEF Own, Writes, Written, Undoing, Marked, Keeps
  <1>15. Revocable(w, account, candidates, selected, live \ D)
    BY <1>1, <1>2, <1>3 DEF Revocable, Choosing, Keeps
  <1>16. QED
    BY <1>2, <1>11, <1>12, <1>13, <1>14, <1>15 DEF ConnectedInv, w

(* While nothing is being written, what an account shows is its own. *)
LEMMA ConnectedShowsOwn ==
  ASSUME Rows, NEW v, NEW t \in Targets, Accounts(v, account, candidates, selected, live),
         Rests(account[t], selected, live), account[t].status = "connected"
  PROVE  account[t].publish[2] = t
  <1>1. account[t].publish \in Shown(account[t])
    BY SelectedNotNone DEF Rests, Shown
  <1>2. QED
    BY <1>1 DEF Past, Accounts

LEMMA RevokeOthersConnected ==
  ASSUME Rows, NEW r \in Requests, ConnectedInv(r), RevokeOthers(r)
  PROVE  ConnectedInv(r)'
  <1> DEFINE v == req[r]
             w == req'[r]
             D == Others(r)
  <1>1. w.pc = "idle"
    BY WentIdle DEF RevokeOthers, Rows
  <1>2. /\ UNCHANGED <<intent, candidates, selected, account>> /\ v.pc = "others"
        /\ live' = live \ D
    BY DEF RevokeOthers
  <1>3. /\ Accounts(v, account, candidates, selected, live) /\ Own(v, account, selected, live)
        /\ Revocable(v, account, candidates, selected, live)
        /\ Secrets(v, candidates, selected, live) /\ Exchanged(v, candidates, live, intent)
    BY DEF ConnectedInv
  <1>4. D = UNION {RefsOf(c): c \in v.listed \ {v.cand}}
    BY DEF Others
  <1>5. v.cand \in candidates /\ v.cand[2] \in Targets
    BY <1>2, Chosen DEF Choosing
  <1> HIDE DEF v, w, D
  <1>6. v.cand \in selected
    BY <1>2, <1>3 DEF Own, Marked
  <1>7. \A d \in v.listed \ {v.cand}: d \notin selected
    BY <1>2, <1>3, <1>6 DEF Revocable, Choosing, Rows, OneChosen
  <1>8. \A c \in selected: RefsOf(c) \cap D = {}
    BY <1>4, <1>7, RefsApart
  <1>9. ASSUME NEW u \in Targets
        PROVE  Rests(account[u], selected, live)
    <2>1. CASE Works(v, u)
      <3>1. u = v.cand[2]
        BY <2>1, <1>2 DEF Works
      <3>2. account[u].publish = v.cand /\ account[u].insights = v.cand
        BY <3>1, <1>2, <1>3 DEF Own, Writes, Written
      <3>3. RefsOf(v.cand) \subseteq live
        BY <1>2, <1>3 DEF Own
      <3>4. QED
        BY <3>2, <3>3, <1>6 DEF Rests
    <2>2. CASE ~Works(v, u)
      BY <2>2, <1>3 DEF Accounts
    <2>3. QED
      BY <2>1, <2>2
  <1>10. \A u \in Targets: account[u].status = "connected" => RefsOf(account[u].publish) \cap D = {}
    BY <1>8, <1>9 DEF Rests
  <1>11. Accounts(w, account, candidates, selected, live \ D)
    BY <1>2, <1>3, <1>9, <1>10, AccountsShrink DEF GaveUp
  <1>12. Secrets(w, candidates, selected, live \ D)
    <2>1. \A c: ~Chooses(w, c)
      BY <1>1 DEF Chooses, Choosing
    <2>2. \A c \in candidates: RefsOf(c) \cap D = {} \/ RefsOf(c) \subseteq D
      BY <1>4, RefsApart
    <2>3. QED
      BY <1>3, <2>1, <2>2, SecretsShrink
  <1>13. Exchanged(w, candidates, live \ D, intent)
    BY <1>1, <1>3 DEF Exchanged
  <1>14. Own(w, account, selected, live \ D) /\ Revocable(w, account, candidates, selected, live \ D)
    BY <1>1 DEF Own, Writes, Written, Undoing, Marked, Revocable, Choosing
  <1>15. QED
    BY <1>2, <1>11, <1>12, <1>13, <1>14 DEF ConnectedInv, w

LEMMA RevokeFailsConnected ==
  ASSUME Rows, NEW r \in Requests, ConnectedInv(r), OneAtATime(r), RevokeFails(r)
  PROVE  ConnectedInv(r)'
  <1> DEFINE v == req[r]
             w == req'[r]
             R == Revoking(r)
  <1>1. w.pc = "release" /\ Keeps(v, w)
    BY WentTo DEF RevokeFails, OneAtATime, Rows
  <1>2. UNCHANGED <<intent, candidates, selected, account>> /\ v.pc \in {"revoke", "others"}
    BY DEF RevokeFails
  <1>3. PICK D \in SUBSET R: InOrder(D, R) /\ live' = live \ D
    BY DEF RevokeFails, OneAtATime
  <1>4. /\ Accounts(v, account, candidates, selected, live) /\ Own(v, account, selected, live)
        /\ Revocable(v, account, candidates, selected, live)
        /\ Secrets(v, candidates, selected, live) /\ Exchanged(v, candidates, live, intent)
    BY DEF ConnectedInv
  <1>5. v.cand \in candidates /\ v.cand[2] \in Targets
    BY <1>2, Chosen DEF Choosing
  <1>6. v.prev \subseteq Refs
    BY DEF Rows, TypeOK, Request
  <1>7. \/ v.pc = "revoke" /\ R = v.prev
        \/ v.pc = "others" /\ R = UNION {RefsOf(c): c \in v.listed \ {v.cand}}
    BY <1>2 DEF Revoking, Others
  <1> HIDE DEF v, w, R
  <1>8. v.cand \in selected
    BY <1>2, <1>4 DEF Own, Marked
  <1>9. \A x \in R: /\ x[1] # v.cand /\ x \in RefsOf(x[1])
                    /\ \/ x[1][2] = v.cand[2] /\ (x[1] \in selected \/ Untouched(x[1], live))
                       \/ x[1] \notin selected /\ RefsOf(x[1]) \subseteq R
    <2>1. CASE v.pc = "revoke"
      BY <2>1, <1>4, <1>6, <1>7, RefIsOf DEF Revocable
    <2>2. CASE v.pc = "others"
      <3>1. \A d \in v.listed \ {v.cand}: d \notin selected
        BY <2>2, <1>4, <1>8 DEF Revocable, Choosing, Rows, OneChosen
      <3>2. \A x \in R: x[1] \in v.listed \ {v.cand} /\ x \in RefsOf(x[1])
        BY <2>2, <1>7 DEF RefsOf
      <3>3. QED
        BY <2>2, <3>1, <3>2, <1>7
    <2>3. QED
      BY <2>1, <2>2, <1>2
  <1>10. \A c: (\A x \in R: x[1] # c) => RefsOf(c) \cap D = {}
    BY <1>3 DEF RefsOf
  <1>11. \A u \in Targets: Works(v, u) <=> Works(w, u)
    BY <1>1, <1>2, <1>4 DEF Works, Writes, Written, Undoing, Keeps, Own
  <1>12. \A u \in Targets: ~Works(w, u) => u # v.cand[2]
    BY <1>2, <1>11 DEF Works, Writes, Written
  <1>13. ASSUME NEW u \in Targets, ~Works(w, u)
         PROVE  /\ Rests(account[u], selected, live)
                /\ account[u].status = "connected" => RefsOf(account[u].publish) \cap D = {}
    <2>1. Rests(account[u], selected, live)
      BY <1>4, <1>11, <1>13 DEF Accounts
    <2>2. account[u].status = "connected" => account[u].publish[2] = u
      BY <2>1, <1>4, ConnectedShowsOwn
    <2>3. account[u].status = "connected" => account[u].publish \in selected
      BY <2>1 DEF Rests
    <2>4. QED
      BY <2>1, <2>2, <2>3, <1>9, <1>10, <1>12, <1>13
  <1>14. Accounts(w, account, candidates, selected, live \ D)
    BY <1>2, <1>4, <1>13, AccountsShrink DEF GaveUp
  <1>15. Secrets(w, candidates, selected, live \ D)
    <2>1. \A c: Chooses(w, c) <=> Chooses(v, c)
      BY <1>1, <1>2 DEF Chooses, Choosing, Keeps
    <2>2. ASSUME NEW c \in candidates, c \notin selected \/ Chooses(w, c)
          PROVE  RefsOf(c) \cap D = {} \/ Untouched(c, live) \/ Whole(c, live \ D)
      <3>1. CASE \E x \in R: x[1] = c
        <4>1. c # v.cand /\ c \notin selected
          BY <3>1, <2>1, <2>2, <1>9 DEF Chooses
        <4>2. Untouched(c, live) \/ RefsOf(c) \subseteq R
          BY <3>1, <4>1, <1>9
        <4>3. ASSUME RefsOf(c) \subseteq R, <<c, "publish">> \notin D
              PROVE  RefsOf(c) \cap D = {}
          <5>1. <<c, "publish">> \in R
            BY <4>3 DEF RefsOf
          <5>2. <<c, "insights">> \notin D
            BY <5>1, <4>3, <1>3 DEF InOrder
          <5>3. QED
            BY <5>2, <4>3 DEF RefsOf
        <4>4. <<c, "publish">> \in D => Whole(c, live \ D)
          BY DEF Whole
        <4>5. QED
          BY <4>2, <4>3, <4>4
      <3>2. CASE \A x \in R: x[1] # c
        BY <3>2, <1>10
      <3>3. QED
        BY <3>1, <3>2
    <2>3. QED
      BY <1>4, <2>1, <2>2, SecretsShrink
  <1>16. Exchanged(w, candidates, live \ D, intent)
    BY <1>1, <1>4 DEF Exchanged
  <1>17. Own(w, account, selected, live \ D)
    BY <1>1, <1>2, <1>4 DEF Own, Writes, Written, Undoing, Marked, Keeps
  <1>18. Revocable(w, account, candidates, selected, live \ D)
    BY <1>1, <1>2, <1>4 DEF Revocable, Choosing, Keeps
  <1>19. QED
    BY <1>2, <1>3, <1>14, <1>15, <1>16, <1>17, <1>18 DEF ConnectedInv, w

LEMMA ReleaseConnected ==
  ASSUME Rows, NEW r \in Requests, ConnectedInv(r), OneAtATime(r), Release(r)
  PROVE  ConnectedInv(r)'
  <1> DEFINE v == req[r]
             w == req'[r]
  <1>1. /\ UNCHANGED <<intent, candidates, live, account>> /\ v.pc = "release"
        /\ selected' = selected \ {v.cand}
    BY DEF Release, OneAtATime, Swallowed
  <1>2. /\ Keeps(v, w)
        /\ \/ v.written /\ w.pc = "disable"
           \/ ~v.written /\ w.pc = "withdraw"
    <2>1. CASE v.written
      <3>1. To(r, "disable")
        BY <2>1 DEF Release, OneAtATime
      <3>2. w.pc = "disable" /\ Keeps(v, w)
        BY <3>1, WentTo DEF Rows
      <3>3. QED
        BY <2>1, <3>2
    <2>2. CASE ~v.written
      <3>1. To(r, "withdraw")
        BY <2>2 DEF Release, OneAtATime
      <3>2. w.pc = "withdraw" /\ Keeps(v, w)
        BY <3>1, WentTo DEF Rows
      <3>3. QED
        BY <2>2, <3>2
    <2>3. QED
      BY <2>1, <2>2
  <1>3. /\ Accounts(v, account, candidates, selected, live) /\ Own(v, account, selected, live)
        /\ Revocable(v, account, candidates, selected, live)
        /\ Secrets(v, candidates, selected, live) /\ Exchanged(v, candidates, live, intent)
    BY DEF ConnectedInv
  <1>4. v.cand \in candidates /\ v.cand[2] \in Targets
    BY <1>1, Chosen DEF Choosing
  <1> HIDE DEF v, w
  <1>5. \A u \in Targets: Works(v, u) <=> Works(w, u)
    BY <1>1, <1>2 DEF Works, Writes, Written, Undoing, Keeps
  <1>6. \A c: Chooses(w, c) <=> Chooses(v, c)
    BY <1>1, <1>2 DEF Chooses, Choosing, Keeps
  <1>7. Accounts(w, account, candidates, selected', live)
    <2> SUFFICES ASSUME NEW u \in Targets
                 PROVE  /\ Past(w, account[u], u, candidates, selected', live)
                        /\ ~Works(w, u) => Rests(account[u], selected', live)
      BY DEF Accounts
    <2>1. Past(w, account[u], u, candidates, selected', live)
      <3>1. GaveUp(w, v.cand)
        BY <1>2 DEF GaveUp, Keeps
      <3>2. QED
        BY <3>1, <1>1, <1>3 DEF Accounts, Past, GaveUp
    <2>2. ASSUME ~Works(w, u), account[u].status = "connected"
          PROVE  account[u].publish # v.cand
      <3>1. Rests(account[u], selected, live)
        BY <2>2, <1>3, <1>5 DEF Accounts
      <3>2. account[u].publish[2] = u
        BY <3>1, <2>2, <1>3, ConnectedShowsOwn
      <3>3. CASE u = v.cand[2]
        <4>1. ~v.written
          BY <3>3, <2>2, <1>2 DEF Works, Writes, Undoing, Keeps
        <4>2. QED
          BY <3>3, <4>1, <2>2, <1>1, <1>3 DEF Own, Undoing
      <3>4. QED
        BY <3>2, <3>3
    <2>3. ~Works(w, u) => Rests(account[u], selected', live)
      BY <2>2, <1>1, <1>3, <1>5 DEF Accounts, Rests
    <2>4. QED
      BY <2>1, <2>3
  <1>8. Secrets(w, candidates, selected', live)
    BY <1>1, <1>3, <1>6 DEF Secrets, Chooses, Choosing
  <1>9. Exchanged(w, candidates, live, intent)
    BY <1>2, <1>3 DEF Exchanged
  <1>10. Own(w, account, selected', live)
    BY <1>1, <1>2, <1>3 DEF Own, Writes, Written, Undoing, Marked, Keeps
  <1>11. Revocable(w, account, candidates, selected', live)
    BY <1>1, <1>2, <1>3 DEF Revocable, Choosing, Keeps
  <1>12. QED
    BY <1>1, <1>7, <1>8, <1>9, <1>10, <1>11 DEF ConnectedInv, w

LEMMA DisableConnected ==
  ASSUME Rows, NEW r \in Requests, ConnectedInv(r), OneAtATime(r), DisableAgain(r)
  PROVE  ConnectedInv(r)'
  <1> DEFINE v == req[r]
             w == req'[r]
             t == v.cand[2]
  <1>1. w.pc = "withdraw" /\ Keeps(v, w)
    BY WentTo DEF DisableAgain, Rows
  <1>2. /\ UNCHANGED <<intent, candidates, selected, live>> /\ v.pc = "disable"
        /\ account' = [account EXCEPT ![t].status = "disabled"]
    BY DEF DisableAgain, OneAtATime, Swallowed
  <1>3. v.cand \in candidates /\ t \in Targets
    BY <1>2, Chosen DEF Choosing
  <1>4. /\ account'[t].status = "disabled" /\ Shown(account'[t]) = Shown(account[t])
        /\ account'[t].publish = account[t].publish
        /\ \A u \in Targets: u # t => account'[u] = account[u]
    BY <1>2, <1>3, AccountDisabled, DisabledKeeps
  <1>5. /\ Accounts(v, account, candidates, selected, live) /\ Own(v, account, selected, live)
        /\ Revocable(v, account, candidates, selected, live)
        /\ Secrets(v, candidates, selected, live) /\ Exchanged(v, candidates, live, intent)
    BY DEF ConnectedInv
  <1>6. w.cand[2] = t
    BY <1>1 DEF Keeps
  <1>7. t = v.cand[2]
    OBVIOUS
  <1> HIDE DEF v, w, t
  <1>8. v.written /\ account[t].publish = v.cand
    BY <1>2, <1>5, <1>7 DEF Own, Writes, Undoing
  <1>9. Accounts(w, account', candidates, selected, live)
    <2> SUFFICES ASSUME NEW u \in Targets
                 PROVE  /\ Past(w, account'[u], u, candidates, selected, live)
                        /\ ~Works(w, u) => Rests(account'[u], selected, live)
      BY DEF Accounts
    <2>1. Past(v, account[u], u, candidates, selected, live)
      BY <1>5 DEF Accounts
    <2>2. \A c: GaveUp(v, c) => GaveUp(w, c)
      BY <1>1 DEF GaveUp, Keeps
    <2>3. CASE u = t
      BY <2>1, <2>2, <2>3, <1>4 DEF Past, Rests
    <2>4. CASE u # t
      <3>1. ~Works(v, u)
        BY <2>4, <1>2, <1>7 DEF Works, Writes
      <3>2. account'[u] = account[u] /\ Rests(account[u], selected, live)
        BY <2>4, <3>1, <1>4, <1>5 DEF Accounts
      <3>3. QED
        BY <2>1, <2>2, <3>2 DEF Past
    <2>5. QED
      BY <2>3, <2>4
  <1>10. Secrets(w, candidates, selected, live)
    BY <1>1, <1>2, <1>5 DEF Secrets, Chooses, Choosing, Keeps
  <1>11. Exchanged(w, candidates, live, intent)
    BY <1>1, <1>5 DEF Exchanged
  <1>12. Own(w, account', selected, live)
    BY <1>1, <1>4, <1>6, <1>8 DEF Own, Writes, Written, Undoing, Marked, Keeps
  <1>13. Revocable(w, account', candidates, selected, live)
    BY <1>1, <1>2, <1>5 DEF Revocable, Choosing, Keeps
  <1>14. QED
    BY <1>2, <1>9, <1>10, <1>11, <1>12, <1>13 DEF ConnectedInv, w

LEMMA WithdrawConnected ==
  ASSUME Rows, NEW r \in Requests, ConnectedInv(r), OneAtATime(r), Withdraw(r)
  PROVE  ConnectedInv(r)'
  <1> DEFINE v == req[r]
             w == req'[r]
             D == RefsOf(v.cand)
  <1>1. w.pc = "idle"
    BY WentIdle DEF Withdraw, Rows
  <1>2. /\ UNCHANGED <<intent, candidates, selected, account>> /\ v.pc = "withdraw"
        /\ live' = live \ D
    BY DEF Withdraw, OneAtATime, Swallowed
  <1>3. /\ Accounts(v, account, candidates, selected, live) /\ Own(v, account, selected, live)
        /\ Revocable(v, account, candidates, selected, live)
        /\ Secrets(v, candidates, selected, live) /\ Exchanged(v, candidates, live, intent)
    BY DEF ConnectedInv
  <1>4. D = RefsOf(v.cand) /\ v.cand \in candidates /\ v.cand[2] \in Targets
    BY <1>2, Chosen DEF Choosing
  <1> HIDE DEF v, w, D
  <1>5. ASSUME NEW u \in Targets, account[u].status = "connected"
        PROVE  Rests(account[u], selected, live) /\ account[u].publish # v.cand
    <2>1. CASE u = v.cand[2]
      <3>1. ~v.written /\ account[u].publish # v.cand
        BY <2>1, <1>2, <1>3, <1>5 DEF Own, Undoing
      <3>2. ~Works(v, u)
        BY <3>1, <1>2 DEF Works, Writes, Written
      <3>3. QED
        BY <3>1, <3>2, <1>3 DEF Accounts
    <2>2. CASE u # v.cand[2]
      <3>1. ~Works(v, u)
        BY <2>2, <1>2 DEF Works
      <3>2. Rests(account[u], selected, live)
        BY <3>1, <1>3 DEF Accounts
      <3>3. account[u].publish[2] = u
        BY <3>2, <1>3, <1>5, ConnectedShowsOwn
      <3>4. QED
        BY <2>2, <3>2, <3>3
    <2>3. QED
      BY <2>1, <2>2
  <1>6. \A u \in Targets: Rests(account[u], selected, live)
    BY <1>5 DEF Rests
  <1>7. \A u \in Targets: account[u].status = "connected" => RefsOf(account[u].publish) \cap D = {}
    BY <1>4, <1>5, RefsApart
  <1>8. \A c: GaveUp(v, c) => RefsOf(c) \subseteq D
    BY <1>4 DEF GaveUp
  <1>9. Accounts(w, account, candidates, selected, live \ D)
    BY <1>3, <1>6, <1>7, <1>8, AccountsShrink
  <1>10. Secrets(w, candidates, selected, live \ D)
    <2>1. \A c: ~Chooses(w, c)
      BY <1>1 DEF Chooses, Choosing
    <2>2. \A c \in candidates: RefsOf(c) \cap D = {} \/ RefsOf(c) \subseteq D
      BY <1>4, RefsApart
    <2>3. QED
      BY <1>3, <2>1, <2>2, SecretsShrink
  <1>11. Exchanged(w, candidates, live \ D, intent)
    BY <1>1, <1>3 DEF Exchanged
  <1>12. Own(w, account, selected, live \ D) /\ Revocable(w, account, candidates, selected, live \ D)
    BY <1>1 DEF Own, Writes, Written, Undoing, Marked, Revocable, Choosing
  <1>13. QED
    BY <1>2, <1>9, <1>10, <1>11, <1>12 DEF ConnectedInv, w

LEMMA DisconnectConnected ==
  ASSUME Rows, NEW r \in Requests, ConnectedInv(r), NEW t \in Targets, Disconnect(r, t)
  PROVE  ConnectedInv(r)'
  <1> DEFINE w == req'[r]
  <1>1. w.pc = "cut" /\ w.target = t /\ w.prev = CredentialsOf(t)
    BY WentDisconnect
  <1>2. /\ UNCHANGED <<intent, candidates, selected, live, account>> /\ req[r].pc = "idle"
    BY DEF Disconnect
  <1> HIDE DEF w
  <1>3. Exchanged(w, candidates, live, intent)
    BY <1>1 DEF ConnectedInv, Exchanged
  <1>4. \A u \in Targets: ~Works(req[r], u)
    BY <1>2 DEF Works, Writes, Written, Undoing
  <1>5. Accounts(w, account, candidates, selected, live)
    BY <1>2, <1>4, AccountsStay DEF ConnectedInv, GaveUp
  <1>6. Secrets(w, candidates, selected, live)
    BY <1>1 DEF ConnectedInv, Secrets, Chooses, Choosing
  <1>7. Own(w, account, selected, live)
    BY <1>1 DEF Own, Writes, Written, Undoing, Marked
  <1>8. Revocable(w, account, candidates, selected, live)
    BY <1>1, CredentialsShown DEF Revocable, Choosing
  <1>9. QED
    BY <1>2, <1>3, <1>5, <1>6, <1>7, <1>8 DEF ConnectedInv, w

LEMMA CutConnected ==
  ASSUME Rows, NEW r \in Requests, ConnectedInv(r), Cut(r)
  PROVE  ConnectedInv(r)'
  <1> DEFINE v == req[r]
             w == req'[r]
             D == v.prev
  <1>1. w.pc = "off" /\ Keeps(v, w)
    BY WentTo DEF Cut, Rows
  <1>2. /\ UNCHANGED <<intent, candidates, selected, account>> /\ v.pc = "cut"
        /\ live' = live \ D
    BY DEF Cut
  <1>3. /\ Accounts(v, account, candidates, selected, live) /\ Own(v, account, selected, live)
        /\ Revocable(v, account, candidates, selected, live)
        /\ Secrets(v, candidates, selected, live) /\ Exchanged(v, candidates, live, intent)
    BY DEF ConnectedInv
  <1>4. D \subseteq Refs /\ v.target \in Targets
    BY <1>2 DEF Rows, Sound, TypeOK, Request
  <1>5. \A x \in D: x[1] \in Shown(account[v.target])
    BY <1>2, <1>3 DEF Revocable
  <1> HIDE DEF v, w, D
  <1>6. \A x \in D: /\ x[1] \in candidates /\ x[1][2] = v.target
                    /\ x[1] \in selected \/ Untouched(x[1], live)
    BY <1>2, <1>3, <1>4, <1>5 DEF Accounts, Past, GaveUp
  <1>7. \A c: (\A x \in D: x[1] # c) => RefsOf(c) \cap D = {}
    BY <1>4, RefIsOf
  <1>8. ASSUME NEW u \in Targets, ~Works(w, u)
        PROVE  /\ Rests(account[u], selected, live)
               /\ account[u].status = "connected" => RefsOf(account[u].publish) \cap D = {}
    <2>1. ~Works(v, u) /\ u # v.target
      BY <1>1, <1>2, <1>8 DEF Works, Writes, Written, Undoing, Keeps
    <2>2. Rests(account[u], selected, live)
      BY <2>1, <1>3 DEF Accounts
    <2>3. account[u].status = "connected" => account[u].publish[2] = u
      BY <2>2, <1>3, ConnectedShowsOwn
    <2>4. QED
      BY <2>1, <2>2, <2>3, <1>6, <1>7
  <1>9. Accounts(w, account, candidates, selected, live \ D)
    BY <1>2, <1>3, <1>8, AccountsShrink DEF GaveUp
  <1>10. Secrets(w, candidates, selected, live \ D)
    <2>1. \A c: ~Chooses(w, c)
      BY <1>1 DEF Chooses, Choosing
    <2>2. \A c \in candidates: c \notin selected => RefsOf(c) \cap D = {} \/ Untouched(c, live)
      BY <1>6, <1>7
    <2>3. QED
      BY <1>3, <2>1, <2>2, SecretsShrink
  <1>11. Exchanged(w, candidates, live \ D, intent)
    BY <1>1, <1>3 DEF Exchanged
  <1>12. Own(w, account, selected, live \ D) /\ Revocable(w, account, candidates, selected, live \ D)
    BY <1>1 DEF Own, Writes, Written, Undoing, Marked, Revocable, Choosing
  <1>13. QED
    BY <1>2, <1>9, <1>10, <1>11, <1>12 DEF ConnectedInv, w

LEMMA SwitchOffConnected ==
  ASSUME Rows, NEW r \in Requests, ConnectedInv(r), SwitchOff(r)
  PROVE  ConnectedInv(r)'
  <1> DEFINE v == req[r]
             w == req'[r]
             t == v.target
  <1>1. w.pc = "idle"
    BY WentIdle DEF SwitchOff, Rows
  <1>2. /\ UNCHANGED <<intent, candidates, selected, live>> /\ v.pc = "off"
        /\ account' = [account EXCEPT ![t].status = "disabled"]
    BY DEF SwitchOff
  <1>3. t \in Targets
    BY <1>2 DEF Rows, Sound
  <1>4. /\ account'[t].status = "disabled" /\ Shown(account'[t]) = Shown(account[t])
        /\ \A u \in Targets: u # t => account'[u] = account[u]
    BY <1>2, <1>3, AccountDisabled, DisabledKeeps
  <1>5. /\ Accounts(v, account, candidates, selected, live)
        /\ Secrets(v, candidates, selected, live) /\ Exchanged(v, candidates, live, intent)
    BY DEF ConnectedInv
  <1>6. t = v.target
    OBVIOUS
  <1> HIDE DEF v, w, t
  <1>7. Accounts(w, account', candidates, selected, live)
    <2> SUFFICES ASSUME NEW u \in Targets
                 PROVE  /\ Past(w, account'[u], u, candidates, selected, live)
                        /\ Rests(account'[u], selected, live)
      BY DEF Accounts
    <2>1. Past(v, account[u], u, candidates, selected, live)
      BY <1>5 DEF Accounts
    <2>2. CASE u = t
      BY <2>1, <2>2, <1>2, <1>4 DEF Past, Rests, GaveUp
    <2>3. CASE u # t
      <3>1. ~Works(v, u)
        BY <2>3, <1>2, <1>6 DEF Works, Writes, Written, Undoing
      <3>2. account'[u] = account[u] /\ Rests(account[u], selected, live)
        BY <2>3, <3>1, <1>4, <1>5 DEF Accounts
      <3>3. QED
        BY <2>1, <3>2, <1>2 DEF Past, GaveUp
    <2>4. QED
      BY <2>2, <2>3
  <1>8. Secrets(w, candidates, selected, live)
    BY <1>1, <1>2, <1>5 DEF Secrets, Chooses, Choosing
  <1>9. Exchanged(w, candidates, live, intent)
    BY <1>1, <1>5 DEF Exchanged
  <1>10. Own(w, account', selected, live) /\ Revocable(w, account', candidates, selected, live)
    BY <1>1 DEF Own, Writes, Written, Undoing, Marked, Revocable, Choosing
  <1>11. QED
    BY <1>2, <1>7, <1>8, <1>9, <1>10 DEF ConnectedInv, w

LEMMA PurgeConnected ==
  ASSUME Rows, NEW r \in Requests, ConnectedInv(r), Purge
  PROVE  ConnectedInv(r)'
  <1> DEFINE v == req[r]
             D == UNION {RefsOf(c): c \in Pending}
  <1>1. UNCHANGED <<intent, candidates, selected, account, req>> /\ live' = live \ D
    BY DEF Purge
  <1>2. /\ Accounts(v, account, candidates, selected, live) /\ Own(v, account, selected, live)
        /\ Revocable(v, account, candidates, selected, live)
        /\ Secrets(v, candidates, selected, live) /\ Exchanged(v, candidates, live, intent)
    BY DEF ConnectedInv
  <1>3. \A c: c \in selected \/ c \notin candidates => RefsOf(c) \cap D = {}
    BY RefsApart DEF Pending
  <1>4. \A c: RefsOf(c) \cap D = {} \/ RefsOf(c) \subseteq D
    BY RefsApart
  <1> HIDE DEF v, D
  <1>5. Accounts(v, account, candidates, selected, live \ D)
    <2>1. \A t \in Targets: ~Works(v, t) => Rests(account[t], selected, live)
      BY <1>2 DEF Accounts
    <2>2. \A t \in Targets: ~Works(v, t) /\ account[t].status = "connected"
                              => RefsOf(account[t].publish) \cap D = {}
      BY <2>1, <1>3 DEF Rests
    <2>3. QED
      BY <1>2, <2>1, <2>2, AccountsShrink
  <1>6. Secrets(v, candidates, selected, live \ D)
    BY <1>2, <1>4, SecretsShrink
  <1>7. Exchanged(v, candidates, live \ D, intent)
    <2>1. \A d \in v.listed: v.pc = "exchange" => d \notin candidates
      BY <1>2 DEF Exchanged
    <2>2. QED
      BY <1>2, <1>3, <2>1 DEF Exchanged
  <1>8. Own(v, account, selected, live \ D)
    BY <1>2, <1>3 DEF Own, Marked
  <1>9. Revocable(v, account, candidates, selected, live \ D)
    BY <1>2, Lost DEF Revocable
  <1>10. QED
    BY <1>1, <1>5, <1>6, <1>7, <1>8, <1>9 DEF ConnectedInv, v

LEMMA InitConnected ==
  ASSUME NEW r \in Requests, Init
  PROVE  ConnectedInv(r)
  <1>1. req[r].pc = "idle" /\ candidates = {} /\ \A t \in Targets: account[t] = NoAccount
    BY DEF Init, Idle
  <1>2. Accounts(req[r], account, candidates, selected, live)
    BY <1>1 DEF Accounts, Past, Rests, Shown, NoAccount
  <1>3. QED
    BY <1>1, <1>2 DEF ConnectedInv, Own, Revocable, Secrets, Exchanged, Writes, Written, Undoing,
       Marked, Choosing

LEMMA NextConnected ==
  ASSUME NEW r \in Requests, OneAtATime(r), Rows, ConnectedInv(r), [Next]_vars
  PROVE  ConnectedInv(r)'
  <1>1. CASE UNCHANGED vars
    BY <1>1 DEF vars, ConnectedInv
  <1>2. ASSUME NEW i \in Intents, Begin(i) \/ Expire(i)
        PROVE  ConnectedInv(r)'
    <2>1. CASE Begin(i)
      BY <2>1, BeginConnected
    <2>2. CASE Expire(i)
      BY <2>2 DEF Expire, ConnectedInv
    <2>3. QED
      BY <1>2, <2>1, <2>2
  <1>3. CASE CompleteStep(r)
    <2>1. ASSUME NEW i \in Intents, Consume(r, i) PROVE ConnectedInv(r)'
      BY <2>1, ConsumeConnected
    <2>2. ASSUME NEW t \in Targets, StoreSecrets(r, t) PROVE ConnectedInv(r)'
      BY <2>2, StoreSecretsConnected
    <2>3. QED
      BY <1>3, <2>1, <2>2, ExchangeEndsConnected, SaveConnected DEF CompleteStep
  <1>4. CASE SelectStep(r)
    <2>1. ASSUME NEW c \in Candidates, Select(r, c) PROVE ConnectedInv(r)'
      BY <2>1, SelectConnected
    <2>2. ~SaveUnanswered(r)
      BY DEF OneAtATime, SaveUnanswered
    <2>3. QED
      BY <1>4, <2>1, <2>2, MarkConnected, RefusedConnected, ReadPreviousConnected,
         SaveAccountConnected, RecordConnected, ImportConnected, ConnectFailsConnected,
         RevokePreviousConnected, RevokeOthersConnected, RevokeFailsConnected,
         ReleaseConnected, DisableConnected, WithdrawConnected DEF SelectStep
  <1>5. CASE DisconnectStep(r)
    <2>1. ASSUME NEW t \in Targets, Disconnect(r, t) PROVE ConnectedInv(r)'
      BY <2>1, DisconnectConnected
    <2>2. ~DisconnectFails(r)
      BY DEF OneAtATime, DisconnectFails
    <2>3. QED
      BY <1>5, <2>1, <2>2, CutConnected, SwitchOffConnected DEF DisconnectStep
  <1>6. ~Die(r)
    BY DEF OneAtATime, Die
  <1>7. CASE Purge
    BY <1>7, PurgeConnected
  <1>8. \A q \in Requests: q = r
    BY DEF OneAtATime
  <1>9. QED
    BY <1>1, <1>2, <1>3, <1>4, <1>5, <1>6, <1>7, <1>8 DEF Next

(* While one request of the Instagram service is served at a time and what *)
(* fails is the vault, a store or the import, an account that is shown as  *)
(* connected has both of its secrets in the vault, whatever the minute     *)
(* sweep revokes between two steps (select, its compensation, disconnect   *)
(* and the purge together).  A revocation that fails half way leaves no    *)
(* sibling that could still be chosen with one of its secrets gone, because*)
(* its publish secret goes first and the import asks for that one.         *)
THEOREM ConnectedHolds ==
  ASSUME NEW r \in Requests, OneAtATime(r)
  PROVE  Spec => []ConnectedIsUsable
  <1>1. Init => ConnectedInv(r)
    BY InitConnected
  <1>2. Rows /\ ConnectedInv(r) /\ [Next]_vars => ConnectedInv(r)'
    BY NextConnected
  <1>3. Rows /\ ConnectedInv(r) => ConnectedIsUsable
    <2> SUFFICES ASSUME Rows, ConnectedInv(r), NEW t \in Targets,
                        account[t].status = "connected", Quiet(t)
                 PROVE  /\ account[t].publish = account[t].insights
                        /\ CredentialsOf(t) \subseteq live
      BY DEF ConnectedIsUsable
    <2>1. ~Works(req[r], t)
      <3>1. ~AtWork(r, t)
        BY DEF Quiet
      <3>2. CASE Writes(req[r]) /\ req[r].cand[2] = t
        <4>1. /\ req[r].pc \in Choosing
              /\ req[r].pc \notin {"idle", "exchange", "mark", "previous", "save"}
          BY <3>2 DEF Writes, Written, Undoing, Choosing
        <4>2. req[r].cand # None
          BY <4>1, Chosen, ConnectionAssumption
        <4>3. QED
          BY <3>1, <3>2, <4>1, <4>2 DEF AtWork
      <3>3. CASE req[r].pc = "off" /\ req[r].target = t
        BY <3>1, <3>3 DEF AtWork
      <3>4. QED
        BY <3>2, <3>3 DEF Works
    <2>2. Rests(account[t], selected, live)
      BY <2>1 DEF ConnectedInv, Accounts
    <2>3. \A x \in CredentialsOf(t): x \in RefsOf(account[t].publish)
      <3> SUFFICES ASSUME NEW x \in CredentialsOf(t) PROVE x \in RefsOf(account[t].publish)
        OBVIOUS
      <3>1. x \in Refs /\ x[1] = account[t].publish
        BY <2>2 DEF CredentialsOf, Rests
      <3>2. QED
        BY <3>1, RefIsOf
    <2>4. QED
      BY <2>2, <2>3 DEF Rests
  <1>4. QED
    BY <1>1, <1>2, <1>3, RowsHold, PTL DEF Spec

-----------------------------------------------------------------------------
(***************************************************************************)
(* What is measured of the posts of an account (MetricCollection).  The    *)
(* attempt a process claimed a row for is its fence: a claim counts the    *)
(* attempts of the row up, so no two processes at work on a row were given *)
(* the same one, whatever names they share, and only the process of the    *)
(* row's present attempt may settle it.                                    *)
(***************************************************************************)
CONSTANTS Posts, Windows, Processes, Name, MaxAttempts, Metrics, MaxCredentials,
          CollectionFaults
VARIABLES mPublished, mAccount, mRevoked, mJob, mProcess, mSnapshots, mFaults

Collection == INSTANCE MetricCollection WITH
  published <- mPublished, account <- mAccount, revoked <- mRevoked, job <- mJob,
  process <- mProcess, snapshots <- mSnapshots, faults <- mFaults,
  Faults <- CollectionFaults

\* A row, and what a process is doing.
RowFields == {"status", "attempt", "owner", "due", "lapsed", "credential", "reason"}
RowWell(row) ==
  /\ DOMAIN row = RowFields
  /\ row.attempt \in 0..MaxAttempts
  /\ row.status = "none" => row.attempt = 0
  /\ row.status = "queued" => row.attempt < MaxAttempts
  /\ row.reason = "attempts" => row.attempt = MaxAttempts

Busy(p) == mProcess[p].at \in {"claimed", "answered"}

WorkWell(x) ==
  /\ DOMAIN x = {"at", "job", "attempt", "result"}
  /\ x.result # "attempts"
  /\ x.at \in {"claimed", "answered"} =>
       x.job \in Collection!Jobs /\ x.attempt \in 0..MaxAttempts

\* No process works for an attempt the row has not reached, nor for the one
\* another process works for.
Fenced ==
  /\ \A p \in Processes: Busy(p) => mProcess[p].attempt <= mJob[mProcess[p].job].attempt
  /\ \A p, q \in Processes:
       p # q /\ Busy(p) /\ Busy(q) /\ mProcess[p].job = mProcess[q].job
         => mProcess[p].attempt # mProcess[q].attempt

Wells ==
  /\ DOMAIN mJob = Collection!Jobs /\ DOMAIN mProcess = Processes
  /\ DOMAIN mSnapshots = Collection!Jobs
  /\ \A j \in Collection!Jobs: RowWell(mJob[j])
  /\ \A p \in Processes: WorkWell(mProcess[p])

CollectionInv == Wells /\ Fenced /\ Collection!MeasuredOnce

\* The rows may change as long as no attempt is taken back and none of them
\* is completed or taken out of completion.
LEMMA RowsMove ==
  ASSUME CollectionInv, UNCHANGED <<mProcess, mSnapshots>>,
         DOMAIN mJob' = Collection!Jobs,
         \A j \in Collection!Jobs:
           /\ RowWell(mJob'[j]) /\ mJob'[j].attempt >= mJob[j].attempt
           /\ mJob'[j].status = "complete" <=> mJob[j].status = "complete"
  PROVE  CollectionInv'
  <1>1. Wells'
    BY DEF CollectionInv, Wells, Collection!Jobs
  <1>2. Fenced'
    <2>1. ASSUME NEW p \in Processes, Busy(p)
          PROVE  mProcess[p].attempt <= mJob'[mProcess[p].job].attempt
      <3> DEFINE j == mProcess[p].job
      <3>1. j \in Collection!Jobs /\ mProcess[p].attempt \in Nat
            /\ mProcess[p].attempt <= mJob[j].attempt
        BY <2>1 DEF CollectionInv, Wells, Fenced, Busy, WorkWell
      <3>2. mJob[j].attempt \in Nat /\ mJob'[j].attempt \in Nat
        BY <3>1 DEF CollectionInv, Wells, RowWell
      <3> HIDE DEF j
      <3>3. QED
        BY <3>1, <3>2 DEF j
    <2>2. QED
      BY <2>1 DEF CollectionInv, Fenced, Busy
  <1>3. Collection!MeasuredOnce'
    BY DEF CollectionInv, Collection!MeasuredOnce, Collection!Jobs
  <1>4. QED
    BY <1>1, <1>2, <1>3 DEF CollectionInv

\* A process may go on with what it has, or rest.
LEMMA WorkGoes ==
  ASSUME CollectionInv, UNCHANGED <<mJob, mSnapshots>>, NEW p \in Processes, NEW x,
         mProcess' = [mProcess EXCEPT ![p] = x], WorkWell(x),
         x.at \in {"claimed", "answered"} =>
           Busy(p) /\ x.job = mProcess[p].job /\ x.attempt = mProcess[p].attempt
  PROVE  CollectionInv'
  <1>1. Wells'
    BY DEF CollectionInv, Wells, Collection!Jobs, WorkWell
  <1>2. /\ mProcess'[p] = x
        /\ \A q \in Processes: q # p => mProcess'[q] = mProcess[q]
    BY DEF CollectionInv, Wells
  <1>3. Fenced'
    BY <1>2 DEF CollectionInv, Fenced, Busy
  <1>4. Collection!MeasuredOnce'
    BY DEF CollectionInv, Collection!MeasuredOnce, Collection!Jobs
  <1>5. QED
    BY <1>1, <1>3, <1>4 DEF CollectionInv

-----------------------------------------------------------------------------
\* Rows that are made for posts leave those that are there alone.
LEMMA EnqueuedKeeps ==
  ASSUME Collection!CollectionAssumption, CollectionInv, NEW posts,
         mJob' = Collection!Enqueued(posts), UNCHANGED mSnapshots
  PROVE  /\ DOMAIN mJob' = Collection!Jobs
         /\ \A j \in Collection!Jobs:
              /\ RowWell(mJob'[j]) /\ mJob'[j].attempt >= mJob[j].attempt
              /\ mJob'[j].status = "complete" <=> mJob[j].status = "complete"
  <1> DEFINE fresh == [Collection!NoJob EXCEPT !.status = "queued",
                                               !.credential = mAccount.credential]
  <1>1. /\ RowWell(fresh) /\ fresh.status = "queued" /\ fresh.attempt = 0
    BY DEF RowWell, RowFields, Collection!NoJob, Collection!CollectionAssumption
  <1> HIDE DEF fresh
  <1>2. DOMAIN mJob' = Collection!Jobs
    BY DEF Collection!Enqueued, CollectionInv, Wells
  <1>3. ASSUME NEW j \in Collection!Jobs
        PROVE  /\ RowWell(mJob'[j]) /\ mJob'[j].attempt >= mJob[j].attempt
               /\ mJob'[j].status = "complete" <=> mJob[j].status = "complete"
    <2>1. RowWell(mJob[j]) /\ mJob[j].attempt \in Nat
      BY DEF CollectionInv, Wells, RowWell
    <2>2. mJob'[j] = mJob[j] \/ (mJob[j].status = "none" /\ mJob'[j] = fresh)
      BY DEF Collection!Enqueued, fresh
    <2>3. CASE mJob'[j] = mJob[j]
      BY <2>1, <2>3
    <2>4. CASE mJob[j].status = "none" /\ mJob'[j] = fresh
      <3>1. mJob[j].attempt = 0
        BY <2>1, <2>4 DEF RowWell, Collection!CollectionAssumption
      <3>2. QED
        BY <1>1, <2>4, <3>1
    <2>5. QED
      BY <2>2, <2>3, <2>4
  <1>4. QED
    BY <1>2, <1>3

\* Time changes no attempt and no status.
LEMMA TimeKeeps ==
  ASSUME CollectionInv, NEW j \in Collection!Jobs, Collection!TimePasses(j)
  PROVE  CollectionInv'
  <1>1. UNCHANGED <<mProcess, mSnapshots>>
    BY DEF Collection!TimePasses, Collection!Due, Collection!Lapse
  <1>2. \/ mJob' = [mJob EXCEPT ![j].due = TRUE]
        \/ mJob' = [mJob EXCEPT ![j].lapsed = TRUE]
    BY DEF Collection!TimePasses, Collection!Due, Collection!Lapse
  <1>3. DOMAIN mJob' = Collection!Jobs
    BY <1>2 DEF CollectionInv, Wells
  <1>4. ASSUME NEW i \in Collection!Jobs
        PROVE  /\ RowWell(mJob'[i]) /\ mJob'[i].attempt = mJob[i].attempt
               /\ mJob'[i].status = mJob[i].status
    <2>1. RowWell(mJob[i])
      BY DEF CollectionInv, Wells
    <2>2. CASE i = j
      BY <1>2, <2>1, <2>2 DEF CollectionInv, Wells, RowWell, RowFields
    <2>3. CASE i # j
      BY <1>2, <2>1, <2>3 DEF CollectionInv, Wells
    <2>4. QED
      BY <2>2, <2>3
  <1>5. ASSUME NEW i \in Collection!Jobs
        PROVE  mJob'[i].attempt >= mJob[i].attempt
    BY <1>4 DEF CollectionInv, Wells, RowWell
  <1>6. QED
    BY <1>1, <1>3, <1>4, <1>5, RowsMove

LEMMA SeedKeeps ==
  ASSUME Collection!CollectionAssumption, CollectionInv, NEW p \in Processes,
         Collection!Seed(p)
  PROVE  CollectionInv'
  <1>1. /\ mJob' = Collection!Enqueued(mPublished) /\ UNCHANGED mSnapshots
        /\ mProcess[p].at = "idle" /\ mProcess' = [mProcess EXCEPT ![p].at = "seeded"]
    BY DEF Collection!Seed
  <1>2. /\ DOMAIN mJob' = Collection!Jobs
        /\ \A j \in Collection!Jobs:
             /\ RowWell(mJob'[j]) /\ mJob'[j].attempt >= mJob[j].attempt
             /\ mJob'[j].status = "complete" <=> mJob[j].status = "complete"
    BY <1>1, EnqueuedKeeps
  <1>3. /\ \A q \in Processes: WorkWell(mProcess[q])
        /\ \A j \in Collection!Jobs: mJob[j].attempt \in Nat /\ mJob'[j].attempt \in Nat
    BY <1>2 DEF CollectionInv, Wells, RowWell
  <1>4. /\ \A q \in Processes: Busy(q)' => Busy(q) /\ mProcess'[q] = mProcess[q]
        /\ \A q \in Processes: WorkWell(mProcess'[q])
        /\ DOMAIN mProcess' = Processes
    BY <1>1, <1>3 DEF Busy, CollectionInv, Wells, WorkWell
  <1>5. Wells'
    BY <1>1, <1>2, <1>4 DEF Wells, CollectionInv, Collection!Jobs
  <1>6. ASSUME NEW q \in Processes, Busy(q)'
        PROVE  mProcess'[q].attempt <= mJob'[mProcess'[q].job].attempt
    <2> DEFINE j == mProcess[q].job
    <2>1. /\ j \in Collection!Jobs /\ mProcess[q].attempt \in Nat
          /\ mProcess[q].attempt <= mJob[j].attempt
      BY <1>3, <1>4, <1>6 DEF CollectionInv, Fenced, Busy, WorkWell
    <2> HIDE DEF j
    <2>2. mProcess[q].attempt <= mJob'[j].attempt
      BY <1>2, <1>3, <2>1
    <2>3. QED
      BY <1>4, <1>6, <2>2 DEF j
  <1>7. Fenced'
    BY <1>4, <1>6 DEF CollectionInv, Fenced
  <1>8. Collection!MeasuredOnce'
    BY <1>1, <1>2 DEF CollectionInv, Collection!MeasuredOnce, Collection!Jobs
  <1>9. QED
    BY <1>5, <1>7, <1>8 DEF CollectionInv

\* A row that is given up keeps its attempts, which were all it had.
LEMMA GivenUpKeeps ==
  ASSUME Collection!CollectionAssumption, CollectionInv
  PROVE  /\ DOMAIN Collection!GivenUp = Collection!Jobs
         /\ \A j \in Collection!Jobs:
              /\ RowWell(Collection!GivenUp[j])
              /\ Collection!GivenUp[j].attempt = mJob[j].attempt
              /\ Collection!GivenUp[j].status = "complete" <=> mJob[j].status = "complete"
              /\ Collection!Claimable(Collection!GivenUp[j]) =>
                   Collection!GivenUp[j] = mJob[j]
  <1>1. DOMAIN Collection!GivenUp = Collection!Jobs
    BY DEF Collection!GivenUp
  <1>2. ASSUME NEW j \in Collection!Jobs
        PROVE  /\ RowWell(Collection!GivenUp[j])
               /\ Collection!GivenUp[j].attempt = mJob[j].attempt
               /\ Collection!GivenUp[j].status = "complete" <=> mJob[j].status = "complete"
               /\ Collection!Claimable(Collection!GivenUp[j]) =>
                    Collection!GivenUp[j] = mJob[j]
    <2> DEFINE row == mJob[j]
               ended == Collection!End(row, "failed", "attempts")
               up == row.status = "running" /\ row.attempt >= MaxAttempts /\ row.lapsed
    <2>1. RowWell(row)
      BY DEF CollectionInv, Wells
    <2>2. Collection!GivenUp[j] = IF up THEN ended ELSE row
      BY DEF Collection!GivenUp
    <2>3. /\ DOMAIN ended = RowFields /\ ended.attempt = row.attempt
          /\ ended.status = "failed" /\ ended.reason = "attempts"
      BY <2>1 DEF RowWell, RowFields, Collection!End
    <2> HIDE DEF ended, row
    <2>4. CASE up
      <3>1. row.attempt = MaxAttempts
        BY <2>1, <2>4 DEF RowWell, Collection!CollectionAssumption
      <3>2. RowWell(ended) /\ ~Collection!Claimable(ended)
        BY <2>1, <2>3, <3>1 DEF RowWell, Collection!Claimable
      <3>3. QED
        BY <2>2, <2>3, <2>4, <3>2 DEF row
    <2>5. CASE ~up
      BY <2>1, <2>2, <2>5 DEF row
    <2>6. QED
      BY <2>4, <2>5
  <1>3. QED
    BY <1>1, <1>2

\* A claim takes the next attempt of a row, which nobody works for.
LEMMA ClaimKeeps ==
  ASSUME Collection!CollectionAssumption, CollectionInv, NEW p \in Processes,
         Collection!Claim(p)
  PROVE  CollectionInv'
  <1> DEFINE Up == Collection!GivenUp
  <1>1. /\ DOMAIN Up = Collection!Jobs
        /\ \A j \in Collection!Jobs:
             /\ RowWell(Up[j]) /\ Up[j].attempt = mJob[j].attempt
             /\ Up[j].status = "complete" <=> mJob[j].status = "complete"
             /\ Collection!Claimable(Up[j]) => Up[j] = mJob[j]
    BY GivenUpKeeps
  <1>2. UNCHANGED mSnapshots
    BY DEF Collection!Claim
  <1>3. \/ \E j \in Collection!Jobs:
             /\ Collection!Claimable(Up[j])
             /\ mJob' = [Up EXCEPT ![j].status = "running", ![j].due = FALSE,
                           ![j].attempt = @ + 1, ![j].owner = Name[p], ![j].lapsed = FALSE]
             /\ mProcess' = [mProcess EXCEPT ![p] =
                  [at |-> "claimed", job |-> j, attempt |-> mJob[j].attempt + 1,
                   result |-> "none"]]
        \/ mJob' = Up /\ mProcess' = [mProcess EXCEPT ![p] = Collection!Idle]
    BY DEF Collection!Claim
  <1> HIDE DEF Up
  <1>4. /\ DOMAIN mProcess = Processes /\ DOMAIN mSnapshots = Collection!Jobs
        /\ \A q \in Processes: WorkWell(mProcess[q])
        /\ \A j \in Collection!Jobs: mJob[j].attempt \in Nat
    BY DEF CollectionInv, Wells, RowWell
  <1>5. ASSUME mJob' = Up, mProcess' = [mProcess EXCEPT ![p] = Collection!Idle]
        PROVE  CollectionInv'
    <2>1. WorkWell(Collection!Idle) /\ Collection!Idle.at = "idle"
      BY DEF WorkWell, Collection!Idle
    <2>2. /\ mProcess'[p] = Collection!Idle /\ DOMAIN mProcess' = Processes
          /\ \A q \in Processes: q # p => mProcess'[q] = mProcess[q]
      BY <1>4, <1>5
    <2>3. Wells'
      BY <1>1, <1>2, <1>4, <1>5, <2>1, <2>2 DEF Wells, Collection!Jobs
    <2>4. \A q \in Processes: Busy(q)' => Busy(q) /\ mProcess'[q] = mProcess[q]
      BY <2>1, <2>2 DEF Busy
    <2>5. \A q \in Processes: Busy(q) => mProcess[q].job \in Collection!Jobs
      BY <1>4 DEF Busy, WorkWell
    <2>6. Fenced'
      BY <1>1, <1>5, <2>4, <2>5 DEF CollectionInv, Fenced
    <2>7. Collection!MeasuredOnce'
      BY <1>1, <1>2, <1>5 DEF CollectionInv, Collection!MeasuredOnce, Collection!Jobs
    <2>8. QED
      BY <2>3, <2>6, <2>7 DEF CollectionInv
  <1>6. ASSUME NEW j \in Collection!Jobs, Collection!Claimable(Up[j]),
               mJob' = [Up EXCEPT ![j].status = "running", ![j].due = FALSE,
                          ![j].attempt = @ + 1, ![j].owner = Name[p], ![j].lapsed = FALSE],
               mProcess' = [mProcess EXCEPT ![p] =
                 [at |-> "claimed", job |-> j, attempt |-> mJob[j].attempt + 1,
                  result |-> "none"]]
        PROVE  CollectionInv'
    <2> DEFINE x == [at |-> "claimed", job |-> j, attempt |-> mJob[j].attempt + 1,
                     result |-> "none"]
    <2>1. /\ Up[j] = mJob[j] /\ mJob[j].attempt \in Nat /\ mJob[j].attempt < MaxAttempts
          /\ mJob[j].status \in {"queued", "running"} /\ DOMAIN mJob[j] = RowFields
          /\ mJob[j].reason # "attempts" /\ MaxAttempts \in Nat
      BY <1>1, <1>4, <1>6 DEF Collection!Claimable, RowWell, Collection!CollectionAssumption
    <2>2. /\ DOMAIN mJob' = Collection!Jobs
          /\ \A i \in Collection!Jobs: i # j => mJob'[i] = Up[i]
      BY <1>1, <1>6
    <2>3. /\ DOMAIN mJob'[j] = RowFields /\ mJob'[j].attempt = mJob[j].attempt + 1
          /\ mJob'[j].status = "running" /\ mJob'[j].reason = mJob[j].reason
      BY <1>1, <1>6, <2>1 DEF RowFields
    <2>4. RowWell(mJob'[j])
      BY <2>1, <2>3 DEF RowWell
    <2>5. \A i \in Collection!Jobs:
            /\ RowWell(mJob'[i]) /\ mJob'[i].attempt \in Nat
            /\ mJob'[i].attempt >= mJob[i].attempt
            /\ mJob'[i].status = "complete" <=> mJob[i].status = "complete"
      BY <1>1, <1>4, <2>1, <2>2, <2>3, <2>4
    <2>6. x.at = "claimed" /\ x.job = j /\ x.attempt = mJob[j].attempt + 1 /\ WorkWell(x)
      BY <2>1 DEF WorkWell
    <2> HIDE DEF x
    <2>7. /\ mProcess'[p] = x /\ DOMAIN mProcess' = Processes
          /\ \A q \in Processes: q # p => mProcess'[q] = mProcess[q]
      BY <1>4, <1>6 DEF x
    <2>8. Wells'
      BY <1>2, <1>4, <2>2, <2>5, <2>6, <2>7 DEF Wells, Collection!Jobs
    <2>9. ASSUME NEW q \in Processes, Busy(q), q # p
          PROVE  /\ mProcess[q].job \in Collection!Jobs /\ mProcess[q].attempt \in Nat
                 /\ mProcess[q].attempt <= mJob[mProcess[q].job].attempt
      BY <1>4, <2>9 DEF CollectionInv, Fenced, Busy, WorkWell
    <2>10. ASSUME NEW q \in Processes, Busy(q)'
           PROVE  mProcess'[q].attempt <= mJob'[mProcess'[q].job].attempt
      <3>1. CASE q = p
        BY <2>1, <2>3, <2>6, <2>7, <3>1
      <3>2. CASE q # p
        <4>1. Busy(q) /\ mProcess'[q] = mProcess[q]
          BY <2>7, <2>10, <3>2 DEF Busy
        <4> DEFINE i == mProcess[q].job
        <4>2. /\ i \in Collection!Jobs /\ mProcess[q].attempt \in Nat
              /\ mProcess[q].attempt <= mJob[i].attempt
          BY <2>9, <3>2, <4>1
        <4> HIDE DEF i
        <4>3. mProcess[q].attempt <= mJob'[i].attempt
          BY <1>4, <2>5, <4>2
        <4>4. QED
          BY <4>1, <4>3 DEF i
      <3>3. QED
        BY <3>1, <3>2
    <2>11. ASSUME NEW q \in Processes, q # p, Busy(q), mProcess[q].job = j
           PROVE  mProcess[q].attempt # x.attempt
      BY <2>1, <2>6, <2>9, <2>11
    <2>12. Fenced'
      <3> SUFFICES ASSUME NEW q \in Processes, NEW s \in Processes, q # s,
                          Busy(q)', Busy(s)', mProcess'[q].job = mProcess'[s].job
                   PROVE  mProcess'[q].attempt # mProcess'[s].attempt
        BY <2>10 DEF Fenced
      <3>1. CASE q = p
        BY <2>6, <2>7, <2>11, <3>1 DEF Busy
      <3>2. CASE s = p
        BY <2>6, <2>7, <2>11, <3>2 DEF Busy
      <3>3. CASE q # p /\ s # p
        BY <2>7, <3>3 DEF CollectionInv, Fenced, Busy
      <3>4. QED
        BY <3>1, <3>2, <3>3
    <2>13. Collection!MeasuredOnce'
      BY <1>2, <2>5 DEF CollectionInv, Collection!MeasuredOnce, Collection!Jobs
    <2>14. QED
      BY <2>8, <2>12, <2>13 DEF CollectionInv
  <1>7. QED
    BY <1>3, <1>5, <1>6

\* The lowest of some numbers is one of them.
LEMMA LowestIsThere ==
  ASSUME NEW S, S \subseteq Nat, S # {}
  PROVE  Collection!Min(S) \in S
  <1> DEFINE Less == OpToRel(<, Nat)
  <1>1. IsWellFoundedOn(Less, Nat)
    BY NatLessThanWellFounded
  <1>2. \A m, n \in Nat: <<m, n>> \in Less <=> m < n
    BY DEF OpToRel
  <1> HIDE DEF Less
  <1>3. PICK n \in S: \A m \in S: ~(<<m, n>> \in Less)
    BY <1>1, WFMin
  <1>4. ASSUME NEW m \in S PROVE n =< m
    <2>1. m \in Nat /\ n \in Nat
      OBVIOUS
    <2>2. ~(m < n)
      BY <1>2, <1>3, <2>1
    <2>3. QED
      BY <2>1, <2>2
  <1>5. QED
    BY <1>4 DEF Collection!Min

\* No answer of the provider says that the attempts ran out.
LEMMA AnswersAreTheirOwn ==
  ASSUME Collection!CollectionAssumption,
         NEW answers \in [1..Metrics -> Collection!Answers],
         NEW engagement \in Collection!Answers, NEW attempt
  PROVE  Collection!Executed(attempt, Collection!Collected(answers, engagement))
           # "attempts"
  <1> DEFINE refused == {i \in DOMAIN answers: answers[i] \notin {"read", "unsupported"}}
             result == Collection!Collected(answers, engagement)
  <1>1. ASSUME NEW a \in Collection!Answers, a \notin {"read", "unsupported"}
        PROVE  Collection!Ends(a) \in {"retry", "permission", "ineligible", "failed"}
    BY <1>1 DEF Collection!Ends, Collection!Answers
  <1>2. refused \subseteq 1..Metrics /\ refused \subseteq Nat
        /\ \A i \in refused: answers[i] \in Collection!Answers
    BY DEF Collection!CollectionAssumption
  <1>3. result = IF refused # {} THEN Collection!Ends(answers[Collection!Min(refused)])
                 ELSE IF engagement \in {"denied", "busy"} THEN Collection!Ends(engagement)
                 ELSE IF engagement = "read" \/ \E i \in DOMAIN answers: answers[i] = "read"
                      THEN "collected" ELSE "ineligible"
    BY DEF Collection!Collected
  <1>4. CASE refused # {}
    <2>1. Collection!Min(refused) \in refused
      BY <1>2, <1>4, LowestIsThere
    <2> DEFINE i == Collection!Min(refused)
    <2>2. answers[i] \in Collection!Answers /\ answers[i] \notin {"read", "unsupported"}
      BY <1>2, <2>1
    <2>3. result = Collection!Ends(answers[i])
      BY <1>3, <1>4
    <2> HIDE DEF i, result, refused
    <2>4. result # "attempts"
      BY <1>1, <2>2, <2>3
    <2>5. QED
      BY <2>4 DEF Collection!Executed, result
  <1>5. CASE refused = {}
    <2>1. result \in {"retry", "permission", "ineligible", "failed", "collected"}
      BY <1>1, <1>3, <1>5
    <2> HIDE DEF result
    <2>2. result # "attempts"
      BY <2>1
    <2>3. QED
      BY <2>2 DEF Collection!Executed, result
  <1>6. QED
    BY <1>4, <1>5

\* An answer, and a fault, leave the rows alone.
LEMMA AnsweredKeeps ==
  ASSUME CollectionInv, NEW p \in Processes, UNCHANGED <<mJob, mSnapshots>>,
         mProcess[p].at = "claimed", NEW result, result # "attempts",
         mProcess' = [mProcess EXCEPT ![p].at = "answered", ![p].result = result]
  PROVE  CollectionInv'
  <1> DEFINE x == [mProcess[p] EXCEPT !.at = "answered", !.result = result]
  <1>1. mProcess' = [mProcess EXCEPT ![p] = x]
    BY DEF CollectionInv, Wells
  <1>2. WorkWell(mProcess[p]) /\ Busy(p)
    BY DEF CollectionInv, Wells, Busy
  <1>3. /\ DOMAIN x = {"at", "job", "attempt", "result"} /\ x.at = "answered"
        /\ x.result = result /\ x.job = mProcess[p].job /\ x.attempt = mProcess[p].attempt
    BY <1>2 DEF WorkWell
  <1> HIDE DEF x
  <1>4. WorkWell(x)
    BY <1>2, <1>3 DEF WorkWell, Busy
  <1>5. QED
    BY <1>1, <1>2, <1>3, <1>4, WorkGoes

LEMMA AskKeeps ==
  ASSUME Collection!CollectionAssumption, CollectionInv, NEW p \in Processes,
         Collection!Ask(p)
  PROVE  CollectionInv'
  <1>1. mProcess[p].at = "claimed" /\ UNCHANGED <<mJob, mSnapshots>>
    BY DEF Collection!Ask
  <1>2. CASE mProcess' = [mProcess EXCEPT ![p].at = "answered", ![p].result = "permission"]
    BY <1>1, <1>2, AnsweredKeeps
  <1>3. ASSUME NEW answers \in [1..Metrics -> Collection!Answers],
               NEW engagement \in Collection!Answers,
               mProcess' = [mProcess EXCEPT ![p].at = "answered", ![p].result =
                 Collection!Executed(mProcess[p].attempt,
                                     Collection!Collected(answers, engagement))]
        PROVE  CollectionInv'
    <2> DEFINE result == Collection!Executed(mProcess[p].attempt,
                                             Collection!Collected(answers, engagement))
    <2>1. result # "attempts"
      BY AnswersAreTheirOwn
    <2>2. mProcess' = [mProcess EXCEPT ![p].at = "answered", ![p].result = result]
      BY <1>3
    <2> HIDE DEF result
    <2>3. QED
      BY <1>1, <2>1, <2>2, AnsweredKeeps
  <1>4. QED
    BY <1>2, <1>3 DEF Collection!Ask

LEMMA RestKeeps ==
  ASSUME CollectionInv, NEW p \in Processes, UNCHANGED <<mJob, mSnapshots>>,
         mProcess' = [mProcess EXCEPT ![p] = Collection!Idle]
  PROVE  CollectionInv'
  <1>1. WorkWell(Collection!Idle) /\ Collection!Idle.at = "idle"
    BY DEF WorkWell, Collection!Idle
  <1>2. QED
    BY <1>1, WorkGoes

\* A row is settled for the attempt it has, and measured when it is complete.
LEMMA SettledIsWell ==
  ASSUME NEW row, RowWell(row), NEW result, result # "attempts",
         Collection!CollectionAssumption
  PROVE  LET settled == Collection!Settled(row, result, row.attempt) IN
         /\ RowWell(settled) /\ settled.attempt = row.attempt
         /\ settled.status = "complete" <=> result = "collected"
  <1> DEFINE settled == Collection!Settled(row, result, row.attempt)
  <1>1. ASSUME NEW status, NEW reason
        PROVE  LET e == Collection!End(row, status, reason) IN
               /\ DOMAIN e = RowFields /\ e.attempt = row.attempt
               /\ e.status = status /\ e.reason = reason
    BY DEF RowWell, RowFields, Collection!End
  <1>2. /\ row.attempt \in 0..MaxAttempts /\ MaxAttempts \in Nat
    BY DEF RowWell, Collection!CollectionAssumption
  <1>3. CASE result = "collected"
    <2>1. settled = Collection!End(row, "complete", "none")
      BY <1>3 DEF Collection!Settled
    <2>2. QED
      BY <1>1, <1>2, <1>3, <2>1 DEF RowWell
  <1>4. CASE result = "retry" /\ row.attempt < MaxAttempts
    <2>1. settled = Collection!End(row, "queued", "busy")
      BY <1>4 DEF Collection!Settled
    <2>2. QED
      BY <1>1, <1>2, <1>4, <2>1 DEF RowWell
  <1>5. CASE result \in {"permission", "ineligible"}
    <2>1. settled = Collection!End(row, "unavailable", result)
      BY <1>5 DEF Collection!Settled
    <2>2. QED
      BY <1>1, <1>2, <1>5, <2>1 DEF RowWell
  <1>6. CASE /\ result \notin {"collected", "permission", "ineligible"}
             /\ ~(result = "retry" /\ row.attempt < MaxAttempts)
    <2> DEFINE reason == IF result = "retry" THEN "busy" ELSE result
    <2>1. settled = Collection!End(row, "failed", reason)
      BY <1>6 DEF Collection!Settled
    <2>2. reason # "attempts"
      OBVIOUS
    <2> HIDE DEF reason, settled
    <2>3. /\ DOMAIN settled = RowFields /\ settled.attempt = row.attempt
          /\ settled.status = "failed" /\ settled.reason = reason
      BY <1>1, <2>1
    <2>4. RowWell(settled) /\ settled.status # "complete"
      BY <1>2, <2>2, <2>3 DEF RowWell
    <2>5. QED
      BY <1>6, <2>3, <2>4 DEF settled
  <1>7. QED
    BY <1>3, <1>4, <1>5, <1>6

LEMMA SettleKeeps ==
  ASSUME Collection!CollectionAssumption, CollectionInv, NEW p \in Processes,
         Collection!Settle(p)
  PROVE  CollectionInv'
  <1> DEFINE j == mProcess[p].job
             result == mProcess[p].result
             settled == Collection!Settled(mJob[j], result, mProcess[p].attempt)
  <1>1. mProcess[p].at = "answered" /\ mProcess' = [mProcess EXCEPT ![p] = Collection!Idle]
    BY DEF Collection!Settle
  <1>2. CASE ~Collection!Holds(p)
    BY <1>1, <1>2, RestKeeps DEF Collection!Settle
  <1>3. CASE Collection!Holds(p)
    <2>1. /\ mJob' = [mJob EXCEPT ![j] = settled]
          /\ mSnapshots' = [mSnapshots EXCEPT ![j] =
                              @ + IF result = "collected" THEN 1 ELSE 0]
      BY <1>3 DEF Collection!Settle
    <2>2. /\ j \in Collection!Jobs /\ result # "attempts" /\ RowWell(mJob[j])
          /\ mJob[j].status = "running" /\ mJob[j].attempt = mProcess[p].attempt
      BY <1>1, <1>3 DEF CollectionInv, Wells, WorkWell, Collection!Holds
    <2> DEFINE row == mJob[j]
    <2>3. /\ RowWell(settled) /\ settled.attempt = mJob[j].attempt
          /\ settled.status = "complete" <=> result = "collected"
      <3>1. settled = Collection!Settled(row, result, row.attempt) /\ RowWell(row)
        BY <2>2
      <3> HIDE DEF settled, row, result
      <3>2. /\ RowWell(settled) /\ settled.attempt = row.attempt
            /\ settled.status = "complete" <=> result = "collected"
        BY <2>2, <3>1, SettledIsWell
      <3>3. QED
        BY <3>2 DEF row
    <2> HIDE DEF settled, j, result, row
    <2>4. /\ DOMAIN mJob' = Collection!Jobs /\ mJob'[j] = settled
          /\ \A i \in Collection!Jobs: i # j => mJob'[i] = mJob[i]
          /\ DOMAIN mSnapshots' = Collection!Jobs
          /\ mSnapshots'[j] = mSnapshots[j] + IF result = "collected" THEN 1 ELSE 0
          /\ \A i \in Collection!Jobs: i # j => mSnapshots'[i] = mSnapshots[i]
      BY <2>1, <2>2 DEF CollectionInv, Wells
    <2>5. WorkWell(Collection!Idle) /\ Collection!Idle.at = "idle"
      BY DEF WorkWell, Collection!Idle
    <2>6. /\ mProcess'[p] = Collection!Idle /\ DOMAIN mProcess' = Processes
          /\ \A q \in Processes: q # p => mProcess'[q] = mProcess[q]
      BY <1>1 DEF CollectionInv, Wells
    <2>7. Wells'
      BY <2>2, <2>3, <2>4, <2>5, <2>6 DEF CollectionInv, Wells, Collection!Jobs
    <2>8. \A q \in Processes: Busy(q)' => Busy(q) /\ mProcess'[q] = mProcess[q]
      BY <2>5, <2>6 DEF Busy
    <2>9. \A q \in Processes: Busy(q) => mProcess[q].job \in Collection!Jobs
      BY DEF CollectionInv, Wells, Busy, WorkWell
    <2>10. \A i \in Collection!Jobs: mJob'[i].attempt = mJob[i].attempt
      BY <2>3, <2>4
    <2>11. Fenced'
      BY <2>8, <2>9, <2>10 DEF CollectionInv, Fenced
    <2>12. mSnapshots[j] = 0
      BY <2>2 DEF CollectionInv, Collection!MeasuredOnce
    <2>13. Collection!MeasuredOnce'
      BY <2>2, <2>3, <2>4, <2>12 DEF CollectionInv, Collection!MeasuredOnce, Collection!Jobs
    <2>14. QED
      BY <2>7, <2>11, <2>13 DEF CollectionInv
  <1>4. QED
    BY <1>2, <1>3

LEMMA CollectionStep ==
  ASSUME Collection!CollectionAssumption, CollectionInv,
         [Collection!Next]_(Collection!vars)
  PROVE  CollectionInv'
  <1>1. ASSUME UNCHANGED <<mJob, mProcess, mSnapshots>> PROVE CollectionInv'
    BY <1>1 DEF CollectionInv, Wells, Fenced, Busy, Collection!MeasuredOnce, Collection!Jobs
  <1>2. CASE UNCHANGED Collection!vars
    BY <1>1, <1>2 DEF Collection!vars
  <1>3. CASE Collection!Reconnect \/ Collection!Disconnect \/ Collection!Expire
    BY <1>1, <1>3 DEF Collection!Reconnect, Collection!Disconnect, Collection!Expire
  <1>4. ASSUME NEW post \in Posts, Collection!Publish(post) PROVE CollectionInv'
    <2>1. mJob' = Collection!Enqueued({post}) /\ UNCHANGED <<mProcess, mSnapshots>>
      BY <1>4 DEF Collection!Publish
    <2>2. QED
      BY <2>1, EnqueuedKeeps, RowsMove
  <1>5. ASSUME NEW p \in Processes,
               Collection!Pass(p) \/ Collection!Crash(p) \/ Collection!VaultFails(p)
        PROVE  CollectionInv'
    <2>1. CASE Collection!Crash(p)
      BY <2>1, RestKeeps DEF Collection!Crash
    <2>2. CASE Collection!VaultFails(p)
      BY <2>2, AnsweredKeeps DEF Collection!VaultFails
    <2>3. CASE Collection!Pass(p)
      BY <2>3, SeedKeeps, ClaimKeeps, AskKeeps, SettleKeeps DEF Collection!Pass
    <2>4. QED
      BY <1>5, <2>1, <2>2, <2>3
  <1>6. QED
    BY <1>2, <1>3, <1>4, <1>5, TimeKeeps DEF Collection!Next

LEMMA CollectionBegins ==
  ASSUME Collection!CollectionAssumption, Collection!Init
  PROVE  CollectionInv
  <1>1. RowWell(Collection!NoJob) /\ Collection!NoJob.status = "none"
    BY DEF RowWell, RowFields, Collection!NoJob, Collection!CollectionAssumption
  <1>2. WorkWell(Collection!Idle) /\ Collection!Idle.at = "idle"
    BY DEF WorkWell, Collection!Idle
  <1>3. /\ mJob = [j \in Collection!Jobs |-> Collection!NoJob]
        /\ mProcess = [p \in Processes |-> Collection!Idle]
        /\ mSnapshots = [j \in Collection!Jobs |-> 0]
    BY DEF Collection!Init
  <1>4. Wells
    BY <1>1, <1>2, <1>3 DEF Wells
  <1>5. Fenced
    BY <1>2, <1>3 DEF Fenced, Busy
  <1>6. Collection!MeasuredOnce
    BY <1>1, <1>3 DEF Collection!MeasuredOnce
  <1>7. QED
    BY <1>4, <1>5, <1>6 DEF CollectionInv

LEMMA CollectionFollows ==
  ASSUME Collection!CollectionAssumption, CollectionInv
  PROVE  Collection!CollectionSound
  <1>1. Collection!OneHolder
    BY DEF CollectionInv, Fenced, Busy, Collection!OneHolder, Collection!Holds
  <1>2. Collection!WithinLimit /\ Collection!NoneStranded
    BY DEF CollectionInv, Wells, RowWell, Collection!WithinLimit, Collection!NoneStranded,
           Collection!CollectionAssumption
  <1>3. QED
    BY <1>1, <1>2 DEF CollectionInv, Collection!CollectionSound

(* A window of a post is measured once, by one process at a time, and a    *)
(* row is given up only after all its attempts, for any posts and windows  *)
(* and any number of processes, whatever names they share and whatever the *)
(* provider answers (claim, execute and settle of the metric runner).      *)
THEOREM CollectionHolds ==
  ASSUME Collection!CollectionAssumption
  PROVE  Collection!CollectionSpec => []Collection!CollectionSound
  <1>1. Collection!Init => CollectionInv
    BY CollectionBegins
  <1>2. CollectionInv /\ [Collection!Next]_(Collection!vars) => CollectionInv'
    BY CollectionStep
  <1>3. CollectionInv => Collection!CollectionSound
    BY CollectionFollows
  <1>4. QED
    BY <1>1, <1>2, <1>3, PTL DEF Collection!CollectionSpec

-----------------------------------------------------------------------------
(* Connecting a Drive, for any OAuth states, folders and requests.         *)
CONSTANTS Grants, Folders, DriveRequests, DriveFaults
VARIABLES dIntent, dConn, dLive, dLib, dIndexed, dReq

Drive == INSTANCE DriveConnection WITH
  intent <- dIntent, conn <- dConn, live <- dLive, lib <- dLib,
  indexed <- dIndexed, req <- dReq, Requests <- DriveRequests, MayFail <- DriveFaults

\* A save that was done is answered; a compensation and a disconnect that are
\* begun go through.
Undivided ==
  DriveFaults \cap {"reply", "compensation", "disconnect", "process"} = {}

Saving == {"old", "save"}
Replacing == {"clear", "connect", "replace", "undo connection", "undo library",
              "undo secrets"}
Calling == Saving \cup Replacing

\* A request knows what it was made for.
Shaped(x) ==
  /\ DOMAIN x = {"pc", "op", "grant", "prev", "folder"}
  /\ x.pc \in Drive!Phase /\ x.prev \subseteq Grants
  /\ x.pc = "refresh" => x.op \in {"pick", "select", "index"}

\* A callback holds a secret of its own until it is saved; then what it has to
\* revoke stands no more, and after its compensation nor does its own.
Holding(x, i, c, l) ==
  /\ Shaped(x)
  /\ \A g \in x.prev: i[g] = "used"
  /\ x.pc \in Calling => x.grant \in Grants /\ i[x.grant] = "used"
  /\ x.pc \in Saving => x.grant \in l /\ c.grant # x.grant
  /\ x.pc \in Replacing => c.grant \notin x.prev
  /\ x.pc \in {"undo library", "undo secrets"} => c.revoked \/ c.grant # x.grant

\* What a callback still has to save, no other request holds or revokes.
Spared(x, y) == y.pc \in Saving => y.grant \notin x.prev
Apart(x, y) == x.pc \in Calling /\ y.pc \in Calling => x.grant # y.grant

Stands(c, l, rs) ==
  c.grant # None /\ ~c.revoked =>
    c.grant \in l \/ \E r \in DriveRequests: rs[r].pc = "sever"

DriveInv ==
  /\ dIntent \in [Grants -> {"none", "open", "used"}]
  /\ dConn \in [grant: Grants \cup {None}, revoked: BOOLEAN]
  /\ dConn.grant # None => dIntent[dConn.grant] = "used"
  /\ DOMAIN dReq = DriveRequests
  /\ \A r \in DriveRequests: Holding(dReq[r], dIntent, dConn, dLive)
  /\ \A r, q \in DriveRequests: Spared(dReq[r], dReq[q])
  /\ \A r, q \in DriveRequests: r # q => Apart(dReq[r], dReq[q])
  /\ Stands(dConn, dLive, dReq)

\* A request goes on from o to x: it takes nothing up but the connection.
Follows(x, o) ==
  /\ x.prev \subseteq o.prev \cup {dConn.grant}
  /\ x.pc \in Calling => o.pc \in Calling /\ x.grant = o.grant
  /\ x.pc \in Saving => o.pc \in Saving

LEMMA FollowsApart ==
  ASSUME DriveInv, NEW r \in DriveRequests, NEW x, Follows(x, dReq[r]),
         dReq' = [dReq EXCEPT ![r] = x]
  PROVE  /\ \A p, q \in DriveRequests: Spared(dReq'[p], dReq'[q])
         /\ \A p, q \in DriveRequests: p # q => Apart(dReq'[p], dReq'[q])
  <1>1. /\ dReq'[r] = x
        /\ \A q \in DriveRequests \ {r}: dReq'[q] = dReq[q]
    BY DEF DriveInv
  <1>2. ASSUME NEW p \in DriveRequests, NEW q \in DriveRequests
        PROVE  Spared(dReq'[p], dReq'[q])
    <2>1. ASSUME NEW y, y.pc \in Saving => dReq[q].pc \in Saving /\ y.grant = dReq[q].grant
          PROVE  Spared(dReq'[p], y)
      <3>1. /\ Spared(dReq[p], dReq[q])
            /\ dReq[q].pc \in Saving => dReq[q].grant # dConn.grant
        BY DEF DriveInv, Holding
      <3>2. dReq'[p].prev \subseteq dReq[p].prev \cup {dConn.grant}
        BY <1>1 DEF Follows
      <3>3. QED
        BY <2>1, <3>1, <3>2 DEF Spared
    <2>2. dReq'[q].pc \in Saving => dReq[q].pc \in Saving /\ dReq'[q].grant = dReq[q].grant
      BY <1>1 DEF Follows, Calling
    <2>3. QED
      BY <2>1, <2>2
  <1>3. ASSUME NEW q \in DriveRequests
        PROVE  dReq'[q].pc \in Calling => dReq[q].pc \in Calling /\ dReq'[q].grant = dReq[q].grant
    BY <1>1 DEF Follows
  <1>4. \A p, q \in DriveRequests: p # q => Apart(dReq'[p], dReq'[q])
    BY <1>3 DEF DriveInv, Apart
  <1>5. QED
    BY <1>2, <1>4

\* A request goes on and the connection, its secrets and the states stay.
LEMMA Quietly ==
  ASSUME DriveInv, NEW r \in DriveRequests, NEW x, Follows(x, dReq[r]),
         dReq' = [dReq EXCEPT ![r] = x], Holding(x, dIntent, dConn, dLive),
         dReq[r].pc # "sever", UNCHANGED <<dIntent, dConn, dLive>>
  PROVE  DriveInv'
  <1>1. /\ dReq'[r] = x
        /\ \A q \in DriveRequests \ {r}: dReq'[q] = dReq[q]
    BY DEF DriveInv, Holding
  <1>2. DOMAIN dReq' = DriveRequests
    BY DEF DriveInv
  <1>3. \A q \in DriveRequests: Holding(dReq'[q], dIntent', dConn', dLive')
    BY <1>1 DEF DriveInv
  <1>4. Stands(dConn', dLive', dReq')
    BY <1>1 DEF DriveInv, Stands
  <1>5. QED
    BY <1>2, <1>3, <1>4, FollowsApart DEF DriveInv

\* The phases a request only goes through.
LEMMA Stepwise ==
  ASSUME DriveInv, NEW r \in DriveRequests, NEW p \in Drive!Phase, Drive!To(r, p),
         dReq[r].pc # "sever",
         p # "refresh",
         p \in Calling => dReq[r].pc \in Calling,
         p \in Saving => dReq[r].pc \in Saving,
         p \in Replacing => dReq[r].pc \in Replacing,
         p \in {"undo library", "undo secrets"} =>
            dReq[r].pc \in {"undo library", "undo secrets"},
         UNCHANGED <<dIntent, dConn, dLive>>
  PROVE  DriveInv'
  <1> DEFINE x == [dReq[r] EXCEPT !.pc = p]
  <1>1. Shaped(dReq[r]) /\ Holding(dReq[r], dIntent, dConn, dLive)
    BY DEF DriveInv, Holding
  <1>2. /\ Shaped(x) /\ x.pc = p /\ x.grant = dReq[r].grant
        /\ x.prev = dReq[r].prev
    BY <1>1 DEF Shaped
  <1>3. dReq' = [dReq EXCEPT ![r] = x]
    BY DEF Drive!To
  <1> HIDE DEF x
  <1>4. Follows(x, dReq[r]) /\ Holding(x, dIntent, dConn, dLive)
    BY <1>1, <1>2 DEF Follows, Holding
  <1>5. QED
    BY <1>3, <1>4, Quietly

LEMMA IdleHolds ==
  ASSUME NEW i, NEW c, NEW l
  PROVE  /\ Holding(Drive!Idle, i, c, l) /\ Drive!Idle.pc = "idle"
         /\ Drive!Idle.prev = {} /\ Shaped(Drive!Idle)
  BY DEF Holding, Drive!Idle, Shaped, Drive!Phase, Calling, Saving, Replacing

LEMMA Ends ==
  ASSUME DriveInv, NEW r \in DriveRequests, Drive!Done(r), dReq[r].pc # "sever",
         UNCHANGED <<dIntent, dConn, dLive>>
  PROVE  DriveInv'
  <1>1. Follows(Drive!Idle, dReq[r])
    BY IdleHolds DEF Follows, Calling, Saving, Replacing
  <1>2. QED
    BY <1>1, IdleHolds, Quietly DEF Drive!Done

LEMMA Uses ==
  ASSUME Undivided, DriveInv, NEW r \in DriveRequests,
         Drive!UseStep(r) \/ Drive!DisconnectStep(r),
         ~Drive!Cut(r), ~Drive!Sever(r)
  PROVE  DriveInv'
  <1> USE DEF Calling, Saving, Replacing, Drive!Phase
  <1>1. ASSUME NEW op \in {"pick", "select", "index"}, Drive!Refresh(r, op)
        PROVE  DriveInv'
    <2> DEFINE x == [Drive!Idle EXCEPT !.pc = "refresh", !.op = op, !.grant = dConn.grant]
    <2>1. dReq' = [dReq EXCEPT ![r] = x] /\ dReq[r].pc # "sever"
          /\ UNCHANGED <<dIntent, dConn, dLive>>
      BY <1>1 DEF Drive!Refresh
    <2>2. Shaped(x) /\ x.pc = "refresh" /\ x.prev = {}
      BY DEF Shaped, Drive!Idle, DriveInv
    <2> HIDE DEF x
    <2>3. Holding(x, dIntent, dConn, dLive) /\ Follows(x, dReq[r])
      BY <2>2 DEF Holding, Follows
    <2>4. QED
      BY <2>1, <2>3, Quietly
  <1>2. CASE Drive!Refreshed(r)
    <2>1. dReq[r].op \in {"pick", "select", "index"} /\ dReq[r].pc = "refresh"
      BY <1>2 DEF DriveInv, Holding, Shaped, Drive!Refreshed
    <2>2. Drive!Done(r) \/ Drive!To(r, "verify") \/ Drive!To(r, "root")
      BY <1>2, <2>1 DEF Drive!Refreshed
    <2>3. QED
      BY <1>2, <2>1, <2>2, Ends, Stepwise DEF Drive!Refreshed
  <1>3. CASE Drive!NeedsAttention(r)
    BY <1>3, Ends DEF Drive!NeedsAttention
  <1>4. CASE Drive!GivesUp(r)
    BY <1>4, Ends DEF Drive!GivesUp
  <1>5. ASSUME NEW f, NEW p \in {"wipe", "crawl"},
               dReq' = [dReq EXCEPT ![r].pc = p, ![r].folder = f],
               dReq[r].pc # "sever", UNCHANGED <<dIntent, dConn, dLive>>
        PROVE  DriveInv'
    <2> DEFINE x == [dReq[r] EXCEPT !.pc = p, !.folder = f]
    <2>1. dReq' = [dReq EXCEPT ![r] = x]
      BY <1>5
    <2>2. Shaped(dReq[r]) /\ Holding(dReq[r], dIntent, dConn, dLive)
      BY DEF DriveInv, Holding
    <2>3. Shaped(x) /\ x.pc = p /\ x.prev = dReq[r].prev
      BY <2>2 DEF Shaped
    <2> HIDE DEF x
    <2>4. Holding(x, dIntent, dConn, dLive) /\ Follows(x, dReq[r])
      BY <2>2, <2>3 DEF Holding, Follows
    <2>5. QED
      BY <1>5, <2>1, <2>4, Quietly
  <1>6. ASSUME NEW f \in Folders, Drive!VerifyFolder(r, f) PROVE DriveInv'
    BY <1>5, <1>6 DEF Drive!VerifyFolder
  <1>7. CASE Drive!Wipe(r)
    BY <1>7, Stepwise DEF Drive!Wipe
  <1>8. CASE Drive!PointTo(r)
    BY <1>8, Ends DEF Drive!PointTo
  <1>9. CASE Drive!ReadRoot(r)
    <2>1. CASE Drive!Done(r)
      BY <1>9, <2>1, Ends DEF Drive!ReadRoot
    <2>2. CASE ~Drive!Done(r)
      BY <1>9, <2>2, <1>5 DEF Drive!ReadRoot
    <2>3. QED
      BY <2>1, <2>2
  <1>10. CASE Drive!Crawled(r)
    BY <1>10, Stepwise DEF Drive!Crawled
  <1>11. CASE Drive!ReplaceIndexedAssets(r)
    BY <1>11, Stepwise DEF Drive!ReplaceIndexedAssets
  <1>12. CASE Drive!Settle(r)
    BY <1>12, Ends DEF Drive!Settle
  <1>13. CASE Drive!Disconnect(r)
    <2> DEFINE x == [Drive!Idle EXCEPT !.pc = "cut",
                       !.prev = IF Drive!Connected THEN {dConn.grant} ELSE {}]
    <2>1. dReq' = [dReq EXCEPT ![r] = x] /\ dReq[r].pc # "sever"
          /\ UNCHANGED <<dIntent, dConn, dLive>>
      BY <1>13 DEF Drive!Disconnect
    <2>2. /\ Shaped(x) /\ x.pc = "cut"
          /\ x.prev = {} \/ (dConn.grant # None /\ x.prev = {dConn.grant})
      BY DEF Shaped, Drive!Idle, DriveInv, Drive!Connected
    <2> HIDE DEF x
    <2>3. Holding(x, dIntent, dConn, dLive) /\ Follows(x, dReq[r])
      BY <2>2 DEF Holding, Follows, DriveInv
    <2>4. QED
      BY <2>1, <2>3, Quietly
  <1>14. CASE Drive!Empty(r)
    BY <1>14, Stepwise DEF Drive!Empty
  <1>15. CASE Drive!SwitchOff(r)
    BY <1>15, Ends DEF Drive!SwitchOff
  <1>16. CASE Drive!DisconnectFails(r)
    BY <1>16 DEF Undivided, Drive!DisconnectFails
  <1>17. QED
    BY <1>1, <1>2, <1>3, <1>4, <1>6, <1>7, <1>8, <1>9, <1>10, <1>11, <1>12, <1>13,
       <1>14, <1>15, <1>16 DEF Drive!UseStep, Drive!DisconnectStep

\* Steps of the callback that change neither the connection nor a secret.
LEMMA CallsQuietly ==
  ASSUME Undivided, DriveInv, NEW r \in DriveRequests,
         \/ Drive!ReadOld(r) \/ Drive!SaveFails(r) \/ Drive!ClearOld(r)
         \/ Drive!SetConnected(r) \/ Drive!CompleteFails(r) \/ Drive!UndoLibrary(r)
  PROVE  DriveInv'
  <1> USE DEF Calling, Saving, Replacing, Drive!Phase
  <1>1. Shaped(dReq[r]) /\ Holding(dReq[r], dIntent, dConn, dLive)
        /\ dConn.grant \in Grants \cup {None}
    BY DEF DriveInv, Holding
  <1>2. CASE Drive!ReadOld(r)
    <2> DEFINE x == [dReq[r] EXCEPT !.pc = "save",
                       !.prev = {dConn.grant} \ {None, dReq[r].grant}]
    <2>1. dReq' = [dReq EXCEPT ![r] = x] /\ dReq[r].pc = "old"
          /\ UNCHANGED <<dIntent, dConn, dLive>>
      BY <1>2 DEF Drive!ReadOld
    <2>2. /\ Shaped(x) /\ x.pc = "save" /\ x.grant = dReq[r].grant
          /\ x.prev \subseteq {dConn.grant} \ {None}
      BY <1>1 DEF Shaped
    <2> HIDE DEF x
    <2>3. Holding(x, dIntent, dConn, dLive) /\ Follows(x, dReq[r])
      BY <1>1, <2>1, <2>2 DEF Holding, Follows, DriveInv
    <2>4. QED
      BY <2>1, <2>3, Quietly
  <1>3. CASE Drive!SaveFails(r)
    <2> DEFINE x == [dReq[r] EXCEPT !.pc = "undo secrets", !.prev = {}]
    <2>1. dReq' = [dReq EXCEPT ![r] = x] /\ dReq[r].pc = "save"
          /\ UNCHANGED <<dIntent, dConn, dLive>>
      BY <1>3 DEF Drive!SaveFails, Undivided
    <2>2. /\ Shaped(x) /\ x.pc = "undo secrets" /\ x.grant = dReq[r].grant
          /\ x.prev = {}
      BY <1>1 DEF Shaped
    <2> HIDE DEF x
    <2>3. Holding(x, dIntent, dConn, dLive) /\ Follows(x, dReq[r])
      BY <1>1, <2>1, <2>2 DEF Holding, Follows
    <2>4. QED
      BY <2>1, <2>3, Quietly
  <1>4. CASE Drive!ClearOld(r)
    BY <1>4, Stepwise DEF Drive!ClearOld
  <1>5. CASE Drive!SetConnected(r)
    BY <1>5, Stepwise DEF Drive!SetConnected
  <1>6. CASE Drive!CompleteFails(r)
    BY <1>6, Stepwise DEF Drive!CompleteFails
  <1>7. CASE Drive!UndoLibrary(r)
    <2>1. Drive!To(r, "undo secrets") /\ dReq[r].pc = "undo library"
          /\ UNCHANGED <<dIntent, dConn, dLive>>
      BY <1>7 DEF Drive!UndoLibrary
    <2>2. QED
      BY <2>1, Stepwise
  <1>8. QED
    BY <1>2, <1>3, <1>4, <1>5, <1>6, <1>7

\* A state is handed out, or used once: nothing in hand knows it yet.
LEMMA StatesUsed ==
  ASSUME None \notin Grants, DriveInv, NEW g \in Grants,
         \/ Drive!Begin(g) \/ \E r \in DriveRequests: Drive!Authorize(r, g)
  PROVE  DriveInv'
  <1> USE DEF Calling, Saving, Replacing
  <1>1. /\ \A r \in DriveRequests:
             Shaped(dReq[r]) /\ Holding(dReq[r], dIntent, dConn, dLive)
        /\ dConn.grant \in Grants \cup {None} /\ DOMAIN dReq = DriveRequests
    BY DEF DriveInv, Holding
  <1>2. /\ dIntent[g] # "used" /\ \A h \in Grants \ {g}: dIntent'[h] = dIntent[h]
        /\ dIntent' \in [Grants -> {"none", "open", "used"}]
        /\ dConn' = dConn
    BY DEF Drive!Begin, Drive!Authorize, DriveInv
  <1>3. /\ dConn.grant # g
        /\ dConn.grant # None => dIntent'[dConn.grant] = "used"
        /\ \A r \in DriveRequests: g \notin dReq[r].prev
        /\ \A r \in DriveRequests: dReq[r].pc \in Calling => dReq[r].grant # g
    <2>1. dConn.grant # None => dIntent[dConn.grant] = "used" /\ dConn.grant \in Grants
      BY <1>1 DEF DriveInv
    <2>2. QED
      BY <1>1, <1>2, <2>1 DEF Holding
  <1>4. ASSUME NEW r \in DriveRequests, NEW l, dLive \subseteq l
        PROVE  Holding(dReq[r], dIntent', dConn', l)
    <2>1. \A h \in Grants: dIntent[h] = "used" => dIntent'[h] = "used"
      BY <1>2
    <2>2. dReq[r].prev \subseteq Grants
      BY <1>1 DEF Shaped
    <2>3. QED
      BY <1>1, <1>2, <1>4, <2>1, <2>2 DEF Holding
  <1>5. CASE UNCHANGED <<dReq, dLive>>
    <2>1. \A r \in DriveRequests: Holding(dReq'[r], dIntent', dConn', dLive')
      BY <1>4, <1>5
    <2>2. QED
      BY <1>2, <1>3, <1>5, <2>1 DEF DriveInv, Stands
  <1>6. ASSUME NEW r \in DriveRequests, Drive!Authorize(r, g), ~UNCHANGED <<dReq, dLive>>
        PROVE  DriveInv'
    <2> DEFINE x == [Drive!Idle EXCEPT !.pc = "old", !.grant = g]
    <2>1. /\ dLive' = dLive \cup {g} /\ dReq' = [dReq EXCEPT ![r] = x]
          /\ dReq[r].pc = "idle" /\ dIntent'[g] = "used"
      BY <1>6 DEF Drive!Authorize, DriveInv
    <2>2. Shaped(x) /\ x.pc = "old" /\ x.grant = g /\ x.prev = {}
      BY DEF Shaped, Drive!Idle, Drive!Phase
    <2> HIDE DEF x
    <2>3. Holding(x, dIntent', dConn', dLive')
      BY <1>2, <1>3, <2>1, <2>2 DEF Holding
    <2>4. /\ dReq'[r] = x /\ DOMAIN dReq' = DriveRequests
          /\ \A q \in DriveRequests \ {r}: dReq'[q] = dReq[q]
      BY <1>1, <2>1
    <2>5. \A q \in DriveRequests: Holding(dReq'[q], dIntent', dConn', dLive')
      BY <1>4, <2>1, <2>3, <2>4
    <2>6. \A p, q \in DriveRequests: Spared(dReq'[p], dReq'[q])
      BY <1>3, <2>2, <2>4 DEF Spared, DriveInv
    <2>7. ASSUME NEW p \in DriveRequests, NEW q \in DriveRequests, p # q
          PROVE  Apart(dReq'[p], dReq'[q])
      <3>1. CASE p # r /\ q # r
        BY <2>4, <2>7, <3>1 DEF DriveInv
      <3>2. CASE p = r \/ q = r
        BY <1>3, <2>2, <2>4, <2>7, <3>2 DEF Apart
      <3>3. QED
        BY <3>1, <3>2
    <2>8. Stands(dConn', dLive', dReq')
      <3>1. ASSUME NEW q \in DriveRequests, dReq[q].pc = "sever"
            PROVE  dReq'[q].pc = "sever"
        BY <2>1, <2>4, <3>1
      <3>2. QED
        BY <1>2, <2>1, <3>1 DEF Stands, DriveInv
    <2>9. QED
      BY <1>2, <1>3, <2>4, <2>5, <2>6, <2>7, <2>8 DEF DriveInv
  <1>7. QED
    BY <1>5, <1>6 DEF Drive!Begin

\* A request goes on to p and the connection or the secrets change with it.
LEMMA Elsewhere ==
  ASSUME DriveInv, NEW r \in DriveRequests, NEW x, Follows(x, dReq[r]),
         dReq' = [dReq EXCEPT ![r] = x], UNCHANGED dIntent,
         dConn' \in [grant: Grants \cup {None}, revoked: BOOLEAN],
         dConn'.grant # None => dIntent[dConn'.grant] = "used",
         \A q \in DriveRequests \ {r}: Holding(dReq[q], dIntent, dConn', dLive'),
         Holding(x, dIntent, dConn', dLive'), Stands(dConn', dLive', dReq')
  PROVE  DriveInv'
  <1>1. /\ dReq'[r] = x /\ DOMAIN dReq' = DriveRequests
        /\ \A q \in DriveRequests \ {r}: dReq'[q] = dReq[q]
    BY DEF DriveInv
  <1>2. \A q \in DriveRequests: Holding(dReq'[q], dIntent', dConn', dLive')
    BY <1>1
  <1>3. QED
    BY <1>1, <1>2, FollowsApart DEF DriveInv

LEMMA Saves ==
  ASSUME DriveInv, NEW r \in DriveRequests, Drive!SaveConnection(r)
  PROVE  DriveInv'
  <1> USE DEF Calling, Saving, Replacing
  <1> DEFINE x == [dReq[r] EXCEPT !.pc = "clear"]
  <1>1. /\ Shaped(dReq[r]) /\ Holding(dReq[r], dIntent, dConn, dLive)
        /\ dReq[r].pc = "save"
    BY DEF DriveInv, Holding, Drive!SaveConnection
  <1>2. /\ dConn' = [grant |-> dReq[r].grant, revoked |-> FALSE]
        /\ dReq' = [dReq EXCEPT ![r] = x] /\ UNCHANGED <<dIntent, dLive>>
    BY DEF Drive!SaveConnection, Drive!To
  <1>3. /\ Shaped(x) /\ x.pc = "clear" /\ x.grant = dReq[r].grant
        /\ x.prev = dReq[r].prev
    BY <1>1 DEF Shaped, Drive!Phase
  <1> HIDE DEF x
  <1>4. /\ dReq[r].grant \in Grants /\ dIntent[dReq[r].grant] = "used"
        /\ dReq[r].grant \in dLive
    BY <1>1 DEF Holding
  <1>5. ASSUME NEW q \in DriveRequests PROVE dReq[r].grant \notin dReq[q].prev
    BY <1>1 DEF DriveInv, Spared
  <1>6. ASSUME NEW q \in DriveRequests \ {r}
        PROVE  Holding(dReq[q], dIntent, dConn', dLive')
    <2>1. Holding(dReq[q], dIntent, dConn, dLive) /\ Apart(dReq[q], dReq[r])
      BY DEF DriveInv
    <2>2. dReq[q].pc \in Calling => dReq[q].grant # dReq[r].grant
      BY <1>1, <2>1 DEF Apart
    <2>3. QED
      BY <1>2, <1>5, <2>1, <2>2 DEF Holding
  <1>7. Holding(x, dIntent, dConn', dLive') /\ Follows(x, dReq[r])
    BY <1>1, <1>2, <1>3, <1>4, <1>5 DEF Holding, Follows
  <1>8. Stands(dConn', dLive', dReq')
    BY <1>2, <1>4 DEF Stands
  <1>9. dConn' \in [grant: Grants \cup {None}, revoked: BOOLEAN]
        /\ dIntent[dConn'.grant] = "used"
    BY <1>2, <1>4
  <1>10. QED
    BY <1>2, <1>6, <1>7, <1>8, <1>9, Elsewhere

\* What stands is revoked: by a compensation or by a disconnect.
LEMMA Revokes ==
  ASSUME Undivided, DriveInv, NEW r \in DriveRequests,
         Drive!UndoConnection(r) \/ Drive!Sever(r)
  PROVE  DriveInv'
  <1> USE DEF Calling, Saving, Replacing
  <1>1. PICK p \in {"undo library", "empty"}:
          /\ Drive!To(r, p) /\ UNCHANGED <<dIntent, dLive>>
          /\ p = "undo library" => dReq[r].pc = "undo connection"
          /\ dConn' = [dConn EXCEPT !.revoked = TRUE]
    BY DEF Drive!UndoConnection, Drive!Sever, Undivided, Drive!Swallowed, Drive!Revoked
  <1> DEFINE x == [dReq[r] EXCEPT !.pc = p]
  <1>2. Shaped(dReq[r]) /\ Holding(dReq[r], dIntent, dConn, dLive)
    BY DEF DriveInv, Holding
  <1>3. /\ Shaped(x) /\ x.pc = p /\ x.grant = dReq[r].grant
        /\ x.prev = dReq[r].prev /\ dReq' = [dReq EXCEPT ![r] = x]
    BY <1>1, <1>2 DEF Shaped, Drive!Phase, Drive!To
  <1> HIDE DEF x
  <1>4. /\ dConn' \in [grant: Grants \cup {None}, revoked: BOOLEAN]
        /\ dConn'.grant = dConn.grant /\ dConn'.revoked
    BY <1>1 DEF DriveInv
  <1>5. \A q \in DriveRequests: Holding(dReq[q], dIntent, dConn', dLive')
    BY <1>1, <1>4 DEF DriveInv, Holding
  <1>6. Holding(x, dIntent, dConn', dLive') /\ Follows(x, dReq[r])
    BY <1>1, <1>2, <1>3, <1>4 DEF Holding, Follows
  <1>7. Stands(dConn', dLive', dReq')
    BY <1>4 DEF Stands
  <1>8. QED
    BY <1>1, <1>3, <1>4, <1>5, <1>6, <1>7, Elsewhere DEF DriveInv

\* Secrets are revoked: none that a callback still has to save, and the one of
\* what stands only by a disconnect, which goes on to sever it.
LEMMA SecretsGo ==
  ASSUME Undivided, DriveInv, NEW r \in DriveRequests,
         Drive!RevokeOld(r) \/ Drive!UndoSecrets(r) \/ Drive!Cut(r)
  PROVE  DriveInv'
  <1> USE DEF Calling, Saving, Replacing
  <1>1. Shaped(dReq[r]) /\ Holding(dReq[r], dIntent, dConn, dLive)
    BY DEF DriveInv, Holding
  <1>2. PICK mine: /\ dLive' = dLive \ mine /\ UNCHANGED <<dIntent, dConn>>
                   /\ \/ mine = dReq[r].prev
                      \/ /\ dReq[r].pc = "undo secrets"
                         /\ mine = dReq[r].prev \cup {dReq[r].grant}
    <2>1. CASE Drive!RevokeOld(r)
      BY <2>1 DEF Drive!RevokeOld
    <2>2. CASE Drive!UndoSecrets(r)
      <3>1. dLive' = dLive \ ((dReq[r].prev \cup {dReq[r].grant}) \ {})
        BY <2>2 DEF Drive!UndoSecrets, Undivided, Drive!Swallowed
      <3>2. QED
        BY <2>2, <3>1 DEF Drive!UndoSecrets
    <2>3. CASE Drive!Cut(r)
      BY <2>3 DEF Drive!Cut
    <2>4. QED
      BY <2>1, <2>2, <2>3
  <1>3. ASSUME NEW q \in DriveRequests \ {r}
        PROVE  Holding(dReq[q], dIntent, dConn', dLive')
    <2>1. /\ Holding(dReq[q], dIntent, dConn, dLive)
          /\ Spared(dReq[r], dReq[q]) /\ Apart(dReq[r], dReq[q])
      BY DEF DriveInv
    <2>2. dReq[q].pc \in Saving => dReq[q].grant \notin mine
      BY <1>2, <2>1 DEF Spared, Apart
    <2>3. QED
      BY <1>2, <2>1, <2>2 DEF Holding
  <1>4. PICK x: /\ dReq' = [dReq EXCEPT ![r] = x] /\ Follows(x, dReq[r])
                /\ Holding(x, dIntent, dConn', dLive')
                /\ dReq[r].pc = "cut" => x.pc = "sever"
    <2>1. CASE Drive!Done(r) /\ dReq[r].pc # "cut"
      <3>1. Follows(Drive!Idle, dReq[r])
        BY IdleHolds DEF Follows
      <3>2. QED
        BY <2>1, <3>1, IdleHolds DEF Drive!Done
    <2>2. CASE Drive!Cut(r)
      <3> DEFINE x == [dReq[r] EXCEPT !.pc = "sever"]
      <3>1. dReq' = [dReq EXCEPT ![r] = x]
        BY <2>2 DEF Drive!Cut, Drive!To
      <3>2. Shaped(x) /\ x.pc = "sever" /\ x.prev = dReq[r].prev
        BY <1>1 DEF Shaped, Drive!Phase
      <3> HIDE DEF x
      <3>3. Follows(x, dReq[r]) /\ Holding(x, dIntent, dConn', dLive')
        BY <1>1, <1>2, <3>2 DEF Follows, Holding
      <3>4. QED
        BY <3>1, <3>2, <3>3
    <2>3. QED
      BY <2>1, <2>2 DEF Drive!RevokeOld, Drive!UndoSecrets
  <1>5. /\ dReq'[r] = x /\ \A q \in DriveRequests \ {r}: dReq'[q] = dReq[q]
        /\ dReq[r].pc \in {"replace", "undo secrets", "cut"}
    BY <1>4 DEF DriveInv, Drive!RevokeOld, Drive!UndoSecrets, Drive!Cut
  <1>6. Stands(dConn', dLive', dReq')
    <2>1. CASE dReq[r].pc = "cut"
      BY <1>4, <1>5, <2>1 DEF Stands
    <2>2. CASE dReq[r].pc # "cut"
      <3>1. dConn.revoked \/ dConn.grant \notin mine
        BY <1>1, <1>2, <1>5, <2>2 DEF Holding
      <3>2. \A q \in DriveRequests: dReq[q].pc = "sever" => dReq'[q].pc = "sever"
        BY <1>5
      <3>3. QED
        BY <1>2, <3>1, <3>2 DEF Stands, DriveInv
    <2>3. QED
      BY <2>1, <2>2
  <1>7. QED
    BY <1>2, <1>3, <1>4, <1>6, Elsewhere DEF DriveInv

LEMMA DriveStep ==
  ASSUME None \notin Grants, Undivided, DriveInv, [Drive!Next]_(Drive!vars)
  PROVE  DriveInv'
  <1>1. ASSUME NEW g \in Grants, Drive!Begin(g) PROVE DriveInv'
    BY <1>1, StatesUsed
  <1>2. ASSUME NEW r \in DriveRequests, Drive!CompleteStep(r) PROVE DriveInv'
    BY <1>2, StatesUsed, CallsQuietly, Saves, Revokes, SecretsGo DEF Drive!CompleteStep
  <1>3. ASSUME NEW r \in DriveRequests, Drive!UseStep(r) \/ Drive!DisconnectStep(r)
        PROVE  DriveInv'
    BY <1>3, Uses, Revokes, SecretsGo
  <1>4. ASSUME NEW r \in DriveRequests, Drive!Die(r) PROVE DriveInv'
    BY <1>4 DEF Drive!Die, Undivided
  <1>5. CASE UNCHANGED Drive!vars
    BY <1>5 DEF Drive!vars, DriveInv
  <1>6. QED
    BY <1>1, <1>2, <1>3, <1>4, <1>5 DEF Drive!Next

LEMMA DriveBegins ==
  ASSUME None \notin Grants, Drive!Init PROVE DriveInv
  BY IdleHolds DEF Drive!Init, DriveInv, Stands, Spared, Apart, Calling, Saving, Replacing

(* However any number of callbacks, their compensations and disconnects    *)
(* interleave, none of them revokes the secret of the connection that      *)
(* stands, unless a save is done and not answered, or what revokes is      *)
(* itself cut short (complete and disconnect of a content asset library).  *)
THEOREM StandingHolds ==
  ASSUME Drive!DriveAssumption, Undivided
  PROVE  Drive!Spec => []Drive!StandingHasItsSecret
  <1>1. Drive!Init => DriveInv
    BY DriveBegins DEF Drive!DriveAssumption
  <1>2. DriveInv /\ [Drive!Next]_(Drive!vars) => DriveInv'
    BY DriveStep DEF Drive!DriveAssumption
  <1>3. DriveInv => Drive!StandingHasItsSecret
    BY DEF DriveInv, Stands, Drive!StandingHasItsSecret, Drive!Quiet, Drive!Connected
  <1>4. QED
    BY <1>1, <1>2, <1>3, PTL DEF Drive!Spec

-----------------------------------------------------------------------------
(* One request at a time: what a library lists, whatever fails.            *)
Fields == {"pc", "op", "grant", "prev", "folder"}
Consistent ==
  /\ dLib.status = "connected" => dIndexed \in {None, dLib.root}
  /\ dLib.status = "not-connected" => dIndexed = None /\ dLib.root = None

\* What the steps of a request still to come rely on.
Lists(x) ==
  /\ DOMAIN x = Fields
  /\ x.pc \in {"connect", "point", "off"} => dIndexed = None
  /\ x.pc \in {"crawl", "write"} => x.folder = dLib.root /\ dLib.root # None
  /\ x.pc = "settle" => dIndexed = dLib.root
  /\ x.pc = "refresh" => x.op \in {"pick", "select", "index"}

ListingInv(o) ==
  /\ DOMAIN dReq = {o} /\ DOMAIN dLib = {"status", "root"}
  /\ Consistent /\ Lists(dReq[o])

LEMMA ListingIdle ==
  DOMAIN Drive!Idle = Fields /\ Drive!Idle.pc = "idle"
  BY DEF Drive!Idle, Fields

\* A request that goes on or ends while the library stays as it is.
LEMMA ListsOn ==
  ASSUME NEW o, DriveRequests = {o}, ListingInv(o), NEW r \in DriveRequests,
         UNCHANGED <<dLib, dIndexed>>,
         \/ Drive!Done(r)
         \/ /\ DOMAIN dReq' = {o} /\ DOMAIN dReq'[o] = Fields
            /\ dReq'[o].pc \notin {"connect", "point", "off", "crawl", "write", "settle",
                              "refresh"}
  PROVE  ListingInv(o)'
  <1>1. r = o
    OBVIOUS
  <1>2. DOMAIN dReq' = {o} /\ DOMAIN dReq'[o] = Fields
        /\ dReq'[o].pc \notin {"connect", "point", "off", "crawl", "write", "settle",
                              "refresh"}
    BY <1>1, ListingIdle DEF Drive!Done, ListingInv
  <1>3. QED
    BY <1>2 DEF ListingInv, Consistent, Lists

LEMMA ListsCompleting ==
  ASSUME NEW o, DriveRequests = {o}, ListingInv(o), NEW r \in DriveRequests,
         Drive!CompleteStep(r)
  PROVE  ListingInv(o)'
  <1>1. r = o /\ DOMAIN dReq = {o} /\ DOMAIN dReq[o] = Fields
    BY DEF ListingInv, Lists
  <1>2. ASSUME NEW g \in Grants, Drive!Authorize(r, g) PROVE ListingInv(o)'
    <2>1. CASE UNCHANGED dReq
      BY <1>2, <2>1 DEF Drive!Authorize, ListingInv, Consistent, Lists
    <2>2. CASE ~UNCHANGED dReq
      <3> DEFINE x == [Drive!Idle EXCEPT !.pc = "old", !.grant = g]
      <3>1. dReq' = [dReq EXCEPT ![o] = x] /\ UNCHANGED <<dLib, dIndexed>>
        BY <1>1, <1>2, <2>2 DEF Drive!Authorize
      <3>2. DOMAIN x = Fields /\ x.pc = "old"
        BY ListingIdle DEF Fields
      <3> HIDE DEF x
      <3>3. DOMAIN dReq' = {o} /\ dReq'[o] = x
        BY <1>1, <3>1
      <3>4. QED
        BY <3>1, <3>2, <3>3, ListsOn
    <2>3. QED
      BY <2>1, <2>2
  <1>3. CASE Drive!ReadOld(r) \/ Drive!SaveConnection(r) \/ Drive!SaveFails(r)
             \/ Drive!RevokeOld(r) \/ Drive!CompleteFails(r)
             \/ Drive!UndoConnection(r) \/ Drive!UndoSecrets(r)
    <2>1. UNCHANGED <<dLib, dIndexed>>
      BY <1>3 DEF Drive!ReadOld, Drive!SaveConnection, Drive!SaveFails, Drive!RevokeOld,
         Drive!CompleteFails, Drive!UndoConnection, Drive!UndoSecrets
    <2>2. \/ Drive!Done(r)
          \/ \E p \in {"save", "clear", "undo secrets", "undo connection", "undo library"}:
               \/ dReq' = [dReq EXCEPT ![r].pc = p]
               \/ \E v: dReq' = [dReq EXCEPT ![r].pc = p, ![r].prev = v]
      BY <1>3 DEF Drive!ReadOld, Drive!SaveConnection, Drive!SaveFails, Drive!RevokeOld,
         Drive!CompleteFails, Drive!UndoConnection, Drive!UndoSecrets, Drive!To
    <2>3. \/ Drive!Done(r)
          \/ /\ DOMAIN dReq' = {o} /\ DOMAIN dReq'[o] = Fields
             /\ dReq'[o].pc \in {"save", "clear", "undo secrets", "undo connection", "undo library"}
      BY <1>1, <2>2 DEF Fields
    <2>4. QED
      BY <2>1, <2>3, ListsOn
  <1>4. CASE Drive!ClearOld(r)
    <2>1. /\ dIndexed' = None /\ UNCHANGED dLib
          /\ DOMAIN dReq' = {o} /\ DOMAIN dReq'[o] = Fields /\ dReq'[o].pc = "connect"
      BY <1>1, <1>4 DEF Drive!ClearOld, Drive!To, Fields
    <2>2. QED
      BY <2>1 DEF ListingInv, Consistent, Lists
  <1>5. CASE Drive!SetConnected(r)
    <2>1. /\ dIndexed = None /\ UNCHANGED dIndexed
          /\ DOMAIN dLib' = {"status", "root"} /\ dLib'.status = "connected"
          /\ DOMAIN dReq' = {o} /\ DOMAIN dReq'[o] = Fields /\ dReq'[o].pc = "replace"
      BY <1>1, <1>5 DEF Drive!SetConnected, Drive!To, Fields, ListingInv, Lists
    <2>2. QED
      BY <2>1 DEF ListingInv, Consistent, Lists
  <1>6. CASE Drive!UndoLibrary(r)
    <2>1. /\ UNCHANGED dIndexed
          /\ DOMAIN dReq' = {o} /\ DOMAIN dReq'[o] = Fields /\ dReq'[o].pc = "undo secrets"
      BY <1>1, <1>6 DEF Drive!UndoLibrary, Drive!To, Fields
    <2>2. CASE UNCHANGED dLib
      BY <2>1, <2>2, ListsOn
    <2>3. CASE ~UNCHANGED dLib
      <3>1. dLib' = [status |-> "needs-attention", root |-> None]
        BY <1>6, <2>3 DEF Drive!UndoLibrary
      <3>2. DOMAIN dLib' = {"status", "root"} /\ dLib'.status = "needs-attention"
        BY <3>1
      <3>3. QED
        BY <2>1, <3>2 DEF ListingInv, Consistent, Lists
    <2>4. QED
      BY <2>2, <2>3
  <1>7. QED
    BY <1>2, <1>3, <1>4, <1>5, <1>6 DEF Drive!CompleteStep

LEMMA ListsUsing ==
  ASSUME NEW o, DriveRequests = {o}, ListingInv(o), NEW r \in DriveRequests,
         None \notin Folders, Drive!UseStep(r)
  PROVE  ListingInv(o)'
  <1>1. r = o /\ DOMAIN dReq = {o} /\ DOMAIN dReq[o] = Fields
    BY DEF ListingInv, Lists
  <1>2. ASSUME NEW op \in {"pick", "select", "index"}, Drive!Refresh(r, op) PROVE ListingInv(o)'
    <2> DEFINE x == [Drive!Idle EXCEPT !.pc = "refresh", !.op = op, !.grant = dConn.grant]
    <2>1. dReq' = [dReq EXCEPT ![o] = x] /\ UNCHANGED <<dLib, dIndexed>>
      BY <1>1, <1>2 DEF Drive!Refresh
    <2>2. DOMAIN x = Fields /\ x.pc = "refresh" /\ x.op = op
      BY ListingIdle DEF Fields
    <2> HIDE DEF x
    <2>3. DOMAIN dReq' = {o} /\ dReq'[o] = x
      BY <1>1, <2>1
    <2>4. QED
      BY <2>1, <2>2, <2>3 DEF ListingInv, Consistent, Lists
  <1>3. CASE Drive!Refreshed(r)
    <2>1. UNCHANGED <<dLib, dIndexed>>
      BY <1>3 DEF Drive!Refreshed
    <2>2. dReq[r].op \in {"pick", "select", "index"}
      BY <1>1, <1>3 DEF Drive!Refreshed, ListingInv, Lists
    <2>3. Drive!Done(r) \/ Drive!To(r, "verify") \/ Drive!To(r, "root")
      BY <1>3, <2>2 DEF Drive!Refreshed
    <2>4. \/ Drive!Done(r)
          \/ /\ DOMAIN dReq' = {o} /\ DOMAIN dReq'[o] = Fields
             /\ dReq'[o].pc \in {"verify", "root"}
      BY <1>1, <2>3 DEF Drive!To, Fields
    <2>5. QED
      BY <2>1, <2>4, ListsOn
  <1>4. CASE Drive!NeedsAttention(r)
    <2>1. /\ UNCHANGED dIndexed /\ dLib' = [dLib EXCEPT !.status = "needs-attention"]
          /\ Drive!Done(r)
      BY <1>4 DEF Drive!NeedsAttention
    <2>2. DOMAIN dLib' = {"status", "root"} /\ dLib'.status = "needs-attention"
      BY <2>1 DEF ListingInv
    <2>3. /\ DOMAIN dReq' = {o} /\ DOMAIN dReq'[o] = Fields /\ dReq'[o].pc = "idle"
      BY <1>1, <2>1, ListingIdle DEF Drive!Done
    <2>4. QED
      BY <2>1, <2>2, <2>3 DEF ListingInv, Consistent, Lists
  <1>5. CASE Drive!GivesUp(r)
    BY <1>5, ListsOn DEF Drive!GivesUp
  <1>6. ASSUME NEW f \in Folders, Drive!VerifyFolder(r, f) PROVE ListingInv(o)'
    <2>1. /\ UNCHANGED <<dLib, dIndexed>>
          /\ DOMAIN dReq' = {o} /\ DOMAIN dReq'[o] = Fields /\ dReq'[o].pc = "wipe"
      BY <1>1, <1>6 DEF Drive!VerifyFolder, Fields
    <2>2. QED
      BY <2>1, ListsOn
  <1>7. CASE Drive!Wipe(r)
    <2>1. /\ dIndexed' = None /\ UNCHANGED dLib
          /\ DOMAIN dReq' = {o} /\ DOMAIN dReq'[o] = Fields /\ dReq'[o].pc = "point"
      BY <1>1, <1>7 DEF Drive!Wipe, Drive!To, Fields
    <2>2. QED
      BY <2>1 DEF ListingInv, Consistent, Lists
  <1>8. CASE Drive!PointTo(r)
    <2>1. /\ dIndexed = None /\ UNCHANGED dIndexed /\ Drive!Done(r)
          /\ DOMAIN dLib' = {"status", "root"} /\ dLib'.status = "connected"
      BY <1>1, <1>8 DEF Drive!PointTo, ListingInv, Lists
    <2>2. /\ DOMAIN dReq' = {o} /\ DOMAIN dReq'[o] = Fields /\ dReq'[o].pc = "idle"
      BY <1>1, <2>1, ListingIdle DEF Drive!Done
    <2>3. QED
      BY <2>1, <2>2 DEF ListingInv, Consistent, Lists
  <1>9. CASE Drive!ReadRoot(r)
    <2>1. UNCHANGED <<dLib, dIndexed>>
      BY <1>9 DEF Drive!ReadRoot
    <2>2. CASE dLib.root = None
      BY <1>9, <2>1, <2>2, ListsOn DEF Drive!ReadRoot
    <2>3. CASE dLib.root # None
      <3>1. /\ DOMAIN dReq' = {o} /\ DOMAIN dReq'[o] = Fields
            /\ dReq'[o].pc = "crawl" /\ dReq'[o].folder = dLib.root
        BY <1>1, <1>9, <2>3 DEF Drive!ReadRoot, Fields
      <3>2. QED
        BY <2>1, <2>3, <3>1 DEF ListingInv, Consistent, Lists
    <2>4. QED
      BY <2>2, <2>3
  <1>10. CASE Drive!Crawled(r)
    <2>1. /\ UNCHANGED <<dLib, dIndexed>> /\ dReq[o].pc = "crawl"
          /\ DOMAIN dReq' = {o} /\ DOMAIN dReq'[o] = Fields
          /\ dReq'[o].pc = "write" /\ dReq'[o].folder = dReq[o].folder
      BY <1>1, <1>10 DEF Drive!Crawled, Drive!To, Fields
    <2>2. QED
      BY <2>1 DEF ListingInv, Consistent, Lists
  <1>11. CASE Drive!ReplaceIndexedAssets(r)
    <2>1. /\ UNCHANGED dLib /\ dReq[o].pc = "write" /\ dIndexed' = dReq[o].folder
          /\ DOMAIN dReq' = {o} /\ DOMAIN dReq'[o] = Fields /\ dReq'[o].pc = "settle"
      BY <1>1, <1>11 DEF Drive!ReplaceIndexedAssets, Drive!To, Fields
    <2>2. dIndexed' = dLib.root /\ dLib.root # None
      BY <2>1 DEF ListingInv, Lists
    <2>3. QED
      BY <2>1, <2>2 DEF ListingInv, Consistent, Lists
  <1>12. CASE Drive!Settle(r)
    <2>1. PICK s \in {"connected", "needs-attention"}: dLib' = [dLib EXCEPT !.status = s]
      BY <1>12 DEF Drive!Settle
    <2>2. /\ UNCHANGED dIndexed /\ Drive!Done(r) /\ dIndexed = dLib.root
          /\ DOMAIN dLib' = {"status", "root"} /\ dLib'.status = s /\ dLib'.root = dLib.root
      BY <1>1, <1>12, <2>1 DEF Drive!Settle, ListingInv, Lists
    <2>3. /\ DOMAIN dReq' = {o} /\ DOMAIN dReq'[o] = Fields /\ dReq'[o].pc = "idle"
      BY <1>1, <2>2, ListingIdle DEF Drive!Done
    <2>4. QED
      BY <2>1, <2>2, <2>3 DEF ListingInv, Consistent, Lists
  <1>13. QED
    BY <1>2, <1>3, <1>4, <1>5, <1>6, <1>7, <1>8, <1>9, <1>10, <1>11, <1>12
       DEF Drive!UseStep

LEMMA ListsDisconnecting ==
  ASSUME NEW o, DriveRequests = {o}, ListingInv(o), NEW r \in DriveRequests,
         Drive!DisconnectStep(r) \/ Drive!Die(r)
  PROVE  ListingInv(o)'
  <1>1. r = o /\ DOMAIN dReq = {o} /\ DOMAIN dReq[o] = Fields
    BY DEF ListingInv, Lists
  <1>2. CASE Drive!Disconnect(r)
    <2> DEFINE x == [Drive!Idle EXCEPT !.pc = "cut",
                       !.prev = IF Drive!Connected THEN {dConn.grant} ELSE {}]
    <2>1. dReq' = [dReq EXCEPT ![o] = x] /\ UNCHANGED <<dLib, dIndexed>>
      BY <1>1, <1>2 DEF Drive!Disconnect
    <2>2. DOMAIN x = Fields /\ x.pc = "cut"
      BY ListingIdle DEF Fields
    <2> HIDE DEF x
    <2>3. DOMAIN dReq' = {o} /\ dReq'[o] = x
      BY <1>1, <2>1
    <2>4. QED
      BY <2>1, <2>2, <2>3, ListsOn
  <1>3. CASE Drive!Cut(r) \/ Drive!Sever(r)
    <2>1. /\ UNCHANGED <<dLib, dIndexed>>
          /\ DOMAIN dReq' = {o} /\ DOMAIN dReq'[o] = Fields /\ dReq'[o].pc \in {"sever", "empty"}
      BY <1>1, <1>3 DEF Drive!Cut, Drive!Sever, Drive!To, Fields
    <2>2. QED
      BY <2>1, ListsOn
  <1>4. CASE Drive!Empty(r)
    <2>1. /\ dIndexed' = None /\ UNCHANGED dLib
          /\ DOMAIN dReq' = {o} /\ DOMAIN dReq'[o] = Fields /\ dReq'[o].pc = "off"
      BY <1>1, <1>4 DEF Drive!Empty, Drive!To, Fields
    <2>2. QED
      BY <2>1 DEF ListingInv, Consistent, Lists
  <1>5. CASE Drive!SwitchOff(r)
    <2>1. /\ dIndexed = None /\ UNCHANGED dIndexed /\ Drive!Done(r)
          /\ DOMAIN dLib' = {"status", "root"} /\ dLib'.status = "not-connected"
          /\ dLib'.root = None
      BY <1>1, <1>5 DEF Drive!SwitchOff, ListingInv, Lists
    <2>2. /\ DOMAIN dReq' = {o} /\ DOMAIN dReq'[o] = Fields /\ dReq'[o].pc = "idle"
      BY <1>1, <2>1, ListingIdle DEF Drive!Done
    <2>3. QED
      BY <2>1, <2>2 DEF ListingInv, Consistent, Lists
  <1>6. CASE Drive!DisconnectFails(r) \/ Drive!Die(r)
    BY <1>6, ListsOn DEF Drive!DisconnectFails, Drive!Die
  <1>7. QED
    BY <1>2, <1>3, <1>4, <1>5, <1>6 DEF Drive!DisconnectStep

(* While requests come one at a time, whatever fails and wherever the      *)
(* process dies: the files a connected library lists are of the folder it  *)
(* shows, and one that is not connected lists nothing and has no folder    *)
(* (selectRoot, index and disconnect of a content asset library).          *)
THEOREM LibraryHolds ==
  ASSUME Drive!DriveAssumption, NEW o, DriveRequests = {o}
  PROVE  Drive!Spec => [](Drive!ListsItsFolder /\ Drive!DisconnectedIsEmpty)
  <1>1. Drive!Init => ListingInv(o)
    <2> SUFFICES ASSUME Drive!Init PROVE ListingInv(o)
      OBVIOUS
    <2>1. /\ dLib.status = "not-connected" /\ dLib.root = None /\ dIndexed = None
          /\ DOMAIN dLib = {"status", "root"} /\ DOMAIN dReq = {o}
          /\ dReq[o] = Drive!Idle
      BY DEF Drive!Init
    <2>2. QED
      BY <2>1, ListingIdle DEF ListingInv, Consistent, Lists
  <1>2. ListingInv(o) /\ [Drive!Next]_(Drive!vars) => ListingInv(o)'
    <2> SUFFICES ASSUME ListingInv(o), [Drive!Next]_(Drive!vars) PROVE ListingInv(o)'
      OBVIOUS
    <2>1. CASE UNCHANGED <<dReq, dLib, dIndexed>>
      BY <2>1 DEF ListingInv, Consistent, Lists
    <2>2. CASE UNCHANGED Drive!vars \/ \E g \in Grants: Drive!Begin(g)
      BY <2>1, <2>2 DEF Drive!vars, Drive!Begin
    <2>3. None \notin Folders
      BY DEF Drive!DriveAssumption
    <2>4. QED
      BY <2>2, <2>3, ListsCompleting, ListsUsing, ListsDisconnecting DEF Drive!Next
  <1>3. ListingInv(o) => Drive!ListsItsFolder /\ Drive!DisconnectedIsEmpty
    BY DEF ListingInv, Consistent, Drive!ListsItsFolder, Drive!DisconnectedIsEmpty
  <1>4. QED
    BY <1>1, <1>2, <1>3, PTL DEF Drive!Spec
-----------------------------------------------------------------------------
(* One request at a time: what a connected library stands on and which     *)
(* secrets are left.                                                       *)
Standing == IF Drive!Connected THEN {dConn.grant} ELSE {}
Using == {"refresh", "verify", "wipe", "point", "root", "crawl", "write", "settle"}
Replaced == {"clear", "connect", "replace", "undo connection"}
Ending == {"sever", "empty", "off"}

\* The secrets that may be live besides the one of what stands.
Spare(x) ==
  CASE x.pc \in Saving -> {x.grant}
    [] x.pc \in Replaced \cup {"undo library", "undo secrets"} -> {x.grant} \cup x.prev
    [] OTHER -> {}

Usable(x) ==
  /\ dLive \subseteq Standing \cup Spare(x)
  /\ x.pc \in Using \cup Replaced => Drive!Connected
  /\ x.pc \in Replaced => dConn.grant = x.grant
  /\ x.pc = "save" => x.prev = {dConn.grant} \ {None, x.grant}
  /\ x.pc = "cut" => x.prev = Standing
  /\ x.pc \in Ending => dLive = {}
  /\ x.pc \notin {"undo library"} \cup Ending /\ dLib.status = "connected" => Drive!Connected

UsableInv(o) == DriveInv /\ DOMAIN dLib = {"status", "root"} /\ Usable(dReq[o])

\* The connection and its secrets stay; a request goes on or ends.
LEMMA UsesOn ==
  ASSUME NEW o, UsableInv(o), NEW x, x = dReq'[o], UNCHANGED <<dConn, dLive>>,
         \/ x.pc \in Using /\ dReq[o].pc \in Using
         \/ x.pc = "idle" /\ dReq[o].pc \in Using \cup {"idle"},
         dLib'.status = "connected" =>
            dLib.status = "connected" \/ dReq[o].pc \in Using
  PROVE  Usable(dReq[o])'
  <1>1. Drive!Connected' = Drive!Connected /\ Standing' = Standing
    BY DEF Drive!Connected, Standing
  <1>2. Usable(dReq[o]) /\ Spare(dReq[o]) = {} /\ Spare(x) = {}
    BY DEF UsableInv, Spare, Using, Saving, Replaced
  <1>3. /\ dLive \subseteq Standing \cup Spare(x)
        /\ x.pc \in Using => Drive!Connected
        /\ dLib'.status = "connected" => Drive!Connected
    BY <1>2 DEF Usable, Using, Ending
  <1>4. x.pc \notin Replaced \cup {"save", "cut"} \cup Ending
    BY DEF Using, Replaced, Ending
  <1>5. QED
    BY <1>1, <1>2, <1>3, <1>4 DEF Usable, Spare, Using, Saving, Replaced

LEMMA UsingUsable ==
  ASSUME NEW o, DriveRequests = {o}, UsableInv(o), NEW r \in DriveRequests,
         Drive!UseStep(r)
  PROVE  DOMAIN dLib' = {"status", "root"} /\ Usable(dReq[o])'
  <1>1. /\ r = o /\ DOMAIN dReq = {o} /\ Shaped(dReq[o]) /\ DOMAIN dReq' = {o}
        /\ DOMAIN dLib = {"status", "root"} /\ UNCHANGED <<dConn, dLive>>
    <2>1. DOMAIN dReq = {o} /\ Shaped(dReq[o]) /\ DOMAIN dLib = {"status", "root"} /\ r = o
      BY DEF UsableInv, DriveInv, Holding
    <2>2. UNCHANGED <<dConn, dLive>>
      BY DEF Drive!UseStep, Drive!Refresh, Drive!Refreshed, Drive!NeedsAttention,
         Drive!GivesUp, Drive!VerifyFolder, Drive!Wipe, Drive!PointTo, Drive!ReadRoot,
         Drive!Crawled, Drive!ReplaceIndexedAssets, Drive!Settle
    <2>3. CASE Drive!Refreshed(r)
      <3>1. dReq[r].op \in {"pick", "select", "index"}
        BY <2>1, <2>3 DEF Drive!Refreshed, Shaped
      <3>2. QED
        BY <2>1, <2>2, <2>3, <3>1 DEF Drive!Refreshed, Drive!Done, Drive!To
    <2>4. CASE \E op \in {"pick", "select", "index"}: Drive!Refresh(r, op)
      BY <2>1, <2>2, <2>4 DEF Drive!Refresh
    <2>5. CASE \E f \in Folders: Drive!VerifyFolder(r, f)
      BY <2>1, <2>2, <2>5 DEF Drive!VerifyFolder
    <2>6. CASE \/ Drive!NeedsAttention(r) \/ Drive!GivesUp(r) \/ Drive!Wipe(r)
               \/ Drive!PointTo(r) \/ Drive!Settle(r)
      BY <2>1, <2>2, <2>6 DEF Drive!NeedsAttention, Drive!GivesUp, Drive!Wipe,
         Drive!PointTo, Drive!Settle, Drive!Done, Drive!To
    <2>7. CASE Drive!ReadRoot(r) \/ Drive!Crawled(r) \/ Drive!ReplaceIndexedAssets(r)
      BY <2>1, <2>2, <2>7 DEF Drive!ReadRoot, Drive!Crawled,
         Drive!ReplaceIndexedAssets, Drive!Done, Drive!To
    <2>8. QED
      BY <2>3, <2>4, <2>5, <2>6, <2>7 DEF Drive!UseStep
  <1>2. Drive!Done(r) => dReq'[o].pc = "idle"
    BY <1>1, IdleHolds DEF Drive!Done
  <1>3. \A p: Drive!To(r, p) => dReq'[o].pc = p
    BY <1>1 DEF Drive!To, Shaped
  <1>4. ASSUME NEW op, Drive!Refresh(r, op)
        PROVE  DOMAIN dLib' = {"status", "root"} /\ Usable(dReq[o])'
    <2> DEFINE x == [Drive!Idle EXCEPT !.pc = "refresh", !.op = op, !.grant = dConn.grant]
    <2>1. dReq' = [dReq EXCEPT ![o] = x] /\ UNCHANGED dLib /\ dReq[o].pc = "idle"
          /\ Drive!Connected
      BY <1>1, <1>4 DEF Drive!Refresh
    <2>2. x.pc = "refresh"
      BY DEF Drive!Idle
    <2> HIDE DEF x
    <2>3. dReq'[o].pc = "refresh"
      BY <1>1, <2>1, <2>2
    <2>4. Drive!Connected' = Drive!Connected /\ Standing' = Standing
      BY <1>1 DEF Drive!Connected, Standing
    <2>5. QED
      BY <1>1, <2>1, <2>3, <2>4 DEF UsableInv, Usable, Spare, Using, Saving, Replaced, Ending
  <1>5. CASE \/ Drive!Refreshed(r) \/ Drive!GivesUp(r) \/ Drive!Wipe(r) \/ Drive!ReadRoot(r)
             \/ Drive!Crawled(r) \/ Drive!ReplaceIndexedAssets(r)
             \/ \E f \in Folders: Drive!VerifyFolder(r, f)
    <2>1. UNCHANGED dLib /\ dReq[o].pc \in Using
      BY <1>1, <1>5 DEF Drive!Refreshed, Drive!GivesUp, Drive!VerifyFolder, Drive!Wipe,
         Drive!ReadRoot, Drive!Crawled, Drive!ReplaceIndexedAssets, Using
    <2>2. dReq'[o].pc \in Using \cup {"idle"}
      <3>1. CASE Drive!Refreshed(r)
        <4>1. dReq[r].op \in {"pick", "select", "index"}
          BY <1>1, <3>1 DEF Drive!Refreshed, Shaped
        <4>2. QED
          BY <1>2, <1>3, <3>1, <4>1 DEF Drive!Refreshed, Using
      <3>2. CASE \E f \in Folders: Drive!VerifyFolder(r, f)
        BY <1>1, <3>2 DEF Drive!VerifyFolder, Shaped, Using
      <3>3. CASE Drive!ReadRoot(r)
        BY <1>1, <1>2, <3>3 DEF Drive!ReadRoot, Shaped, Using
      <3>4. CASE Drive!GivesUp(r) \/ Drive!Wipe(r) \/ Drive!Crawled(r)
                 \/ Drive!ReplaceIndexedAssets(r)
        BY <1>2, <1>3, <3>4 DEF Drive!GivesUp, Drive!Wipe, Drive!Crawled,
           Drive!ReplaceIndexedAssets, Using
      <3>5. QED
        BY <1>5, <3>1, <3>2, <3>3, <3>4
    <2>3. QED
      BY <1>1, <2>1, <2>2, UsesOn
  <1>6. CASE Drive!NeedsAttention(r) \/ Drive!PointTo(r) \/ Drive!Settle(r)
    <2>1. dReq[o].pc \in Using /\ dReq'[o].pc = "idle"
      BY <1>1, <1>2, <1>6 DEF Drive!NeedsAttention, Drive!PointTo, Drive!Settle, Using
    <2>2. DOMAIN dLib' = {"status", "root"}
      BY <1>1, <1>6 DEF Drive!NeedsAttention, Drive!PointTo, Drive!Settle
    <2>3. QED
      BY <1>1, <2>1, <2>2, UsesOn
  <1>7. QED
    BY <1>4, <1>5, <1>6 DEF Drive!UseStep

LEMMA CompletingUsable ==
  ASSUME NEW o, None \notin Grants, DriveRequests = {o}, Undivided, UsableInv(o),
         NEW r \in DriveRequests,
         Drive!CompleteStep(r)
  PROVE  DOMAIN dLib' = {"status", "root"} /\ Usable(dReq[o])'
  <1> USE DEF Saving, Replaced, Using, Ending
  <1>1. /\ r = o /\ DOMAIN dReq = {o} /\ Shaped(dReq[o]) /\ Usable(dReq[o])
        /\ DOMAIN dLib = {"status", "root"}
        /\ Holding(dReq[o], dIntent, dConn, dLive)
        /\ dConn \in [grant: Grants \cup {None}, revoked: BOOLEAN]
        /\ dConn.grant # None => dIntent[dConn.grant] = "used"
    BY DEF UsableInv, DriveInv, Holding
  <1>2. \A p: Drive!To(r, p) => /\ dReq'[o].pc = p /\ dReq'[o].grant = dReq[o].grant
                                /\ dReq'[o].prev = dReq[o].prev
    BY <1>1 DEF Drive!To, Shaped
  <1>3. Drive!Done(r) => dReq'[o].pc = "idle"
    BY <1>1, IdleHolds DEF Drive!Done
  <1>4. UNCHANGED dConn => Drive!Connected' = Drive!Connected /\ Standing' = Standing
    BY DEF Drive!Connected, Standing
  <1>5. ASSUME NEW g \in Grants, Drive!Authorize(r, g)
        PROVE  DOMAIN dLib' = {"status", "root"} /\ Usable(dReq[o])'
    <2>1. CASE UNCHANGED <<dLive, dReq>>
      BY <1>1, <1>4, <1>5, <2>1 DEF Drive!Authorize, Usable, Spare
    <2>2. CASE ~UNCHANGED <<dLive, dReq>>
      <3> DEFINE x == [Drive!Idle EXCEPT !.pc = "old", !.grant = g]
      <3>1. /\ dReq' = [dReq EXCEPT ![o] = x] /\ UNCHANGED <<dLib, dConn>>
            /\ dReq[o].pc = "idle" /\ dLive' = dLive \cup {g}
        BY <1>1, <1>5, <2>2 DEF Drive!Authorize
      <3>2. x.pc = "old" /\ x.grant = g
        BY DEF Drive!Idle
      <3> HIDE DEF x
      <3>3. dReq'[o].pc = "old" /\ dReq'[o].grant = g
        BY <1>1, <3>1, <3>2
      <3>4. QED
        BY <1>1, <1>4, <3>1, <3>3 DEF Usable, Spare
    <2>3. QED
      BY <2>1, <2>2
  <1>6. CASE Drive!ReadOld(r)
    <2>1. /\ dReq'[o].pc = "save" /\ dReq'[o].grant = dReq[o].grant
          /\ dReq'[o].prev = {dConn.grant} \ {None, dReq[o].grant}
          /\ dReq[o].pc = "old" /\ UNCHANGED <<dConn, dLive, dLib>>
      BY <1>1, <1>6 DEF Drive!ReadOld, Shaped
    <2>2. QED
      BY <1>1, <1>4, <2>1 DEF Usable, Spare
  <1>7. CASE Drive!SaveConnection(r)
    <2>1. /\ dReq[o].pc = "save" /\ dConn' = [grant |-> dReq[o].grant, revoked |-> FALSE]
          /\ dReq'[o].pc = "clear" /\ dReq'[o].grant = dReq[o].grant
          /\ dReq'[o].prev = dReq[o].prev /\ UNCHANGED <<dLive, dLib>>
      BY <1>1, <1>2, <1>7 DEF Drive!SaveConnection
    <2>2. dReq[o].grant \in Grants /\ dIntent[dReq[o].grant] = "used" /\ dReq[o].grant # None
      BY <1>1, <2>1 DEF Holding, Calling
    <2>3. Drive!Connected' /\ Standing' = {dReq[o].grant}
      BY <2>1, <2>2 DEF Drive!Connected, Standing
    <2>4. Standing \subseteq dReq[o].prev \cup {dReq[o].grant}
      BY <1>1, <2>1 DEF Usable, Standing, Drive!Connected
    <2>5. QED
      BY <1>1, <2>1, <2>3, <2>4 DEF Usable, Spare
  <1>8. CASE Drive!SaveFails(r)
    <2>1. /\ dReq[o].pc = "save" /\ dReq'[o].pc = "undo secrets"
          /\ dReq'[o].grant = dReq[o].grant /\ dReq'[o].prev = {}
          /\ UNCHANGED <<dConn, dLive, dLib>>
      BY <1>1, <1>8 DEF Drive!SaveFails, Undivided, Shaped
    <2>2. QED
      BY <1>1, <1>4, <2>1 DEF Usable, Spare
  <1>9. CASE Drive!ClearOld(r) \/ Drive!SetConnected(r) \/ Drive!CompleteFails(r)
    <2>1. /\ dReq[o].pc \in Replaced /\ dReq'[o].pc \in Replaced
          /\ dReq'[o].grant = dReq[o].grant /\ dReq'[o].prev = dReq[o].prev
          /\ UNCHANGED <<dConn, dLive>> /\ DOMAIN dLib' = {"status", "root"}
      BY <1>1, <1>2, <1>9 DEF Drive!ClearOld, Drive!SetConnected, Drive!CompleteFails
    <2>2. QED
      BY <1>1, <1>4, <2>1 DEF Usable, Spare
  <1>10. CASE Drive!RevokeOld(r)
    <2>1. /\ dReq[o].pc = "replace" /\ dReq'[o].pc = "idle"
          /\ dLive' = dLive \ dReq[o].prev /\ UNCHANGED <<dConn, dLib>>
      BY <1>1, <1>3, <1>10 DEF Drive!RevokeOld
    <2>2. Standing = {dReq[o].grant} /\ Drive!Connected
      BY <1>1, <2>1 DEF Usable, Standing
    <2>3. QED
      BY <1>1, <1>4, <2>1, <2>2 DEF Usable, Spare
  <1>11. CASE Drive!UndoConnection(r)
    <2>1. /\ dReq[o].pc = "undo connection" /\ dReq'[o].pc = "undo library"
          /\ dReq'[o].grant = dReq[o].grant /\ dReq'[o].prev = dReq[o].prev
          /\ UNCHANGED <<dLive, dLib>>
      BY <1>1, <1>2, <1>11 DEF Drive!UndoConnection
    <2>2. Standing = {dReq[o].grant}
      BY <1>1, <2>1 DEF Usable, Standing
    <2>3. QED
      BY <1>1, <2>1, <2>2 DEF Usable, Spare
  <1>12. CASE Drive!UndoLibrary(r)
    <2>1. ~Drive!Swallowed
      BY DEF Undivided, Drive!Swallowed
    <2>2. /\ dReq[o].pc = "undo library" /\ Drive!To(r, "undo secrets")
          /\ UNCHANGED <<dConn, dLive>>
          /\ dLib' = [status |-> "needs-attention", root |-> None]
      BY <1>12, <2>1 DEF Drive!UndoLibrary
    <2>3. /\ dReq'[o].pc = "undo secrets" /\ dReq'[o].grant = dReq[o].grant
          /\ dReq'[o].prev = dReq[o].prev
      BY <1>2, <2>2
    <2>4. DOMAIN dLib' = {"status", "root"} /\ dLib'.status = "needs-attention"
      BY <2>2
    <2>5. QED
      BY <1>1, <1>4, <2>2, <2>3, <2>4 DEF Usable, Spare
  <1>13. CASE Drive!UndoSecrets(r)
    <2>1. /\ dReq[o].pc = "undo secrets" /\ dReq'[o].pc = "idle"
          /\ dLive' = dLive \ ((dReq[o].prev \cup {dReq[o].grant}) \ {})
          /\ UNCHANGED <<dConn, dLib>>
      BY <1>1, <1>3, <1>13 DEF Drive!UndoSecrets, Undivided, Drive!Swallowed
    <2>2. QED
      BY <1>1, <1>4, <2>1 DEF Usable, Spare
  <1>14. QED
    BY <1>5, <1>6, <1>7, <1>8, <1>9, <1>10, <1>11, <1>12, <1>13 DEF Drive!CompleteStep

LEMMA DisconnectingUsable ==
  ASSUME NEW o, DriveRequests = {o}, Undivided, UsableInv(o), NEW r \in DriveRequests,
         Drive!DisconnectStep(r)
  PROVE  DOMAIN dLib' = {"status", "root"} /\ Usable(dReq[o])'
  <1> USE DEF Saving, Replaced, Using, Ending
  <1>1. /\ r = o /\ DOMAIN dReq = {o} /\ Shaped(dReq[o]) /\ Usable(dReq[o])
        /\ DOMAIN dLib = {"status", "root"}
        /\ dConn \in [grant: Grants \cup {None}, revoked: BOOLEAN]
    BY DEF UsableInv, DriveInv, Holding
  <1>2. \A p: Drive!To(r, p) => /\ dReq'[o].pc = p /\ dReq'[o].grant = dReq[o].grant
                                /\ dReq'[o].prev = dReq[o].prev
    BY <1>1 DEF Drive!To, Shaped
  <1>3. UNCHANGED dConn => Drive!Connected' = Drive!Connected /\ Standing' = Standing
    BY DEF Drive!Connected, Standing
  <1>4. CASE Drive!Disconnect(r)
    <2> DEFINE x == [Drive!Idle EXCEPT !.pc = "cut",
                       !.prev = IF Drive!Connected THEN {dConn.grant} ELSE {}]
    <2>1. /\ dReq' = [dReq EXCEPT ![o] = x] /\ UNCHANGED <<dLib, dConn, dLive>>
          /\ dReq[o].pc = "idle"
      BY <1>1, <1>4 DEF Drive!Disconnect
    <2>2. x.pc = "cut" /\ x.prev = Standing
      BY DEF Drive!Idle, Standing
    <2> HIDE DEF x
    <2>3. dReq'[o].pc = "cut" /\ dReq'[o].prev = Standing
      BY <1>1, <2>1, <2>2
    <2>4. QED
      BY <1>1, <1>3, <2>1, <2>3 DEF Usable, Spare
  <1>5. CASE Drive!Cut(r)
    <2>1. /\ dReq[o].pc = "cut" /\ dReq'[o].pc = "sever" /\ dLive' = dLive \ dReq[o].prev
          /\ UNCHANGED <<dConn, dLib>>
      BY <1>1, <1>2, <1>5 DEF Drive!Cut
    <2>2. dLive' = {}
      BY <1>1, <2>1 DEF Usable, Spare
    <2>3. QED
      BY <1>1, <1>3, <2>1, <2>2 DEF Usable, Spare
  <1>6. CASE Drive!Sever(r) \/ Drive!Empty(r)
    <2>1. /\ dReq[o].pc \in Ending /\ dReq'[o].pc \in Ending
          /\ UNCHANGED <<dLive, dLib>>
      BY <1>1, <1>2, <1>6 DEF Drive!Sever, Drive!Empty
    <2>2. QED
      BY <1>1, <2>1 DEF Usable, Spare
  <1>7. CASE Drive!SwitchOff(r)
    <2>1. /\ dReq[o].pc = "off" /\ UNCHANGED <<dConn, dLive>>
          /\ dLib' = [status |-> "not-connected", root |-> None] /\ Drive!Done(r)
      BY <1>1, <1>7 DEF Drive!SwitchOff
    <2>2. dReq'[o].pc = "idle" /\ dLive' = {}
          /\ DOMAIN dLib' = {"status", "root"} /\ dLib'.status = "not-connected"
      BY <1>1, <2>1, IdleHolds DEF Drive!Done, Usable
    <2>3. QED
      BY <2>2 DEF Usable, Spare
  <1>8. CASE Drive!DisconnectFails(r)
    BY <1>8 DEF Drive!DisconnectFails, Undivided
  <1>9. QED
    BY <1>4, <1>5, <1>6, <1>7, <1>8 DEF Drive!DisconnectStep

(* While requests come one at a time: a library shown as connected has a   *)
(* connection that stands and its secret, and no other secret of it is     *)
(* left, wherever complete failed and was undone (complete with its        *)
(* compensation, selectRoot, index and disconnect of a content asset       *)
(* library).                                                               *)
THEOREM UsableHolds ==
  ASSUME Drive!DriveAssumption, Undivided, NEW o, DriveRequests = {o}
  PROVE  Drive!Spec => [](Drive!ConnectedIsUsable /\ Drive!NoSecretLeft)
  <1>1. Drive!Init => UsableInv(o)
    <2> SUFFICES ASSUME Drive!Init PROVE UsableInv(o)
      OBVIOUS
    <2>1. DriveInv
      BY DriveBegins DEF Drive!DriveAssumption
    <2>2. /\ dLive = {} /\ dLib.status = "not-connected" /\ DOMAIN dLib = {"status", "root"}
          /\ dReq[o].pc = "idle"
      BY IdleHolds DEF Drive!Init
    <2>3. Usable(dReq[o])
      BY <2>2 DEF Usable, Using, Replaced, Ending
    <2>4. QED
      BY <2>1, <2>2, <2>3 DEF UsableInv
  <1>2. UsableInv(o) /\ [Drive!Next]_(Drive!vars) => UsableInv(o)'
    <2> SUFFICES ASSUME UsableInv(o), [Drive!Next]_(Drive!vars) PROVE UsableInv(o)'
      OBVIOUS
    <2>1. DriveInv'
      BY DriveStep DEF UsableInv, Drive!DriveAssumption
    <2>2. CASE UNCHANGED Drive!vars \/ \E g \in Grants: Drive!Begin(g)
      <3>1. UNCHANGED <<dConn, dLive, dLib, dReq>>
        BY <2>2 DEF Drive!vars, Drive!Begin
      <3>2. QED
        BY <2>1, <3>1 DEF UsableInv, Usable, Spare, Standing, Drive!Connected
    <2>3. ASSUME NEW r \in DriveRequests, Drive!Die(r) PROVE FALSE
      BY <2>3 DEF Drive!Die, Undivided
    <2>4. ASSUME NEW r \in DriveRequests,
                 Drive!CompleteStep(r) \/ Drive!UseStep(r) \/ Drive!DisconnectStep(r)
          PROVE  UsableInv(o)'
      BY <2>1, <2>4, CompletingUsable, UsingUsable, DisconnectingUsable
      DEF UsableInv, Drive!DriveAssumption
    <2>5. QED
      BY <2>2, <2>3, <2>4 DEF Drive!Next
  <1>3. UsableInv(o) => Drive!ConnectedIsUsable /\ Drive!NoSecretLeft
    <2> SUFFICES ASSUME UsableInv(o), dReq[o].pc = "idle"
                 PROVE  /\ dLib.status = "connected" => Drive!Connected /\ dConn.grant \in dLive
                        /\ dLive \subseteq IF Drive!Connected THEN {dConn.grant} ELSE {}
      BY DEF Drive!ConnectedIsUsable, Drive!NoSecretLeft, Drive!Quiet
    <2>1. dLive \subseteq Standing
      BY DEF UsableInv, Usable, Spare, Saving, Replaced
    <2>2. dLib.status = "connected" => Drive!Connected
      BY DEF UsableInv, Usable, Ending
    <2>3. Drive!Connected => dConn.grant \in dLive
      BY DEF UsableInv, DriveInv, Stands, Drive!Connected
    <2>4. QED
      BY <2>1, <2>2, <2>3 DEF Standing
  <1>4. QED
    BY <1>1, <1>2, <1>3, PTL DEF Drive!Spec
-----------------------------------------------------------------------------
(* The walk of a Drive, for any folders that share and contain each other, *)
(* any paging and any limits.                                              *)
CONSTANTS Files, Root, Drives, Limits
VARIABLES wDrive, wLimits, wQueue, wVisited, wAssets, wPages, wPartial, wNow,
          wLeft, wPage, wMore, wPc

Crawl == INSTANCE DriveCrawl WITH
  drive <- wDrive, limits <- wLimits, queue <- wQueue, visited <- wVisited,
  assets <- wAssets, pages <- wPages, partial <- wPartial, now <- wNow,
  left <- wLeft, page <- wPage, more <- wMore, pc <- wPc

Entry == [id: Folders, depth: Nat]
Given ==
  /\ wDrive \in [sub: [Folders -> SUBSET Folders], in: [Files -> Folders],
                 opaque: SUBSET Crawl!Items]
  /\ wLimits \in [assets: Nat, folders: Nat, pages: Nat, depth: Nat]

\* Inside the limits: what is queued will fit when it is visited.
Bounds ==
  /\ wQueue \in Seq(Entry) /\ IsFiniteSet(wVisited)
  /\ \A i \in DOMAIN wQueue: wQueue[i].depth <= wLimits.depth
  /\ wNow.depth \in Nat /\ wNow.depth <= wLimits.depth
  /\ wPages \in Nat /\ wPages <= wLimits.pages
  /\ Len(wAssets) <= wLimits.assets
  /\ Cardinality(wVisited) + Len(wQueue) <= wLimits.folders

\* What was listed is of folders that were visited, and what a page or the
\* rest of a folder still shows was not listed.
Fresh ==
  /\ wAssets \in Seq(Files)
  /\ \A i \in DOMAIN wAssets: /\ wDrive.in[wAssets[i]] \in wVisited
                              /\ wAssets[i] \notin wLeft \cup wPage
  /\ Crawl!ListedOnce
  /\ wLeft \cap wPage = {}
  /\ wPc \in {"fetch", "items"} =>
       /\ wNow.id \in wVisited
       /\ \A x \in (wLeft \cup wPage) \cap Files: wDrive.in[x] = wNow.id
  /\ wPc # "items" => wPage = {}

CrawlInv == Given /\ Bounds /\ Fresh

LEMMA SameCount ==
  ASSUME NEW S PROVE Crawl!Cardinality(S) = Cardinality(S)
  BY DEF Cardinality, Crawl!Cardinality

LEMMA Folder ==
  ASSUME CrawlInv, Crawl!CrawlAssumption, Crawl!NextFolder
  PROVE  CrawlInv'
  <1> DEFINE h == Head(wQueue)
  <1>1. /\ wQueue \in Seq(Entry) /\ wQueue # <<>> /\ IsFiniteSet(wVisited)
        /\ wQueue' = Tail(wQueue) /\ wPc = "next" /\ wPage = {}
        /\ UNCHANGED <<wDrive, wLimits, wAssets, wPages, wPage>>
    BY DEF CrawlInv, Bounds, Fresh, Crawl!NextFolder, Crawl!given
  <1>2. /\ h \in Entry /\ h = wQueue[1] /\ 1 \in DOMAIN wQueue
        /\ Len(wQueue') = Len(wQueue) - 1 /\ Len(wQueue) \in Nat \ {0}
        /\ wQueue' \in Seq(Entry)
        /\ \A i \in DOMAIN wQueue': i + 1 \in DOMAIN wQueue /\ wQueue'[i] = wQueue[i + 1]
    BY <1>1
  <1>3. \A i \in DOMAIN wQueue': wQueue'[i].depth <= wLimits.depth
    BY <1>2 DEF CrawlInv, Bounds
  <1>4. Cardinality(wVisited) \in Nat
    BY <1>1, FS_CardinalityType
  <1>5. CASE h.id \in wVisited
    <2>1. UNCHANGED <<wVisited, wNow, wLeft, wPc>>
      BY <1>5 DEF Crawl!NextFolder
    <2>2. Given' /\ Bounds'
      BY <1>1, <1>2, <1>3, <1>4, <2>1 DEF CrawlInv, Given, Bounds
    <2>3. Fresh'
      BY <1>1, <2>1 DEF CrawlInv, Fresh, Crawl!ListedOnce
    <2>4. QED
      BY <2>2, <2>3 DEF CrawlInv
  <1>6. CASE h.id \notin wVisited
    <2>1. /\ wVisited' = wVisited \cup {h.id} /\ wNow' = h
          /\ wLeft' = Crawl!Inside(h.id) /\ wPc' = "fetch"
      BY <1>6 DEF Crawl!NextFolder
    <2>2. /\ IsFiniteSet(wVisited')
          /\ Cardinality(wVisited') = Cardinality(wVisited) + 1
      BY <1>1, <1>6, <2>1, FS_AddElement
    <2>3. wNow'.depth \in Nat /\ wNow'.depth <= wLimits.depth
      BY <1>2, <2>1 DEF CrawlInv, Bounds, Entry
    <2>4. Cardinality(wVisited') + Len(wQueue') <= wLimits'.folders
      BY <1>1, <1>2, <1>4, <2>2 DEF CrawlInv, Bounds
    <2>9. Given' /\ Bounds'
      <3>1. Given' /\ wQueue' \in Seq(Entry)
        BY <1>1, <1>2 DEF CrawlInv, Given
      <3>2. \A i \in DOMAIN wQueue': wQueue'[i].depth <= wLimits'.depth
        BY <1>1, <1>3
      <3>3. /\ wPages' \in Nat /\ wPages' <= wLimits'.pages
            /\ Len(wAssets') <= wLimits'.assets
        BY <1>1 DEF CrawlInv, Bounds
      <3>4. wNow'.depth \in Nat /\ wNow'.depth <= wLimits'.depth
        BY <1>1, <2>3
      <3>5. IsFiniteSet(wVisited')
        BY <2>2
      <3>6. QED
        BY ONLY <2>4, <3>1, <3>2, <3>3, <3>4, <3>5, Zenon DEF Bounds
    <2>5. \A x \in wLeft' \cap Files: wDrive.in[x] = h.id
      <3>1. h.id \in Folders
        BY <1>2 DEF Entry
      <3>2. wDrive.sub[h.id] \subseteq Folders
        BY <3>1 DEF CrawlInv, Given
      <3>3. Folders \cap Files = {}
        BY DEF Crawl!CrawlAssumption
      <3> HIDE DEF h
      <3>4. QED
        BY <2>1, <3>2, <3>3 DEF Crawl!Inside
    <2>6. ASSUME NEW i \in DOMAIN wAssets PROVE wAssets[i] \notin wLeft'
      <3>1. wAssets[i] \in Files /\ wDrive.in[wAssets[i]] \in wVisited
        BY <2>6 DEF CrawlInv, Fresh
      <3>2. QED
        BY <1>6, <2>5, <3>1
    <2>7. Fresh'
      BY <1>1, <2>1, <2>5, <2>6 DEF CrawlInv, Fresh, Crawl!ListedOnce
    <2>8. QED
      BY <2>9, <2>7 DEF CrawlInv
  <1>7. QED
    BY <1>5, <1>6

\* Steps that list nothing, put nothing in the queue and show no item that
\* was not left.
LEMMA Otherwise ==
  ASSUME CrawlInv, Crawl!CrawlAssumption,
         \/ Crawl!Finish \/ Crawl!Stop \/ Crawl!Fetch \/ Crawl!FetchRefused
         \/ Crawl!FetchFails \/ Crawl!PageDone
  PROVE  CrawlInv'
  <1>1. UNCHANGED <<wDrive, wLimits, wQueue, wVisited, wAssets, wNow>>
    BY DEF Crawl!Finish, Crawl!Stop, Crawl!Fetch, Crawl!FetchRefused,
       Crawl!FetchFails, Crawl!PageDone, Crawl!given, Crawl!walk
  <1>2. wPages' = wPages \/ (wPages' = wPages + 1 /\ ~Crawl!Enough)
    BY DEF Crawl!Finish, Crawl!Stop, Crawl!Fetch, Crawl!FetchRefused,
       Crawl!FetchFails, Crawl!PageDone
  <1>3. wPages' \in Nat /\ wPages' <= wLimits.pages
    BY <1>2 DEF Crawl!Enough, CrawlInv, Bounds, Given
  <1>4. Given' /\ Bounds'
    BY <1>1, <1>3 DEF CrawlInv, Given, Bounds
  <1>5. Fresh'
    <2>1. CASE Crawl!Fetch
      <3>1. PICK shown \in SUBSET wLeft: wPage' = shown /\ wLeft' = wLeft \ shown
        BY <2>1 DEF Crawl!Fetch
      <3>2. wPc = "fetch" /\ wPc' = "items" /\ wLeft' \cup wPage' = wLeft
        BY <2>1, <3>1 DEF Crawl!Fetch
      <3>3. QED
        BY <1>1, <3>1, <3>2 DEF CrawlInv, Fresh, Crawl!ListedOnce
    <2>2. CASE Crawl!PageDone
      BY <1>1, <2>2 DEF Crawl!PageDone, CrawlInv, Fresh, Crawl!ListedOnce
    <2>3. CASE Crawl!Finish \/ Crawl!Stop \/ Crawl!FetchRefused \/ Crawl!FetchFails
      <3>1. /\ UNCHANGED <<wLeft, wPage>> /\ wPc \in {"next", "fetch"}
            /\ wPc' \in {"next", "done", "failed"}
        BY <2>3 DEF Crawl!Finish, Crawl!Stop, Crawl!FetchRefused, Crawl!FetchFails
      <3>2. QED
        BY <1>1, <3>1 DEF CrawlInv, Fresh, Crawl!ListedOnce
    <2>4. QED
      BY <2>1, <2>2, <2>3
  <1>6. QED
    BY <1>4, <1>5 DEF CrawlInv

\* An item leaves the page; what is listed stays.
LEMMA Skipped ==
  ASSUME CrawlInv, wPc = "items", wPage' \subseteq wPage,
         UNCHANGED <<wDrive, wVisited, wAssets, wNow, wLeft, wPc>>
  PROVE  Fresh'
  BY DEF CrawlInv, Fresh, Crawl!ListedOnce

LEMMA FolderIs ==
  ASSUME CrawlInv, NEW x \in Crawl!Items, Crawl!FolderItem(x)
  PROVE  CrawlInv'
  <1>1. /\ wPc = "items" /\ x \in Folders /\ wPage' = wPage \ {x}
        /\ UNCHANGED <<wDrive, wLimits, wVisited, wAssets, wPages, wNow, wLeft, wPc>>
    BY DEF Crawl!FolderItem, Crawl!given
  <1>2. /\ wQueue \in Seq(Entry) /\ Len(wQueue) \in Nat
        /\ Cardinality(wVisited) \in Nat /\ wLimits.folders \in Nat
        /\ wNow.depth \in Nat /\ wLimits.depth \in Nat
    BY FS_CardinalityType DEF CrawlInv, Bounds, Given
  <1>3. Bounds'
    <2>1. CASE wQueue' = wQueue
      BY <1>1, <2>1 DEF CrawlInv, Bounds
    <2>2. CASE wQueue' # wQueue
      <3> DEFINE e == [id |-> x, depth |-> wNow.depth + 1]
      <3>1. /\ wNow.depth < wLimits.depth
            /\ Len(wQueue) + Cardinality(wVisited) < wLimits.folders
            /\ wQueue' = Append(wQueue, e)
        BY <2>2, SameCount DEF Crawl!FolderItem, Crawl!Enqueue
      <3>2. e \in Entry /\ e.depth <= wLimits.depth
        BY <1>1, <1>2, <3>1 DEF Entry
      <3> HIDE DEF e
      <3>3. /\ wQueue' \in Seq(Entry) /\ Len(wQueue') = Len(wQueue) + 1
            /\ \A i \in DOMAIN wQueue':
                 (i \in DOMAIN wQueue /\ wQueue'[i] = wQueue[i]) \/ wQueue'[i] = e
        BY <1>2, <3>1, <3>2
      <3>4. Cardinality(wVisited') + Len(wQueue') <= wLimits'.folders
        BY <1>1, <1>2, <3>1, <3>3
      <3>5. QED
        BY <1>1, <3>2, <3>3, <3>4 DEF CrawlInv, Bounds
    <2>3. QED
      BY <2>1, <2>2
  <1>4. Given' /\ Fresh'
    BY <1>1, Skipped DEF CrawlInv, Given
  <1>5. QED
    BY <1>3, <1>4 DEF CrawlInv

LEMMA FileIs ==
  ASSUME CrawlInv, NEW x \in Crawl!Items, Crawl!FileItem(x)
  PROVE  CrawlInv'
  <1>1. /\ wPc = "items" /\ x \in Files /\ x \in wPage /\ wPage' \subseteq wPage
        /\ UNCHANGED <<wDrive, wLimits, wQueue, wVisited, wPages, wNow, wLeft, wPc>>
    BY DEF Crawl!FileItem, Crawl!given
  <1>2. CASE wAssets' = wAssets
    BY <1>1, <1>2, Skipped DEF CrawlInv, Given, Bounds
  <1>3. CASE wAssets' # wAssets
    <2>1. /\ Len(wAssets) < wLimits.assets \/ ~(Len(wAssets) >= wLimits.assets)
          /\ wAssets' = Append(wAssets, x) /\ wPage' = wPage \ {x}
      BY <1>3 DEF Crawl!FileItem
    <2>2. /\ wAssets \in Seq(Files) /\ wLimits.assets \in Nat
      BY DEF CrawlInv, Fresh, Given
    <2>3. /\ wAssets' \in Seq(Files) /\ Len(wAssets') = Len(wAssets) + 1
          /\ Len(wAssets') <= wLimits.assets
          /\ DOMAIN wAssets' = DOMAIN wAssets \cup {Len(wAssets')}
          /\ wAssets'[Len(wAssets')] = x
          /\ \A i \in DOMAIN wAssets: wAssets'[i] = wAssets[i]
      BY <1>1, <2>1, <2>2
    <2>4. \A i \in DOMAIN wAssets: wAssets[i] # x
      BY <1>1 DEF CrawlInv, Fresh
    <2>5. Crawl!ListedOnce'
      BY <2>3, <2>4 DEF CrawlInv, Fresh, Crawl!ListedOnce
    <2>6. /\ wDrive.in[x] \in wVisited
          /\ x \notin wLeft \cup wPage'
      BY <1>1, <2>1 DEF CrawlInv, Fresh
    <2>7. \A i \in DOMAIN wAssets': /\ wDrive'.in[wAssets'[i]] \in wVisited'
                                    /\ wAssets'[i] \notin wLeft' \cup wPage'
      BY <1>1, <2>3, <2>6 DEF CrawlInv, Fresh
    <2>8. Fresh'
      BY <1>1, <2>3, <2>5, <2>7 DEF CrawlInv, Fresh
    <2>9. Given' /\ Bounds'
      BY <1>1, <2>3 DEF CrawlInv, Given, Bounds
    <2>10. QED
      BY <2>8, <2>9 DEF CrawlInv
  <1>4. QED
    BY <1>2, <1>3

LEMMA CrawlBegins ==
  ASSUME Crawl!CrawlAssumption, \A l \in Limits: l.folders # 0, Crawl!Init
  PROVE  CrawlInv
  <1>1. Given /\ wLimits.folders # 0
    BY DEF Crawl!Init, Crawl!CrawlAssumption, Given
  <1>2. Bounds
    <2> DEFINE e == [id |-> Root, depth |-> 0]
    <2>1. wQueue = <<e>> /\ wVisited = {} /\ wNow.depth = 0 /\ wPages = 0 /\ wAssets = <<>>
      BY DEF Crawl!Init
    <2>2. e \in Entry /\ e.depth = 0
      BY DEF Entry, Crawl!CrawlAssumption
    <2> HIDE DEF e
    <2>3. wQueue \in Seq(Entry) /\ Len(wQueue) = 1 /\ \A i \in DOMAIN wQueue: wQueue[i] = e
      BY <2>1, <2>2
    <2>4. IsFiniteSet(wVisited) /\ Cardinality(wVisited) = 0
      BY <2>1, FS_EmptySet
    <2>5. QED
      BY <1>1, <2>1, <2>2, <2>3, <2>4 DEF Bounds, Given
  <1>3. Fresh
    BY DEF Crawl!Init, Fresh, Crawl!ListedOnce
  <1>4. QED
    BY <1>1, <1>2, <1>3 DEF CrawlInv

(* The walk lists no file twice and stays inside its four limits, on any   *)
(* Drive, however its folders share and contain each other and however it  *)
(* pages, if it may list a folder at all (listAssets).                     *)
THEOREM CrawlHolds ==
  ASSUME Crawl!CrawlAssumption, \A l \in Limits: l.folders # 0
  PROVE  Crawl!Spec => [](Crawl!ListedOnce /\ Crawl!Bounded)
  <1>1. Crawl!Init => CrawlInv
    BY CrawlBegins
  <1>2. CrawlInv /\ [Crawl!Next]_(Crawl!vars) => CrawlInv'
    <2> SUFFICES ASSUME CrawlInv, [Crawl!Next]_(Crawl!vars) PROVE CrawlInv'
      OBVIOUS
    <2>1. CASE UNCHANGED Crawl!vars
      BY <2>1 DEF Crawl!vars, CrawlInv, Given, Bounds, Fresh, Crawl!ListedOnce
    <2>2. QED
      BY <2>1, Folder, Otherwise, FolderIs, FileIs DEF Crawl!Next
  <1>3. CrawlInv => Crawl!ListedOnce /\ Crawl!Bounded
    <2>1. CrawlInv => Crawl!ListedOnce
      BY DEF CrawlInv, Fresh
    <2>2. CrawlInv => Crawl!Bounded
      BY SameCount DEF CrawlInv, Bounds, Crawl!Bounded
    <2>3. QED
      BY <2>1, <2>2
  <1>4. QED
    BY <1>1, <1>2, <1>3, PTL DEF Crawl!Spec

-----------------------------------------------------------------------------
(* A walk that does not say it was partial: every folder it knows is below *)
(* the root, and what is inside a folder it visited is known or listed,    *)
(* but for what the folder it is listing has still to show.                *)
Queued == {wQueue[i].id: i \in DOMAIN wQueue}
Known == wVisited \cup Queued
Listing == wPc \in {"fetch", "items"}
Rest == IF Listing THEN wLeft \cup wPage ELSE {}

BelowRoot ==
  /\ wVisited \subseteq Folders
  /\ \A C \in SUBSET Folders: Crawl!HoldsRoot(C) => Known \subseteq C
  /\ Listing => (wLeft \cup wPage) \cap Folders \subseteq wDrive.sub[wNow.id]

AllSeen ==
  /\ Root \in Known
  /\ \A f \in wVisited: wDrive.sub[f] \subseteq Known \cup Rest
  /\ \A x \in Files: wDrive.in[x] \in wVisited => x \in Crawl!Listed \cup Rest
  /\ wPc = "items" /\ ~wMore => wLeft = {}
  /\ wPc = "done" => wQueue = <<>>

WalkInv ==
  /\ CrawlInv /\ BelowRoot
  /\ ~wPartial /\ wPc # "failed" => AllSeen

LEMMA FolderSeen ==
  ASSUME WalkInv, Crawl!CrawlAssumption, Crawl!NextFolder
  PROVE  WalkInv'
  <1> DEFINE h == Head(wQueue)
  <1>1. /\ wQueue \in Seq(Entry) /\ wQueue # <<>> /\ wPc = "next" /\ wPage = {}
        /\ wQueue' = Tail(wQueue)
        /\ UNCHANGED <<wDrive, wAssets, wPage, wPartial, wMore>>
    BY DEF WalkInv, CrawlInv, Bounds, Fresh, Crawl!NextFolder, Crawl!given
  <1>2. /\ h \in Entry /\ h = wQueue[1] /\ 1 \in DOMAIN wQueue /\ h.id \in Folders
        /\ \A i \in DOMAIN wQueue': i + 1 \in DOMAIN wQueue /\ wQueue'[i] = wQueue[i + 1]
        /\ \A i \in DOMAIN wQueue: i = 1 \/ (i - 1 \in DOMAIN wQueue' /\ wQueue'[i - 1] = wQueue[i])
    <2>1. h \in Entry /\ h = wQueue[1] /\ 1 \in DOMAIN wQueue
      BY <1>1
    <2>2. /\ Len(wQueue) \in Nat \ {0} /\ Len(wQueue') = Len(wQueue) - 1
          /\ wQueue' \in Seq(Entry)
          /\ \A i \in 1..Len(wQueue'): wQueue'[i] = wQueue[i + 1]
      BY <1>1
    <2>3. h.id \in Folders
      BY <2>1 DEF Entry
    <2>4. DOMAIN wQueue = 1..Len(wQueue) /\ DOMAIN wQueue' = 1..Len(wQueue')
      BY <1>1, <2>2
    <2>5. QED
      BY <2>1, <2>2, <2>3, <2>4
  <1> HIDE DEF h
  <1>3. Queued = Queued' \cup {h.id}
    <2>1. Queued' \subseteq Queued /\ h.id \in Queued
      BY <1>2 DEF Queued
    <2>2. ASSUME NEW f \in Queued PROVE f \in Queued' \cup {h.id}
      <3>1. PICK i \in DOMAIN wQueue: f = wQueue[i].id
        BY DEF Queued
      <3>2. QED
        BY <3>1, <1>2 DEF Queued
    <2>3. QED
      BY <2>1, <2>2
  <1>4. Crawl!Listed' = Crawl!Listed /\ \A C: Crawl!HoldsRoot(C)' <=> Crawl!HoldsRoot(C)
    BY <1>1 DEF Crawl!Listed, Crawl!HoldsRoot
  <1>5. CrawlInv'
    BY Folder DEF WalkInv
  <1>6. CASE h.id \in wVisited
    <2>1. UNCHANGED <<wVisited, wNow, wLeft, wPc>>
      BY <1>6 DEF Crawl!NextFolder, h
    <2>2. Known' = Known /\ ~Listing /\ ~Listing'
      BY <1>1, <1>3, <1>6, <2>1 DEF Known, Listing
    <2>3. QED
      BY <1>1, <1>4, <1>5, <2>1, <2>2 DEF WalkInv, BelowRoot, AllSeen, Rest
  <1>7. CASE h.id \notin wVisited
    <2>1. /\ wVisited' = wVisited \cup {h.id} /\ wNow' = h
          /\ wLeft' = Crawl!Inside(h.id) /\ wPc' = "fetch"
      BY <1>7 DEF Crawl!NextFolder, h
    <2>2. Known' = Known /\ ~Listing /\ Listing'
      BY <1>1, <1>3, <2>1 DEF Known, Listing
    <2>3. /\ wDrive.sub[h.id] \subseteq wLeft' /\ wLeft' \cap Folders \subseteq wDrive.sub[h.id]
          /\ \A x \in Files: wDrive.in[x] = h.id => x \in wLeft'
      BY <2>1 DEF Crawl!Inside, Crawl!CrawlAssumption
    <2>4. BelowRoot'
      <3>1. wVisited' \subseteq Folders
        BY <1>2, <2>1 DEF WalkInv, BelowRoot
      <3>2. \A C \in SUBSET Folders: Crawl!HoldsRoot(C)' => Known' \subseteq C
        BY <1>4, <2>2 DEF WalkInv, BelowRoot
      <3>3. (wLeft' \cup wPage') \cap Folders \subseteq wDrive'.sub[wNow'.id]
        BY <1>1, <2>1, <2>3
      <3>4. QED
        BY <3>1, <3>2, <3>3 DEF BelowRoot
    <2>5. Rest' = wLeft' /\ Rest = {}
      BY <1>1, <2>1, <2>2 DEF Rest
    <2>6. AllSeen => AllSeen'
      BY <1>1, <1>4, <2>1, <2>2, <2>3, <2>5 DEF AllSeen
    <2>7. QED
      BY <1>1, <1>5, <2>1, <2>4, <2>6 DEF WalkInv
  <1>8. QED
    BY <1>6, <1>7

LEMMA OtherwiseSeen ==
  ASSUME WalkInv, Crawl!CrawlAssumption,
         \/ Crawl!Finish \/ Crawl!Stop \/ Crawl!Fetch \/ Crawl!FetchRefused
         \/ Crawl!FetchFails \/ Crawl!PageDone
  PROVE  WalkInv'
  <1>1. UNCHANGED <<wDrive, wQueue, wVisited, wAssets, wNow>>
    BY DEF Crawl!Finish, Crawl!Stop, Crawl!Fetch, Crawl!FetchRefused,
       Crawl!FetchFails, Crawl!PageDone, Crawl!given, Crawl!walk
  <1>2. /\ Crawl!Listed' = Crawl!Listed /\ Known' = Known
        /\ \A C: Crawl!HoldsRoot(C)' <=> Crawl!HoldsRoot(C)
    BY <1>1 DEF Crawl!Listed, Crawl!HoldsRoot, Known, Queued
  <1>3. CrawlInv'
    BY Otherwise DEF WalkInv
  <1>4. CASE Crawl!Fetch
    <2>1. PICK shown \in SUBSET wLeft, again \in BOOLEAN, incomplete \in BOOLEAN:
            /\ again \/ incomplete \/ shown = wLeft
            /\ wPage' = shown /\ wLeft' = wLeft \ shown
            /\ wMore' = again /\ wPartial' = (wPartial \/ incomplete)
      BY <1>4, Zenon DEF Crawl!Fetch
    <2>2. wPc = "fetch" /\ wPc' = "items"
      BY <1>4 DEF Crawl!Fetch
    <2>3. wPage = {} /\ wLeft' \cup wPage' = wLeft \cup wPage
      BY <2>1, <2>2 DEF WalkInv, CrawlInv, Fresh
    <2>4. /\ Rest' = Rest
          /\ Listing /\ Listing'
      BY <1>1, <2>2, <2>3 DEF Rest, Listing
    <2>5. ~wPartial' => ~wPartial /\ ~incomplete
      BY <2>1, Zenon
    <2>6. ~wPartial' /\ ~wMore' => wLeft' = {}
      <3>1. ~wPartial' /\ ~wMore' => shown = wLeft
        BY <2>1, <2>5, Zenon
      <3>2. QED
        BY <3>1, <2>1
    <2>7. BelowRoot'
      BY <1>1, <1>2, <2>3, <2>4 DEF WalkInv, BelowRoot
    <2>8. ~wPartial' => AllSeen'
      BY <1>1, <1>2, <2>2, <2>4, <2>5, <2>6 DEF WalkInv, AllSeen
    <2>9. QED
      BY <1>3, <2>7, <2>8 DEF WalkInv
  <1>5. CASE Crawl!PageDone
    <2>1. /\ wPc = "items" /\ wPage = {} /\ UNCHANGED <<wLeft, wPage, wMore, wPartial>>
          /\ wPc' = IF wMore THEN "fetch" ELSE "next"
      BY <1>5 DEF Crawl!PageDone, Crawl!walk
    <2>2. BelowRoot'
      BY <1>1, <1>2, <2>1 DEF WalkInv, BelowRoot, Listing
    <2>3. AllSeen => AllSeen'
      <3>1. CASE wMore
        <4>1. wPc' = "fetch"
          BY <2>1, <3>1
        <4>2. Rest' = Rest
          BY <1>1, <2>1, <4>1 DEF Rest, Listing
        <4>3. QED
          BY <1>1, <1>2, <2>1, <4>1, <4>2 DEF AllSeen
      <3>2. CASE ~wMore
        <4>1. wPc' = "next"
          BY <2>1, <3>2
        <4>2. AllSeen => Rest = {} /\ Rest' = {}
          BY <1>1, <2>1, <3>2, <4>1 DEF Rest, Listing, AllSeen
        <4>3. QED
          BY <1>1, <1>2, <2>1, <4>1, <4>2 DEF AllSeen
      <3>3. QED
        BY <3>1, <3>2
    <2>4. QED
      BY <1>3, <2>1, <2>2, <2>3 DEF WalkInv
  <1>6. CASE Crawl!Finish
    <2>1. /\ wPc = "next" /\ wPc' = "done"
          /\ wPartial' = (wPartial \/ wQueue # <<>>)
      BY <1>6, Zenon DEF Crawl!Finish
    <2>2. ~wPartial' => ~wPartial /\ wQueue = <<>>
      BY <2>1, Zenon
    <2>3. ~Listing /\ ~Listing' /\ Rest = {} /\ Rest' = {}
      BY <2>1 DEF Listing, Rest
    <2>4. BelowRoot'
      BY <1>1, <1>2, <2>3 DEF WalkInv, BelowRoot
    <2>5. ~wPartial' => AllSeen'
      BY <1>1, <1>2, <2>1, <2>2, <2>3 DEF WalkInv, AllSeen
    <2>6. QED
      BY <1>3, <2>4, <2>5 DEF WalkInv
  <1>7. CASE Crawl!Stop \/ Crawl!FetchRefused \/ Crawl!FetchFails
    <2>1. /\ wPc' \in {"next", "failed"}
          /\ wPartial' = TRUE \/ wPc' = "failed"
      BY <1>7 DEF Crawl!Stop, Crawl!FetchRefused, Crawl!FetchFails
    <2>2. BelowRoot'
      BY <1>1, <1>2, <2>1 DEF WalkInv, BelowRoot, Listing
    <2>3. QED
      BY <1>3, <2>1, <2>2 DEF WalkInv
  <1>8. QED
    BY <1>4, <1>5, <1>6, <1>7

LEMMA FolderIsSeen ==
  ASSUME WalkInv, Crawl!CrawlAssumption, NEW x \in Crawl!Items, Crawl!FolderItem(x)
  PROVE  WalkInv'
  <1>1. /\ wPc = "items" /\ x \in Folders /\ x \in wPage /\ wPage' = wPage \ {x}
        /\ UNCHANGED <<wDrive, wVisited, wAssets, wNow, wLeft, wMore, wPc>>
    BY DEF Crawl!FolderItem, Crawl!given
  <1>2. /\ Crawl!Listed' = Crawl!Listed
        /\ \A C: Crawl!HoldsRoot(C)' <=> Crawl!HoldsRoot(C)
    BY <1>1 DEF Crawl!Listed, Crawl!HoldsRoot
  <1>3. CrawlInv'
    BY FolderIs DEF WalkInv
  <1>4. /\ Listing /\ Listing' /\ x \in wDrive.sub[wNow.id] /\ wNow.id \in wVisited
        /\ x \notin Files
    BY <1>1 DEF Listing, WalkInv, BelowRoot, CrawlInv, Fresh, Crawl!CrawlAssumption
  <1>5. Known' = Known \/ Known' = Known \cup {x}
    <2>1. CASE wQueue' = wQueue
      BY <1>1, <2>1 DEF Known, Queued
    <2>2. CASE wQueue' # wQueue
      <3> DEFINE e == [id |-> x, depth |-> wNow.depth + 1]
      <3>1. wQueue' = Append(wQueue, e)
        BY <2>2 DEF Crawl!FolderItem, Crawl!Enqueue
      <3>2. e.id = x
        OBVIOUS
      <3> HIDE DEF e
      <3>3. wQueue \in Seq(Entry)
        BY DEF WalkInv, CrawlInv, Bounds
      <3>4. /\ Len(wQueue) + 1 \in DOMAIN wQueue' /\ wQueue'[Len(wQueue) + 1] = e
            /\ \A i \in DOMAIN wQueue: i \in DOMAIN wQueue' /\ wQueue'[i] = wQueue[i]
            /\ \A i \in DOMAIN wQueue':
                 (i \in DOMAIN wQueue /\ wQueue'[i] = wQueue[i]) \/ wQueue'[i] = e
        BY <3>1, <3>3
      <3>5. Queued' = Queued \cup {x}
        <4>1. x \in Queued' /\ Queued \subseteq Queued'
          BY <3>2, <3>4 DEF Queued
        <4>2. ASSUME NEW f \in Queued' PROVE f \in Queued \cup {x}
          <5>1. PICK i \in DOMAIN wQueue': f = wQueue'[i].id
            BY DEF Queued
          <5>2. QED
            BY <3>2, <3>4, <5>1 DEF Queued
        <4>3. QED
          BY <4>1, <4>2
      <3>6. QED
        BY <1>1, <3>5 DEF Known
    <2>3. QED
      BY <2>1, <2>2
  <1>6. BelowRoot'
    <2>1. ASSUME NEW C \in SUBSET Folders, Crawl!HoldsRoot(C) PROVE Known' \subseteq C
      <3>1. Known \subseteq C /\ wNow.id \in C
        BY <1>4, <2>1 DEF WalkInv, BelowRoot, Known
      <3>2. x \in C
        BY <1>4, <2>1, <3>1 DEF Crawl!HoldsRoot
      <3>3. QED
        BY <1>5, <3>1, <3>2
    <2>2. QED
      BY <1>1, <1>2, <1>4, <2>1 DEF WalkInv, BelowRoot
  <1>7. ASSUME ~wPartial', wPc' # "failed" PROVE AllSeen'
    <2>1. ~wPartial /\ x \in Known'
      <3>1. \/ wPartial' = TRUE
            \/ UNCHANGED wPartial /\ wQueue' = Append(wQueue, [id |-> x, depth |-> wNow.depth + 1])
        BY Zenon DEF Crawl!FolderItem, Crawl!Enqueue
      <3> DEFINE e == [id |-> x, depth |-> wNow.depth + 1]
      <3>2. UNCHANGED wPartial /\ wQueue' = Append(wQueue, e)
        BY <3>1, <1>7
      <3>3. e.id = x /\ wQueue \in Seq(Entry)
        BY DEF WalkInv, CrawlInv, Bounds
      <3> HIDE DEF e
      <3>4. Len(wQueue) + 1 \in DOMAIN wQueue' /\ wQueue'[Len(wQueue) + 1] = e
        BY <3>2, <3>3
      <3>5. QED
        BY <3>2, <3>3, <3>4, <1>7 DEF Known, Queued
    <2>2. AllSeen
      BY <1>1, <1>7, <2>1 DEF WalkInv
    <2>3. /\ Rest \subseteq Rest' \cup {x}
          /\ Known \subseteq Known'
      BY <1>1, <1>4, <1>5 DEF Rest
    <2>4. Root \in Known' /\ \A f \in wVisited': wDrive'.sub[f] \subseteq Known' \cup Rest'
      BY <1>1, <2>1, <2>2, <2>3 DEF AllSeen
    <2>5. \A y \in Files: wDrive'.in[y] \in wVisited' => y \in Crawl!Listed' \cup Rest'
      BY <1>1, <1>2, <1>4, <2>2, <2>3 DEF AllSeen
    <2>6. QED
      BY <1>1, <2>2, <2>4, <2>5 DEF AllSeen
  <1>8. QED
    BY <1>3, <1>6, <1>7 DEF WalkInv

LEMMA FileIsSeen ==
  ASSUME WalkInv, Crawl!CrawlAssumption, NEW x \in Crawl!Items, Crawl!FileItem(x)
  PROVE  WalkInv'
  <1>1. /\ wPc = "items" /\ x \in Files /\ x \in wPage /\ wPage' \subseteq wPage
        /\ UNCHANGED <<wDrive, wQueue, wVisited, wNow, wLeft, wMore, wPc>>
    BY DEF Crawl!FileItem, Crawl!given
  <1>2. /\ Known' = Known /\ Listing /\ Listing' /\ x \notin Folders
        /\ \A C: Crawl!HoldsRoot(C)' <=> Crawl!HoldsRoot(C)
    BY <1>1 DEF Known, Queued, Listing, Crawl!HoldsRoot, Crawl!CrawlAssumption
  <1>3. CrawlInv'
    BY FileIs DEF WalkInv
  <1>4. BelowRoot'
    BY <1>1, <1>2 DEF WalkInv, BelowRoot
  <1>5. ASSUME ~wPartial', wPc' # "failed" PROVE AllSeen'
    <2>1. /\ UNCHANGED wPartial /\ wAssets' = Append(wAssets, x) /\ wPage' = wPage \ {x}
      <3>1. \/ wPartial' = TRUE
            \/ UNCHANGED wPartial /\ wAssets' = Append(wAssets, x) /\ wPage' = wPage \ {x}
        BY DEF Crawl!FileItem
      <3>2. QED
        BY <3>1, <1>5
    <2>2. AllSeen
      BY <1>1, <1>5, <2>1 DEF WalkInv
    <2>3. Crawl!Listed \subseteq Crawl!Listed' /\ x \in Crawl!Listed'
      <3>1. wAssets \in Seq(Files)
        BY DEF WalkInv, CrawlInv, Fresh
      <3>2. /\ Len(wAssets) + 1 \in DOMAIN wAssets' /\ wAssets'[Len(wAssets) + 1] = x
            /\ \A i \in DOMAIN wAssets: i \in DOMAIN wAssets' /\ wAssets'[i] = wAssets[i]
        BY <2>1, <3>1
      <3>3. QED
        BY <3>2 DEF Crawl!Listed
    <2>4. Rest \subseteq Rest' \cup {x}
      BY <1>1, <1>2, <2>1 DEF Rest
    <2>5. wDrive \in [sub: [Folders -> SUBSET Folders], in: [Files -> Folders],
                      opaque: SUBSET Crawl!Items] /\ wVisited \subseteq Folders
      BY DEF WalkInv, CrawlInv, Given, BelowRoot
    <2>6. \A f \in wVisited: wDrive.sub[f] \subseteq Folders
      BY <2>5
    <2>7. \A f \in wVisited: wDrive.sub[f] \subseteq Known \cup Rest'
      BY <1>2, <2>2, <2>4, <2>6 DEF AllSeen
    <2>8. \A y \in Files: wDrive.in[y] \in wVisited => y \in Crawl!Listed' \cup Rest'
      BY <2>2, <2>3, <2>4 DEF AllSeen
    <2>9. QED
      BY <1>1, <1>2, <2>2, <2>7, <2>8 DEF AllSeen
  <1>6. QED
    BY <1>3, <1>4, <1>5 DEF WalkInv

(* A walk that ends and does not say it was partial has listed every file  *)
(* below the folder that was chosen, and no other, on any Drive, with any  *)
(* paging and limits (the partial flag of listAssets).                     *)
THEOREM CrawlIsComplete ==
  ASSUME Crawl!CrawlAssumption, \A l \in Limits: l.folders # 0
  PROVE  Crawl!Spec => []Crawl!CompleteUnlessPartial
  <1>1. Crawl!Init => WalkInv
    <2> SUFFICES ASSUME Crawl!Init PROVE WalkInv
      OBVIOUS
    <2>1. CrawlInv
      BY CrawlBegins
    <2> DEFINE e == [id |-> Root, depth |-> 0]
    <2>2. /\ wQueue = <<e>> /\ wVisited = {} /\ wPc = "next"
      BY DEF Crawl!Init
    <2>3. e.id = Root
      OBVIOUS
    <2> HIDE DEF e
    <2>4. DOMAIN wQueue = {1} /\ wQueue[1] = e
      BY <2>2
    <2>5. Known = {Root}
      BY <2>2, <2>3, <2>4 DEF Known, Queued
    <2>6. BelowRoot /\ AllSeen
      BY <2>2, <2>5 DEF BelowRoot, AllSeen, Crawl!HoldsRoot, Listing
    <2>7. QED
      BY <2>1, <2>6 DEF WalkInv
  <1>2. WalkInv /\ [Crawl!Next]_(Crawl!vars) => WalkInv'
    <2> SUFFICES ASSUME WalkInv, [Crawl!Next]_(Crawl!vars) PROVE WalkInv'
      OBVIOUS
    <2>1. CASE UNCHANGED Crawl!vars
      <3>1. CrawlInv'
        BY <2>1 DEF Crawl!vars, WalkInv, CrawlInv, Given, Bounds, Fresh, Crawl!ListedOnce
      <3>2. UNCHANGED <<wDrive, wQueue, wVisited, wAssets, wPartial, wNow, wLeft, wPage,
                        wMore, wPc>>
        BY <2>1 DEF Crawl!vars
      <3>3. /\ Known' = Known /\ Rest' = Rest /\ Crawl!Listed' = Crawl!Listed
            /\ Listing' = Listing /\ \A C: Crawl!HoldsRoot(C)' <=> Crawl!HoldsRoot(C)
        BY <3>2 DEF Known, Queued, Listing, Rest, Crawl!HoldsRoot, Crawl!Listed
      <3>4. BelowRoot' /\ (AllSeen => AllSeen')
        BY <3>2, <3>3 DEF WalkInv, BelowRoot, AllSeen
      <3>5. QED
        BY <3>1, <3>2, <3>4 DEF WalkInv
    <2>2. QED
      BY <2>1, FolderSeen, OtherwiseSeen, FolderIsSeen, FileIsSeen DEF Crawl!Next
  <1>3. WalkInv => Crawl!CompleteUnlessPartial
    <2> SUFFICES ASSUME WalkInv, wPc = "done", ~wPartial
                 PROVE  Crawl!Listed = {x \in Files: wDrive.in[x] \in Crawl!Reachable}
      BY DEF Crawl!CompleteUnlessPartial
    <2>1. AllSeen /\ BelowRoot /\ Fresh /\ wVisited \subseteq Folders
      BY DEF WalkInv, BelowRoot, CrawlInv
    <2>2. Known = wVisited /\ Rest = {}
      BY <2>1 DEF AllSeen, Known, Queued, Rest, Listing
    <2>3. Crawl!HoldsRoot(wVisited)
      BY <2>1, <2>2 DEF AllSeen, Crawl!HoldsRoot
    <2>4. Crawl!Reachable = wVisited
      BY <2>1, <2>2, <2>3 DEF Crawl!Reachable, BelowRoot
    <2>5. \A x \in Files: wDrive.in[x] \in wVisited => x \in Crawl!Listed
      BY <2>1, <2>2 DEF AllSeen
    <2>6. \A x \in Crawl!Listed: x \in Files /\ wDrive.in[x] \in wVisited
      BY <2>1 DEF Fresh, Crawl!Listed
    <2>7. QED
      BY <2>4, <2>5, <2>6
  <1>4. QED
    BY <1>1, <1>2, <1>3, PTL DEF Crawl!Spec

=============================================================================
