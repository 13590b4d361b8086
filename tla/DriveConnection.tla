-------------------------- MODULE DriveConnection --------------------------
(***************************************************************************)
(* Connecting a Google Drive to a content asset library: the OAuth         *)
(* callback, the choice of a folder, the index of its files, disconnecting *)
(* (GoogleDriveContentAssetService and its PostgreSQL stores).             *)
(*                                                                         *)
(* There is one library.  Each call of a store or of the provider is a     *)
(* step and any two requests interleave.  A grant names an OAuth state and *)
(* the credential its callback stores.  The crawl of the folder is in      *)
(* DriveCrawl; here it is one step that may be partial.                    *)
(***************************************************************************)
EXTENDS FiniteSets

CONSTANTS
  Grants,    \* OAuth states handed out for the library
  Folders,   \* folders of the Drive
  Requests,  \* requests of the routes, each used many times
  MayFail,   \* what may go wrong, a subset of Faults
  None

(* A store call of complete, its answer, a step of its compensation, a     *)
(* step of disconnect, one of index or selectRoot, the provider, the       *)
(* provider's authorization, the process.                                  *)
Faults == {"complete", "reply", "compensation", "disconnect", "store",
           "provider", "authorization", "process"}

DriveAssumption ==
  MayFail \subseteq Faults /\ None \notin Grants \cup Folders

VARIABLES
  intent,   \* content_asset_oauth_intents
  conn,     \* the row of content_asset_provider_connections
  live,     \* content_asset_credentials that are not revoked
  lib,      \* status and external_root_ref of the library
  indexed,  \* the folder content_library_assets was filled from
  req       \* the request each handler is serving

vars == <<intent, conn, live, lib, indexed, req>>

(* getConnection finds a row. *)
Connected == conn.grant # None /\ ~conn.revoked

Phase == {"idle", "old", "save", "clear", "connect", "replace",
          "undo connection", "undo library", "undo secrets",
          "refresh", "verify", "wipe", "point", "root", "crawl", "write",
          "settle", "cut", "sever", "empty", "off"}
Request ==
  [pc: Phase, op: {"none", "pick", "select", "index"},
   grant: Grants \cup {None}, prev: SUBSET Grants, folder: Folders \cup {None}]
Idle == [pc |-> "idle", op |-> "none", grant |-> None, prev |-> {},
         folder |-> None]

Init ==
  /\ intent = [g \in Grants |-> "none"]
  /\ conn = [grant |-> None, revoked |-> FALSE]
  /\ live = {}
  /\ lib = [status |-> "not-connected", root |-> None]
  /\ indexed = None
  /\ req = [r \in Requests |-> Idle]

Done(r) == req' = [req EXCEPT ![r] = Idle]
To(r, pc) == req' = [req EXCEPT ![r].pc = pc]
-----------------------------------------------------------------------------
Begin(g) ==
  /\ intent[g] = "none"
  /\ intent' = [intent EXCEPT ![g] = "open"]
  /\ UNCHANGED <<conn, live, lib, indexed, req>>

(* complete: the state is used up, the code exchanged, the secret stored. *)
Authorize(r, g) ==
  /\ req[r].pc = "idle"
  /\ intent[g] = "open"
  /\ intent' = [intent EXCEPT ![g] = "used"]
  /\ \/ /\ live' = live \cup {g}
        /\ req' = [req EXCEPT ![r] = [Idle EXCEPT !.pc = "old", !.grant = g]]
     \/ UNCHANGED <<live, req>>
  /\ UNCHANGED <<conn, lib, indexed>>

(* saveConnection: the old credential is read without a lock. *)
ReadOld(r) ==
  /\ req[r].pc = "old"
  /\ req' = [req EXCEPT ![r].pc = "save",
                        ![r].prev = {conn.grant} \ {None, req[r].grant}]
  /\ UNCHANGED <<intent, conn, live, lib, indexed>>

SaveConnection(r) ==
  /\ req[r].pc = "save"
  /\ conn' = [grant |-> req[r].grant, revoked |-> FALSE]
  /\ To(r, "clear")
  /\ UNCHANGED <<intent, live, lib, indexed>>

(* saveConnection throws, perhaps after its commit: prev is not returned.  *)
SaveFails(r) ==
  /\ req[r].pc = "save"
  /\ \/ "complete" \in MayFail /\ UNCHANGED conn
     \/ /\ "reply" \in MayFail
        /\ conn' = [grant |-> req[r].grant, revoked |-> FALSE]
  /\ req' = [req EXCEPT ![r].pc = "undo secrets", ![r].prev = {}]
  /\ UNCHANGED <<intent, live, lib, indexed>>

(* The files and the root of what was connected before are dropped. *)
ClearOld(r) ==
  /\ req[r].pc = "clear"
  /\ indexed' = None
  /\ To(r, "connect")
  /\ UNCHANGED <<intent, conn, live, lib>>

SetConnected(r) ==
  /\ req[r].pc = "connect"
  /\ lib' = [status |-> "connected", root |-> None]
  /\ To(r, "replace")
  /\ UNCHANGED <<intent, conn, live, indexed>>

RevokeOld(r) ==
  /\ req[r].pc = "replace"
  /\ live' = live \ req[r].prev
  /\ Done(r)
  /\ UNCHANGED <<intent, conn, lib, indexed>>

CompleteFails(r) ==
  /\ req[r].pc \in {"clear", "connect", "replace"}
  /\ "complete" \in MayFail
  /\ To(r, "undo connection")
  /\ UNCHANGED <<intent, conn, live, lib, indexed>>

(* The compensation: every step swallows its own error. *)
Swallowed == "compensation" \in MayFail

Revoked == [conn EXCEPT !.revoked = TRUE]

UndoConnection(r) ==
  /\ req[r].pc = "undo connection"
  /\ conn' = Revoked \/ (Swallowed /\ UNCHANGED conn)
  /\ To(r, "undo library")
  /\ UNCHANGED <<intent, live, lib, indexed>>

UndoLibrary(r) ==
  /\ req[r].pc = "undo library"
  /\ \/ lib' = [status |-> "needs-attention", root |-> None]
     \/ Swallowed /\ UNCHANGED lib
  /\ To(r, "undo secrets")
  /\ UNCHANGED <<intent, conn, live, indexed>>

UndoSecrets(r) ==
  LET mine == req[r].prev \cup {req[r].grant} IN
  /\ req[r].pc = "undo secrets"
  /\ \E kept \in IF Swallowed THEN SUBSET mine ELSE {{}}:
       live' = live \ (mine \ kept)
  /\ Done(r)
  /\ UNCHANGED <<intent, conn, lib, indexed>>
-----------------------------------------------------------------------------
(* pickerConfig, selectRoot and index begin with refreshAccess. *)
Refresh(r, op) ==
  /\ req[r].pc = "idle"
  /\ Connected
  /\ op = "index" => lib.root # None
  /\ req' = [req EXCEPT ![r] = [Idle EXCEPT !.pc = "refresh", !.op = op,
                                            !.grant = conn.grant]]
  /\ UNCHANGED <<intent, conn, live, lib, indexed>>

Refreshed(r) ==
  /\ req[r].pc = "refresh"
  /\ req[r].grant \in live
  /\ CASE req[r].op = "pick" -> Done(r)
       [] req[r].op = "select" -> To(r, "verify")
       [] req[r].op = "index" -> To(r, "root")
  /\ UNCHANGED <<intent, conn, live, lib, indexed>>

(* handleProviderError: the secret is gone or Google no longer accepts it. *)
NeedsAttention(r) ==
  /\ \/ req[r].pc = "refresh" /\ req[r].grant \notin live
     \/ req[r].pc \in {"refresh", "verify", "crawl"}
        /\ "authorization" \in MayFail
  /\ lib' = [lib EXCEPT !.status = "needs-attention"]
  /\ Done(r)
  /\ UNCHANGED <<intent, conn, live, indexed>>

(* An outage, a folder that cannot be listed, or a store that fails. *)
GivesUp(r) ==
  /\ \/ req[r].pc \in {"refresh", "verify", "crawl"} /\ "provider" \in MayFail
     \/ req[r].pc \in {"wipe", "point", "write", "settle"}
        /\ "store" \in MayFail
  /\ Done(r)
  /\ UNCHANGED <<intent, conn, live, lib, indexed>>

(* selectRoot *)
VerifyFolder(r, f) ==
  /\ req[r].pc = "verify"
  /\ req' = [req EXCEPT ![r].pc = "wipe", ![r].folder = f]
  /\ UNCHANGED <<intent, conn, live, lib, indexed>>

Wipe(r) ==
  /\ req[r].pc = "wipe"
  /\ indexed' = None
  /\ To(r, "point")
  /\ UNCHANGED <<intent, conn, live, lib>>

PointTo(r) ==
  /\ req[r].pc = "point"
  /\ lib' = [status |-> "connected", root |-> req[r].folder]
  /\ Done(r)
  /\ UNCHANGED <<intent, conn, live, indexed>>

(* index: replaceFromConnector reads the root once more, then crawls it. *)
ReadRoot(r) ==
  /\ req[r].pc = "root"
  /\ IF lib.root = None THEN Done(r)
     ELSE req' = [req EXCEPT ![r].pc = "crawl", ![r].folder = lib.root]
  /\ UNCHANGED <<intent, conn, live, lib, indexed>>

Crawled(r) ==
  /\ req[r].pc = "crawl"
  /\ To(r, "write")
  /\ UNCHANGED <<intent, conn, live, lib, indexed>>

ReplaceIndexedAssets(r) ==
  /\ req[r].pc = "write"
  /\ indexed' = req[r].folder
  /\ To(r, "settle")
  /\ UNCHANGED <<intent, conn, live, lib>>

(* The crawl was partial or not. *)
Settle(r) ==
  /\ req[r].pc = "settle"
  /\ \E s \in {"connected", "needs-attention"}:
       lib' = [lib EXCEPT !.status = s]
  /\ Done(r)
  /\ UNCHANGED <<intent, conn, live, indexed>>
-----------------------------------------------------------------------------
Disconnect(r) ==
  /\ req[r].pc = "idle"
  /\ req' = [req EXCEPT ![r] =
               [Idle EXCEPT !.pc = "cut",
                            !.prev = IF Connected THEN {conn.grant} ELSE {}]]
  /\ UNCHANGED <<intent, conn, live, lib, indexed>>

Cut(r) ==
  /\ req[r].pc = "cut"
  /\ live' = live \ req[r].prev
  /\ To(r, "sever")
  /\ UNCHANGED <<intent, conn, lib, indexed>>

Sever(r) ==
  /\ req[r].pc = "sever"
  /\ conn' = Revoked
  /\ To(r, "empty")
  /\ UNCHANGED <<intent, live, lib, indexed>>

Empty(r) ==
  /\ req[r].pc = "empty"
  /\ indexed' = None
  /\ To(r, "off")
  /\ UNCHANGED <<intent, conn, live, lib>>

(* (mutant) no clearRoot *)
SwitchOffKeepsRoot(r) ==
  /\ req[r].pc = "off"
  /\ lib' = [lib EXCEPT !.status = "not-connected"]
  /\ Done(r)
  /\ UNCHANGED <<intent, conn, live, indexed>>

SwitchOff(r) ==
  /\ req[r].pc = "off"
  /\ lib' = [status |-> "not-connected", root |-> None]
  /\ Done(r)
  /\ UNCHANGED <<intent, conn, live, indexed>>

DisconnectFails(r) ==
  /\ req[r].pc \in {"cut", "sever", "empty", "off"}
  /\ "disconnect" \in MayFail
  /\ Done(r)
  /\ UNCHANGED <<intent, conn, live, lib, indexed>>

Die(r) ==
  /\ req[r].pc # "idle"
  /\ "process" \in MayFail
  /\ Done(r)
  /\ UNCHANGED <<intent, conn, live, lib, indexed>>
-----------------------------------------------------------------------------
CompleteStep(r) ==
  \/ \E g \in Grants: Authorize(r, g)
  \/ ReadOld(r) \/ SaveConnection(r) \/ SaveFails(r) \/ ClearOld(r)
  \/ SetConnected(r) \/ RevokeOld(r) \/ CompleteFails(r)
  \/ UndoConnection(r) \/ UndoLibrary(r) \/ UndoSecrets(r)

UseStep(r) ==
  \/ \E op \in {"pick", "select", "index"}: Refresh(r, op)
  \/ Refreshed(r) \/ NeedsAttention(r) \/ GivesUp(r)
  \/ \E f \in Folders: VerifyFolder(r, f)
  \/ Wipe(r) \/ PointTo(r)
  \/ ReadRoot(r) \/ Crawled(r) \/ ReplaceIndexedAssets(r) \/ Settle(r)

DisconnectStep(r) ==
  \/ Disconnect(r) \/ Cut(r) \/ Sever(r) \/ Empty(r) \/ SwitchOff(r)
  \/ DisconnectFails(r)

Next ==
  \/ \E g \in Grants: Begin(g)
  \/ \E r \in Requests:
       CompleteStep(r) \/ UseStep(r) \/ DisconnectStep(r) \/ Die(r)

Spec == Init /\ [][Next]_vars
-----------------------------------------------------------------------------
TypeOK ==
  /\ intent \in [Grants -> {"none", "open", "used"}]
  /\ conn \in [grant: Grants \cup {None}, revoked: BOOLEAN]
  /\ live \subseteq Grants
  /\ lib \in [status: {"not-connected", "connected", "needs-attention"},
              root: Folders \cup {None}]
  /\ indexed \in Folders \cup {None}
  /\ req \in [Requests -> Request]

Quiet == \A r \in Requests: req[r].pc = "idle"

(* A library shown as connected can be used: its connection stands and the *)
(* secret of it is in the vault (complete with its compensation, selectRoot, *)
(* index and disconnect together).                                         *)
ConnectedIsUsable ==
  Quiet /\ lib.status = "connected" => Connected /\ conn.grant \in live

(* The vault keeps no refresh token but the one of the standing            *)
(* connection: every other one is revoked, whatever complete replaced and  *)
(* wherever it failed.                                                     *)
NoSecretLeft ==
  Quiet => live \subseteq (IF Connected THEN {conn.grant} ELSE {})

(* The files a connected library lists come from the folder it shows. *)
ListsItsFolder ==
  Quiet /\ lib.status = "connected" => indexed \in {None, lib.root}

(* disconnect clears stale metadata: a library that is not connected lists *)
(* no file and has no folder.                                              *)
DisconnectedIsEmpty ==
  Quiet /\ lib.status = "not-connected" => indexed = None /\ lib.root = None

(* However two callbacks, their compensations and a disconnect interleave, *)
(* none of them revokes the secret of the connection that stands.          *)
StandingHasItsSecret ==
  Quiet /\ Connected => conn.grant \in live
=============================================================================
