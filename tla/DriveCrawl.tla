----------------------------- MODULE DriveCrawl -----------------------------
(***************************************************************************)
(* The walk of a Google Drive folder (GoogleDriveContentConnector,         *)
(* listAssets): breadth first, page by page, within four limits, and with  *)
(* a flag that tells the library whether anything was left out.            *)
(*                                                                         *)
(* The Drive is any graph of folders, cycles and shared folders included;  *)
(* an opaque item is a folder that may not be listed or an item without a  *)
(* name or type.  Drive may answer any page of what it has not yet listed. *)
(***************************************************************************)
EXTENDS Integers, Sequences, FiniteSets

CONSTANTS Folders, Files, Root, None,
  Drives,  \* what the provider may hold
  Limits   \* the configurations: maxAssets, maxFolders, maxPages, maxDepth

Items == Folders \cup Files

CrawlAssumption ==
  /\ Root \in Folders
  /\ None \notin Folders
  /\ Folders \cap Files = {}
  /\ Drives \subseteq [sub: [Folders -> SUBSET Folders],
                       in: [Files -> Folders], opaque: SUBSET Items]
  /\ Limits \subseteq [assets: Nat, folders: Nat, pages: Nat, depth: Nat]

VARIABLES
  drive,    \* the folders in each folder, where each file is, what is opaque
  limits,
  queue,    \* folders to list, with their depth
  visited,
  assets,   \* in the order they were listed
  pages,    \* pages asked for
  partial,
  now,      \* the folder being listed, with its depth
  left,     \* its items no page has shown yet
  page,     \* items of the page that are not handled yet
  more,     \* nextPageToken
  pc

vars == <<drive, limits, queue, visited, assets, pages, partial, now, left,
          page, more, pc>>
walk == <<queue, visited, assets, partial>>
given == <<drive, limits>>

Inside(f) == drive.sub[f] \cup {x \in Files: drive.in[x] = f}

Init ==
  /\ drive \in Drives
  /\ limits \in Limits
  /\ queue = <<[id |-> Root, depth |-> 0]>>
  /\ visited = {}
  /\ assets = <<>>
  /\ pages = 0
  /\ partial = FALSE
  /\ now = [id |-> None, depth |-> 0]
  /\ left = {}
  /\ page = {}
  /\ more = FALSE
  /\ pc = "next"
-----------------------------------------------------------------------------
WithinLimits ==
  /\ Len(assets) < limits.assets
  /\ Cardinality(visited) < limits.folders
  /\ pages < limits.pages

NextFolder ==
  /\ pc = "next"
  /\ queue # <<>>
  /\ WithinLimits
  /\ queue' = Tail(queue)
  /\ IF Head(queue).id \in visited
     THEN UNCHANGED <<visited, now, left, pc>>
     ELSE /\ visited' = visited \cup {Head(queue).id}
          /\ now' = Head(queue)
          /\ left' = Inside(Head(queue).id)
          /\ pc' = "fetch"
  /\ UNCHANGED <<given, assets, pages, partial, page, more>>

Finish ==
  /\ pc = "next"
  /\ queue = <<>> \/ ~WithinLimits
  /\ partial' = (partial \/ queue # <<>>)
  /\ pc' = "done"
  /\ UNCHANGED <<given, queue, visited, assets, pages, now, left, page, more>>

(* Another page is due but a limit is reached. *)
Enough == pages >= limits.pages \/ Len(assets) >= limits.assets

Stop ==
  /\ pc = "fetch"
  /\ Enough
  /\ partial' = TRUE
  /\ pc' = "next"
  /\ UNCHANGED <<given, queue, visited, assets, pages, now, left, page, more>>

(* A page; without another one to come, unless the search was incomplete,  *)
(* it shows all that is left.                                              *)
Fetch ==
  /\ pc = "fetch"
  /\ ~Enough
  /\ pages' = pages + 1
  /\ \E shown \in SUBSET left, again \in BOOLEAN, incomplete \in BOOLEAN:
       /\ again \/ incomplete \/ shown = left
       /\ page' = shown
       /\ left' = left \ shown
       /\ more' = again
       /\ partial' = (partial \/ incomplete)
  /\ pc' = "items"
  /\ UNCHANGED <<given, queue, visited, assets, now>>

(* A folder below the root that the user may not list is skipped. *)
FetchRefused ==
  /\ pc = "fetch"
  /\ ~Enough
  /\ now.depth > 0
  /\ pages' = pages + 1
  /\ partial' = TRUE
  /\ pc' = "next"
  /\ UNCHANGED <<given, queue, visited, assets, now, left, page, more>>

(* Any other error ends the walk: listAssets throws. *)
FetchFails ==
  /\ pc = "fetch"
  /\ ~Enough
  /\ pages' = pages + 1
  /\ pc' = "failed"
  /\ UNCHANGED <<given, walk, now, left, page, more>>

Enqueue(x) ==
  IF /\ now.depth < limits.depth
     /\ x \notin drive.opaque
     /\ Len(queue) + Cardinality(visited) < limits.folders
  THEN /\ queue' = Append(queue, [id |-> x, depth |-> now.depth + 1])
       /\ UNCHANGED partial
  ELSE partial' = TRUE /\ UNCHANGED queue

FolderItem(x) ==
  /\ pc = "items"
  /\ x \in page \cap Folders
  /\ Enqueue(x)
  /\ page' = page \ {x}
  /\ UNCHANGED <<given, visited, assets, pages, now, left, more, pc>>

(* With maxAssets reached, the rest of the page is not looked at. *)
FileItem(x) ==
  /\ pc = "items"
  /\ x \in page \cap Files
  /\ IF x \in drive.opaque
     THEN /\ partial' = TRUE
          /\ page' = page \ {x}
          /\ UNCHANGED assets
     ELSE IF Len(assets) >= limits.assets
     THEN /\ partial' = TRUE
          /\ page' = {}
          /\ UNCHANGED assets
     ELSE /\ assets' = Append(assets, x)
          /\ page' = page \ {x}
          /\ UNCHANGED partial
  /\ UNCHANGED <<given, queue, visited, pages, now, left, more, pc>>

PageDone ==
  /\ pc = "items"
  /\ page = {}
  /\ pc' = IF more THEN "fetch" ELSE "next"
  /\ UNCHANGED <<given, walk, pages, now, left, page, more>>

Next ==
  \/ NextFolder \/ Finish \/ Stop \/ Fetch \/ FetchRefused \/ FetchFails
  \/ \E x \in Items: FolderItem(x) \/ FileItem(x)
  \/ PageDone

Spec == Init /\ [][Next]_vars /\ WF_vars(Next)
-----------------------------------------------------------------------------
TypeOK ==
  /\ drive \in Drives /\ limits \in Limits
  /\ queue \in Seq([id: Folders, depth: Nat])
  /\ visited \subseteq Folders
  /\ assets \in Seq(Files)
  /\ pages \in Nat /\ {partial, more} \subseteq BOOLEAN
  /\ now \in [id: Folders \cup {None}, depth: Nat]
  /\ left \subseteq Items /\ page \subseteq Items
  /\ pc \in {"next", "fetch", "items", "done", "failed"}

Listed == {assets[i]: i \in DOMAIN assets}
(* The root and what is below it: the least set with the root that has the *)
(* folders inside each of its folders.                                     *)
HoldsRoot(C) == Root \in C /\ \A f \in C: drive.sub[f] \subseteq C
Reachable == {f \in Folders: \A C \in SUBSET Folders: HoldsRoot(C) => f \in C}

(* An index that is not flagged as partial, which makes the library        *)
(* "connected", has every file below the folder, whatever the shape of the *)
(* Drive, the paging and the limits (the partial flag of listAssets).      *)
CompleteUnlessPartial ==
  pc = "done" /\ ~partial =>
    Listed = {x \in Files: drive.in[x] \in Reachable}

(* No file is listed twice, even when folders are shared or nested in each *)
(* other: the unique key of content_library_assets would abort the index.  *)
ListedOnce ==
  \A i, j \in DOMAIN assets: assets[i] = assets[j] => i = j

(* The walk stays inside its four limits. *)
Bounded ==
  /\ Len(assets) <= limits.assets
  /\ pages <= limits.pages
  /\ Cardinality(visited) + Len(queue) <= limits.folders
  /\ now.depth <= limits.depth

(* The walk ends, on a Drive with cycles and with empty pages too. *)
Ends == <>(pc \in {"done", "failed"})
=============================================================================
