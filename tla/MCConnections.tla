---------------------------- MODULE MCConnections ----------------------------
(***************************************************************************)
(* The connections of a brand on small instances, one at a time: a Meta    *)
(* account with everything that may go wrong ("connect"), with a vault,    *)
(* stores and imports that fail ("single") and with two requests ("race",  *)
(* of which this module extends the component); a Google                   *)
(* Drive with every fault ("drive"), with those its compensation is meant  *)
(* for ("undo") and with two requests ("library"); the walk of the folders *)
(* of a Drive ("crawl"); and what is measured of a post of the account by  *)
(* two processes of one name ("metrics").                                  *)
(***************************************************************************)
EXTENDS ChannelConnection, TLC

CONSTANTS i1, i2, t1, t2, r1, r2, g1, g2, g3, f1, f2

VARIABLES part,
          cIntent, cExpired, cCandidates, cSelected, cLive, cAccount, cReq,
          dIntent, dConn, dLive, dLib, dIndexed, dReq,
          wDrive, wLimits, wQueue, wVisited, wAssets, wPages, wPartial, wNow,
          wLeft, wPage, wMore, wPc,
          mPublished, mAccount, mRevoked, mJob, mProcess, mSnapshots, mFaults

AllFaults == {"vault", "store", "reply", "import", "compensation", "disconnect", "process"}
DriveFaults == {"complete", "reply", "compensation", "disconnect", "store",
                "provider", "authorization", "process"}

Connect == INSTANCE ChannelConnection WITH
  intent <- cIntent, expired <- cExpired, candidates <- cCandidates,
  selected <- cSelected, live <- cLive, account <- cAccount, req <- cReq,
  Intents <- {i1}, Targets <- {t1}, Requests <- {r1, r2}, MetaRequests <- {r2},
  MayFail <- AllFaults
Single == INSTANCE ChannelConnection WITH
  intent <- cIntent, expired <- cExpired, candidates <- cCandidates,
  selected <- cSelected, live <- cLive, account <- cAccount, req <- cReq,
  Intents <- {i1, i2}, Targets <- {t1, t2}, Requests <- {r1}, MetaRequests <- {},
  MayFail <- {"vault", "store", "import"}
Drive == INSTANCE DriveConnection WITH
  intent <- dIntent, conn <- dConn, live <- dLive, lib <- dLib,
  indexed <- dIndexed, req <- dReq,
  Grants <- {g1, g2, g3}, Folders <- {f1, f2}, Requests <- {r1},
  MayFail <- DriveFaults
Undo == INSTANCE DriveConnection WITH
  intent <- dIntent, conn <- dConn, live <- dLive, lib <- dLib,
  indexed <- dIndexed, req <- dReq,
  Grants <- {g1, g2, g3}, Folders <- {f1, f2}, Requests <- {r1},
  MayFail <- {"complete", "store", "provider", "authorization"}
Library == INSTANCE DriveConnection WITH
  intent <- dIntent, conn <- dConn, live <- dLive, lib <- dLib,
  indexed <- dIndexed, req <- dReq,
  Grants <- {g1, g2}, Folders <- {f1}, Requests <- {r1, r2}, MayFail <- {"complete"}

(* Folders that share, nest in and follow each other, files anywhere, and  *)
(* one that may not be listed; limits with room and each one tight.        *)
Tree == {[sub |-> ("root" :> top @@ "a" :> below @@ "b" :> last),
          in |-> places, opaque |-> hidden]:
           top \in {{"a"}, {"a", "b"}}, below \in {{"b"}, {"root", "b"}},
           last \in {{}, {"a"}}, places \in [{"x", "y"} -> {"root", "b"}],
           hidden \in {{}, {"b"}, {"y"}}}
Room == [assets |-> 3, folders |-> 4, pages |-> 5, depth |-> 3]
Tight == {Room, [Room EXCEPT !.assets = 1], [Room EXCEPT !.folders = 2],
          [Room EXCEPT !.pages = 2], [Room EXCEPT !.depth = 1]}

Crawl == INSTANCE DriveCrawl WITH
  drive <- wDrive, limits <- wLimits, queue <- wQueue, visited <- wVisited,
  assets <- wAssets, pages <- wPages, partial <- wPartial, now <- wNow,
  left <- wLeft, page <- wPage, more <- wMore, pc <- wPc,
  Folders <- {"root", "a", "b"}, Files <- {"x", "y"}, Root <- "root",
  Drives <- Tree, Limits <- Tight

Metrics == INSTANCE MetricCollection WITH
  published <- mPublished, account <- mAccount, revoked <- mRevoked, job <- mJob,
  process <- mProcess, snapshots <- mSnapshots, faults <- mFaults,
  Posts <- {"post"}, Windows <- {"1h"}, Processes <- {r1, r2},
  Name <- [p \in {r1, r2} |-> 1], MaxAttempts <- 3, Metrics <- 2,
  MaxCredentials <- 2, Faults <- 1

ASSUME /\ Connect!ConnectionAssumption /\ Single!ConnectionAssumption
       /\ Drive!DriveAssumption
       /\ Undo!DriveAssumption /\ Library!DriveAssumption
       /\ Crawl!CrawlAssumption /\ Metrics!CollectionAssumption

channel == <<cIntent, cExpired, cCandidates, cSelected, cLive, cAccount, cReq>>
drive == <<dIntent, dConn, dLive, dLib, dIndexed, dReq>>
walk == <<wDrive, wLimits, wQueue, wVisited, wAssets, wPages, wPartial, wNow,
          wLeft, wPage, wMore, wPc>>
metrics == <<mPublished, mAccount, mRevoked, mJob, mProcess, mSnapshots, mFaults>>

(* Where no crawl is exercised one Drive and one set of limits stand for all. *)
SuiteInit ==
  /\ part \in {"connect", "single", "race", "drive", "undo", "library", "crawl",
               "metrics"}
  /\ Init
  /\ CASE part = "single" -> Single!Init [] OTHER -> Connect!Init
  /\ CASE part = "undo" -> Undo!Init [] part = "library" -> Library!Init
       [] OTHER -> Drive!Init
  /\ part # "crawl" => /\ wDrive = CHOOSE d \in Tree: TRUE
                       /\ wLimits = Room
  /\ Crawl!Init /\ Metrics!Init

OnlyConnect == part = "connect" /\ UNCHANGED <<part, vars, drive, walk, metrics>>
OnlyDrive == part = "drive" /\ UNCHANGED <<part, vars, channel, walk, metrics>>
OnlyCrawl == part = "crawl" /\ UNCHANGED <<part, vars, channel, drive, metrics>>
OnlyMetrics == part = "metrics" /\ UNCHANGED <<part, vars, channel, drive, walk>>

SuiteNext ==
  \/ OnlyConnect /\ Connect!Begin(i1)
  \/ OnlyConnect /\ Connect!Expire(i1)
  \/ OnlyConnect /\ Connect!Purge
  \/ \E r \in {r1, r2}:
       \/ OnlyConnect /\ Connect!Consume(r, i1)
       \/ OnlyConnect /\ Connect!StoreSecrets(r, t1)
       \/ OnlyConnect /\ Connect!ExchangeFails(r)
       \/ OnlyConnect /\ Connect!SaveCandidates(r)
       \/ OnlyConnect /\ Connect!SaveCandidatesFails(r)
       \/ OnlyConnect /\ Connect!Select(r, <<i1, t1>>)
       \/ OnlyConnect /\ Connect!Mark(r)
       \/ OnlyConnect /\ Connect!MarkRefused(r)
       \/ OnlyConnect /\ Connect!ReadPrevious(r)
       \/ OnlyConnect /\ Connect!ReadPreviousFails(r)
       \/ OnlyConnect /\ Connect!SaveAccount(r)
       \/ OnlyConnect /\ Connect!SaveUnanswered(r)
       \/ OnlyConnect /\ Connect!RecordMetadata(r)
       \/ OnlyConnect /\ Connect!ImportSnapshot(r)
       \/ OnlyConnect /\ Connect!ConnectFails(r)
       \/ OnlyConnect /\ Connect!RevokePrevious(r)
       \/ OnlyConnect /\ Connect!RevokeOthers(r)
       \/ OnlyConnect /\ Connect!RevokeFails(r)
       \/ OnlyConnect /\ Connect!Release(r)
       \/ OnlyConnect /\ Connect!DisableAgain(r)
       \/ OnlyConnect /\ Connect!Withdraw(r)
       \/ OnlyConnect /\ Connect!Disconnect(r, t1)
       \/ OnlyConnect /\ Connect!Cut(r)
       \/ OnlyConnect /\ Connect!SwitchOff(r)
       \/ OnlyConnect /\ Connect!DisconnectFails(r)
       \/ OnlyConnect /\ Connect!Die(r)
  \/ part = "single" /\ Single!Next /\ UNCHANGED <<part, vars, drive, walk, metrics>>
  \/ part = "race" /\ Next /\ UNCHANGED <<part, channel, drive, walk, metrics>>
  \/ \E g \in {g1, g2, g3}: OnlyDrive /\ Drive!Begin(g)
  \/ \E g \in {g1, g2, g3}: OnlyDrive /\ Drive!Authorize(r1, g)
  \/ OnlyDrive /\ Drive!ReadOld(r1)
  \/ OnlyDrive /\ Drive!SaveConnection(r1)
  \/ OnlyDrive /\ Drive!SaveFails(r1)
  \/ OnlyDrive /\ Drive!ClearOld(r1)
  \/ OnlyDrive /\ Drive!SetConnected(r1)
  \/ OnlyDrive /\ Drive!RevokeOld(r1)
  \/ OnlyDrive /\ Drive!CompleteFails(r1)
  \/ OnlyDrive /\ Drive!UndoConnection(r1)
  \/ OnlyDrive /\ Drive!UndoLibrary(r1)
  \/ OnlyDrive /\ Drive!UndoSecrets(r1)
  \/ \E op \in {"pick", "select", "index"}: OnlyDrive /\ Drive!Refresh(r1, op)
  \/ OnlyDrive /\ Drive!Refreshed(r1)
  \/ OnlyDrive /\ Drive!NeedsAttention(r1)
  \/ OnlyDrive /\ Drive!GivesUp(r1)
  \/ \E f \in {f1, f2}: OnlyDrive /\ Drive!VerifyFolder(r1, f)
  \/ OnlyDrive /\ Drive!Wipe(r1)
  \/ OnlyDrive /\ Drive!PointTo(r1)
  \/ OnlyDrive /\ Drive!ReadRoot(r1)
  \/ OnlyDrive /\ Drive!Crawled(r1)
  \/ OnlyDrive /\ Drive!ReplaceIndexedAssets(r1)
  \/ OnlyDrive /\ Drive!Settle(r1)
  \/ OnlyDrive /\ Drive!Disconnect(r1)
  \/ OnlyDrive /\ Drive!Cut(r1)
  \/ OnlyDrive /\ Drive!Sever(r1)
  \/ OnlyDrive /\ Drive!Empty(r1)
  \/ OnlyDrive /\ Drive!SwitchOff(r1)
  \/ OnlyDrive /\ Drive!DisconnectFails(r1)
  \/ OnlyDrive /\ Drive!Die(r1)
  \/ part = "undo" /\ Undo!Next /\ UNCHANGED <<part, vars, channel, walk, metrics>>
  \/ part = "library" /\ Library!Next /\ UNCHANGED <<part, vars, channel, walk, metrics>>
  \/ OnlyCrawl /\ Crawl!NextFolder
  \/ OnlyCrawl /\ Crawl!Finish
  \/ OnlyCrawl /\ Crawl!Stop
  \/ OnlyCrawl /\ Crawl!Fetch
  \/ OnlyCrawl /\ Crawl!FetchRefused
  \/ OnlyCrawl /\ Crawl!FetchFails
  \/ \E x \in {"root", "a", "b"}: OnlyCrawl /\ Crawl!FolderItem(x)
  \/ \E x \in {"x", "y"}: OnlyCrawl /\ Crawl!FileItem(x)
  \/ OnlyCrawl /\ Crawl!PageDone
  \/ OnlyMetrics /\ Metrics!Reconnect
  \/ OnlyMetrics /\ Metrics!Disconnect
  \/ OnlyMetrics /\ Metrics!Expire
  \/ OnlyMetrics /\ Metrics!Publish("post")
  \/ \E j \in Metrics!Jobs:
       \/ OnlyMetrics /\ Metrics!Due(j)
       \/ OnlyMetrics /\ Metrics!Lapse(j)
  \/ \E p \in {r1, r2}:
       \/ OnlyMetrics /\ Metrics!Seed(p)
       \/ OnlyMetrics /\ Metrics!Claim(p)
       \/ OnlyMetrics /\ Metrics!Ask(p)
       \/ OnlyMetrics /\ Metrics!Settle(p)
       \/ OnlyMetrics /\ Metrics!Crash(p)
       \/ OnlyMetrics /\ Metrics!VaultFails(p)

suite == <<part, vars, channel, drive, walk, metrics>>

(* The purge and the collection run once a minute in every API process; a  *)
(* walk goes on until it returns or throws, and time passes.               *)
SuiteSpec == /\ SuiteInit /\ [][SuiteNext]_suite
             /\ WF_suite(OnlyConnect /\ Connect!Purge)
             /\ WF_suite(OnlyCrawl /\ Crawl!Next)
             /\ \A p \in {r1, r2}: WF_suite(OnlyMetrics /\ Metrics!Pass(p))
             /\ \A j \in Metrics!Jobs: WF_suite(OnlyMetrics /\ Metrics!TimePasses(j))
-----------------------------------------------------------------------------
(* Every component's state is well formed. *)
SuiteTypeOK ==
  /\ part = "connect" => Connect!TypeOK
  /\ part = "single" => Single!TypeOK
  /\ TypeOK
  /\ part = "drive" => Drive!TypeOK
  /\ part = "undo" => Undo!TypeOK
  /\ part = "library" => Library!TypeOK
  /\ part = "crawl" => Crawl!TypeOK

(* A connected account has the secrets it shows, whatever failed.          *)
(* A library that shows a Drive can use it, keeps no other secret of it,   *)
(* and lists the files of the folder it shows; a disconnected one is empty.*)
(* No callback or disconnect takes the secret of the connection that stands*)
(* and a walk that does not say it was partial listed every file once,     *)
(* inside the four limits.  A window of a post is measured once, by one    *)
(* process at a time, within its attempts.                                 *)
ConnectionsHonest ==
  /\ SuiteTypeOK
  /\ part = "single" => Single!ConnectedIsUsable
  /\ part = "drive" => Drive!ListsItsFolder /\ Drive!DisconnectedIsEmpty
  /\ part = "undo" => Undo!ConnectedIsUsable /\ Undo!NoSecretLeft
  /\ part = "library" => Library!StandingHasItsSecret
  /\ part = "crawl" => /\ Crawl!CompleteUnlessPartial /\ Crawl!ListedOnce
                       /\ Crawl!Bounded
  /\ part = "metrics" => Metrics!CollectionSound

(* Secrets nobody chose are revoked once their intent expired; every walk  *)
(* of a Drive ends, on folders that contain each other too; and so does    *)
(* every collection, whatever the provider answers.                        *)
SecretsPurgedWalksEnd ==
  /\ part = "connect" => Connect!PendingSecretsPurged
  /\ part = "crawl" => Crawl!Ends
  /\ Metrics!RowsEnd
=============================================================================
