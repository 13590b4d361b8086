# Verification of Kairo

TLA+ models of the parts of Kairo whose correctness depends on order, failure
and concurrency: modules for TLC (`MC*.tla` with a `.cfg` each) and proofs for
TLAPS (`*Proofs.tla`). `PROJECT.json` is the index: components, runs, mutants,
the source lines each definition stands for, hazards, findings and theorems.

    tlc -workers 2 -config Publish.cfg Publishing
    tlapm PublishingProofs.tla

## 1. Inventory

Kairo finds marketing ideas for a brand, turns them into content a person
approves, publishes it and learns from what happened. One or more API processes
and publishing workers share a PostgreSQL database and call providers that
fail, time out and answer late. The repository also holds the engineering
system (PES) that gates and certifies its own delivery.

| part | state it keeps | how it is changed | what makes it hard |
| --- | --- | --- | --- |
| Publish commands | commands, attempts, failures, channel accounts | deliver, claim, settle, sweep, retry, cancel, reconcile; two triggers | leases that lapse while the provider works, reads before writes |
| Engineering system | slice state, graph file, ratchet workspace, certifications | gate transitions, appends, attempts, certification commands | the graph, the branch and the files move between two commands; crashes |
| Channel connection | OAuth intents, candidates, secrets, accounts | begin, complete, select, disconnect, purge | a saga of six stores with a compensation that can fail too |
| Drive library | grant, connection, library, indexed files | callback, folder choice, index, disconnect | two callbacks and an index interleave; folders contain each other |
| Brand brain | fields, sources, versions | builds, owner edits, removals | a build writes what it inferred from what it read earlier |
| Brand versions | snapshots, plans, graphs | discovery requests, an editor | two appends over one revision |
| Simple creation | job rows with leases, ideas, campaigns | worker ticks, retries | a lease lapses, or is shared by name; a crash between two rows |
| Review and delivery | versions, reviews, approvals, commands | generate, review, approve, deliver | two deliveries of one version; edits while a model works |
| Carousel studio | projects, rendered versions, manifests | edits, renders, approvals | an edit while an older revision renders; text that just fits |
| Research | the idea, its dossier and angles, an advisory lock, the pool | requests and queue ticks develop; people select and edit | the lock holds a connection while the work asks for others; answers that are lost |
| Hunter run | sources asked, items, documents, candidates, what was chosen | one run per request | sources, fetches, the model and the records fail one by one; what is dropped as known |
| Hunter | signals, opportunities, run records, feedback, ideas | recommendation requests, people | list-then-create in two processes; first rows that no lock covers |
| Hunter shadow | cohorts, disposable brands, reports, gate | evidence runs in chunks | cohorts that change between chunks; brands left behind |
| Metric collection | a row per post and window with a lease, accounts, credentials, snapshots | ticks of API processes, owners who connect again | a lease name two processes share; a credential that was revoked since |
| Learning | feedback events, preference state, outcome rows | people, replays, metric rows | the state is evolved from what was read; the first two writers find no row |
| Marketing Lab | an authorization, a row per run, observations | an operator, processes, a critic | a row that is never begun twice; fixtures that change with a release |
| Cost budget | budget row, cost events, advisory lock, pool | reserve, invoke, record, release | a lock held while a model works, in a pool that is smaller than the demand |

The components meet at three places. `ContentDelivery` ends in the insert of a
publish command, which is where `Publishing` begins. `OpportunityStore` ends in
an idea, which is where `CreationQueue` begins. The operations console reaches
a publish command through the trigger that `Publishing` models. Each pair is
checked on its own side of that row; no run composes both sides.

## 2. Plan

Order of work, the most important behaviour first: publish commands (with
proofs), the engineering system, connections, brand, content, the Hunter's
shadow evidence, what the Hunter records, the cost budget, the Hunter run,
metrics, learning, the Marketing Lab and research; then proofs of the inductive
safety invariants of the components whose state is shared by several actors.
What is next are proofs: the components of section 6 that a suite instantiates.

Suites (`MC*`) take several components at once: `part` says which instance a
behaviour exercises, and the others stay as they begin, so one run asks one
question of each part. The component a suite extends is the one whose
invariants the run lists by their own name and the proofs are about.

## 3. Modules and the code

* `Publishing` is one action per statement of
  `publishing-execution-postgres-store.ts` and `publishing-postgres-store.ts`;
  the calls of the console read a command and an attempt and write later.
  `PublishPromise` is what a command promises (queued, then tried, then one
  outcome that stands), and `Publishing` implements it (`KeepsPromise`).
* `Certification` is one certification of a slice: prepare, verify, approve and
  finalize as separate processes, while contexts, the graph, the branch and the
  files move on. `GateLifecycle` is the slice lifecycle with its approvals and
  evidence; `GraphMemory` the file, its lock and its writers; `RatchetRun` the
  loop of attempts with a crash between any two steps; `MultiAgentPlan` the
  validation of a plan and the waves it is run in.
* `ChannelConnection` and `DriveConnection` have one request record per handler
  with a program counter, because the order of the writes and of the
  compensations is the point. `DriveCrawl` walks folders page by page.
* `BrandBrain` is a build and an owner over one table of fields: the objective
  and the boundary she gives the build, the sources it listed before it read
  them, and texts that the readiness rules may take for a placeholder;
  `BrandVersions` the readers and writers of versions; `ReferenceReader` one
  public page, its redirects and its body.
* `CreationQueue` is the job table and its workers; `ContentDelivery` versions,
  reviews, approvals and delivery, where a version is made of the parent that
  was read, however long ago; `CarouselStudio` editing and rendering;
  `CarouselLayout` the arithmetic of a slide's text zones.
* `ShadowRun` is the evidence run with its cohort, chunks and disposable
  brands (the brands left to screen are a set, of which the least is next);
  `ShadowRetrieval`, `ShadowTrend`, `DeepAnalysis` and `ShadowEEI` are the
  stages of the candidate lane (an item carries the likings and dislikes its
  affinity and penalty are taken from), `ShadowGate` the rollout gate, which
  counts distinct runs.
  `MarketingEvidence` is the Marketing Lab's two authorized runs,
  `MarketingVerdict` the comparison of what they observed and the ladder of
  statuses a skill climbs by it.
* `OpportunityStore` is what a recommendation request records, statement by
  statement, and what people do with it: a run is shared by process and
  account, feedback is kept once for an account and an action.
* `HunterRun` is what comes before: sources, evidence, documents, candidates,
  their filters and the records, in which each step may fail. Found items and
  candidates keep their place and the later stages are sets of places.
* `MetricCollection` is a row per window of a post under a lease;
  `PreferenceLearning` the state feedback evolves, the second projector that
  replays a stream, and what metrics say of an opportunity.
* `IdeaResearch` is the development of one idea under its lock, with the pool
  of each process, and the people who select and edit its angles.
* `CostBudget` is an invocation around a reservation. An event that is refused
  after the model answered leaves it stranded: lease, lock and connection stay
  held until the process ends, and other invocations of the workflow wait.

Data is abstracted to what the properties tell apart: a secret is the candidate
it belongs to, a text is its length or its identity, a score a small number, a
provider an answer out of a small set. History variables say so in their
comments.

## 4. Runs, bounds and fairness

| run | module | asks | bounds, and why they are enough |
| --- | --- | --- | --- |
| `publish` | `Publishing` | doubt stops a command, published is real, failures are filed, leases end, due commands are served, the promise is kept | one command, two workers and one caller: the races are for one command; attempts go up to the code's maximum |
| `publish_unknown` | `Publishing` | who keeps reading an unknown command and reporting what came of it is heard (violated, finding) | one worker and one caller, who never gives up: the trace is a reconcile that is refused for ever |
| `engineering` | `MCEngineering` | stored certifications are approved and stand, the gate's sanctions, no write lost, the workspace is what was accepted, waves can run | two shas, a graph of six nodes, two writers, three attempts, four tasks: a stale read needs one move between two steps |
| `certification_shortcut` | `MCEngineering` | a stored certification stands when a shorter link is added (violated, finding) | one link |
| `connections` | `MCConnections` | an authorization leaves one account that is shown by what was chosen, libraries are honest, a window of a post is measured once, secrets are purged, walks and collections end | two requests and two targets: one race, in which the store, the vault, the import and the disconnect may fail; three folders, each limit tight once; one window, two processes of one lease name, three attempts as in the code |
| `brand` | `MCBrand` | fields are backed and the required ones sourced, the owner is first, versions name one thing, nothing taught is forgotten but by the race of two first requests, readings end | one build, one owner, two sources and two writes, chosen texts with a placeholder among them; two requests and an editor; two teaching requests over six events of which three are recorded, and a past of eighteen that reaches the upper bound of a weight; two preferences kept instead of fifty; three signals and rows |
| `content` | `MCContent` | content is made once and whole, approvals are of what was passed, carousels show their project, dossiers and angles rest on relevant evidence and change only for somebody who saw them, requests stop only where they fill the pool | two workers, two requests, two renders; two developing requests with three connections, three requests of two processes with two connections, three people; three kept items of evidence instead of eight |
| `shadow` | `MCShadow` | reports are of one cohort, selection is sound, the Marketing Lab's authorizations are used once and its verdicts agree, runs end | four runs over the cases of a plan in order, and over a pinned brand's in any; four clusters, seven candidates and selections of up to nine items; two processes on one authorization (alike, so the liveness of one stands for both) and a critic after one; two cases observed up to twice under a policy of small numbers; a gate with pairs of each kind of violation, one run reported twice |
| `shadow_anchor` | `MCShadow` | a disposable brand is removed (violated, finding) | one run |
| `benchmark_truth` | `MCShadow` | a challenger of which an untrue answer was observed does not advance (violated, finding) | two cases, observed up to twice |
| `hunter` | `MCHunter` | what one run proposes heeds its sources, is diverse and unrepeated; what two processes and two people record of one brand | plans of two sources, one planned twice, that answer up to three items; up to six candidates, each close to one filter; two runs of different accounts or processes, one crash, one failing statement; of what two people do, one opens and the other saves |
| `operations` | `MCOperations` | reservations hold, connections come back, the row is the sum of its events, invocations end | three invocations, a pool of two: the smallest where waiting for the lock can starve the holder; two faults, a refused event among them, and none where endings are asked for |

Every property of a passing run has a mutant of the code that breaks it.

Fairness is what the code schedules. In `publish`: workers poll and the sweep
runs on a timer, so claims, settlements and sweeps are weakly fair, and a
person at the console never is; only `publish_unknown` adds one who does not
give up, so that what it shows is the store's refusal and not a person's
silence. In `connections` the purge runs every minute in every API process, the
collection of metrics too (there, a lease that may lapse does), and a walk is a
loop. In `content`, `shadow` and `hunter` a step of a running process is weakly
fair and no crash is; the steps of research and of the Marketing Lab are such
steps, and an operator who authorizes is never fair. In `operations` the pool
and the lock are queues of the database and of `pg`, which serve waiters in
order: taking a connection and taking the lock are strongly fair, in the part
without crashes. Deadlock is not checked in the suites, because a bounded
instance ends and the parts that are not exercised do nothing.

## 5. Proved

Each `*Proofs` module extends its component and TLAPS; every theorem is for all
values of the constants that satisfy the component's `ASSUME`, which the run
that extends the component evaluates. A proof of safety is one inductive
invariant, one lemma per action and a last temporal step.

* `PublishingProofs` (any commands, workers and callers): `TypesHold`,
  `DoubtHolds`, `PublishedHolds`, `FailuresHold`, `QueueHolds`, the action
  property `SettledHold`, and `PromiseKept`: the component implements
  `PublishPromise`. The invariant goes row by row: what a row says of its
  attempts, failures and post, and what each job and call in flight still knows
  of its row. The last part is what makes it inductive, because calls write
  what they read several steps earlier.
* `EngineeringProofs`, of the certification (any graph, commits, references and
  number of files): `StoredHolds` needs what every file in the workspace is
  made of, because a bundle is finalized from files that were edited in
  between. `HistoryHolds` needs the proviso `KeepsTraces` (no appended link
  changes the distance of a named node); `certification_shortcut` shows that
  the code does not meet it always. Of the gate (any lifecycle, floors and
  permissions), `GateHolds` and the action property `ContradictionsHold`, both
  from what a context pack can have seen; the second where a contradiction fits
  in a pack and the states that block on contradictions ask for a current pack,
  as `gates.json` has it. Of the graph file, for any nodes and writers that die
  at any point, the action property `AppendsHold`: what makes it inductive is
  what a draft made in memory still knows of the file it was made of. It is
  stated where a saver names the revision it expects, which `save` leaves
  optional. Of the ratchet run (any scores, any budget, a crash between any two
  steps), `RatchetHolds`: only the last attempt is under way, and the
  checkpoint it goes back to and the score it must beat are those last
  accepted. Of the plan (any number of tasks, workers and files), `WavesHold`:
  what a wave takes (`WaveRunnable`) and that a plan without a cycle always has
  a task to start (`SomethingReady`) are inductions over the tasks, done over a
  set of numbers from their well-foundedness (`UpTo`); that the recursive
  functions of the model exist and are what their equations say is a lemma
  (`BuiltUp`). `SuiteIsTyped` says that the five stay well formed side by side
  (`SuiteIsEach`: a behaviour of the suite is one of each of them).
* `ConnectionProofs` (any intents, candidates and requests, and, but for
  `AccountsHold`, any faults): `OneIsChosen` rests on the unique index alone.
  `AccountsHold` follows the candidate a request holds from `markSelected` to
  its release; it is stated under `Compensated` (a write that was done is
  answered, the compensation is not cut short, no request came through the Meta
  service), because the code does not keep `AccountsBacked` otherwise: a
  compensation that is itself interrupted leaves an account that shows a
  released candidate. Imports, the store, the vault and the disconnect may
  fail.
* `ConnectionProofs`, of a connected account's secrets: `ConnectedHolds`, while
  one request of the Instagram service is served at a time and what fails is
  the vault, a store or the import (a disconnect that fails, a reply or a
  process that is lost and a compensation cut short break it). The invariant
  says what the account's row shows after each write, and that every secret
  that may still be revoked is of the account's own past, of a sibling nobody
  chose or of the candidate the request gives up (`Revocable`). A revocation
  that stops half way leaves a sibling without its publish secret first
  (`InOrder`), and the import asks for that one: in the other order the
  statement would be false.
* `ConnectionProofs`, of the collection of metrics (any postings, windows and
  processes, whatever names the processes share, any faults):
  `CollectionHolds`. The attempt is the fence: a claim raises it, so no two
  processes work for the same one and what a process writes is refused once the
  row went on (`Fenced`). The model is reached by a named `INSTANCE`, as in the
  suite.
* `HunterProofs`, of the store (any lists, processes and people): `StoreHolds`
  is four invariants, of runs, locks, rows and people, each preserved because
  of the others. That a run's next item is the least of those left is from the
  well-foundedness of the naturals (`LeastIsIn`).
* `HunterProofs`, of a run (any plans, answers and proposals, any notion of
  similar titles and any limits, under `HunterAssumption`): `HunterHolds`. The
  invariant says that every place is one that was found or proposed, that only
  planned sources were asked, what each stage has left and what it may still
  use, that nothing similar to an accepted candidate is accepted, and how many
  candidates one source and one topic have.
* `HunterProofs`, of the preference state (any requests, feedback and recorded
  past; no assumption): `NothingIsForgotten`. A request that is to save has the
  row it locked as it still is; where there was no row to lock, whoever saved
  since did so without a lock too, and is counted among the blind
  (`LearningInv`).
* `CostBudgetProofs` (any caps, costs, servers and pools): `BudgetHolds`, from
  what each stage of an invocation holds of connection, lock and lease; the
  lease decided under the lock is what keeps another invocation from raising
  the row in between. `SpentHolds`, because an event is of an invocation its
  settlement ended, and because the sum of a ledger, a fold over a finite set,
  exists, is the same in every order and grows by what is added (`OneMore`):
  inductions over the number of events.
* `ShadowProofs` (any brands, fixtures, cohort size and repeats, any processes
  and crashes): `CohortIsHonest`. The invariant says what the phase of a run
  has established of its cohort and what a report inherits from it. Lemmas of
  division show that a case is a position and a repeat (`CaseNames`) and that
  two reports of one brand are of one entry (`PairsAgree`); that a stored brand
  was measured follows because as many brands were measured as the cohort has.
* `ShadowProofs`, of the analyses (any candidates, limits, runners and
  answers): `AnalysisHolds`. A candidate is with one runner or has its outcome
  (`AnalysisInv`), and the analyses are kept when the last runner is done, so
  none is without one. `AnalysisAssumption`: the limits are counts, there is a
  runner, every answer is an outcome. In which order the accepted ones are kept
  is a filter over a list (`SelectSeq`, which the prover cannot unfold) and
  stays with the run.
* `BrandProofs` (any fields, sources, writers, discovery requests and editors):
  `VersionsHold`. A revision is only appended after the latest, so what the
  appender read is the latest one: a plan that was edited is customized and is
  never laid out anew. Graph versions are 1..k without a gap, which is why the
  version after the latest that was read is the next one or taken.
* `BrandProofs`, of the fields (any groups, builds, owners and sources):
  `FieldsAreSourced` and the action property `OwnerComesFirst`, from one
  invariant: what a tab shows of the version it names (`Showing`) and what a
  build still has to write, which was gated when it was proposed (`Knowing`).
  The gate and the builder let a text through that the readiness rules take for
  a placeholder, so that readiness is kept is said of the other texts only. A
  proposal written after its sources were removed is still sourced, because a
  write names its sources again; that they are active then is not promised and
  not stated.
* `ContentProofs`, of delivery (any requests, destinations, slots and kinds of
  request): `DeliveryHolds`. A version is made of what its author had read, and
  only the look at the current version under the lock of the append makes that
  the one right before it. A version never changes once it is appended, so
  what a request has read of one stays true of it; the invariant says what a
  request in flight can rely on at each of its stages (`Knows`), that what
  passed was sound and ready when its review was saved, and that an approval of
  the version that was read exists when its command is inserted.
* `ContentProofs`, of the studio (any slides, texts, styles, projects, authors
  and renders; no assumption on them): `StudioHolds` and the action property
  `ApprovalFreezesHolds`. A row changes only together with its revision, so a
  call of the render service that still knows the present revision knows the
  row; this is carried through its reads, its upload and its save to the
  approval (`InFlight`, `Rendered`, `Bound`). Which row of a project the
  approval binds is unique because the numbers are (`Numbered`).
* `ShadowProofs`, of the Marketing Lab's evidence (any releases, fixtures,
  processes and starts): `MarketingEvidenceHolds`. Who executes holds the row
  it started, and nobody else starts it (`LabServed`, `LabAlone`); what was
  measured so far is of the first fixtures of the release, on one route or of
  the pairs that are stored (`Progress`). It assumes, with the code, that the
  process that looks for an authorization on a timer is none of those started
  once for a run.
* `ConnectionProofs`, of a Drive (any OAuth states, folders and requests):
  `StandingHolds`, under `Undivided` (a save that was done is answered, what
  revokes a secret goes through, no process stops in between), because
  a save that is done and not answered leads to a compensation that revokes the
  secret the connection now stands on. The invariant says whose secret each
  request may still revoke (`Spared`, `Apart`). The stores, the saves and the
  provider may fail.
* `ConnectionProofs`, of the walk of a Drive (any folders, sharing, paging and
  limits): `CrawlHolds`. A folder is visited once, so what is listed is of
  folders other than the one being read (`Fresh`), and what is queued fits when
  it is visited (`Bounds`). A walk that may not even list its root exceeds its
  limit by that root, so the theorem asks for a limit of folders above zero.
  That no item is both a folder and a file is `CrawlAssumption`.
  `CrawlIsComplete`: every folder below the root was visited, is queued, or the
  walk already says that it is partial (`WalkInv`). What can be reached is the
  least set that is closed under containing (`HoldsRoot`), so no induction over
  paths is needed.
* `ConnectionProofs`, of the library of a Drive while requests come one at a
  time: `LibraryHolds`, whatever fails, and `UsableHolds`, under `Undivided`.
  The first follows the folder a request verified to the files it writes
  (`Lists`), the second which secrets besides the one in use may still be live
  at each step of a save and of its compensation (`Spare`). Two requests at
  once break both: the run checks them for one, and `StandingHolds` is what
  remains for several.
* `ContentProofs`, of the creation queue (any requests, processes and names
  they share, any steps that fail): `CreationHolds`, two properties. What a
  worker knows of its campaign and asset was made before it wrote it
  (`HasMade`), and rows only grow (`Grown`); a request that ended has no lease,
  so the guard of every write refuses whoever still works on it. A process that
  does nothing throws nothing and a request has at least one attempt
  (`CreationAssumption`). `CreationTyped` holds as generally; the action
  property `IdeaStays` asks for names that differ: who holds a lease has the
  idea of its row at hand (`HoldersFit`). `CampaignIsOne` asks for one process
  and no other selection (`AloneInv`): two attempts at once may each find no
  campaign and make one.
* `BrandProofs`, of reading a reference (any hosts, addresses, redirects and
  answers): `ReadingHolds`. All that was sent is kept until text is cut at the
  limit, and then nothing more arrives (`Arriving`).
* `ContentProofs`, of an idea under research (any requests, processes, people,
  evidence and answers of searches and models, any crash or lost answer):
  `ResearchHolds`, four invariants and the action property `SeenWhenChanged`.
  The lock is not what makes it true. A dossier that is there stays, so the
  claims an angle rests on are found again however many requests work at once
  (`Stays`), and a version grows with every write of a row, so a version that
  is still the expected one means the row is still as it was seen, up to the
  moment its lock is taken (`PersonFits`, `OthersFit`). What is kept of the
  evidence is a recursion over a list; what the proof needs of it, that the
  result has the items of the list at increasing positions, goes by a function
  that is built up step by step (`BuiltUp`, `KeptIs`, `WhereIs`).
* `ShadowProofs`, of trends (any number of signals, any likenesses and answers;
  the only assumption is that a run's signals are a list, `TrendAssumption`):
  `TrendsHold`. A signal points to itself or an earlier one, so the recursion
  that looks for its root has a solution (`RootsExist`) and ends at one that
  points to itself (`RootIs`), both by strong induction, which the library
  gives as a fact about well-founded sets. A join then moves one whole group
  below the other's root (`RootsJoined`), and two linked groups with a pair
  between them are linked (`LinkedBoth`).

## 6. Only model-checked

* Liveness and fairness (`LeaseEnds`, `DueServed`, `SecretsPurgedWalksEnd`,
  `RunsEnd`, `InvocationsSettle` and the other endings): out of the prover's
  reach.
* What is computed by a fold or a recursion over data: the distances of a
  graph, the wrapping of a carousel's text, the scores of the analysis, the
  lists of preferences.
* Of `IdeaResearch`, that no source is starved and nothing pinned is pushed out
  (`EvenHanded`, `PinnedKept`: what the recursion leaves out, not only what it
  keeps) and where requests stand still (`OnlyAFullPoolStops`, which is about
  ENABLED).
* Of `PreferenceLearning`, all but `NothingForgotten`: what a state says was
  preferred, avoided and replayed is folded from lists of events.
* The other components that a suite instantiates instead of extending
  (`CarouselLayout`, the retrieval and the selection of the shadow lane and the
  scores of `DeepAnalysis`, `ShadowGate`, `MarketingVerdict`): their invariants
  are checked on the instances of the suites and not proved. For that reason
  the conjunctions over whole suites (`ConnectionsHonest`, `SelectionSound`,
  `BrandBacked`, `ContentWhole` and the `SuiteTypeOK` of the shadow lane) have
  no theorem of their own, although `CollectionSound`, `EvidenceSound` and
  other parts of them do.
* The purge of `ChannelConnection`, which is liveness.

## 7. Findings

Four runs show a disagreement of code and documentation: an unknown outcome
that was stored cannot be reconciled, however often it is tried
(`publish_unknown`), a certification stops verifying when a shorter link is
added (`certification_shortcut`), a disposable brand stays when its control
cannot be compared (`shadow_anchor`), and an untrue answer does not stop a
challenger when its case was observed again (`benchmark_truth`). Five more are
listed in `PROJECT.json` without a run of their own, because the component's
checked properties leave the faulty path out or the conversion is not modelled:
the reorder of a carousel is refused by the database, the certification engine
counts objects where its document asks for all of them, the Meta service leaves
a connected account with revoked secrets when its import fails, a model text
over the limit fails a whole Hunter run, and metric rows made before an account
was connected again ask with a revoked credential and end as failed.

What the models showed without a sentence in the repository that says
otherwise:

* Two requests that give a brand its first feedback each evolve an empty state,
  because `for update` finds no row (`batch7-closed-loop-store.ts:147`); the
  later upsert takes back what the earlier taught. `NothingForgotten` is stated
  but for that race.
* `developWithLock` keeps the lock's connection while the work takes others
  (`idea-development-lock.ts:6`), and no timeout is configured
  (`server.ts:94`): as many requests for one idea as the pool has connections
  stop the process. `OnlyAFullPoolStops` says that nothing else does.
* `POST .../research` hands the idea on without its source (`app.ts:216`), so
  the evidence linked to its opportunity is pinned only for the creation queue.
* Two addresses of one page given with an idea count as two when the search is
  skipped, and as one afterwards, when evidence is found insufficient.

## 8. What is not modelled

* What a model, a source or a page answers: a member of a small set. The
  adapters of sources, of scholarly evidence and of publishing, with their
  protocols and their pacing, and the wait of the worker for its agent, are
  I/O.
* Whether a text is relevant, similar or true: given with the text.
* The model gateway's routing, image and presenter generation, search and
  notifications, routes and the user interface: I/O, queries and single-row
  updates.
* Time is an order of events (a lease lapses, an intent expires), never a
  clock, except in `BrandVersions`, where timestamps name versions.
