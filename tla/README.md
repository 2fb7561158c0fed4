# TLA+ models of TraceX

TraceX is a FastAPI service, one or more worker processes and a static front end. The API and the
workers never talk to each other: they meet in a control database (PostgreSQL, or SQLite in
development) and on an evidence volume of immutable files. An upload becomes an `EvidenceSource`
and an `ImportJob`; a worker leases the job, verifies the source, ingests it in batches, builds a
graph, findings, scores and analytics, groups the findings for review and completes the job.
Everything that can go wrong between two commits is what these models are about.

Paths below are relative to `src/`.

## Inventory

| Component (source) | State it keeps | Operations | What makes it hard | What makes it correct | Here |
|---|---|---|---|---|---|
| Job queue, leases, worker loop (`app/jobs/service.py`, `workers/runner.py`) | `ImportJob`: state, stage, lease, attempt, error | claim, reclaim, retry once, fail | several workers, crashes, leases that lapse under a running worker, stale handlers | one worker per job; attempts grow; a settled job stays settled; every job ends | `ImportJobs` |
| Stage tracking (`app/jobs/analysis.py`) | `AnalysisStage` rows keyed by stage and attempt | start (with reuse), finish, fail running | a crash between the stage's output and its row | success implies durable output; keys never collide | `ImportJobs` |
| Group-only recovery, grouping lease (`app/jobs/grouping.py`) | `AnalysisRequest` rows, the renewal thread | pick intent, refuse, group, publish, renew | precedence of intents over retries, identity of the renewal | intent is never lost, never answered by older output | `ImportJobs` |
| Retry and queue API (`app/api/analysis_routes.py`, `app/api/group_routes.py`) | requests, job state | retry, build queue, decide on a group, list what to review | requests racing with attempts | keys fresh; only settled jobs are reopened; the queue hides nothing | `ImportJobs` (retry, build), `CaseWriters` (decide), `ReviewGroups` and `Scoring` (queues) |
| Ingestion (`app/engine/ingestion/pipeline.py`) | checkpoints, counters, activity, the in-memory duplicate map | read, normalise, publish, commit, resume | stops between file and receipt, batch sizes that change | each row once, first variant kept, counters reconcile | `Ingestion` |
| Fragment catalogue (`app/engine/catalogue/fragments.py`) | files, `FragmentReceipt` rows | publish immutably, conflict, read back | orphan files, paths shared by imports | receipts are backed by one file | `Ingestion`, `Derivation` (reading back) |
| Process pool (`app/engine/process_pool.py`) | results, slots, draw index, drivers | draw, send, receive, yield, stop | threads, dying workers, failing sources | results in order, bounded window, no deadlock | `ProcessPool` |
| Graph builder (`app/engine/graph/builder.py`) and queries (`graph/query.py`) | the published graph file and its row | build, publish, page a neighbourhood, follow funds | two executors, double claims of an output, file before row, pages of a changing case | both executors build one graph; pages add up to the neighbourhood; flows agree from both ends | `GraphBuild`, `Derivation`, `GraphReading` |
| Detectors and rules (`app/engine/motifs/deterministic.py`, `findings/deterministic.py`) and the bounded executor (`app/engine/bounded.py`) | features, findings | walk, merge, window, rule, de-duplicate, rank | the same answer in memory and in SQL, for every chunk, partition, pool and commit order | findings are those of the in-memory pass; every signal is covered | `Peeling`, `WindowFindings`, `Derivation` |
| Resource plan (`app/resources.py`) | none | budget, workers, sizes, mode, admission | figures that are missing, pinned or stale | shares within the budget | `ResourcePlan` |
| Feature store (`app/engine/feature_store.py`), review seeds (`app/api/routes.py:488`) | one file per snapshot and its row; seeds, proximity findings | publish, find again, rewrite, read in pages | file before row; overlapping rewrites; offsets over several files | rows name their files; a lone request repairs what was lost; nothing is left out | `Derivation`, `ReviewSeeds`, `FindingsReading`; `Scoring` (findings without a pin) |
| Anomaly stack (`app/ml/`) | scored findings, stage outcomes | make arrays, tables, score, retain, queue | three ways to the same arrays; causality; retries under other settings | views agree, what looks ahead is known and bounded, one scorer per snapshot | `MlFacts`, `MlGrains`, `GrowingEvidence`, `Scoring` |
| Confidence provenance (`app/engine/confidence.py`) | one pin per finding | pin, show | commits before pins, redeployments, review seeds that pin nothing | what an import settles is pinned; a pin never changes | `Scoring` |
| Analytics and risk (`app/engine/analytics.py`, `app/api/analytics_routes.py`) | snapshots, revisions and their files, risk seeds, runs and pins | build, refresh, choose latest, change a seed, propagate, show | rows dated by when their transaction began, files moved before rows commit, pages read in several statements; union-find over batches, cyclic flows | files stay with their rows, refreshes keep the view, no outdated risk; entities only merge, risk follows funds | `AnalyticsRevisions` (state), `NetworkEntities`, `GrowingEvidence` (computation) |
| Geo-IP (`app/engine/geoip.py`) | the database directory, the open database | compile, swap, open, load lazily, look up | tables read from a directory that is being swapped | one directory answers as its source does; one fault loses nothing | `GeoIp` |
| Case events and SSE (`app/events.py`, `app/api/routes.py:1021`) | `CaseEvent.sequence`, a reader's last id | append, stream, resume | sequence order against commit order | a reader skips nothing | `CaseWriters` |
| Reviews (`app/api/routes.py:937`, `app/api/group_routes.py:238`, `app/engine/evidence.py`) | finding and group versions, decisions, audit | decide, cite, list, export | two reviewers at once, pages read while others decide | linear chain of decisions; exports leave nothing out | `CaseWriters`, `ReviewGroups`, `FindingsReading` |
| Review generations (`app/engine/investigations.py`, `app/engine/grouping_materializer.py`) | runs, groups, members, links, active flag; the private disk index | build, reuse, reactivate, publish, queue | findings that arrive between builds, releases that change, a second implementation of a frozen procedure | one active complete generation per snapshot, nothing drops out of review, both implementations agree, a fair queue | `Grouping`, `ReviewGroups` |
| Import API and raw storage (`app/api/routes.py:280`, `app/storage/raw.py`) | sources, jobs, idempotency keys, files | upload, reuse, create | concurrent identical uploads | one source per digest, one job per key | `CaseWriters` |
| Front end (`frontend/`) | the graph view's pages | load, merge, reset, remount | late answers, other graphs | what is shown is one graph's, and whole | `GraphReading`; other pages not modelled |
| Scripts, fixtures, telemetry, config, auth | — | — | no protocol state | — | not modelled |

`PROJECT.json` lists the components, the hazards with the line where each one bites, and for each
definition the lines it models.

## Modules

### ImportJobs: queue, worker, stages, requests

Every action is one committed transaction, or one decision taken from what was read. `db` holds the
steering columns of `ImportJob` (`live` is `lease_expires_at >= now`), `rows` the newest
`AnalysisStage` row of each stage, `requests` the `AnalysisRequest` rows, `product` what each stage
has stored (stamped with the attempt where a later attempt replaces it), `snapshot` the `Snapshot`
state, `checkpoint` how far batches are committed, `ungrouped` whether findings exist outside every
published generation. `wk[w]` is the local state of `process_one`: a phase, the stage it is at, its
ORM copy `mem` of the job row, and the stage row it holds.

Two things the code leaves implicit are explicit here.

- *Stale copies.* `SessionLocal` has `expire_on_commit=False`, so a worker writes from a copy of the
  row; the ORM emits only changed columns. `Merge` does that, so a stale worker overwrites what it
  changed since its own last flush and nothing else. A rollback in scoring or analytics reloads
  the copy (`SkipScoring`, `AnalyticsFails`).
- *Commit boundaries.* `StageTracker.start` finishes the previous row, commits, and inserts its own
  (`CloseRow`, `OpenRow`, `ReuseRow`); `_stage` commits the stage name together with what the
  previous stage left uncommitted (`BuildAndEnter`); fulfilment and revision share the commit of the
  analytics row (`Analyze`); the full run publishes groups one commit before it completes
  (`PublishGroups`, `CompleteImport`) unless it holds no row, while group-only recovery does
  everything in one (`RegroupAndComplete`).

The API actions are `RetryAnalysis` (POST analysis/retry) and `BuildQueue` (POST
investigation-queue/build; its limit of 20 jobs per request is not reached by these instances). The
failure handler is `Raise` followed by `Abandon`, `RetryOnce` or `FailJob`; an insert that meets a
unique key another worker of the job has taken raises too (`DuplicateKey`, possible only after an
overrun). `coverage` stands for
the three optional rows geoip, network_coverage and embeddings. `SideChannel` separates PostgreSQL,
where `GroupingProgress` renews the lease, from SQLite, where it does not run.

Initially an import is fresh, or was completed before review groups and stage rows existed.

### ImportPromise: what a client may rely on

An import is waiting, working or settled; only a request reopens a settled import; an intent left
with a request is owed until work honours it; an import that completes owes no group-only intent.
`ImportJobs` implements it under the mapping of job states and unfulfilled requests stated in
`Promise`; the property is `PromiseKept`.

### Ingestion: batches, fragments, receipts

One `ingest_source` call at a time over the imports of one source. `Begin` reads the checkpoint, the
next batch number and the duplicate map the receipts give back (`SeenAgain`: which transactions were
kept, but not their variant); `ReadBatch` takes the next chunk at this attempt's batch size;
`WriteFragment` publishes one group's file; `CommitBatch` commits receipts, checkpoint, counters and
activity; `Finish` ends the stage and hands the facts to the graph build, from memory or from the
receipted files. `FragmentConflict`, `CommitRefused`, `ReadFails` and `Interrupt` are the ways an
attempt ends early. Rows are records of kind, transaction and variant; a row's facts (transaction,
inputs, outputs, observations) are published together and are one group beside the quarantine.
The process pool is taken at the contract `ProcessPool` is checked for: normalised batches arrive in
source order, and a reader error arrives after the batches before it.

### SourceIntake: what ingestion promises

Each import goes through the rows in order, any number at a time, keeps the first well-formed row of
each transaction, quarantines all others and never goes back. Batches, files and stops do not
appear. `Ingestion` implements it under the mapping `Intake`, which reads only receipts,
checkpoints and finished stages (`IntakeKept`).

### ProcessPool: ordered parallel map

`ProcessPool.imap` with its driver threads, the worker processes behind them, and its only caller,
`_normalized_batches`, which queues each batch as the pool draws it and pairs it with the next
result. An action is one critical section (the draw lock, the condition) or one pipe call; a driver
that has drawn may be overtaken anywhere before it stores. A job may raise in its worker, the source
may raise instead of ending, a worker may die, and a driver may be lost to an exception it does not
catch. The generator may be closed whenever the caller holds a result.

### OrderedMap: what the caller of the pool may rely on

Outcomes one by one, each with its own batch; a return only after the last job, an exception only
where a job, the source or the pool failed. `ProcessPool` implements it (`OrderIsKept`).

### CaseWriters: transactions over one case

Uploads (`create_import`), decisions on findings and review groups, worker stages that store
findings, and the event log that all of them append to, at the level of SQL statements under READ
COMMITTED. The session has `autoflush=False`, so what a transaction has inserted at a given moment is
what it has flushed explicitly; `tx[c]` holds its position and its reads, and its writes appear in
the committed tables at `Commit`. PostgreSQL's part is in a section of its own: an insert waits for
an uncommitted one of the same unique key and fails when that commits; an update waits for an update
of the same row and then tests its WHERE clause again; an insert shares the case row through its
foreign key, and `append_event` wants it exclusively. `Poll` is the SSE reader, whose connection may
break after any event.

### Grouping: the procedure

Pure operators. `Reference` is the frozen procedure of investigations.py: findings in a fixed order,
each joins the open group with the least id whose representative shares its episode and an anchor, or
starts its own. `Indexed` is what runs: rows with counters, and anchor rows that leave the lookup
when their group is full. A finding is the profile grouping reads of it.

### ReviewGroups: generations, decisions, the queue

One snapshot. `runs` are the complete generations, identified by their digest (the release of the
procedure and the findings stored when it was read), `active` the active ones, `marks` version and
status of every published group, `links` the replacement rows, `grouped` what finished stages have
reported. A worker takes the snapshot's row lock and reads the digest (`Begin`), reads the findings
again and groups them (`Build`, or `Incomplete` when their number has changed), and commits what it
built or the generation it found (`CommitBuilt`, `CommitReused`); `Fail` is every other end and
leaves nothing. `AddFinding` waits for the lock through its foreign key; on SQLite (`RowLocks =
FALSE`) there is no row lock, a finding may come between digest and build, and there is one worker
(README.md:206: SQLite serves small development and test paths). `Decide` acts on any published group; that decisions on one group
form a chain is `CaseWriters`' subject. `Queue` is the window query behind the investigation queue.

### AnalyticsRevisions: builds, the view, risk

One case with several imports, each with one worker at a time and so one build. `BeginBuild` starts the
transaction of the analytics stage and takes the next revision, `WriteFile` moves the file to its path,
`CommitRecord` commits the row (`created_at` is the transaction's start on PostgreSQL, so a slow build
commits with an early date), `FailBuild` is a rollback or a crash and leaves the file. `Latest` is
`latest_analytics`. A risk transaction flushes its change of a seed (`BeginRisk`), reads the record and
then the seeds, its own change included, and commits change and run together; `overlap` remembers
whether two were ever open at once. A page reads the record, the latest run and the record again to
check the run's pin (`OpenPage`, `ReadRun`, `CheckPin`). Initially an import may have analytics and a run
from before runs were pinned. Weights of seeds, scores and network findings are left out.

### Facts, GraphBuild, Peeling, WindowFindings: one snapshot's computations

Pure operators, each in the two forms the program has. `Facts` is what normalisation leaves of the rows:
transactions, inputs, outputs, observations, in commit order. `GraphBuild` has the builder's dictionaries
(`MemoryGraph`: the first row under an id stays, the first spender of an output keeps it) and the bounded
executor's staged rows (`BoundedGraph`: in no order, the least ordinal per id). `Peeling` has the walks
along verified spends, their patterns, and the SQL rounds with the clusters that let signals be made one
chunk at a time. `WindowFindings` has the address windows, the rules over them and their history, detector
signals, de-duplication and ranking. Addresses, transactions and times are numbers; amounts matter by order
and equality only; claims, explanations and hashes are left out.

### ResourcePlan

The arithmetic of `app/resources.py` and of the sizes bounded.py and the pipeline take from a plan:
budget, supported workers, processes, mode, shares, partitions, chunks, batches, disk admission. A
machine is its figures and settings; 0 where there is none.

### Derivation: attempts at one snapshot

`Begin(m, n)` reads the fragments back and plans, with what the machine has when the attempt starts (`m`)
and when facts are staged (`n`): the code asks anew at each stage. Then graph (`ReuseGraph` or
`PublishGraph`, `CommitGraph`), features and findings (`ReuseFindings`, `MemoryFindings`, or the jobs of the
bounded executor: `StartWalks`, `StartAddresses`, each `RunJob` in any order and `TakeResult` in job order
when there is a pool, then `PublishFeatures`, `Rank`, `CommitFindings`). `Fail` may come anywhere; the next
attempt may run the other way. `Refuse` and `RefuseWorkers` are the admissions that fail. A file that exists
with other content is a conflict that ends every later attempt.

### ReviewSeeds: seeds of a synthetic case

Extends `Derivation`. Posts run at once, as transactions at READ COMMITTED: `Insert` writes the seed and
reads the committed seeds with its own, `Rewrite` replaces the feature file, `Swap` is the insertion of
proximity findings, `Commit` takes the case row for its event, which another open post holds in share mode
(so two open posts deadlock and `Abort` ends one), `Abort` leaves the file as it is.

### MlFacts, MlGrains, NetworkEntities, GrowingEvidence: what evidence may change

`MlFacts` makes the integer arrays of the anomaly stack from streams, by SQL, from files and by truncation;
`MlGrains` the transaction, latency, history, graph, network and recipient tables over them.
`NetworkEntities` has common-input clustering (union-find over batches of pairs, against the partition it
must compute), mixing, Geo-IP checks, relay correlation and coherence, flow tables and risk propagation, in
whole parts of `Scale`. `GrowingEvidence` runs a case through its moments: `Grow` analyses it again with
the rows known by then, seeds are added and removed, risk is run. A row is known from the time it bears, so
an input may be known before the output it spends, where the data date the spender first: the arrays
then resolve it when its parent arrives. Until then an input is worth what it states of itself (`stated`), after
that what the output is worth (analytics.py:487). The country share of a transaction is a fraction of what came
before it and of the number of countries in the whole table (`Classes`), as the code computes it.

### GeoIp: compiling and reading the database

Compilation as operators (filter, order, trim overlaps, intern countries) and the swap as actions: `Stage`,
`ClearPrevious`, `MoveAside`, `Install`, `Tidy`, and `Abandon` for a crash or a failing rename. The reader
is one analysis process: `Stat` and `ReadManifest` open or reuse the cached database, `LoadPart` reads one
column file of one table from whatever directory bears the name, `Answer` looks up by bisection.

### GraphReading: a graph read page by page

`Neighbourhood` is query_neighbourhood with its cursor, `Flow` is query_flow. The view of
GraphContinuation.tsx is mounted on a source, sends one request at a time and merges what comes back;
requests and answers may be late or lost, the component may be remounted, and imports publish further
graphs. A cursor is bound to what it was made for.

### FindingsReading: a case read out

Extends `GraphReading`: a behaviour follows either a graph view or one export. Imports store findings (ids
are random, so anywhere in the order) and feature files, reviewers decide, and an export reads one statement
at a time: findings by offset, then their decisions, then the audit records. `Listed` is the findings list.

### Scoring: which scorer, whose provenance

One import over its attempts, each by a process with settings of its own: anomaly stack on or off, a
candidate installed, a calibration file, a Geo-IP database. The stages that write findings, pins and outcomes
are actions with their commit boundaries (`Findings`, `MlScoring`, `MlDone`, `Analytics`, `PinRest`);
`Crash` may come between any two. `Queue` is the scored review queue. `PostSeed` is the other writer of
findings: a review seed of a synthetic case adds proximity findings without a pin for addresses that have none.
The post requires a complete snapshot, which a snapshot stays (`finished`), reads that in an earlier statement and
locks no row of it, so it may commit during a later attempt, at any of its steps; of posts that overlap one
is aborted (`ReviewSeeds`), so a post is one action here. `posted` remembers which findings
seeds have added since the last attempt began.

### The MC modules

`MCImportJobs`, `MCIngestion`, `MCCaseWriters`, `MCReviewGroups`, `MCAnalytics`, `MCDerivation`, `MCGrowing`,
`MCGeoIp`, `MCGraphReading`, `MCScoring`: instances for TLC. Symmetry of workers, clients, digests, keys and
wallets where nothing orders them; all sources up to `MaxRows` rows; ledgers of four to six transactions made
to reach each rule; the profiles each finding may have. Operators marked as mutants in the modules are not used by
the specifications: each is a plausible mistake in the definition below it, kept to show that the
properties would notice.

### The modules of theorems

`ImportJobsProofs`, `IngestionProofs`, `CaseWritersProofs`, `ReviewGroupsProofs` and `ScoringProofs` are about the
module each is named for; `FilesProofs` is about `AnalyticsRevisions` and `GeoIp`; `ExecutionProofs` about
`ProcessPool`, `Derivation`, `ReviewSeeds` and `ResourcePlan`; `ReadingProofs` about `Facts`, `GraphBuild`,
`GraphReading` and `FindingsReading`. See below.

## Runs

| Run | Question | Instance |
|---|---|---|
| `jobs_one` | Do requests, rows and outputs stay consistent over any mixture of crashes, exceptions, automatic retries, reclaims and client requests, and is the promise kept? | 1 job, 1 worker, SQLite, 2 faults, 2 requests |
| `jobs_workers` | Do leases keep two workers off one import, what survives when one lapses under a running worker, and does every import end? | 1 job, 2 workers, PostgreSQL, 1 fault of any kind, fairness |
| `ingest_all` | Is every source taken exactly once, and does every table agree? | 2 imports, every source of up to 3 rows, batch sizes 1 and 2, 2 stops |
| `pool_map` | Are results in order and with their batches, is memory bounded, and does the map end, whatever fails? | 2 drivers, window 3, every source of up to 4 jobs, 1 fault, fairness |
| `case_log` | Do concurrent writers keep the log, the decisions and the keys consistent? | 3 clients, 2 contents, 2 keys, 1 finding, 1 group, 3 transactions |
| `review_groups` | Is there one active generation that loses no finding and no decision, do both procedures agree, and is the queue fair? | 3 findings, groups of at most 2, no row locks, 2 releases with opposite id orders, 3 generations, 1 decision |
| `analytics_pages` | Do files, views, risk and seeds stay together while builds, refreshes, seed changes and pages cross? | 2 imports, 2 clients, 2 wallets, 4 transactions, 1 page |
| `derivation_modes` | Are graph, features and findings the ones the facts make, in memory or bounded, and what do overlapping seed requests leave right? | chain, burst, mixing and two-day ledgers of 4 to 6 transactions, 7 machines and 2 attempts for the hardest of them, 2 seed posts |
| `evidence_growth` | As evidence arrives, what looks ahead and how far, do entities only merge, and does risk follow the funds? | histories of 4 transactions, also with spenders dated first, with and without a Geo-IP database, up to 2 seeds of 2 weights |
| `geoip_install` | Does a database answer as its source while another is compiled and swapped in, and does one survive a failure? | 2 sources, 3 installations, 2 lookups, 2 faults |
| `graph_reading` | Is a case read whole by a view and by an export while it changes, and are flows the same from both ends? | 2 graphs, pages of 3 and 40, 2 mounts, 4 loads; or 3 findings, pages of 2, 2 decisions |
| `scoring_attempts` | Does one scorer make the findings of a snapshot, and is what an import settles pinned for good, while seeds add findings? | 3 attempts of any settings, 3 transactions, review seeds that reach 1 address |

What the properties say, by run:

- `jobs_one`: `RequestKeysFresh` (no insert meets the unique key of an earlier request);
  `OutcomesAreBacked` (a success row is never ahead of what it vouches for, and no stage meets an old
  attempt's key: `StageKeysFresh`); `CompletedIsSettled` (job, snapshot, rows, groups and requests agree
  once a job completes, and a request is answered by output of its own attempt or a later one:
  `FulfilledMeansDone`); `SettledStaysSettled` (only the API reopens, and leaves its reason); `PromiseKept`.
- `jobs_workers`: `OneWorkerPerJob`, `AttemptsNeverGoBack` (even after an overrun), `EveryJobSettles`.
- `ingest_all`: `ReceiptsAreBacked` (every receipt's file is there and is the only one at its path, a
  record can be cited exactly when it was committed, counters and activity reconcile
  (`CountersReconcile`), facts handed on from memory are the committed ones (`HandedIsCommitted`), and one
  import has all receipts of a source (`OneImportHoldsTheSource`)); `IntakeKept`.
- `pool_map`: `OrderIsKept` (the contract of `OrderedMap`, within the window) and `MapEnds` (the caller is
  answered, and no thread is left behind).
- `case_log`: `LogIsComplete` (no gaps, no repetitions, one event per change, and no event is committed at
  or below a number the reader has passed: `ReaderMissesNothing`), `DecisionsFormAChain` (each version
  decided once, each decision naming the one before), `KeysAreIdempotent` (all answers to a key agree, and
  their import, source and original exist).
- `review_groups`: `OneActiveGeneration`; `GroupedStaysGrouped` (what a finished stage reported stays in the
  active generation, through reuse, reactivation, other releases and failures); `ExecutorsAgree` (the disk
  index groups as the reference does, and groups are episodes, never joined through a member);
  `ReplacementsAreLinked` (a decision can be followed to every later generation); `QueueIsFair` (for every
  capacity: urgent bands first, families in turn, higher scores first).
- `analytics_pages`: `RecordsKeepTheirFiles` (no left-over or later build replaces the file of a committed
  row); `RefreshKeepsTheView`; `RiskIsNotOutdated` (a page never joins entities with risk of an older
  revision); `SeedsAreReflected` (the run shown used exactly the committed seeds, as long as risk
  transactions did not overlap).
- `derivation_modes`: `FindingsAreDerived` (what is committed is the in-memory pass over the facts, ranked
  and without losing a signal, in whichever mode, chunking and order it was made; chains follow the graph;
  rows name their files; what is held at once stays within the plan). `ReachIsReported` (exactly the addresses
  the committed seeds reach have a proximity finding, one each, that claims no shorter a path than there is) and
  `SeedsAreRepaired` (a post that ran alone leaves a feature file that shows every committed seed's reach, with
  its digest in the row, whatever overlapping and aborted posts left before).
- `evidence_growth`: `ViewsAgree` (arrays from streams, from the store, from files, by slicing and by
  truncation are the same); `CausalRows` (as evidence arrives, rows of the past
  change in two ways only: countries reported later are added to the denominator of every country share, and
  a parent dated later changes the rows of its spender, the depth of the spender's children, and whether the
  spender counts as an earlier motif of those it pays); `EntitiesOnlyMerge` (entities never split, links and
  received sums only grow, sent sums fall by no more than inputs had overstated the outputs that
  became known, and a seed that names an address keeps its wallet); `NetworkIsDecided` (entities are the connected parts of common inputs, and findings
  do not hang on which of several equal candidates was met first); `MoreSeedsMoreRisk`; `FundsCarryRisk`
  (risk arrives exactly where funds do within the hops counted, against reachability on single outputs).
- `geoip_install`: `OneDirectoryIsRight` (a database read from one directory answers as the first range of
  its source does; and the cache heals, `CurrentCacheIsWhole`); `SomethingIsLeft`.
- `graph_reading`: `CaseIsReadWhole` (a view shows one graph only, each page but the last adds to it, and
  loaded to the end it is the whole neighbourhood; an export leaves out no finding, decision or feature row
  that was there when it began; a list shows each finding once, and deciding on one moves no other); `FlowIsMutual` (a transfer seen from the transaction is seen from the
  address, with the same coins).
- `scoring_attempts`: `OneScorer` (all anomaly findings bear one release, are that release's whole ranking,
  and every recorded success names it; the queue is made of that release's rows, and for every capacity, page size
  and pair of offsets its pages list the strongest of them, once each); `PinnedWhenSettled` (detectors' findings are never without their writer's
  calibration, scored ones have one once scoring is a recorded success, and a completed import has no unpinned
  finding but those that review seeds have added since its last attempt began); `ProvenanceIsKept`.

### Bounds

- *Two faults and two requests* are the smallest numbers with a retry of a retry, a fault in the
  attempt that a request opened, and a second request over an unanswered first one. Jobs do not share
  rows, so one job shows what happens to a job; two workers of it show what a lease protects.
  `LeaseExcludes` below is proved for any number of both.
- *One batch* in `ImportJobs`: the position inside the source is `Ingestion`'s subject.
- *Three rows, two transactions, two variants* are enough for a kept row, a duplicate and a
  conflicting variant in every order and across every cut into batches of one or two; a malformed
  and an unreadable row may stand anywhere. Four rows exceed the time a run should take;
  `ReceiptsBacked` is proved for any.
- *Two imports* of a source are enough for one to meet the other's receipts.
- *Two drivers, four jobs, window three*: the window is larger than the number of drivers, so answers
  can wait, and smaller than the source, so drivers can wait; one fault leaves one driver working.
- *Three transactions* at once, of which two may be of one kind and one key while the third passes
  between them; each takes at most one number of the log.
- *Three findings, groups of at most two*: a third finding meets a full group, two open groups, or a
  group it shares an anchor with only through a member; the profiles give each finding the families,
  focal entities and anchors at which these cases differ, and the two releases order ids forwards and
  backwards, since the first group by id is taken. Three generations allow a rollback between
  releases around an added finding. Without row locks a finding may also come between digest and build.
- *Four transactions* of analytics in any mixture of builds and risk: a failed build, its repetition, a
  refresh and a run; or two builds that cross two seed changes. Two imports are a newer and an older one.
- *Ledgers of four to six transactions*: every way three later transactions may spend what came before (one
  output, two, one twice, one nobody committed), forwards and backwards in commit order; four payments
  placed in every way over quarter hours, hours and days; equal outputs behind three inputs; equal scores on
  two days. Thresholds of rules are lowered to 3 or 4 and hops to 3, so that the rules fire and also stop.
  `AllMachines` has room, too little memory for more than four records, no figures, mode and worker count
  set by hand, and too little disk. The ledgers that stress most are also failed and retried in every mode,
  the others built once, in two partitions, in batches of one record or three.
- *Histories* of `MCGrowing`: nine ways funds may flow without observations; two flows with four kinds of
  sightings (none, all at one relay, mixed, contradicting) at four timings (spread, all at once, late, one
  without a time); 24 flows whose spenders are dated before what they spend, with inputs that state nothing,
  too much, or in turn the right amount, too little and too much, and with a country more at each moment. Those
  reach every exception of `CausalRows` and `EntitiesOnlyMerge`: leaving any one of them out makes the run fail.
  Risk over two hops, so that it also ends.
- *One address* that review seeds reach: a finding is added, pinned and shown for itself, whatever other
  findings of seeds there are; `SettledArePinned` is proved for any.
- *Geo-IP*: sources with nested, overlapping and repeated ranges; three installations and two faults let a
  read span two swaps, and a failure meet what an earlier failure left.
- *Reading*: pages of 3 items need several requests for a neighbourhood and pages of 40 do not; two graphs,
  mounts and late answers make one of another graph arrive. Exports by twos over three findings, files
  shorter than a page and as long.
- *Three attempts*: a crash between rows and outcome, an attempt under other settings, and one after it.
- `MaxFaults`, `MaxAsks`, `MaxBegun`, `MaxStops`, `MaxJobs`, `MaxRequests`, `MaxBuilds`, `MaxDecisions`,
  `MaxInstalls`, `MaxLookups`, `MaxMounts`, `MaxLoads`, `MaxSeeds` and `MaxAttempts` cap what would otherwise
  be unbounded; nothing else is capped.
- `CHECK_DEADLOCK FALSE`: with every job settled and every request used up, nothing is left to do.

### Fairness

`FairSpec` assumes weak fairness of claiming, of the worker's own steps and of time passing a lease
nobody runs under. `main` polls for ever, and deploy/appliance/docker-compose.yml restarts the
worker (`restart: unless-stopped`). Nothing is assumed of the API, of exceptions or of crashes.
With unbounded crashes an import need not end, since attempts are not limited; `EveryJobSettles` is
checked with a bounded number, which is all the code offers. It holds after an overrun too, with two
workers writing: whichever commits last leaves the import settled or its lease to expire.

`ProcessPool` assumes that threads and processes that can run do run, and that the caller of the
generator either comes back for more or closes it. It assumes nothing of faults. `MapEnds` excepts
one case: an exception `drive` does not catch (an answer that cannot be pickled, no memory) ends a
driver with nothing stored, and with a long source the consumer then waits for ever, since the other
drivers wait for slots and are alive (process_pool.py:123-128, 146).

## Stated but false

Some statements of the repository do not hold of the models. Each is a definition in its module, with a
comment on how it fails; no run checks them, since none is expected to pass.

1. `WritersAreSerialized` (CaseWriters; app/events.py:22). Two transactions that have inserted rows of the
   case hold its row in share mode and both want it exclusively; PostgreSQL aborts one. The log itself stays
   correct.
2. `NewerFullRequestSupersedes` (ImportJobs; app/jobs/grouping.py:117, docs/group_queue_recovery_2026-10-05.md:37).
   `latest_pending_request` filters fulfilled rows, and the analytics commit fulfils the full request in the
   middle of its attempt. If that attempt then fails, its automatic retry is governed by the older group-only
   request and refused, because the snapshot is not complete.
3. `RenewsItsOwnLease` (ImportJobs; app/jobs/grouping.py:39). The renewal identity is read from an ORM object
   that a rollback has reloaded, so a stale worker can renew its replacement's lease.
4. `UnreceiptedFilesAreIgnored` (Ingestion; app/engine/catalogue/fragments.py:87, README.md:234). An orphan of a
   batch cut at another size is an immutable conflict at every later attempt that does not happen to choose
   the old size, and the size depends on free memory (pipeline.py:375-381). The size is not even needed: a
   resumed attempt has forgotten variants (pipeline.py:390), writes "duplicate" where the first wrote
   "conflicting", and conflicts with its own orphan for good.
5. `RefreshHidesNothingNewer` (AnalyticsRevisions; app/engine/analytics.py:1164, comment at :1166). If the
   analytics of an older import failed at first, its refresh inserts its first row, dated now, and the case's
   views move back to it.
6. `AssignedByADatabase` (GeoIp; app/engine/geoip.py:222-242, docstring at :20-22). Tables of two databases may
   be mixed in one answer while one replaces the other.
7. `PinnedByTheWriter` (Scoring; app/engine/confidence.py:158-159). Findings are committed before `_ml_done`
   pins them, so after a crash in between a later process pins them with its own calibration; and a review
   seed's findings are committed without any.
8. `RowsNeverChange` (GrowingEvidence; app/ml/grains.py:9, :21, :380). A feature is said to use facts at or before
   its transaction's time only, and statistics of the whole data set to be gone. But `_expanding_rarity` divides
   by the number of countries of the whole table (:437, :503, :528), and an input is resolved by a parent
   of any time (:152). `CausalRows` says how far that goes. The repository's truncation test cannot show the
   first, since `truncate_facts` keeps the table of countries whole.

## Observations

No document says otherwise, but a reader of the code may want to know.

- *Imports.* A second import of the same bytes under a new Idempotency-Key is accepted and can never commit a
  batch, because fragment paths are unique across imports. A crash may leave an optional stage "running" in a
  completed import, because a reclaim does not close the dead attempt's rows. A retry of an import whose
  findings were committed reports a finding_count of 0.
- *Release rollback.* A full run that finds its generation leaves the other release's generation active
  (investigations.py:109 returns the prior run as it is), while group-only recovery activates the one it
  found (grouping.py:153-156); both hold the same findings.
- *Risk.* When two seed changes of a case overlap, each propagates without the other's seed, and the run shown
  misses one of them until the next change. A seed named by entity id is silently not found once its cluster
  gains a smaller address. A seed's own risk combines its weight from both directions, 1-(1-w)², though
  seeds are said to stay at their weight.
- *Review seeds.* The feature file is replaced before the row commits, so overlapping posts lose an update, an
  aborted post's marks stay and the digest in the row may not match; a later lone post repairs all that. Two
  posts of one case at once deadlock on PostgreSQL, and one is aborted. Seed findings are pinned at the next
  attempt only, so until then a completed import shows them as legacy findings of unknown calibration
  (`PinnedWhenSettled` excepts just these). Existing findings are never refreshed, so a shorter path found later is not shown.
- *Facts and graph.* `_attach_network_context` (facts.py:233) lets a later row replace one without an ASN,
  though duplicates are said not to overwrite. The graph keeps the first spender of an output and the anomaly
  arrays the last. `truncate_facts` differs from a smaller case where a later spender conflicts.
  `publish_graph` compares the bytes of DuckDB files: equal rows in other bytes would
  make a retried import fail for good.
- *Rules.* The rapid rule goes by `address` only where windows go by address or script. Correlation totals
  count pairs of transaction and endpoint.
- *Resources.* A TRACEX_MEMORY_BUDGET_MB below 256 still gives DuckDB 256 MB (bounded.py:152). The mode is decided
  with the plan of the attempt's start and sizes with a later one.
- *Geo-IP.* Between the two renames the database counts as not installed; `.previous` is never put back; a second
  failing compilation after a crash loses both.
- *Reading.* `query_flow` offers inputs without an address with an onward count of 1 always. Exports page by
  random ids and offset, so rows inserted meanwhile may be exported twice (never left out), and the manifest's
  total may be below the number of lines. In FindingsFeed.tsx, changing the filter while an old answer is shown
  leaves "Next page" enabled; a list paged by offset while findings are reviewed can skip one. The list's family
  rank counts findings of every status, so a filtered band is not a strict round robin.
- *Scoring.* candidate_findings.py:109 reads `threshold_candidates`, which nothing writes. If scoring is switched
  off at the attempt after a crash between the rows and their outcome, the queue uses the default scorer and hides
  a candidate's rows. Ties are broken by time in the stack and by reference in the queue.

## Proofs

Each theorem is proved for all values of the constants that satisfy the assumptions its module names (for
`Ingestion`, for instance, that sources are sequences of rows and batch sizes positive).

`ImportJobsProofs`, for all jobs, workers, batches, faults and requests:

- `TypeCorrect`: `Spec => []TypeOK`. `TypeOK` is not inductive alone: opening or closing a row
  updates `rows[j][at]`, so `at` must be a stage then. `TypeInv == TypeOK /\ AtStage` is.
- `LeaseExcludes`: `Spec => []OneWorkerPerJob`: until a lease first lapses under a running worker
  (`LeasesHold`), no import is in two workers' hands. The strengthening `LeaseInv` says that every
  busy worker *holds* its job: the row names it as owner, is running or checkpointed, and its lease
  is live. A claim then never meets a held job, and exclusion follows since a row has one owner.
- `RequestKeys`: `Spec => []RequestKeysFresh`, until the same moment. The two cannot be separated: a
  request may be ahead of the attempt only while the job is queued, and a queued job stays queued
  only if no stale worker commits over it. `HeldInv == TypeInv /\ (LeasesHold => LeaseInv /\ FreshKeys)`
  is the inductive invariant; it is one because `LeasesHold` never becomes true again (`HeldBefore`).
- `OutcomesBacked` (`[](LeasesHold => OutcomesAreBacked)`), `CompletionSettles` (`[](LeasesHold =>
  CompletedIsSettled)`), `SettledStays` (`Spec /\ []LeasesHold => SettledStaysSettled`) and `PromiseIsKept`
  (`Spec /\ []LeasesHold => PromiseKept`: `ImportJobs` implements `ImportPromise`, step by step). What an import
  has when it completes was done by stages of several attempts, so one invariant, `WholeInv`, follows a worker
  through its run. `JobInv` is what the database alone says: a good outcome has its output (`StageInv`); where
  group-only recovery comes next, the stages it passes over are done with and no refresh is left unanswered
  (`RequestInv`); a terminal import has no running row and no live lease, a completed one no open request
  (`SettledInv`). `WorkerInv` is what a running worker adds: its copy of the job is exact, stages ahead of it have no
  row of this attempt (so that its row keys are new), those behind it are closed (`RowInv`), and a full run
  that has yet to come to its analytics knows every refresh that is asked for (`RunInv`): without that it would
  close a request it never answered.
- `AttemptsGrow`: `Spec => AttemptsNeverGoBack`, whatever lapses. A stale worker's save must not put back
  an older counter: no worker's copy is ahead of the counter, and a save writes only the columns the worker
  changed (`CountInv`, `CountedSave`).

The steps of a worker are abstracted once (`WorkerStep`: it changes only its own job, keeps holding
it or goes idle, and keeps request keys), each action is shown to be one, and the invariants are
proved from that. The condition is needed (and only the fault `overrun` ends it, so that `jobs_one`, which has
no such fault, checks the properties without it): after an overrun `OneWorkerPerJob` is false, as the code's
own documents say (README.md:236), and a stale commit can take a queued job out of the queue.

`CaseWritersProofs`, for all clients, contents, keys, findings, groups and numbers of transactions:

- `LogIsWhole` (`[]LogIsComplete`), `DecisionsChain` (`[]DecisionsFormAChain`) and `KeysHold` (`[]KeysAreIdempotent`).
  One invariant, `CaseInv`, carries them. Between taking its number and its commit a transaction holds the case
  row, so one at most is there; numbers are those of the log so far, and a reader who has seen the last number has
  missed none (`LogInv`). A key is in one import or in one open transaction (`KeyInv`). The versions of an item's
  reviews are the numbers below its own and each names the decision before it (`ChainInv`), because no two open
  decisions both hold the version they read when they come to update the item (`DecideInv`).

`IngestionProofs`, for all imports, sources, batch sizes and stops:

- `IngestionTyped`: `Spec => []TypeOK`.
- `ReceiptsBacked`: `Spec => []ReceiptsAreBacked`. `IngestInv` has two ideas. The running call stands where the
  last checkpoint of its import is (`CallInv`) and receipts cover exactly what lies before it
  (`ReceiptInv`), so the rows of a batch are new to the receipts and counters can be added up (`AddsUp`).
  And whichever import commits first has a receipt of batch 0 for the group of row 1 (`FirstInv`), whose
  path is in the way of every other import's first commit, however it cuts its batches.
- `IntakeIsKept`: `Spec => IntakeKept`, the simulation of `SourceIntake` step by step. `OrderInv` says that an import
  has kept the first well-formed row of each transaction up to its checkpoint, and that the running call has *seen*
  just their transactions, whether it met them itself or an earlier attempt did; so a batch adds just the first
  rows among its own, however the source was cut. The proof picks the least row of a transaction (`LeastNumber`).
  Every other step changes nothing that `SourceIntake` sees.

`ExecutionProofs`, first on `ProcessPool`, for all sets of drivers, windows, sources and faults:

- `PoolTyped`: `Spec => []TypeOK`, with at most one driver inside the draw lock.
- `PoolKeepsOrder`: `Spec => OrderIsKept`, that is, `ProcessPool` implements `OrderedMap` and holds no more than its
  window. That results come in order follows from the caller's queue being what was drawn and not yet given
  (`QueueInv`) and from an answer bearing the number of its job along its way through driver and process
  (`FlyInv`, `ProcessInv`, `Waiting`). That the map never ends early without a cause is harder. The consumer gives up
  when all drivers are gone and nothing waits, so two facts are needed of every earlier moment: nothing drawn is
  forgotten while no fault happened (`Whole`), and a driver goes for good only after the end of the source, a
  fault, or an answer that is not a good one (`Explained`); an exception of the source is an answer that
  waits at the end, or a driver is about to leave it there (`EndInv`). Room (`RoomInv`) is counted over drivers with
  a slot and answers waiting; when the consumer stops it frees slots for all drivers, and what still bounds the rest is
  that nobody enters the draw lock any more, so the count goes on over those who have passed it.

Then on the derivation of a snapshot's evidence, for all facts, machines, attempts, clients and offers of seeds:

- `RowsKeepTheirFiles`: `SeedSpec => []RowsNameTheirFiles`, a part of `FindingsAreDerived`. An attempt replaces the graph
  file or the feature file only while no row names it: `FileInv` says at which stages of an attempt that is so,
  and that the file on disk is the attempt's own when it comes to commit the row. Seed posts rewrite the
  feature file after that, and the row with it when they commit.
- `PlansFit`: for any memory, processors, settings and numbers of records, `PlanFits(Plan(...))`: partitions held at
  once stay within the share of the budget meant for them, pools within their parent's. A lemma about rounding
  down (`Quotient`) and one for each choice of a size from a ladder carry it.
- `SeedsAreReported` (`[]ReachIsReported`) and `LonePostsRepair` (`SeedsAreRepaired`). A post computes with the seeds it
  reads; what it must have read is all that are committed when it commits. That follows from the order of locks: a
  post has inserted, and so holds the case in share mode, before it reads, and one that commits must hold the
  case alone, so that no other that has inserted is there (`PostInv`: an open post sees the committed seeds and its
  own; `ReportInv`: what is reported is what those reach). A file is read, changed and swapped in three steps that others
  may cut into; `AloneInv` follows one that was alone all the way (nobody else is in flight, its copy shows all
  it sees, the file is that copy), and `RepairInv` is inductive with it. With more seeds no address is lost, none is
  further away and none is found by fewer (`SignalsGrow`), so findings of earlier seeds stay right.

`ScoringProofs`, for all settings, candidates, calibrations, transactions and attempts:

- `SettledArePinned` (`[]PinnedWhenSettled`) and `PinsAreForGood` (`ProvenanceIsKept`). A finding's calibration is
  fixed when it is pinned, but how it reads depends on its version too, so a key must have one version. It has:
  detectors and scorers share no rule, and anomaly rows are written in one commit and by one release only
  (`RowsInv`); what a pin holds is what the settings of one process gave (`PinsInv`), and each commit boundary
  tells which rows may still be without one (`StepInv`). Review seeds add rows at any step of an attempt; each is
  pinned or still in `posted`, since pinning takes every row there is when an attempt completes.
- `OneRelease`: `[]ScorersNeverMix`, a part of `OneScorer`: the anomaly findings are the whole ranking of one release,
  which every success names. `MixInv` says so of the rows, of the successes on record and of the result a process
  is about to record (`Told`): a later attempt under other settings meets the rows and tells their release, not
  its own. That a detector's ranking is whole, its flags the highest scores within the budget, is a fact about
  the operators (`RankedIsWhole`, `ScorerFlags`).
- `ScorersAndQueue`: `[]OneScorer`. `ShapeInv` adds that the rows are one such ranking (`Ranking`), with one row for
  each transaction, so the queue sorts just the transactions flagged (`QueueIs`). That each of its places is taken
  once is a counting argument (`EveryPlaceIsTaken`); that the transaction at a place is as strong as the finding
  with that rank, though the stack breaks ties by time and the queue by id, is another (`PlacesAreAsStrong`).

`FilesProofs` on `GeoIp`, for all sources, addresses and numbers of installations, lookups and faults:

- `OneFaultIsSurvived` (`SomethingIsLeft`): where the compiler stands tells which of the three names hold a
  directory (`CompilerInv`), and the first fault leaves at least one of them (`Left`).
- `CacheHeals` (`[]CurrentCacheIsWhole`, a part of `OneDirectoryIsRight`): a stamp belongs to one directory, and
  a database that was open before a swap bears an older stamp than what is installed.
- `AnswersAreRight`: `[]OneDirectoryIsRight`, for any ranges of the sources, nested, overlapping, unsorted or reversed.
  The folds of the compiler are unfolded step by step (`MergeSteps`, `AddSteps`, `MeetSteps`) and `Right` holds of the
  table after each range: rows are apart and in order, each ends where it should, and an address up to the last row
  is told what the first range holding it says, or nothing. Bisection then finds the one row that holds an address
  (`FindHits`) or none (`FindMisses`). On the reader's side `AnswersInv` follows what a process has loaded of one
  directory and what it answered from it (`FromOne`, `Answered`), while others are installed. It assumes that sources
  give natural numbers and that `Null` is no number, no directory and no table.

`ReviewGroupsProofs`, for all findings, workers, releases, profiles and bounds, with row locks or without:

- `OneGeneration`: `Spec => []OneActiveGeneration`.
- `GroupedStays`: `Spec => []GroupedStaysGrouped`. A generation found again may be an old one, and
  activating an old one must not lose findings. It cannot: findings are never deleted, so a digest
  read under the snapshot's lock names at least what any complete generation names, and the lock
  (`OneBusy`) keeps others from completing one before the reader commits (`DigestIsNewest`).
- `LinksReach`: `[]ReplacementsAreLinked`. A generation is linked from all earlier ones when it is published, under the
  snapshot's lock. `LinksInv` adds that generations are numbered in that order (`Numbered`) and that what a worker has
  built is of a digest no generation has (`BuiltIsNew`), so that what is found again is never published twice.
- `ExecutorsGroupAlike`: `[]ExecutorsAgree`. Both procedures are recursive functions over the findings, one of them
  with rows of a disk index. They agree after each finding (`Agreed`, `IndexedIsReference`): the groups the index
  looks up for a finding are the open ones it may join, and both choose the same of them. What is grouped depends on
  the digest's findings only (`ReferenceIsLocal`), so that later profiles change nothing. It rests on
  `IdsAssumption`: a release gives different findings different ids, as the primary key does.
- `QueueStaysFair`: `[]QueueIsFair`, for any number of waiting groups and any capacity. The rank of a group within its
  family is its turn (`FamilyRank`), the order by band, turn and score is total (`AheadIsTotal`), so that the ranks are
  just 0 to n-1 (`QueueIsFull`, by counting) and of two families of a band neither is more than one turn behind
  while one of its groups waits (`SharesAreEven`).

`FilesProofs` on `AnalyticsRevisions`, for all imports, clients, wallets and numbers of transactions: `AnalyticsTyped` (`[]TypeOK`),
`FilesStay` (`[]RecordsKeepTheirFiles`), `RiskKeepsUp` (`[]RiskIsNotOutdated`), `ViewIsKept` (`RefreshKeepsTheView`)
and `SeedsStayReflected` (`[]SeedsAreReflected`). One invariant, `AnalyticsInv`, carries them: a build's revision is
above every committed one of its import (`BuildIsNew`), so that neither its file nor its row can meet an existing one;
revisions are smaller than their dates (`Dated`), so that paths never run out within the bound; and the maxima that
the queries choose exist (`Tops`, kept by `TopGrows` without induction). For the seeds, as long as risk transactions
do not overlap, `SeedInv` says that an open transaction is the only one and younger than all runs (`OneAtATime`), and
that it will add a run of its own wherever the shown import has one (`NoRunIsLeftBehind`): a build that commits in
between changes what is shown, and must not bring an old run back.

`ReadingProofs`, for all cases (sequences of facts, seeds, page sizes, mounts and loads):

- `FlowsAreMutual`: `CaseSpec => []FlowIsMutual`. `Published` says that the graphs are those of the case's evidence; what
  matters is which graphs `_build` makes. Of the rows of one output, or one input, the first in order is kept
  (`KeepFirst`, followed through its fold by `FirstIsKept`), and edges of one output all lead to one spending
  transaction (`SpendsAre`, through the fold over inputs). So every such graph has a `Shape` (`GraphsAreShaped`): its
  edges end at its nodes; an output is created by the transaction it names, with one amount, is locked to one
  address, and is spent by one transaction at most. In a graph with that shape the four cases of `query_flow` come down
  to sets of coins (`Follows`), and the way back from an entry names the same coins and amount.
- `CaseReadWhole`: `CaseSpec => []CaseIsReadWhole`, with an invariant for each reader.
  For the view (`LoadInv`), a mount has at most one message under way, which is the request that continues what is
  shown or its answer. What is shown is the first so many nodes and edges of one graph's list, and the cursor carries
  just those offsets (`Spot`): so merging an answer appends it (`MergeIs`, followed through the fold by `MergeSteps`),
  each page but the last adds to it (`PageContinues`), and with no cursor left it is the whole. That whole is the nodes
  within the depth with all edges between them (`NeighbourhoodIsWhole`), by comparing three ways to widen a reach.
  For exports (`ExportInv`), everything stored when it began is sent, on the page being read, or still ahead of the
  offset: findings that come in meanwhile only raise a finding's rank (`RankGrows`, `StreamGrows`), and what is on a page
  gets a history at least as long as what was read of the finding. Feature rows keep their place (`Position`), however
  many files follow.
  For the list (`ListsAreSteady`), places are a total order (`EarlierIsOrder`), so that sorting by them lists each
  finding once, and a decision changes only the place of its own finding (`DecidingMovesOne`).

Assumptions on constants say what the code guarantees of them: that ledgers are sequences of rows, one for each
transaction (`LedgersAssumption`), that `Null` is none of the values it stands
beside (`NullAssumption`), that depths are natural numbers (`SeedDepthAssumption`), that costs and ladders of sizes are
positive (`PlanAssumption`), that ids are unique (`IdsAssumption`), that a page holds a node and an edge and a view a
step at least (`PagesAssumption`), that ids and scores are numbers and what is stored is finite (`StoreAssumption`). TLC evaluates each of them.

Only model-checked: liveness (`EveryJobSettles`, `MapEnds`), which is out of the prover's reach; of
`FindingsAreDerived` all but the part on files (`RowsNameTheirFiles`) and on the plan's sizes (`PlanFits`); and the
properties of `evidence_growth` (`ViewsAgree`, `NetworkIsDecided`, `FundsCarryRisk`, `CausalRows`, `EntitiesOnlyMerge`,
`MoreSeedsMoreRisk`). Those compare what several recursive operators compute from the same data: features in
parts and whole, entities by union-find against connected parts, risk by hop against reachability. Equalities of
that kind need induction over data with an operator as parameter, which the installed provers cannot
instantiate, or a fold followed step by step for each operator, as was done for the graph above.

## Not modelled

Contents and formats (parsing, the field rules of canonicalisation, Parquet, hashes, explanation texts),
numerical work (the estimators of the anomaly stack, neural models and their training, graph metrics, the
fitting of calibrations, TRAM, embeddings), heartbeats, authorisation, and the front end but for the graph view
and the paging of findings. Loss of the volume or of the database is outside: a crash here is a process
crash, after which renamed files and committed rows are there. Two workers with one identity (the default
id is the host's name) are excluded, as README.md:476 asks for one worker service per host. Scripts, the
synthetic generator, experiments and deployment files keep no protocol state; the scripts that compare
executors or measure resources run what is modelled here.

## Plan

1. Done: `ImportPromise`, `ImportJobs`; `SourceIntake`, `Ingestion`; `OrderedMap`, `ProcessPool`; `CaseWriters`;
   `Grouping`, `ReviewGroups`; `AnalyticsRevisions`.
2. Done: `Facts`, `GraphBuild`, `Peeling`, `WindowFindings`, `ResourcePlan`, `Derivation`, `ReviewSeeds`;
   `MlFacts`, `MlGrains`, `NetworkEntities`, `GrowingEvidence`; `GeoIp`; `GraphReading`, `FindingsReading`;
   `Scoring`.
3. Done: proofs for `ImportJobs`, `CaseWriters`, `ReviewGroups`, `AnalyticsRevisions`, `Ingestion`, `Scoring`, `GeoIp`
   and `ProcessPool`, with the three refinements (`PromiseKept`, `IntakeKept`, `OrderIsKept`): every safety property
   that a run of these modules checks.
4. Done: proofs for `GraphBuild`, `GraphReading` and `FindingsReading` (`FlowIsMutual`, `CaseIsReadWhole`), for the files of `Derivation`, for
   `ResourcePlan` and for `ReviewSeeds`.
5. Left: what `Derivation` says of its findings; `NetworkIsDecided` of `GrowingEvidence`.

Recursion is written as recursive functions or folds so that each module can be proved about.
