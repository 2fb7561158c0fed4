----------------------------- MODULE ImportJobs -----------------------------
(***************************************************************************)
(* The life of an import job: the API that queues and requeues it, the     *)
(* worker processes that lease it and drive it through the analysis        *)
(* stages, the lease, the durable stage rows and the durable requests that *)
(* say what a requeued job is for.                                         *)
(*                                                                         *)
(* The API and the workers meet only in the control database, so every     *)
(* action below is one committed transaction, or one decision a worker     *)
(* takes from what it has read.  A worker keeps an in-memory copy of the   *)
(* job row (SessionLocal has expire_on_commit=False) and its commits       *)
(* update only the columns that differ from that copy: Merge.              *)
(***************************************************************************)
EXTENDS Naturals, FiniteSets

CONSTANTS
    Jobs,         \* import jobs, numbered in the order of created_at
    Workers,      \* worker identities
    Nobody,       \* lease_owner NULL
    Batches,      \* batches the source is read in
    SideChannel,  \* TRUE: PostgreSQL, GroupingProgress runs; FALSE: SQLite
    FaultKinds,   \* what may go wrong: "crash", "exception", and "overrun", a
                  \* lease that lapses under a worker still running
    MaxFaults,    \* bound: faults of these kinds in a behaviour
    MaxAsks       \* bound: requests the API accepts

ASSUME JobsAssumption    == Jobs \subseteq Nat \ {0}
ASSUME NobodyAssumption  == Nobody \notin Workers
ASSUME BatchesAssumption == Batches \in Nat \ {0}
ASSUME ModeAssumption    == SideChannel \in BOOLEAN
ASSUME FaultsAssumption  == FaultKinds \subseteq {"crash", "exception", "overrun"}
ASSUME BoundsAssumption  == MaxFaults \in Nat /\ MaxAsks \in Nat

VARIABLES
    db,         \* per job, the ImportJob columns that steer the system
    rows,       \* per job and stage, its newest AnalysisStage row
    requests,   \* per job, its AnalysisRequest rows
    product,    \* per job and stage, its stored output: 0, or a stamp
    snapshot,   \* per job, the state of its Snapshot row
    checkpoint, \* per job, the batches its ImportCheckpoint rows cover
    ungrouped,  \* per job, findings outside every published generation exist
    wk,         \* per worker, the local state of its process_one call
    faults,     \* per kind, the faults so far
    asks        \* API requests accepted so far

dbVars == <<db, rows, requests, product, snapshot, checkpoint, ungrouped>>
vars == <<dbVars, wk, faults, asks>>

-----------------------------------------------------------------------------

RequiredStages == {"source_verification", "ingesting", "graph_building",
                   "findings", "ml_scoring", "analytics",
                   "investigation_grouping"}

\* "coverage" stands for the geoip, network_coverage and embeddings rows.
Stages == RequiredStages \cup {"coverage"}

Leased   == {"running", "checkpointed"}
Active   == Leased \cup {"queued"}
Terminal == {"completed", "failed"}

NoRow == [stage |-> "none", attempt |-> 0]

\* The state a worker loop is in between two process_one calls.
Idle == [phase |-> "idle", at |-> "none", job |-> 0,
         mem |-> [state |-> "none", stage |-> "none", owner |-> Nobody,
                  attempt |-> 0],
         row |-> NoRow, retried |-> FALSE, wanted |-> {},
         refreshing |-> FALSE, pos |-> 0]

Columns(d) == [state |-> d.state, stage |-> d.stage, owner |-> d.owner, attempt |-> d.attempt]

\* Mutant: the whole row is written back.
MergeAll(old, seen, new) ==
    [old EXCEPT !.state = new.state, !.stage = new.stage, !.owner = new.owner,
                !.attempt = new.attempt]

\* What the ORM writes: the columns that differ from the copy `seen`.
Merge(old, seen, new) ==
    [old EXCEPT
        !.state   = IF new.state = seen.state THEN @ ELSE new.state,
        !.stage   = IF new.stage = seen.stage THEN @ ELSE new.stage,
        !.owner   = IF new.owner = seen.owner THEN @ ELSE new.owner,
        !.attempt = IF new.attempt = seen.attempt THEN @ ELSE new.attempt]

Succeeded(j, s) == rows[j][s].status = "ok"

AnalysisComplete(j) ==
    /\ \A s \in RequiredStages : Succeeded(j, s)
    /\ \A s \in Stages : rows[j][s].status \in {"ok", "none"}

RetrySupported(j) == db[j].state \in Terminal /\ (db[j].state = "completed" => ~AnalysisComplete(j))

\* uq_job_stage_attempt admits one row per stage and attempt.
KeyFree(j, s, a) == rows[j][s].attempt # a

\* Job j's rows with one more: a row of an older attempt stays behind the
\* newest, which is the only one the system reads.
WithRow(j, s, a) ==
    IF rows[j][s].attempt < a THEN [rows[j] EXCEPT ![s] = [attempt |-> a, status |-> "running"]]
    ELSE rows[j]

\* Job j's rows with the row a worker holds set to status.
Finished(j, row, status) ==
    [s \in Stages |-> IF s = row.stage /\ rows[j][s].attempt = row.attempt
                      THEN [rows[j][s] EXCEPT !.status = status] ELSE rows[j][s]]

FailRunning(j) ==
    [s \in Stages |-> IF rows[j][s].status = "running"
                      THEN [rows[j][s] EXCEPT !.status = "failed"] ELSE rows[j][s]]

Pending(j, attempt) == {q \in requests[j] : ~q.fulfilled /\ q.attempt <= attempt}

\* The unfulfilled request with the highest attempt is for grouping only.
GroupOnlyPending(j, attempt) ==
    \E q \in Pending(j, attempt) :
        q.kind = "group" /\ \A p \in Pending(j, attempt) : p.attempt <= q.attempt

\* Mutant: only the request of this very attempt.
FulfilThisAttempt(j, attempt) ==
    {IF q.kind = "group" /\ q.attempt = attempt
     THEN [q EXCEPT !.fulfilled = TRUE] ELSE q : q \in requests[j]}

FulfilGrouping(j, attempt) ==
    {IF q.kind = "group" /\ q.attempt <= attempt
     THEN [q EXCEPT !.fulfilled = TRUE] ELSE q : q \in requests[j]}

FulfilRefresh(j, wanted) ==
    {IF q.kind = "refresh" /\ q.attempt \in wanted
     THEN [q EXCEPT !.fulfilled = TRUE] ELSE q : q \in requests[j]}

NewRequest(a, kind) == [attempt |-> a, kind |-> kind, fulfilled |-> FALSE]

\* A request row for the next attempt: (job_id, attempt) is the primary key.
RequestKeyFree(j) == \A q \in requests[j] : q.attempt # db[j].attempt + 1

-----------------------------------------------------------------------------
(* Initial states: fresh imports, and imports completed before review      *)
(* groups and stage rows existed.                                          *)

Fresh  == [state |-> "queued", stage |-> "queued", owner |-> Nobody,
           live |-> FALSE, attempt |-> 0, error |-> "none"]
Legacy == [Fresh EXCEPT !.state = "completed", !.stage = "ingested", !.attempt = 1]

Init ==
    \E old \in SUBSET Jobs :
        /\ db = [j \in Jobs |-> IF j \in old THEN Legacy ELSE Fresh]
        /\ rows = [j \in Jobs |-> [s \in Stages |-> [attempt |-> 0, status |-> "none"]]]
        /\ requests = [j \in Jobs |-> {}]
        /\ product = [j \in Jobs |-> [s \in Stages |->
               IF j \in old /\ s \in {"graph_building", "findings", "ml_scoring", "analytics"}
               THEN 1 ELSE 0]]
        /\ snapshot = [j \in Jobs |-> IF j \in old THEN "complete" ELSE "none"]
        /\ checkpoint = [j \in Jobs |-> IF j \in old THEN Batches ELSE 0]
        /\ ungrouped = [j \in Jobs |-> j \in old]
        /\ wk = [w \in Workers |-> Idle]
        /\ faults = [kind \in {"crash", "exception", "overrun"} |-> 0]
        /\ asks = 0

-----------------------------------------------------------------------------
(* The API.                                                                *)

\* Mutant: a state no worker looks for.
RequeueAside(d) == [d EXCEPT !.state = "retrying", !.stage = "queued", !.owner = Nobody,
                             !.live = FALSE, !.error = "none"]
Requeue(d) == [d EXCEPT !.state = "queued", !.stage = "queued", !.owner = Nobody,
                        !.live = FALSE, !.error = "none"]

\* POST /analysis/retry; kind is "refresh" when recompute_analytics is set.
RetryAnalysis(j, kind) ==
    /\ asks < MaxAsks
    /\ db[j].state \in Terminal
    /\ kind = "refresh" \/ RetrySupported(j)
    /\ RequestKeyFree(j)
    /\ requests' = [requests EXCEPT ![j] = @ \cup {NewRequest(db[j].attempt + 1, kind)}]
    /\ db' = [db EXCEPT ![j] = Requeue(@)]
    /\ asks' = asks + 1
    /\ UNCHANGED <<rows, product, snapshot, checkpoint, ungrouped, wk, faults>>

\* Mutant: active jobs are requeued too.
RegroupableActive(j) ==
    ungrouped[j] /\ snapshot[j] = "complete" /\ product[j]["graph_building"] > 0

\* The jobs POST /investigation-queue/build queues for group-only recovery.
Regroupable(j) ==
    /\ ungrouped[j] /\ snapshot[j] = "complete" /\ product[j]["graph_building"] > 0
    /\ \/ db[j].state = "completed"
       \/ db[j].state = "failed" /\ GroupOnlyPending(j, db[j].attempt)

BuildQueue ==
    LET chosen == {j \in Jobs : Regroupable(j)}
    IN  /\ asks < MaxAsks
        /\ chosen # {}
        /\ \A j \in chosen : RequestKeyFree(j)
        /\ requests' = [j \in Jobs |-> IF j \in chosen
               THEN requests[j] \cup {NewRequest(db[j].attempt + 1, "group")} ELSE requests[j]]
        /\ db' = [j \in Jobs |-> IF j \in chosen THEN Requeue(db[j]) ELSE db[j]]
        /\ asks' = asks + 1
        /\ UNCHANGED <<rows, product, snapshot, checkpoint, ungrouped, wk, faults>>

-----------------------------------------------------------------------------
(* Claiming, and the lease.                                                *)

\* Mutants: no lease check; no reclaim; failed jobs are taken up again.
ClaimableRunning(j) == db[j].state \in Active
ClaimableQueued(j)  == db[j].state = "queued"
ClaimableFailed(j)  == db[j].state \in {"queued", "failed"}

Claimable(j) ==
    \/ db[j].state = "queued"
    \/ (db[j].state \in Leased /\ ~db[j].live)

\* A running worker's open transaction may hold the row lock of its job, and
\* SKIP LOCKED passes over it.
MayBeLocked(j) == \E v \in Workers : wk[v].job = j

\* Mutant: the attempt is not counted.
TakenUncounted(d, w) == [d EXCEPT !.state = "running", !.stage = "source_verification",
                                  !.owner = w, !.live = TRUE]
Taken(d, w) == [d EXCEPT !.state = "running", !.stage = "source_verification",
                         !.owner = w, !.live = TRUE, !.attempt = @ + 1]

\* The worker about to verify the source of the job it holds.
Holding(j, mem, again) ==
    [Idle EXCEPT !.phase = "claimed", !.job = j, !.mem = mem, !.retried = again]

Claim(w, j) ==
    /\ wk[w].phase = "idle"
    /\ Claimable(j)
    /\ \A i \in Jobs : i < j /\ Claimable(i) => MayBeLocked(i)
    /\ db' = [db EXCEPT ![j] = Taken(@, w)]
    /\ wk' = [wk EXCEPT ![w] = Holding(j, Columns(Taken(db[j], w)), FALSE)]
    /\ UNCHANGED <<rows, requests, product, snapshot, checkpoint, ungrouped, faults, asks>>

OwnerRuns(j) == \E w \in Workers : wk[w].job = j /\ db[j].owner = w

Fault(kind) ==
    /\ kind \in FaultKinds
    /\ faults["crash"] + faults["exception"] + faults["overrun"] < MaxFaults
    /\ faults' = [faults EXCEPT ![kind] = @ + 1]

\* No lease has lapsed under a running worker so far.
LeasesHold == faults["overrun"] = 0

\* Time passes lease_expires_at.
LapseLease(j) ==
    /\ db[j].live
    /\ \/ /\ ~OwnerRuns(j)
          /\ UNCHANGED faults
       \/ OwnerRuns(j) /\ Fault("overrun")
    /\ db' = [db EXCEPT ![j].live = FALSE]
    /\ UNCHANGED <<rows, requests, product, snapshot, checkpoint, ungrouped, wk, asks>>

\* The process dies between two commits and is started again.
Crash(w) ==
    /\ Fault("crash")
    /\ wk[w].phase # "idle"
    /\ wk' = [wk EXCEPT ![w] = Idle]
    /\ UNCHANGED <<dbVars, asks>>

-----------------------------------------------------------------------------
(* Steps shared by the stages.                                             *)

In(w, phase, at) == wk[w].phase = phase /\ wk[w].at = at

\* An exception unwinds to process_one, which reloads the job.
Raised(w, kind) == [Idle EXCEPT !.phase = kind, !.job = wk[w].job, !.retried = wk[w].retried]

\* Commit the worker's copy of the job row as `new`; the lease column is
\* renewed, cleared or left as it is.
SaveJob(w, new, live) ==
    db' = [db EXCEPT ![wk[w].job] = [Merge(@, wk[w].mem, new) EXCEPT !.live = live]]

OpenedRow(w, s) ==
    rows' = [rows EXCEPT ![wk[w].job] = WithRow(wk[w].job, s, wk[w].mem.attempt)]

ClosedRow(w, status) ==
    rows' = [rows EXCEPT ![wk[w].job] = Finished(wk[w].job, wk[w].row, status)]

\* Output that a later attempt may replace is stamped with the attempt.
Stored(w, s, rebuilt) ==
    LET stamp == IF s \in {"analytics", "investigation_grouping"} THEN wk[w].mem.attempt ELSE 1
    IN  product' = [product EXCEPT ![wk[w].job][s] = IF rebuilt THEN stamp ELSE @]

NewFindings(w, written) ==
    \E any \in BOOLEAN :
        ungrouped' = [ungrouped EXCEPT ![wk[w].job] = @ \/ (written /\ any)]

Enter(w, s) ==
    LET new == [wk[w].mem EXCEPT !.stage = s]
    IN  /\ SaveJob(w, new, TRUE)
        /\ wk' = [wk EXCEPT ![w].mem = new, ![w].at = s,
                            ![w].phase = IF wk[w].row = NoRow THEN "open" ELSE "close"]

\* StageTracker.start ends the row of the stage before it ...
CloseRow(w) ==
    /\ wk[w].phase = "close"
    /\ ClosedRow(w, "ok")
    /\ wk' = [wk EXCEPT ![w].phase = "open", ![w].row = NoRow]
    /\ UNCHANGED <<db, requests, product, snapshot, checkpoint, ungrouped, faults, asks>>

\* ... keeps a successful outcome of an earlier attempt ...
Reuses(w, s) ==
    /\ Succeeded(wk[w].job, s)
    /\ s \in {"analytics", "coverage"} => ~wk[w].refreshing

ReuseRow(w) ==
    /\ wk[w].phase = "open"
    /\ Reuses(w, wk[w].at)
    /\ wk' = [wk EXCEPT ![w].phase = "work"]
    /\ UNCHANGED <<dbVars, faults, asks>>

\* ... or adds a row for this attempt.
OpenRow(w) ==
    LET s == wk[w].at
    IN  /\ wk[w].phase = "open"
        /\ ~Reuses(w, s)
        /\ KeyFree(wk[w].job, s, wk[w].mem.attempt)
        /\ OpenedRow(w, s)
        /\ wk' = [wk EXCEPT ![w].phase = "work",
                            ![w].row = [stage |-> s, attempt |-> wk[w].mem.attempt]]
        /\ UNCHANGED <<db, requests, product, snapshot, checkpoint, ungrouped, faults, asks>>

-----------------------------------------------------------------------------
(* Source verification, and the choice between the two kinds of run.       *)

OpenVerification(w) ==
    /\ wk[w].phase = "claimed"
    /\ KeyFree(wk[w].job, "source_verification", wk[w].mem.attempt)
    /\ OpenedRow(w, "source_verification")
    /\ wk' = [wk EXCEPT ![w].phase = "work", ![w].at = "source_verification",
                        ![w].row = [stage |-> "source_verification",
                                    attempt |-> wk[w].mem.attempt]]
    /\ UNCHANGED <<db, requests, product, snapshot, checkpoint, ungrouped, faults, asks>>

VerifySource(w) ==
    /\ In(w, "work", "source_verification")
    /\ ClosedRow(w, "ok")
    /\ wk' = [wk EXCEPT ![w].phase = "decide", ![w].row = NoRow]
    /\ UNCHANGED <<db, requests, product, snapshot, checkpoint, ungrouped, faults, asks>>

GroupingReady(j) == snapshot[j] = "complete" /\ product[j]["graph_building"] > 0

\* run_grouping_only takes the job.
StartRegrouping(w) ==
    LET j == wk[w].job
        new == [wk[w].mem EXCEPT !.stage = "investigation_grouping"]
    IN  /\ wk[w].phase = "decide"
        /\ GroupOnlyPending(j, wk[w].mem.attempt)
        /\ GroupingReady(j)
        /\ KeyFree(j, "investigation_grouping", wk[w].mem.attempt)
        /\ SaveJob(w, new, db[j].live)
        /\ OpenedRow(w, "investigation_grouping")
        /\ wk' = [wk EXCEPT ![w].mem = new, ![w].phase = "work", ![w].at = "regrouping",
                            ![w].row = [stage |-> "investigation_grouping",
                                        attempt |-> wk[w].mem.attempt]]
        /\ UNCHANGED <<requests, product, snapshot, checkpoint, ungrouped, faults, asks>>

RefuseRegrouping(w) ==
    /\ wk[w].phase = "decide"
    /\ GroupOnlyPending(wk[w].job, wk[w].mem.attempt)
    /\ ~GroupingReady(wk[w].job)
    /\ wk' = [wk EXCEPT ![w] = Raised(w, "failing_fatal")]
    /\ UNCHANGED <<dbVars, faults, asks>>

\* ingest_source reads what earlier attempts left.  `geoip` is set when the
\* offline database was installed after the last analytics revision.
StartImport(w) ==
    LET j == wk[w].job
        done == Succeeded(j, "ingesting")
        wanted == {q.attempt : q \in {p \in Pending(j, wk[w].mem.attempt) : p.kind = "refresh"}}
    IN  /\ wk[w].phase = "decide"
        /\ ~GroupOnlyPending(j, wk[w].mem.attempt)
        /\ \E geoip \in {FALSE, product[j]["analytics"] > 0} :
               wk' = [wk EXCEPT ![w].phase = "begin", ![w].at = "ingesting",
                          ![w].pos = checkpoint[j], ![w].wanted = wanted,
                          ![w].refreshing = wanted # {} \/ geoip,
                          ![w].row = IF done THEN NoRow
                                     ELSE [stage |-> "ingesting", attempt |-> wk[w].mem.attempt]]
        /\ IF done THEN UNCHANGED rows
           ELSE KeyFree(j, "ingesting", wk[w].mem.attempt) /\ OpenedRow(w, "ingesting")
        /\ UNCHANGED <<db, requests, product, snapshot, checkpoint, ungrouped, faults, asks>>

-----------------------------------------------------------------------------
(* The full run.                                                           *)

BeginIngest(w) ==
    LET new == [wk[w].mem EXCEPT !.state = "running", !.stage = "ingesting"]
    IN  /\ wk[w].phase = "begin"
        /\ SaveJob(w, new, db[wk[w].job].live)
        /\ wk' = [wk EXCEPT ![w].mem = new, ![w].phase = "work"]
        /\ UNCHANGED <<rows, requests, product, snapshot, checkpoint, ungrouped, faults, asks>>

\* uq_job_checkpoint_record: no other worker has committed this batch.
CommitBatch(w) ==
    LET j == wk[w].job
        new == [wk[w].mem EXCEPT !.state = "checkpointed", !.stage = "ingesting"]
    IN  /\ In(w, "work", "ingesting") /\ wk[w].row # NoRow
        /\ wk[w].pos < Batches
        /\ checkpoint[j] = wk[w].pos
        /\ checkpoint' = [checkpoint EXCEPT ![j] = @ + 1]
        /\ snapshot' = [snapshot EXCEPT ![j] = IF @ = "none" THEN "provisional" ELSE @]
        /\ SaveJob(w, new, TRUE)
        /\ wk' = [wk EXCEPT ![w].mem = new, ![w].pos = @ + 1]
        /\ UNCHANGED <<rows, requests, product, ungrouped, faults, asks>>

\* Mutant: the stage ends after any batch.
FinishIngestEarly(w) ==
    /\ In(w, "work", "ingesting") /\ wk[w].row # NoRow
    /\ ClosedRow(w, "ok")
    /\ wk' = [wk EXCEPT ![w].row = NoRow]
    /\ UNCHANGED <<db, requests, product, snapshot, checkpoint, ungrouped, faults, asks>>

FinishIngest(w) ==
    /\ In(w, "work", "ingesting") /\ wk[w].row # NoRow
    /\ wk[w].pos = Batches
    /\ ClosedRow(w, "ok")
    /\ wk' = [wk EXCEPT ![w].row = NoRow]
    /\ UNCHANGED <<db, requests, product, snapshot, checkpoint, ungrouped, faults, asks>>

EnterGraph(w) ==
    /\ In(w, "work", "ingesting") /\ wk[w].row = NoRow
    /\ Enter(w, "graph_building")
    /\ snapshot' = [snapshot EXCEPT ![wk[w].job] = "graph_building"]
    /\ UNCHANGED <<rows, requests, product, checkpoint, ungrouped, faults, asks>>

\* The graph or the findings, and the move to the next stage, in one commit;
\* both builders return what an earlier attempt stored.
BuildAndEnter(w, s, next) ==
    LET rebuilt == product[wk[w].job][s] = 0
    IN  /\ In(w, "work", s)
        /\ Enter(w, next)
        /\ Stored(w, s, rebuilt)
        /\ NewFindings(w, rebuilt /\ s = "findings")
        /\ UNCHANGED <<rows, requests, snapshot, checkpoint, faults, asks>>

Score(w) ==
    LET rebuilt == product[wk[w].job]["ml_scoring"] = 0
    IN  /\ In(w, "work", "ml_scoring")
        /\ Stored(w, "ml_scoring", rebuilt)
        /\ NewFindings(w, rebuilt)
        /\ wk' = [wk EXCEPT ![w].phase = "scored"]
        /\ UNCHANGED <<db, rows, requests, snapshot, checkpoint, faults, asks>>

\* Disabled or unavailable, or an exception: a rollback, after which the ORM
\* reads the job row again.
SkipScoring(w) ==
    /\ In(w, "work", "ml_scoring")
    /\ \E mem \in {wk[w].mem, Columns(db[wk[w].job])} :
           wk' = [wk EXCEPT ![w].phase = "unscored", ![w].mem = mem]
    /\ UNCHANGED <<dbVars, faults, asks>>

FinishScoring(w) ==
    /\ \/ wk[w].phase = "scored" /\ \E status \in {"ok", "failed"} : ClosedRow(w, status)
       \/ wk[w].phase = "unscored" /\ ClosedRow(w, "failed")
    /\ wk' = [wk EXCEPT ![w].phase = "leave", ![w].row = NoRow]
    /\ UNCHANGED <<db, requests, product, snapshot, checkpoint, ungrouped, faults, asks>>

EnterAnalytics(w) ==
    /\ In(w, "leave", "ml_scoring")
    /\ Enter(w, "analytics")
    /\ UNCHANGED <<rows, requests, product, snapshot, checkpoint, ungrouped, faults, asks>>

\* Mutant: an existing revision is always kept.
RecomputesIfMissing(w) == product[wk[w].job]["analytics"] = 0
Recomputes(w) == wk[w].refreshing \/ product[wk[w].job]["analytics"] = 0

\* The revision, the requests it answers and the stage outcome in one commit.
Analyze(w) ==
    /\ In(w, "work", "analytics")
    /\ Stored(w, "analytics", Recomputes(w))
    /\ NewFindings(w, Recomputes(w))
    /\ requests' = [requests EXCEPT ![wk[w].job] = FulfilRefresh(wk[w].job, wk[w].wanted)]
    /\ ClosedRow(w, "ok")
    /\ wk' = [wk EXCEPT ![w].phase = "open", ![w].at = "coverage", ![w].row = NoRow]
    /\ UNCHANGED <<db, snapshot, checkpoint, faults, asks>>

AnalyticsFails(w) ==
    /\ In(w, "work", "analytics")
    /\ ClosedRow(w, "failed")
    /\ wk' = [wk EXCEPT ![w].phase = "leave", ![w].row = NoRow, ![w].mem = Columns(db[wk[w].job])]
    /\ UNCHANGED <<db, requests, product, snapshot, checkpoint, ungrouped, faults, asks>>

ReportCoverage(w) ==
    /\ In(w, "work", "coverage")
    /\ \E status \in {"ok", "failed"} : ClosedRow(w, status)
    /\ wk' = [wk EXCEPT ![w].phase = "leave", ![w].row = NoRow]
    /\ UNCHANGED <<db, requests, product, snapshot, checkpoint, ungrouped, faults, asks>>

EnterGrouping(w) ==
    /\ wk[w].phase = "leave" /\ wk[w].at \in {"analytics", "coverage"}
    /\ Enter(w, "investigation_grouping")
    /\ UNCHANGED <<rows, requests, product, snapshot, checkpoint, ungrouped, faults, asks>>

-----------------------------------------------------------------------------
(* Grouping, in a full run ("investigation_grouping") or alone             *)
(* ("regrouping").                                                         *)

Grouping(w) == wk[w].at \in {"investigation_grouping", "regrouping"}

\* The WHERE clause of GroupingProgress._persist.
StillMine(w) ==
    /\ db[wk[w].job].attempt = wk[w].mem.attempt
    /\ db[wk[w].job].owner = wk[w].mem.owner
    /\ db[wk[w].job].state \in Leased

StartGrouping(w) ==
    /\ wk[w].phase = "work" /\ Grouping(w)
    /\ SideChannel => StillMine(w)
    /\ db' = [db EXCEPT ![wk[w].job].live = @ \/ SideChannel]
    /\ wk' = [wk EXCEPT ![w].phase = "grouping"]
    /\ UNCHANGED <<rows, requests, product, snapshot, checkpoint, ungrouped, faults, asks>>

RenewLease(w) ==
    /\ SideChannel
    /\ wk[w].phase = "grouping"
    /\ StillMine(w)
    /\ db' = [db EXCEPT ![wk[w].job].live = TRUE]
    /\ UNCHANGED <<rows, requests, product, snapshot, checkpoint, ungrouped, wk, faults, asks>>

\* _persist raises; the grouping call re-raises it before it returns.
LoseLease(w) ==
    /\ SideChannel
    /\ wk[w].phase \in {"work", "grouping"} /\ Grouping(w)
    /\ ~StillMine(w)
    /\ wk' = [wk EXCEPT ![w] = Raised(w, "failing_fatal")]
    /\ UNCHANGED <<dbVars, faults, asks>>

Published(w) ==
    LET j == wk[w].job
    IN  /\ Stored(w, "investigation_grouping", TRUE)
        /\ requests' = [requests EXCEPT ![j] = FulfilGrouping(j, wk[w].mem.attempt)]
        /\ ungrouped' = [ungrouped EXCEPT ![j] = FALSE]
        /\ ClosedRow(w, "ok")

CompletedJob(w) ==
    LET new == [wk[w].mem EXCEPT !.state = "completed", !.stage = "ingested", !.owner = Nobody]
    IN  SaveJob(w, new, FALSE)

\* The full run commits its groups, and then the end of the import ...
PublishGroups(w) ==
    /\ In(w, "grouping", "investigation_grouping") /\ wk[w].row # NoRow
    /\ Published(w)
    /\ wk' = [wk EXCEPT ![w].phase = "complete", ![w].row = NoRow]
    /\ UNCHANGED <<db, snapshot, checkpoint, faults, asks>>

CompleteImport(w) ==
    /\ wk[w].phase = "complete"
    /\ CompletedJob(w)
    /\ snapshot' = [snapshot EXCEPT ![wk[w].job] = "complete"]
    /\ wk' = [wk EXCEPT ![w] = Idle]
    /\ UNCHANGED <<rows, requests, product, checkpoint, ungrouped, faults, asks>>

\* ... or both at once when an earlier grouping outcome is kept: finish has no
\* row to commit.
PublishAndComplete(w) ==
    /\ In(w, "grouping", "investigation_grouping") /\ wk[w].row = NoRow
    /\ Published(w)
    /\ CompletedJob(w)
    /\ snapshot' = [snapshot EXCEPT ![wk[w].job] = "complete"]
    /\ wk' = [wk EXCEPT ![w] = Idle]
    /\ UNCHANGED <<checkpoint, faults, asks>>

\* run_grouping_only: groups, fulfilment, stage row and job in one commit.
RegroupAndComplete(w) ==
    /\ In(w, "grouping", "regrouping")
    /\ Published(w)
    /\ CompletedJob(w)
    /\ wk' = [wk EXCEPT ![w] = Idle]
    /\ UNCHANGED <<snapshot, checkpoint, faults, asks>>

-----------------------------------------------------------------------------
(* Failures: an exception, then one transaction that locks and reloads the *)
(* job.                                                                    *)

Failing == {"failing_transient", "failing_fatal"}

Raise(w, kind) ==
    /\ Fault("exception")
    /\ wk[w].phase \notin Failing \cup {"idle"}
    /\ wk' = [wk EXCEPT ![w] = Raised(w, kind)]
    /\ UNCHANGED <<dbVars, asks>>

\* The next insert meets a unique key that another worker of the job has taken.
KeyTaken(w) ==
    LET j == wk[w].job
        a == wk[w].mem.attempt
    IN  \/ wk[w].phase = "claimed" /\ ~KeyFree(j, "source_verification", a)
        \/ /\ wk[w].phase = "decide"
           /\ IF GroupOnlyPending(j, a) THEN GroupingReady(j) /\ ~KeyFree(j, "investigation_grouping", a)
              ELSE ~Succeeded(j, "ingesting") /\ ~KeyFree(j, "ingesting", a)
        \/ wk[w].phase = "open" /\ ~Reuses(w, wk[w].at) /\ ~KeyFree(j, wk[w].at, a)
        \/ In(w, "work", "ingesting") /\ wk[w].row # NoRow /\ wk[w].pos < checkpoint[j]

DuplicateKey(w) ==
    /\ KeyTaken(w)
    /\ wk' = [wk EXCEPT ![w] = Raised(w, "failing_fatal")]
    /\ UNCHANGED <<dbVars, faults, asks>>

Owned(w) == db[wk[w].job].owner = w /\ db[wk[w].job].state \in Leased

Abandon(w) ==
    /\ wk[w].phase \in Failing
    /\ ~Owned(w)
    /\ wk' = [wk EXCEPT ![w] = Idle]
    /\ UNCHANGED <<dbVars, faults, asks>>

MayRetry(w) == wk[w].phase = "failing_transient" /\ ~wk[w].retried

Retried(d) == [d EXCEPT !.state = "running", !.stage = "source_verification",
                        !.live = TRUE, !.error = "none", !.attempt = @ + 1]

RetryOnce(w) ==
    LET j == wk[w].job
    IN  /\ MayRetry(w) /\ Owned(w)
        /\ db' = [db EXCEPT ![j] = Retried(@)]
        /\ rows' = [rows EXCEPT ![j] = FailRunning(j)]
        /\ wk' = [wk EXCEPT ![w] = Holding(j, Columns(Retried(db[j])), TRUE)]
        /\ UNCHANGED <<requests, product, snapshot, checkpoint, ungrouped, faults, asks>>

FailJob(w) ==
    LET j == wk[w].job
        code == IF db[j].stage = "source_verification" THEN "SOURCE_VERIFICATION_FAILED"
                ELSE "ANALYSIS_STAGE_FAILED"
    IN  /\ wk[w].phase \in Failing
        /\ Owned(w) /\ ~MayRetry(w)
        /\ db' = [db EXCEPT ![j] = [@ EXCEPT !.state = "failed", !.stage = "failed",
                                             !.owner = Nobody, !.live = FALSE, !.error = code]]
        /\ rows' = [rows EXCEPT ![j] = FailRunning(j)]
        /\ wk' = [wk EXCEPT ![w] = Idle]
        /\ UNCHANGED <<requests, product, snapshot, checkpoint, ungrouped, faults, asks>>

-----------------------------------------------------------------------------

FullRun(w) ==
    \/ BeginIngest(w) \/ CommitBatch(w) \/ FinishIngest(w) \/ EnterGraph(w)
    \/ BuildAndEnter(w, "graph_building", "findings")
    \/ BuildAndEnter(w, "findings", "ml_scoring")
    \/ Score(w) \/ SkipScoring(w) \/ FinishScoring(w) \/ EnterAnalytics(w)
    \/ Analyze(w) \/ AnalyticsFails(w) \/ ReportCoverage(w) \/ EnterGrouping(w)
    \/ CloseRow(w) \/ ReuseRow(w) \/ OpenRow(w)

GroupingRun(w) ==
    \/ StartGrouping(w) \/ LoseLease(w)
    \/ PublishGroups(w) \/ CompleteImport(w) \/ PublishAndComplete(w)
    \/ RegroupAndComplete(w)

Handler(w) == DuplicateKey(w) \/ Abandon(w) \/ RetryOnce(w) \/ FailJob(w)

Choose(w) ==
    \/ OpenVerification(w) \/ VerifySource(w)
    \/ StartRegrouping(w) \/ RefuseRegrouping(w) \/ StartImport(w)

\* What a live worker does without help: no crash, exception or renewal.
Work(w) == Choose(w) \/ FullRun(w) \/ GroupingRun(w) \/ Handler(w)

Api == (\E j \in Jobs, kind \in {"plain", "refresh"} : RetryAnalysis(j, kind)) \/ BuildQueue

Next ==
    \/ Api
    \/ \E j \in Jobs : LapseLease(j)
    \/ \E w \in Workers :
           \/ \E j \in Jobs : Claim(w, j)
           \/ Work(w)
           \/ RenewLease(w)
           \/ \E kind \in Failing : Raise(w, kind)
           \/ Crash(w)

Spec == Init /\ [][Next]_vars

\* The worker service is restarted when it exits and polls for ever; time
\* passes.  Nothing is assumed of the API, of exceptions or of crashes.
Fairness ==
    /\ \A w \in Workers : WF_vars(\E j \in Jobs : Claim(w, j)) /\ WF_vars(Work(w))
    /\ \A j \in Jobs : WF_vars(~OwnerRuns(j) /\ LapseLease(j))

FairSpec == Spec /\ Fairness

-----------------------------------------------------------------------------
(* Properties.                                                             *)

States     == Active \cup Terminal
StageNames == Stages \cup {"queued", "failed", "ingested"}
Statuses   == {"none", "running", "ok", "failed"}

JobRow == [state : States, stage : StageNames, owner : Workers \cup {Nobody},
           live : BOOLEAN, attempt : Nat,
           error : {"none", "SOURCE_VERIFICATION_FAILED", "ANALYSIS_STAGE_FAILED"}]
MemRow == [state : States \cup {"none"}, stage : StageNames \cup {"none"},
           owner : Workers \cup {Nobody}, attempt : Nat]
StageRows   == [attempt : Nat, status : Statuses]
RequestRows == [attempt : Nat, kind : {"plain", "refresh", "group"}, fulfilled : BOOLEAN]

Phases == Failing \cup {"idle", "claimed", "decide", "begin", "open", "work", "close",
                        "scored", "unscored", "leave", "grouping", "complete"}
HeldRow == [stage : Stages \cup {"none"}, attempt : Nat]
Local == [phase : Phases, at : Stages \cup {"none", "regrouping"}, job : Jobs \cup {0},
          mem : MemRow, row : HeldRow, retried : BOOLEAN, wanted : SUBSET Nat,
          refreshing : BOOLEAN, pos : Nat]

\* Every variable keeps its type, and a worker that is not idle has a job.
TypeOK ==
    /\ db \in [Jobs -> JobRow]
    /\ rows \in [Jobs -> [Stages -> StageRows]]
    /\ requests \in [Jobs -> SUBSET RequestRows]
    /\ product \in [Jobs -> [Stages -> Nat]]
    /\ snapshot \in [Jobs -> {"none", "provisional", "graph_building", "complete"}]
    /\ checkpoint \in [Jobs -> Nat]
    /\ ungrouped \in [Jobs -> BOOLEAN]
    /\ wk \in [Workers -> Local]
    /\ \A w \in Workers : wk[w].phase = "idle" <=> wk[w].job = 0
    /\ faults \in [{"crash", "exception", "overrun"} -> Nat] /\ asks \in Nat

FreshKeys ==
    \A j \in Jobs :
        /\ \A q \in requests[j] :
               \/ q.attempt <= db[j].attempt
               \/ db[j].state = "queued" /\ q.attempt = db[j].attempt + 1
        /\ \A p, q \in requests[j] : p.attempt = q.attempt => p = q

\* A retry the API accepts never collides with an earlier request: request rows
\* never run ahead of the attempt counter, except the one a queued job waits
\* with, and each is alone under its key.  A collision would make every later
\* retry of the job an IntegrityError.  (A worker that runs on after its lease
\* has lapsed can take a queued job out of the queue.)
RequestKeysFresh == LeasesHold => FreshKeys

\* No attempt ever opens the same stage twice, whatever mixture of crashes,
\* automatic retries and reclaims led to it: the insert of a stage row never
\* meets uq_job_stage_attempt.
StageKeysFresh ==
    \A w \in Workers :
        /\ wk[w].phase = "claimed" => KeyFree(wk[w].job, "source_verification", wk[w].mem.attempt)
        /\ wk[w].phase = "open" => KeyFree(wk[w].job, wk[w].at, wk[w].mem.attempt)

\* A successful stage row is only ever written after the stage's output is
\* durable, so a later attempt may keep it and skip the row; and an attempt that
\* does run a stage finds its key free.
OutcomesAreBacked ==
    /\ StageKeysFresh
    /\ \A j \in Jobs :
           /\ \A s \in {"graph_building", "findings", "analytics", "investigation_grouping"} :
                  Succeeded(j, s) => product[j][s] > 0
           /\ Succeeded(j, "ingesting") => checkpoint[j] = Batches

\* A request marked fulfilled was answered by output produced for it: at its own
\* attempt or a later one, never by what an earlier attempt left.
FulfilledMeansDone ==
    \A j \in Jobs : \A q \in requests[j] : q.fulfilled =>
        /\ q.kind = "refresh" => product[j]["analytics"] >= q.attempt
        /\ q.kind = "group" => product[j]["investigation_grouping"] >= q.attempt

\* No request is answered by old output, and a completed job is finished in
\* every table: its snapshot is complete, the
\* newest row of each stage has an outcome, no error is left from an earlier
\* attempt, its findings are grouped (imports from before review groups aside),
\* and no group-only or answered refresh intent is still pending.
CompletedIsSettled ==
    /\ FulfilledMeansDone
    /\ \A j \in Jobs : db[j].state = "completed" =>
           /\ snapshot[j] = "complete" /\ db[j].error = "none"
           /\ db[j].owner = Nobody /\ ~db[j].live
           /\ \A s \in RequiredStages : rows[j][s].status # "running"
           /\ product[j]["investigation_grouping"] > 0 => ~ungrouped[j]
           /\ \A q \in requests[j] : ~q.fulfilled =>
                  \/ q.kind = "plain"
                  \/ q.kind = "refresh" /\ ~Succeeded(j, "analytics")

\* The API alone reopens a settled job, and it leaves the reason beside it.
SettledStaysSettled ==
    [][\A j \in Jobs : db[j].state \in Terminal =>
          \/ db'[j] = db[j]
          \/ /\ db'[j].state = "queued"
             /\ \E q \in requests'[j] : q.attempt = db[j].attempt + 1 /\ ~q.fulfilled]_vars

\* Until a lease lapses under a running worker, a job is never in the hands of
\* two workers, however crashes and reclaims follow one another.
OneWorkerPerJob ==
    LeasesHold => \A v, w \in Workers : v # w /\ wk[v].job = wk[w].job => wk[v].phase = "idle"

\* An attempt number is never used again: whatever a stale worker commits, the
\* counter it would roll back is the newer one.  Stage rows, request rows and
\* the grouping lease are all keyed by it.
AttemptsNeverGoBack ==
    [][\A j \in Jobs :
          /\ db'[j].attempt >= db[j].attempt
          /\ db'[j].attempt > db[j].attempt => \A s \in Stages : rows'[j][s].attempt < db'[j].attempt]_vars

\* The promise made to clients, read off the job and request rows.
Promise == INSTANCE ImportPromise WITH
    Imports <- Jobs,
    Intents <- {"refresh", "group"},
    status <- [j \in Jobs |-> CASE db[j].state = "queued" -> "waiting"
                               [] db[j].state \in Leased -> "working"
                               [] OTHER -> db[j].state],
    owed <- [j \in Jobs |-> {[kind |-> q.kind, no |-> q.attempt] :
                              q \in {r \in requests[j] : ~r.fulfilled /\ r.kind # "plain"}}]

\* The API, the workers and the lease together keep that promise: no import is
\* settled unless it was taken, no settled import is reopened without a
\* request, and no intent is dropped by a crash, a retry or a reclaim.
PromiseKept == Promise!PromiseSpec

\* docs/group_queue_recovery_2026-10-05.md:37: "A newer full-analysis request
\* supersedes group-only recovery": no attempt that has a full-analysis request
\* newer than the group-only one is handed to group-only recovery.
NewerFullRequestSupersedes ==
    \A w \in Workers : LET j == wk[w].job a == wk[w].mem.attempt IN
        wk[w].phase = "decide" /\ GroupOnlyPending(j, a) =>
            \E q \in requests[j] : /\ q.kind = "group"
                                   /\ \A p \in requests[j] : p.attempt <= a => p.attempt <= q.attempt

\* app/jobs/grouping.py:59: "Do not resurrect an expired/reclaimed/completed job
\* owned by another attempt": the identity a worker renews a lease under while
\* it groups is its own.
RenewsItsOwnLease ==
    \A w \in Workers : wk[w].phase = "grouping" => wk[w].mem.owner = w

\* Every queued or running import ends, completed or failed.
EveryJobSettles == \A j \in Jobs : db[j].state \in Active ~> db[j].state \in Terminal

=============================================================================
