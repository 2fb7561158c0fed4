------------------------------- MODULE Scoring -------------------------------
(* Who scores a snapshot, and with which provenance: the findings of one    *)
(* import over its attempts (engine/ingestion/pipeline.py), each by a       *)
(* process with settings of its own: anomaly stack or an installed frozen   *)
(* candidate (ml/candidate_findings.py), network findings of analytics that *)
(* may be recomputed, and the calibration every finding is pinned to        *)
(* (engine/confidence.py).  Windows are one with the entity, and model      *)
(* fitting is a table of results.                                           *)
EXTENDS Integers, Sequences, FiniteSets, SequencesExt

CONSTANTS
    Null,
    Cases,       \* the cases an import may belong to: [mode, domain, synthetic]
    Candidates,  \* what an operator may install: [release, eligibility, domain, proven, intact, breaks]
    Calibrations,\* calibration files a deployment may bring: [fits, known], the release
                 \* each rule's entry is fitted to, and whether the import's source is a
                 \* fixture it knows
    Transactions,\* of the snapshot
    Least,       \* transactions a reference distribution needs (50 in the code)
    Score,       \* of a transaction under a release: Score[release][tx]
    Slot,        \* a transaction's place by time: Slot[tx]
    Threshold,   \* of the anomaly stack
    Budget,      \* per cent of the transactions a candidate retains
    Patterns,    \* the deterministic findings, keys <<entity, rule>>
    Tested,      \* rules of network findings that come with a p-value
    Correlated,  \* the network findings by Geo-IP database installed: [key -> score]
    Reaches,     \* sets of addresses that a review seed may reach
    MaxAttempts  \* bound on attempts

Stack == "anomaly-stack-v2"
Rules == {"anomaly_stack_rank", "candidate_pattern_triage"} \* of anomalies
Fixed == {"deterministic-v1", "network-correlation-v1"}     \* versions that are no scorer's
SeedRule == "synthetic_seed_proximity"

\* A candidate's release is named after its payload (candidate.py:176).
ASSUME ReleasesAssumption == Null # Stack /\ \A m \in Candidates : m # Null /\ m.release \notin Fixed \cup {Stack, Null}
ASSUME ScoresAssumption ==
    /\ IsFiniteSet(Transactions) /\ Transactions \subseteq Nat /\ Threshold \in Int /\ Budget \in Nat
    /\ \A release \in {Stack} \cup {m.release : m \in Candidates} : \A t \in Transactions : Score[release][t] \in Int
    /\ \A t \in Transactions : Slot[t] \in Int /\ \A u \in Transactions : Slot[t] = Slot[u] => t = u
ASSUME KeysAssumption ==
    /\ \A k \in Patterns : k[2] \notin Rules \cup {SeedRule}
    /\ \A geo \in BOOLEAN : \A k \in DOMAIN Correlated[geo] : k[2] \notin Rules \cup {SeedRule} /\ k \notin Patterns

Success == {"complete", "written", "no_rows_flagged"}

VARIABLES
    case,    \* the import's case, fixed when it is created
    process, \* settings of the process at work, or Null
    job,     \* [state, attempt, refresh]
    step,    \* what of the attempt is done: [at, result]
    rows,    \* committed findings: [key, version, rank, score, by]
    pins,    \* committed confidence: key -> calibration
    stages,  \* committed outcomes of ml_scoring: [attempt, status, release, flagged]
    analysed,\* Null, or whether the latest analytics record had a Geo-IP database
    finished,\* the snapshot has been complete (completed_at is never cleared)
    posted   \* keys that review seeds have added since the last attempt began

vars == <<case, process, job, step, rows, pins, stages, analysed, finished, posted>>

-----------------------------------------------------------------------------
(* The scorers.                                                             *)

TxKey(tx, rule) == <<tx, rule>>

(* Equal scores: the stack keeps the order of time, a candidate sorts by id.*)
Before(release, t, u) ==
    \/ Score[release][t] > Score[release][u]
    \/ /\ Score[release][t] = Score[release][u]
       /\ IF release = Stack THEN Slot[t] < Slot[u] ELSE t < u
Rank(release, S, tx) == 1 + Cardinality({t \in S : Before(release, t, tx)})

Ranked(release, rule, S) ==
    {[key |-> TxKey(t, rule), version |-> release, rank |-> Rank(release, S, t),
      score |-> Score[release][t], by |-> process.calibration] : t \in S}

(* At and above the threshold, however many. *)
StackRows == Ranked(Stack, "anomaly_stack_rank", {t \in Transactions : Score[Stack][t] >= Threshold})

(* The best scored, at least one, up to the budget rounded up. *)
Ceil(n) == (n * Budget + 99) \div 100
Capacity == IF Ceil(Cardinality(Transactions)) = 0 THEN 1 ELSE Ceil(Cardinality(Transactions))
CandidateRows(release) ==
    Ranked(release, "candidate_pattern_triage", {t \in Transactions : Rank(release, Transactions, t) <= Capacity})

(* candidate.eligibility *)
Eligible(m) ==
    CASE case.mode = "synthetic_demo" -> case.synthetic /\ m.eligibility = "synthetic_demo"
      [] case.mode \in {"auto_eligible", "validated_candidate"} ->
            /\ m.eligibility = "validated_candidate" /\ m.domain = case.domain
            /\ case.mode = "auto_eligible" => m.proven
      [] OTHER -> FALSE

(* A candidate is loaded only where the case's mode routes to one. *)
Routed ==
    /\ process.candidate # Null /\ case.mode # "unsupervised"
    /\ case.mode = "auto_eligible" => case.domain # Null

Anomalies == {r \in rows : r.version \notin Fixed}

Successes == {k \in DOMAIN stages : stages[k].status \in Success /\ stages[k].release # Null}
LastSuccess == stages[CHOOSE k \in Successes : \A j \in Successes : j <= k]

Result(status, release, flagged) == [status |-> status, release |-> release, flagged |-> flagged, rows |-> {}]
Written(release, new) == [Result(IF new = {} THEN "no_rows_flagged" ELSE "written", release, Cardinality(new)) EXCEPT !.rows = new]

TooFew == Cardinality(Transactions) < Least
ScoredBy(release, new) == IF TooFew THEN Result("insufficient_data", release, 0) ELSE Written(release, new)
Kept(release, flagged) == Result(IF TooFew THEN "insufficient_data" ELSE "no_rows_flagged", release, flagged)

(* Ineligible, broken, or failing in the middle: its savepoint is rolled    *)
(* back and the stack scores, if that does not fail as well.                *)
ByCandidate == Routed /\ process.candidate.intact /\ Eligible(process.candidate) /\ ~process.candidate.breaks

Scored ==
    IF ByCandidate THEN ScoredBy(process.candidate.release, CandidateRows(process.candidate.release))
    ELSE ScoredBy(Stack, StackRows)

\* Mutant: a retry scores anew.
ScoreAnew == Scored

(* score_or_fallback: rows, else a successful outcome without rows, are     *)
(* kept with the release that made them.                                    *)
ScoreOrKeep ==
    IF Anomalies # {} THEN Kept((CHOOSE r \in Anomalies : TRUE).version, Cardinality(Anomalies))
    ELSE IF Successes # {} THEN Kept(LastSuccess.release, 0)
    ELSE Scored

-----------------------------------------------------------------------------
(* Pinning.                                                                 *)

(* confidence_for: a test statistic, a consistency check, or a probability  *)
(* where the calibration has an entry for the rule, fitted to the finding's *)
(* release, and the case is the synthetic benchmark.                        *)
Method(calibration, r) ==
    LET rule == r.key[2]
    IN CASE r.version = "network-correlation-v1" -> IF rule \in Tested THEN "statistical" ELSE "evidence_check"
         [] /\ r.version # "network-correlation-v1" /\ case.synthetic /\ calibration.known
            /\ rule \in DOMAIN calibration.fits /\ calibration.fits[rule] = r.version -> "calibrated"
         [] OTHER -> "uncalibrated"

Confidence(calibration, r) == [by |-> calibration, method |-> Method(calibration, r)]

FindingAt(all, key) == CHOOSE r \in all : r.key = key

\* Mutant: what is pinned is pinned again.
PinsOverwritten(all) == [key \in {r.key : r \in all} |-> Confidence(process.calibration, FindingAt(all, key))]

\* Mutant: network findings get no pin.
PinnedUnlessNetwork(all) ==
    [key \in DOMAIN pins \cup {r.key : r \in {q \in all : q.version # "network-correlation-v1"}} |->
        IF key \in DOMAIN pins THEN pins[key] ELSE Confidence(process.calibration, FindingAt(all, key))]

(* pin_snapshot_confidence: every finding of the snapshot without a pin.    *)
Pinned(all) ==
    [key \in {r.key : r \in all} |-> IF key \in DOMAIN pins THEN pins[key] ELSE Confidence(process.calibration, FindingAt(all, key))]

(* _write_network_findings: ranked among all of this build, added where the *)
(* key is new, so that ranks of different builds may coincide.              *)
NetworkBefore(found, a, b) ==
    \/ found[a] > found[b]
    \/ found[a] = found[b] /\ a # b /\ (a[1] < b[1] \/ (a[1] = b[1] /\ a[2] < b[2]))

NetworkRows(found) ==
    {[key |-> k, version |-> "network-correlation-v1", by |-> process.calibration, score |-> found[k],
      rank |-> 1 + Cardinality({j \in DOMAIN found : NetworkBefore(found, j, k)})] :
        k \in DOMAIN found \ {r.key : r \in rows}}

-----------------------------------------------------------------------------
(* An attempt.                                                              *)

Idle == [at |-> "idle", result |-> Null]
At(name, result) == [at |-> name, result |-> result]

Init ==
    /\ case \in Cases
    /\ process = Null /\ step = Idle
    /\ job = [state |-> "queued", attempt |-> 0, refresh |-> FALSE]
    /\ rows = {} /\ pins = [key \in {} |-> Null] /\ stages = << >> /\ analysed = Null
    /\ finished = FALSE /\ posted = {}

(* A worker process takes the import; settings, the installed candidate and *)
(* the calibration (read once per process) are those of its start.          *)
Claim(settings) ==
    /\ job.state = "queued" /\ job.attempt < MaxAttempts
    /\ process' = settings
    /\ job' = [job EXCEPT !.state = "running", !.attempt = @ + 1]
    /\ step' = At("findings", Null)
    /\ posted' = {}
    /\ UNCHANGED <<case, rows, pins, stages, analysed, finished>>

(* Deterministic findings are written once; they, and whatever an earlier   *)
(* attempt left unpinned, are pinned in the same commit unless an earlier   *)
(* success of the stage is kept.                                            *)
Findings ==
    /\ step.at = "findings"
    /\ LET known == {r \in rows : r.version = "deterministic-v1"}
           all == IF known # {} THEN rows
                  ELSE rows \cup {[key |-> k, version |-> "deterministic-v1", rank |-> 0, score |-> 0,
                                   by |-> process.calibration] : k \in Patterns}
       IN /\ rows' = all
          /\ pins' = IF \E s \in Range(stages) : s.attempt < job.attempt THEN pins ELSE Pinned(all)
    /\ step' = At("scoring", Null)
    \* tracker.start("ml_scoring"): a success that is the latest is kept
    /\ stages' = IF stages # << >> /\ Last(stages).status \in Success THEN stages
                 ELSE Append(stages, [attempt |-> job.attempt, status |-> "running", release |-> Null, flagged |-> 0])
    /\ UNCHANGED <<case, process, job, analysed, finished, posted>>

(* _materialize_ml_findings and the commit after it. *)
MlScoring ==
    /\ step.at = "scoring"
    /\ LET result == IF process.ml THEN ScoreOrKeep ELSE Result("disabled", Null, 0)
       IN /\ rows' = rows \cup result.rows
          /\ step' = At("scored", result)
    /\ UNCHANGED <<case, process, job, pins, stages, analysed, finished, posted>>

(* The stack cannot score these transactions: rolled back, never fatal. *)
MlFails ==
    /\ step.at = "scoring" /\ process.ml /\ Anomalies = {} /\ Successes = {} /\ ~ByCandidate
    /\ step' = At("scored", Result("failed", Null, 0))
    /\ UNCHANGED <<case, process, job, rows, pins, stages, analysed, finished, posted>>

(* _ml_done: pins and the outcome in one commit; no outcome when kept. *)
MlDone ==
    /\ step.at = "scored"
    /\ pins' = Pinned(rows)
    /\ stages' = IF Last(stages).status # "running" \/ Last(stages).attempt # job.attempt THEN stages
                 ELSE [stages EXCEPT ![Len(stages)] = [@ EXCEPT !.status = step.result.status, !.release = step.result.release,
                                                                !.flagged = step.result.flagged]]
    /\ step' = At("analytics", Null)
    /\ UNCHANGED <<case, process, job, rows, analysed, finished, posted>>

(* build_analytics: the record that exists is kept, unless a recomputation  *)
(* is asked for or a database is installed that it lacked. New findings     *)
(* commit with the record and the fulfilment of the request.                *)
Recompute == job.refresh \/ (analysed = FALSE /\ process.geo)

Analytics ==
    /\ step.at = "analytics"
    /\ IF analysed # Null /\ ~Recompute THEN UNCHANGED <<rows, analysed>>
       ELSE /\ rows' = rows \cup NetworkRows(Correlated[process.geo])
            /\ analysed' = process.geo
    /\ job' = [job EXCEPT !.refresh = FALSE]
    /\ step' = At("analysed", Null)
    /\ UNCHANGED <<case, process, pins, stages, finished, posted>>

AnalyticsFails ==
    /\ step.at = "analytics"
    /\ step' = At("analysed", Null)
    /\ UNCHANGED <<case, process, job, rows, pins, stages, analysed, finished, posted>>

PinRest ==
    /\ step.at = "analysed"
    /\ pins' = Pinned(rows)
    /\ step' = At("grouping", Null)
    /\ UNCHANGED <<case, process, job, rows, stages, analysed, finished, posted>>

Complete ==
    /\ step.at = "grouping"
    /\ job' = [job EXCEPT !.state = "completed"]
    /\ process' = Null /\ step' = Idle
    /\ finished' = TRUE
    /\ UNCHANGED <<case, rows, pins, stages, analysed, posted>>

(* The process dies; the lease of the import expires. *)
Crash ==
    /\ step.at # "idle"
    /\ job' = [job EXCEPT !.state = "queued"]
    /\ process' = Null /\ step' = Idle
    /\ UNCHANGED <<case, rows, pins, stages, analysed, finished, posted>>

(* POST analysis/retry; a request not fulfilled yet still counts. *)
Retry(refresh) ==
    /\ job.state = "completed" /\ job.attempt < MaxAttempts
    /\ job' = [job EXCEPT !.state = "queued", !.refresh = @ \/ refresh]
    /\ UNCHANGED <<case, process, step, rows, pins, stages, analysed, finished, posted>>

(* POST synthetic-review-seeds: findings of addresses that have none, in a  *)
(* commit of their own that pins nothing.  The request finds the snapshot   *)
(* complete by an earlier statement and locks nothing of it, so an attempt  *)
(* may have gone on before it commits.  Of posts that overlap one is        *)
(* aborted (ReviewSeeds).                                                   *)
SeedKeys(reach) == {<<a, SeedRule>> : a \in reach} \ {r.key : r \in rows}
SeedRows(reach) ==
    {[key |-> k, version |-> "deterministic-v1", rank |-> Null, score |-> 0, by |-> Null] : k \in SeedKeys(reach)}

PostSeed(reach) ==
    /\ case.synthetic /\ finished
    /\ rows' = rows \cup SeedRows(reach)
    /\ posted' = posted \cup SeedKeys(reach)
    /\ UNCHANGED <<case, process, job, step, pins, stages, analysed, finished>>

(* review_queue: the release of the latest outcome, by default the stack's; *)
(* its flagged transactions by falling score, then by id, as many as the    *)
(* capacity, a number or a share of those scored, and a page of them.       *)
QueueScorer == IF stages = << >> \/ Last(stages).release = Null THEN Stack ELSE Last(stages).release

QueueCapacity(k, percent) ==
    LET scored == IF stages = << >> \/ Last(stages).release = Null THEN 0 ELSE Cardinality(Transactions)
    IN IF k # Null THEN k ELSE (scored * percent) \div 100

Queue(capacity) ==
    LET scope == {r \in rows : r.version = QueueScorer}
        flagged == {r.key[1] : r \in scope}
        best(t) == CHOOSE score \in {r.score : r \in {q \in scope : q.key[1] = t}} :
                       \A r \in scope : r.key[1] = t => r.score <= score
        ahead(t) == {u \in flagged : best(u) > best(t) \/ (best(u) = best(t) /\ u < t)}
    IN [i \in 1 .. Min({capacity, Cardinality(flagged)}) |->
           CHOOSE t \in flagged : Cardinality(ahead(t)) = i - 1]

QueuePage(queue, limit, offset) == SubSeq(queue, offset + 1, Min({offset + limit, Len(queue)}))

Settings == [ml : BOOLEAN, candidate : Candidates \cup {Null}, calibration : Calibrations, geo : BOOLEAN]

Next ==
    \/ \E settings \in Settings : Claim(settings)
    \/ Findings \/ MlScoring \/ MlFails \/ MlDone
    \/ Analytics \/ AnalyticsFails \/ PinRest \/ Complete \/ Crash
    \/ \E refresh \in BOOLEAN : Retry(refresh)
    \/ \E reach \in Reaches : PostSeed(reach)

Spec == Init /\ [][Next]_vars
-----------------------------------------------------------------------------
TypeOK ==
    /\ case \in Cases /\ process \in Settings \cup {Null}
    /\ process = Null <=> step.at = "idle"
    /\ job.state \in {"queued", "running", "completed"} /\ job.attempt \in 0 .. MaxAttempts
    /\ DOMAIN pins \subseteq {r.key : r \in rows} /\ \A key \in DOMAIN pins : pins[key].by \in Calibrations
    /\ \A r, q \in rows : r.key = q.key => r = q
    /\ analysed \in BOOLEAN \cup {Null}

(* A page of a queue lists flagged transactions, as many as have a rank in  *)
(* its range within the capacity, each as strong as the finding ranked at   *)
(* its place: equal scores may be in another order (the queue's is by id,   *)
(* the stack's ranks by time). None is listed at another place of another   *)
(* page.                                                                    *)
PageShows(queue, capacity, limit, offset, later) ==
    LET page == QueuePage(queue, limit, offset)
        other == QueuePage(queue, limit, later)
    IN /\ Len(page) = Cardinality({r \in Anomalies : offset < r.rank /\ r.rank <= offset + limit /\ r.rank <= capacity})
       /\ \A i \in DOMAIN page :
              \E r, q \in Anomalies : r.rank = offset + i /\ q.key[1] = page[i] /\ q.score = r.score
       /\ \A i \in DOMAIN page, j \in DOMAIN other : page[i] = other[j] => offset + i = later + j

(* The review queue of a completed import takes its scorer from the latest  *)
(* outcome: where that is a success, the queue is made of all the findings  *)
(* scored, none of them hidden under another release's name, and its pages  *)
(* list the strongest of them once each, whatever the capacity and the size *)
(* of a page.                                                               *)
QueueShowsItsRows ==
    job.state = "completed" /\ stages # << >> /\ Last(stages).status \in Success =>
        /\ {r \in rows : r.version = QueueScorer} = Anomalies
        /\ LET places == 0 .. Cardinality(Transactions) + 1
           IN \A capacity \in {QueueCapacity(k, Budget) : k \in places \cup {Null}} :
                  LET queue == Queue(capacity)
                  IN \A limit \in places \ {0}, offset, later \in places :
                         PageShows(queue, capacity, limit, offset, later)

(* The findings are the whole ranking of their release, ranked by it.       *)
Releases == {r.version : r \in Anomalies}
WholeRanking(release) ==
    LET ranked == {t \in Transactions : \E r \in Anomalies : r.key[1] = t}
    IN /\ {r.rank : r \in Anomalies} = 1 .. Cardinality(Anomalies)
       /\ Cardinality(ranked) = Cardinality(Anomalies)
       /\ \A t \in ranked, u \in Transactions \ ranked : Before(release, t, u)
       /\ release = Stack => ranked = {t \in Transactions : Score[Stack][t] >= Threshold}

(* However attempts crash, fail, and start again with other settings, one   *)
(* scorer only made the anomaly findings of a snapshot: all of them bear    *)
(* one release, they are the whole ranking of that release and nothing of   *)
(* a candidate that failed half-way, and every successful outcome that is   *)
(* recorded names one release, that of the findings ("Never silently mix    *)
(* scorers on retry or change reviewed snapshot rows").                     *)
ScorersNeverMix ==
    /\ Cardinality(Releases \cup {stages[k].release : k \in Successes}) <= 1
    /\ \A release \in Releases : WholeRanking(release)

(* They never mix, and the queue is made of just what the one has scored.   *)
OneScorer == ScorersNeverMix /\ QueueShowsItsRows

(* Findings that are final have their provenance. Deterministic ones of the *)
(* import itself are never without the calibration of the process that      *)
(* wrote them; the scored ones have one when scoring is recorded as a       *)
(* success. Of an import that is completed nothing is left to be shown as a *)
(* "legacy finding: original calibration provenance unknown" but what       *)
(* review seeds have added since its last attempt began: the post pins      *)
(* nothing, and the next attempt that completes pins all it finds.          *)
FromSeeds == {r \in rows : r.key[2] = SeedRule}

PinnedWhenSettled ==
    /\ \A r \in rows \ FromSeeds :
           r.version = "deterministic-v1" => r.key \in DOMAIN pins /\ pins[r.key] = Confidence(r.by, r)
    /\ Successes # {} => {r.key : r \in Anomalies} \subseteq DOMAIN pins
    /\ job.state = "completed" =>
           \A r \in rows : r.key \in DOMAIN pins \/ (r \in FromSeeds /\ r.key \in posted)
    /\ \A r \in rows : r.key \in DOMAIN pins => pins[r.key] = Confidence(pins[r.key].by, r)

(* What a reviewer has seen stays: no retry, recomputation or redeployment  *)
(* removes or rewrites a finding, or pins it to another calibration.        *)
ProvenanceIsKept ==
    [][/\ rows \subseteq rows'
       /\ \A key \in DOMAIN pins : key \in DOMAIN pins' /\ pins'[key] = pins[key]]_vars

(* "findings and their original provenance must commit together"            *)
(* (confidence.py). False of the scored and the network findings, which are *)
(* committed first, so that a crash between leaves them to a later attempt, *)
(* and of what review seeds add.                                            *)
PinnedByTheWriter ==
    job.state = "completed" => \A r \in rows : r.key \in DOMAIN pins /\ pins[r.key].by = r.by
=============================================================================
