------------------------- MODULE AnalyticsRevisions -------------------------
(***************************************************************************)
(* The analytics of one case and what is shown of them.  Workers build an  *)
(* analytics file per import and, on request, revisions of it; clients     *)
(* change risk seeds and propagate risk over the analytics of the day; a   *)
(* page joins the two.                                                     *)
(*                                                                         *)
(* created_at is now(), which PostgreSQL takes at the start of a           *)
(* transaction: a row committed late may be dated early.  An import is one *)
(* snapshot, has one worker at a time (ImportJobs), and may be slow while  *)
(* another worker finishes a later one.                                    *)
(***************************************************************************)
EXTENDS Naturals, FiniteSets

CONSTANTS
    Imports,    \* numbered in the order of their upload
    Clients,
    Wallets,    \* what a risk seed may name
    MaxBegun    \* bound: transactions of workers and clients

ASSUME ImportsAssumption == Imports \subseteq Nat
ASSUME BoundAssumption == MaxBegun \in Nat

VARIABLES
    clock,    \* the date of the last transaction begun
    records,  \* AnalyticsSnapshot (revision 0) and AnalyticsRevision rows
    files,    \* path -> date of the build whose file it holds, 0 for none
    build,    \* per import, the analytics stage of its worker
    tried,    \* imports whose analytics stage has begun
    seeds,    \* wallets with a committed RiskSeed
    runs,     \* RiskRun rows
    risk,     \* per client, the risk transaction
    overlap,  \* two risk transactions have been open at once
    page      \* a page being put together

buildVars == <<records, files, build, tried>>
riskVars == <<seeds, runs, risk, overlap>>
vars == <<clock, buildVars, riskVars, page>>

-----------------------------------------------------------------------------

\* Rows are known by the date of the transaction that inserted them, a file by
\* the date of its build.
Record(i, revision, at) == [import |-> i, revision |-> revision, at |-> at]
NoRecord == [import |-> 0, revision |-> 0, at |-> 0]

\* A run stored before runs named their analytics.
Unpinned == 0

Run(record, at, named) == [import |-> record.import, pinned |-> record.at, at |-> at, seeds |-> named]
Legacy(i) == [import |-> i, pinned |-> Unpinned, at |-> 1, seeds |-> {}]
NoRun == [import |-> 0, pinned |-> Unpinned, at |-> 0, seeds |-> {}]

NotBuilding == [phase |-> "idle", at |-> 0, revision |-> 0, refresh |-> FALSE]
NoChange == [add |-> {}, remove |-> {}]
NotPropagating == [phase |-> "idle", at |-> 0, change |-> NoChange, record |-> NoRecord, seeds |-> {}]

\* Mutant: a revision takes the path of the original.
PathOfImport(i, revision) == <<i, 0>>
Path(i, revision) == <<i, revision>>

Paths == Imports \X (0 .. MaxBegun)

\* At most one import has analytics, and a run over them, from before pins.
Init ==
    /\ clock = 1
    /\ \E old \in {{}} \cup {{i} : i \in Imports} :
          /\ records = {Record(i, 0, 1) : i \in old}
          /\ files = [p \in Paths |-> IF \E i \in old : p = Path(i, 0) THEN 1 ELSE 0]
          /\ tried = old
          /\ runs = {Legacy(i) : i \in old}
    /\ build = [i \in Imports |-> NotBuilding]
    /\ seeds = {} /\ overlap = FALSE
    /\ risk = [c \in Clients |-> NotPropagating]
    /\ page = [phase |-> "none", record |-> NoRecord, run |-> NoRun]

Of(i) == {r \in records : r.import = i}
Originals == {r \in records : r.revision = 0}

\* The row dated last.
Newest(S) == CHOOSE r \in S : \A q \in S : q.at <= r.at

LatestOf(i) ==
    IF Of(i) = {} THEN NoRecord
    ELSE CHOOSE r \in Of(i) : \A q \in Of(i) : q.revision <= r.revision

\* Mutant: the latest row of either table.
LatestRow == IF records = {} THEN NoRecord ELSE Newest(records)
\* The snapshot whose original is the latest, in its latest revision.
Latest == IF Originals = {} THEN NoRecord ELSE LatestOf(Newest(Originals).import)

Begun == clock <= MaxBegun /\ clock' = clock + 1

-----------------------------------------------------------------------------
(* A worker at the analytics stage of an import.                           *)

\* A request to refresh follows an earlier attempt.  With analytics there and
\* no refresh wanted the stage keeps them, and changes nothing here.
BeginBuild(i, refresh) ==
    /\ build[i].phase = "idle"
    /\ refresh => i \in tried
    /\ refresh \/ Of(i) = {}
    /\ Begun
    /\ tried' = tried \cup {i}
    /\ build' = [build EXCEPT ![i] =
          [phase |-> "computing", at |-> clock', refresh |-> refresh,
           revision |-> IF Of(i) = {} THEN 0 ELSE LatestOf(i).revision + 1]]
    /\ UNCHANGED <<records, files, riskVars, page>>

\* The file is in its place before the row that vouches for it is committed.
WriteFile(i) ==
    /\ build[i].phase = "computing"
    /\ files' = [files EXCEPT ![Path(i, build[i].revision)] = build[i].at]
    /\ build' = [build EXCEPT ![i].phase = "written"]
    /\ UNCHANGED <<clock, records, tried, riskVars, page>>

CommitRecord(i) ==
    /\ build[i].phase = "written"
    /\ records' = records \cup {Record(i, build[i].revision, build[i].at)}
    /\ build' = [build EXCEPT ![i] = NotBuilding]
    /\ UNCHANGED <<clock, files, tried, riskVars, page>>

\* An exception is rolled back and the stage fails; a crash leaves as much.
FailBuild(i) ==
    /\ build[i].phase # "idle"
    /\ build' = [build EXCEPT ![i] = NotBuilding]
    /\ UNCHANGED <<clock, records, files, tried, riskVars, page>>

-----------------------------------------------------------------------------
(* A client changes a seed, or only asks for a run: one transaction.       *)

Open(c) == risk[c].phase # "idle"
Names(change) == change.add \cup change.remove
Changes ==
    {NoChange} \cup {[NoChange EXCEPT !.add = {w}] : w \in Wallets} \cup {[NoChange EXCEPT !.remove = {w}] : w \in seeds}

\* The change is flushed.  A second change of the same wallet waits for the
\* first one's end, through the unique key or the row (PostgreSQL).
BeginRisk(c, change) ==
    /\ ~Open(c)
    /\ \A d \in Clients : Names(risk[d].change) \cap Names(change) = {}
    /\ Begun
    /\ overlap' = (overlap \/ \E d \in Clients : Open(d))
    /\ risk' = [risk EXCEPT ![c] = [NotPropagating EXCEPT !.phase = "record", !.at = clock', !.change = change]]
    /\ UNCHANGED <<buildVars, seeds, runs, page>>

\* Without analytics a change is kept and nothing is propagated; a bare run is
\* refused.
ReadRecord(c) ==
    /\ risk[c].phase = "record"
    /\ risk' = [risk EXCEPT ![c].record = Latest,
                            ![c].phase = IF Latest # NoRecord THEN "seeds"
                                         ELSE IF risk[c].change = NoChange THEN "refused" ELSE "commit"]
    /\ UNCHANGED <<clock, buildVars, seeds, runs, overlap, page>>

\* Mutant: the change is not flushed before the seeds are read.
SeenCommitted(c) == seeds
\* What the transaction sees: what is committed, and its own change.
Seen(c) == (seeds \cup risk[c].change.add) \ risk[c].change.remove

ReadSeeds(c) ==
    /\ risk[c].phase = "seeds"
    /\ risk' = [risk EXCEPT ![c].seeds = Seen(c), ![c].phase = "commit"]
    /\ UNCHANGED <<clock, buildVars, seeds, runs, overlap, page>>

\* Mutant: a run is stored even with nothing to propagate over.
AlwaysNew(c) == {Run(risk[c].record, risk[c].at, risk[c].seeds)}
NewRuns(c) == IF risk[c].record = NoRecord THEN {} ELSE {Run(risk[c].record, risk[c].at, risk[c].seeds)}

CommitRisk(c) ==
    /\ risk[c].phase = "commit"
    /\ seeds' = (seeds \cup risk[c].change.add) \ risk[c].change.remove
    /\ runs' = runs \cup NewRuns(c)
    /\ risk' = [risk EXCEPT ![c] = NotPropagating]
    /\ UNCHANGED <<clock, buildVars, overlap, page>>

\* No memory for the propagation, no numerical library, or no analytics.
AbortRisk(c) ==
    /\ Open(c)
    /\ risk' = [risk EXCEPT ![c] = NotPropagating]
    /\ UNCHANGED <<clock, buildVars, seeds, runs, overlap, page>>

-----------------------------------------------------------------------------
(* A page of entities with their risk, or of risk alone, read by read.     *)

RunsOf(i) == {q \in runs : q.import = i}
LatestRun(i) == IF RunsOf(i) = {} THEN NoRun ELSE Newest(RunsOf(i))

\* Mutant: the latest run is shown, whatever it was computed from.
AnyRun(run, record) == run
\* Old runs remain stored, but cannot masquerade as current.
Current(run, record) ==
    IF run.pinned # record.at /\ (run.pinned # Unpinned \/ record.revision > 0) THEN NoRun ELSE run

OpenPage ==
    /\ page.phase = "none"
    /\ Latest # NoRecord
    /\ page' = [page EXCEPT !.phase = "run", !.record = Latest]
    /\ UNCHANGED <<clock, buildVars, riskVars>>

ReadRun ==
    /\ page.phase = "run"
    /\ page' = [page EXCEPT !.phase = "pin", !.run = LatestRun(page.record.import)]
    /\ UNCHANGED <<clock, buildVars, riskVars>>

CheckPin ==
    /\ page.phase = "pin"
    /\ page' = [page EXCEPT !.phase = "shown", !.run = Current(page.run, LatestOf(page.record.import))]
    /\ UNCHANGED <<clock, buildVars, riskVars>>

-----------------------------------------------------------------------------

Worker(i) ==
    \/ \E refresh \in BOOLEAN : BeginBuild(i, refresh)
    \/ WriteFile(i) \/ CommitRecord(i) \/ FailBuild(i)

Client(c) ==
    \/ \E change \in Changes : BeginRisk(c, change)
    \/ ReadRecord(c) \/ ReadSeeds(c) \/ CommitRisk(c) \/ AbortRisk(c)

Reader == OpenPage \/ ReadRun \/ CheckPin

Next == (\E i \in Imports : Worker(i)) \/ (\E c \in Clients : Client(c)) \/ Reader

Spec == Init /\ [][Next]_vars

-----------------------------------------------------------------------------

RecordType == [import : Imports, revision : 0 .. MaxBegun, at : Nat]
RunType == [import : Imports, pinned : Nat, at : Nat, seeds : SUBSET Wallets]
ChangeType == [add : SUBSET Wallets, remove : SUBSET Wallets]

\* Every variable keeps its type, and revisions stay within the builds begun.
TypeOK ==
    /\ clock \in Nat /\ overlap \in BOOLEAN
    /\ records \subseteq RecordType
    /\ files \in [Paths -> Nat]
    /\ build \in [Imports -> [phase : {"idle", "computing", "written"}, at : Nat,
                              revision : 0 .. MaxBegun, refresh : BOOLEAN]]
    /\ tried \subseteq Imports
    /\ seeds \subseteq Wallets
    /\ runs \subseteq RunType
    /\ risk \in [Clients -> [phase : {"idle", "record", "seeds", "refused", "commit"}, at : Nat,
                             change : ChangeType, record : RecordType \cup {NoRecord}, seeds : SUBSET Wallets]]
    /\ page \in [phase : {"none", "run", "pin", "shown"}, record : RecordType \cup {NoRecord},
                 run : RunType \cup {NoRun}]

\* The file an analytics row vouches for stays the one its build wrote, through
\* refreshes, failed attempts and their left-over files
\* (docs/anomaly_stack.md:222: a refresh creates an immutable revision).
RecordsKeepTheirFiles == \A r \in records : files[Path(r.import, r.revision)] = r.at

\* A revision of a snapshot that is not shown changes nothing that is shown, and
\* one of the snapshot that is shown replaces it at once, however transactions
\* of imports, refreshes and their dates cross (analytics.py, latest_analytics).
RefreshKeepsTheView ==
    [][\A r \in records' \ records :
          r.revision > 0 => Latest' = IF Latest.import = r.import THEN r ELSE Latest]_vars

\* A page never shows risk computed from older analytics than its entities are
\* from, whatever commits between its reads (docs/implementation_checkpoint_
\* 2026-10-03.md:26: old risk runs are not exposed as current after refresh).
RiskIsNotOutdated ==
    page.phase = "shown" /\ page.run # NoRun =>
        IF page.run.pinned = Unpinned THEN page.record.revision = 0
        ELSE \E r \in Of(page.record.import) : r.at = page.run.pinned /\ r.revision >= page.record.revision

\* As long as risk transactions did not overlap, the run shown was propagated
\* from exactly the seeds that are there, or none is shown: changes made without
\* analytics, aborted ones and refreshes in between included.
SeedsAreReflected ==
    LET shown == Current(LatestRun(Latest.import), Latest)
    IN  ~overlap /\ shown.pinned # Unpinned => shown.seeds = seeds

\* "A refresh of an older source must not hide a newer imported snapshot"
\* (the comment in latest_analytics).
RefreshHidesNothingNewer ==
    [][\A i \in Imports :
          build[i].refresh /\ records' # records /\ Latest.import > i => Latest' = Latest]_vars

=============================================================================
