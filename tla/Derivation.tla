----------------------------- MODULE Derivation -----------------------------
(* Attempts to derive one snapshot's graph, features and findings from its  *)
(* committed facts (ingestion/pipeline.py, the stages after parsing).  An   *)
(* attempt runs in memory or bounded, with the chunking, partitioning and   *)
(* worker pool its machine's plan gives it; it may fail or die at any step, *)
(* and the next attempt may run the other way.  Files are published before  *)
(* the row that names them is committed.                                    *)
EXTENDS GraphBuild, WindowFindings, ResourcePlan

CONSTANTS BatchSpan, \* rows a fragment may hold, by the numbering of staged rows (2^32)
          Scenarios  \* the evidence considered: records of a set of ledgers
                     \* (sequences of rows), what the machine may have to
                     \* give at a moment of the import and the bound on the
                     \* attempts over one of them

(* PartitionOf stands for DuckDB's hash: any function of the address.       *)
PartitionOf(address, partitions) == address % partitions

VARIABLES
    facts,      \* the snapshot's committed facts, in commit order; never change
    fragments,  \* the files that hold them, by batch; never change
    machines,   \* what the machine may have to give (see ResourcePlan)
    attempts,   \* attempts that may still begin
    work,       \* the running attempt, or Idle
    graphFile,  \* content of the published graph file, or Null
    graphRow,   \* the committed graph snapshot row (its content), or Null
    storeFile,  \* rows in the published feature file, or Null
    storeRow,   \* the committed feature store row (the rows it hashes), or Null
    findings,   \* the committed findings in rank order, or Null
    conflict    \* an attempt ended with "immutable graph snapshot conflict"

ledgerVars == <<facts, fragments>>

vars == <<facts, fragments, machines, attempts, work, graphFile, graphRow, storeFile, storeRow, findings, conflict>>

-----------------------------------------------------------------------------
(* The facts are committed a batch of rows at a time, one file of each kind *)
(* per batch, and read back whole: into memory, or into tables whose rows   *)
(* are in no order until one is asked for.                                  *)

Fragments(rows, size) ==
    LET F == FactsOf(rows)
        ids(batch) == {rows[i].id : i \in {j \in DOMAIN rows : (j - 1) \div size = batch}}
    IN [batch \in 0 .. (Len(rows) - 1) \div size |->
           [kind \in DOMAIN F |-> SelectSeq(F[kind], LAMBDA fact : fact.tx \in ids(batch))]]

Kinds == {"txs", "ins", "outs", "obs"}

Loaded(files) ==
    [kind \in Kinds |-> FlattenSeq([k \in 1 .. Cardinality(DOMAIN files) |-> files[k - 1][kind]])]

StagedSeq(batch, row) == batch * BatchSpan + (row - 1)

StagedFacts(files) ==
    [kind \in Kinds |->
        LET places == UNION {{<<batch, row>> : row \in DOMAIN files[batch][kind]} : batch \in DOMAIN files}
            ordered == Sorted(places, LAMBDA a, b : StagedSeq(a[1], a[2]) < StagedSeq(b[1], b[2]))
        IN [k \in DOMAIN ordered |-> files[ordered[k][1]][kind][ordered[k][2]]]]

-----------------------------------------------------------------------------

Idle == [stage |-> "idle"]

Begun(plan, store) ==
    [stage |-> "graph", plan |-> plan, store |-> store, graph |-> Null, signals |-> << >>, jobs |-> << >>, next |-> 1,
     ran |-> {}, contrib |-> {}, det |-> {}, patterns |-> 0, features |-> << >>, kept |-> {},
     cand |-> {}, position |-> 0, findings |-> << >>]

Init ==
    /\ \E s \in Scenarios :
          /\ \E ledger \in s.ledgers, m \in s.machines :
                /\ WorkersAdmitted(m)
                /\ facts = FactsOf(ledger)
                /\ fragments = Fragments(ledger, BatchRecords(m, Len(ledger)))
          /\ machines = s.machines
          /\ attempts = s.attempts
    /\ work = Idle
    /\ graphFile = Null /\ graphRow = Null
    /\ storeFile = Null /\ storeRow = Null
    /\ findings = Null
    /\ conflict = FALSE

-----------------------------------------------------------------------------
(* The in-memory pass.                                                      *)

Addresses(F) == {F.outs[i].to : i \in DOMAIN F.outs} \ {Null}

MemoryWindows(F, contributions) ==
    FoldLeft(AddWindowSignal, [events |-> OutputEvents(F, Addresses(F)), signals |-> << >>], contributions)

MemoryWindowPass(F, acc, detectors) ==
    AddressWindowPass(F, acc.events, RapidEvents(F, Addresses(F)), acc.signals,
                      {DetectorKey(F, detectors[k]) : k \in DOMAIN detectors} \ {Null},
                      [i \in DOMAIN acc.events |-> HistoryFeatures(acc.events, acc.events[i].key)])

MemoryRanks(F, pass, detectors) ==
    [features |-> pass.features,
     findings |-> DedupeAndRank(pass.candidates
                                    \o [k \in DOMAIN detectors |-> DetectorCandidate(F, detectors[k], pass.kept)])]

MemoryDetections(F, acc, detectors) == MemoryRanks(F, MemoryWindowPass(F, acc, detectors), detectors)

MemorySteps(F, signals, coinjoin) ==
    MemoryDetections(F, MemoryWindows(F, PeelingContributions(F, signals) \o CoinjoinContributions(F, coinjoin)),
                     GroupPeelingPatterns(F, signals) \o coinjoin)

MemoryPass(F) == MemorySteps(F, MemorySignals(F), CoinjoinSignals(F))

-----------------------------------------------------------------------------
(* The bounded pass: what one job adds to the tables.                       *)

ContribRows(F, signals, chunk) ==
    {[ord |-> <<1, i, 0>>, row |-> PeelingContribution(F, signals[i])] :
        i \in {j \in Range(chunk) : Lands(PeelingContribution(F, signals[j]))}}

PeelingChunk(F, w, chunk) ==
    LET patterns == GroupPeelingPatterns(F, ChunkSignals(w.signals, chunk))
    IN [w EXCEPT !.contrib = @ \cup ContribRows(F, w.signals, chunk),
                 !.det = @ \cup {[ord |-> <<1, w.patterns + k>>, signal |-> patterns[k]] : k \in DOMAIN patterns},
                 !.patterns = @ + Len(patterns)]

CoinjoinChunks(F, w) ==
    LET signals == CoinjoinSignalsOf(F, CoinjoinCandidates(F))
        rows == CoinjoinContributions(F, signals)
    IN [w EXCEPT !.contrib = @ \cup {[ord |-> <<2, k, 0>>, row |-> rows[k]] : k \in DOMAIN rows},
                 !.det = @ \cup {[ord |-> <<2, k>>, signal |-> signals[k]] : k \in DOMAIN signals}]

OrdLess(a, b) == a[1] < b[1] \/ (a[1] = b[1] /\ a[2] < b[2])
ByOrd(rows) == Sorted(rows, LAMBDA a, b : OrdLess(a.ord, b.ord))

(* The table "needed", read before any partition runs. *)
NeededKeys(F, w) == {DetectorKey(F, d.signal) : d \in w.det} \ {Null}

AddressPartition(F, w, partition) ==
    LET mine(a) == a # Null /\ PartitionOf(a, w.plan.partitions) = partition
        addresses == {a \in Addresses(F) : mine(a)}
        ordered == ByOrd({r \in w.contrib : mine(r.row.to)})
        contributions == [k \in DOMAIN ordered |-> ordered[k].row]
        acc == FoldLeft(AddWindowSignal, [events |-> OutputEvents(F, addresses), signals |-> << >>], contributions)
        rows == Memberships(F, addresses, contributions)
        pass == AddressWindowPass(F, acc.events, RapidEvents(F, addresses), acc.signals,
                                  {key \in NeededKeys(F, w) : mine(key[1])},
                                  [i \in DOMAIN acc.events |-> AddressHistorySql(rows, acc.events[i].key)])
    IN [w EXCEPT !.features = @ \o pass.features,
                 !.kept = @ \cup pass.kept,
                 !.cand = @ \cup {[pos |-> <<1, w.position + k>>, row |-> pass.candidates[k]] : k \in DOMAIN pass.candidates},
                 !.position = @ + Len(pass.candidates)]

(* Detector positions start above every window candidate's. *)
DetectorSlice(F, w, slice) ==
    LET signals == ByOrd({d \in w.det : d.ord \in slice})
    IN [w EXCEPT !.cand = @ \cup {[pos |-> <<2, w.position + k>>, row |-> DetectorCandidate(F, signals[k].signal, w.kept)] :
                                      k \in DOMAIN signals},
                 !.position = @ + Len(signals)]

(* (low, low + chunk - 1) over the patterns, then over the coinjoin signals. *)
Slices(w) ==
    LET ords == {d.ord : d \in w.det}
        of(kind, n) == {o \in ords : o[1] = kind /\ (o[2] - 1) \div w.plan.chunk = n}
        all(kind) == [n \in 1 .. Cardinality({o \in ords : o[1] = kind}) |-> of(kind, n - 1)]
    IN SelectSeq(all(1) \o all(2), LAMBDA s : s # {})

(* A sort key that is a pair, made a number for RankSql. *)
Positioned(cand) ==
    LET order == Sorted(cand, LAMBDA a, b : OrdLess(a.pos, b.pos))
    IN {[pos |-> k, row |-> order[k].row] : k \in DOMAIN order}

-----------------------------------------------------------------------------
(* Steps of an attempt.                                                     *)

(* load_facts, or FactStore.build; a pool's workers attach the same tables. *)
ReadFacts(plan) == IF plan.mode = "memory" THEN Loaded(fragments) ELSE StagedFacts(fragments)

Records == Len(facts.txs)

Begin(m, n) ==
    /\ work.stage = "idle" /\ attempts > 0
    /\ Admitted(m, n, Records)
    /\ attempts' = attempts - 1
    /\ LET plan == PlanFor(m, n, Records) IN work' = Begun(plan, ReadFacts(plan))
    /\ UNCHANGED <<ledgerVars, machines, graphFile, graphRow, storeFile, storeRow, findings, conflict>>

(* "worker admission failed" or "disk admission failed". *)
Refuse(m, n) ==
    /\ work.stage = "idle" /\ attempts > 0
    /\ ~Admitted(m, n, Records)
    /\ attempts' = attempts - 1
    /\ UNCHANGED <<ledgerVars, machines, work, graphFile, graphRow, storeFile, storeRow, findings, conflict>>

Move(w) ==
    /\ work' = w
    /\ UNCHANGED <<ledgerVars, machines, attempts, graphFile, graphRow, storeFile, storeRow, findings, conflict>>

ReuseGraph ==
    /\ work.stage = "graph" /\ graphRow # Null
    /\ Move([work EXCEPT !.stage = "findings"])

BuiltGraph == IF work.plan.mode = "memory" THEN MemoryGraph(work.store) ELSE BoundedGraph(work.store)

(* publish_graph: an existing file must hold the same content, else the     *)
(* attempt ends with "immutable graph snapshot conflict".  (The program      *)
(* compares bytes; equal content is taken to be written as equal bytes.)    *)
PublishGraph ==
    /\ work.stage = "graph" /\ graphRow = Null
    /\ LET agrees == graphFile = Null \/ graphFile = BuiltGraph
       IN /\ graphFile' = IF agrees THEN BuiltGraph ELSE graphFile
          /\ conflict' = ~agrees
          /\ work' = IF agrees THEN [work EXCEPT !.stage = "graph_row", !.graph = BuiltGraph] ELSE Idle
    /\ UNCHANGED <<ledgerVars, machines, attempts, graphRow, storeFile, storeRow, findings>>

CommitGraph ==
    /\ work.stage = "graph_row"
    /\ graphRow' = work.graph
    /\ work' = [work EXCEPT !.stage = "findings", !.graph = Null]
    /\ UNCHANGED <<ledgerVars, machines, attempts, graphFile, storeFile, storeRow, findings, conflict>>

(* has_features: an earlier attempt committed features and findings. *)
ReuseFindings ==
    /\ work.stage = "findings" /\ storeRow # Null
    /\ work' = Idle
    /\ UNCHANGED <<ledgerVars, machines, attempts, graphFile, graphRow, storeFile, storeRow, findings, conflict>>

MemoryFindings ==
    /\ work.stage = "findings" /\ storeRow = Null /\ work.plan.mode = "memory"
    /\ LET pass == MemoryPass(work.store)
       IN /\ storeFile' = pass.features
          /\ work' = [work EXCEPT !.stage = "commit", !.findings = pass.findings]
    /\ UNCHANGED <<ledgerVars, machines, attempts, graphFile, graphRow, storeRow, findings, conflict>>

WalkSignals(F, walks) == [i \in DOMAIN walks |-> PeelingSignal(F, walks[i])]

Chunked(F, w, signals) ==
    [w EXCEPT !.stage = "peeling", !.signals = signals, !.jobs = WalkChunks(F, signals, w.plan.chunk)]

StartWalks ==
    /\ work.stage = "findings" /\ storeRow = Null /\ work.plan.mode = "bounded"
    /\ work.plan.admitted
    /\ Move(Chunked(work.store, work, WalkSignals(work.store, SqlWalks(work.store))))

(* The findings ask for the workers again, of the plan made since. *)
RefuseWorkers ==
    /\ work.stage = "findings" /\ storeRow = Null /\ ~work.plan.admitted
    /\ Move(Idle)

(* Jobs of a pool finish in any order; their results are taken in job       *)
(* order.  Without a pool a job runs when it is taken.                      *)
Pooled == work.plan.workers > 1 /\ Len(work.jobs) > 1

Jobs == IF work = Idle THEN {} ELSE DOMAIN work.jobs

RunJob(k) ==
    /\ work.stage \in {"peeling", "addresses", "detectors"}
    /\ Pooled
    /\ k \in DOMAIN work.jobs \ work.ran
    /\ Cardinality({j \in DOMAIN work.jobs \ work.ran : j < k}) < work.plan.workers
    /\ Move([work EXCEPT !.ran = @ \cup {k}])

Took(w) == [w EXCEPT !.next = @ + 1]

TakeResult ==
    /\ work.stage \in {"peeling", "addresses", "detectors"}
    /\ work.next \in DOMAIN work.jobs
    /\ Pooled => work.next \in work.ran
    /\ LET job == work.jobs[work.next]
       IN \/ work.stage = "peeling" /\ Move(Took(PeelingChunk(work.store, work, job)))
          \/ work.stage = "addresses" /\ Move(Took(AddressPartition(work.store, work, job)))
          \/ work.stage = "detectors" /\ Move(Took(DetectorSlice(work.store, work, job)))

AllTaken == work.next \notin DOMAIN work.jobs
NextJobs(w, stage, jobs) == [w EXCEPT !.stage = stage, !.jobs = jobs, !.next = 1, !.ran = {}]

StartAddresses ==
    /\ work.stage = "peeling" /\ AllTaken
    /\ Move(NextJobs(CoinjoinChunks(work.store, work), "addresses", [p \in 1 .. work.plan.partitions |-> p - 1]))

(* writer.publish(): the feature file replaces whatever was there. *)
PublishFeatures ==
    /\ work.stage = "addresses" /\ AllTaken
    /\ storeFile' = work.features
    /\ work' = NextJobs(work, "detectors", Slices(work))
    /\ UNCHANGED <<ledgerVars, machines, attempts, graphFile, graphRow, storeRow, findings, conflict>>

Rank ==
    /\ work.stage = "detectors" /\ AllTaken
    /\ Move([work EXCEPT !.stage = "commit", !.findings = RankSql(Positioned(work.cand))])

CommitFindings ==
    /\ work.stage = "commit"
    /\ storeRow' = storeFile
    /\ findings' = work.findings
    /\ work' = Idle
    /\ UNCHANGED <<ledgerVars, machines, attempts, graphFile, graphRow, storeFile, conflict>>

(* The attempt fails or its worker dies: the session rolls back, the work   *)
(* database goes, published files stay.                                     *)
Fail ==
    /\ work # Idle /\ attempts > 0
    /\ work' = Idle
    /\ UNCHANGED <<ledgerVars, machines, attempts, graphFile, graphRow, storeFile, storeRow, findings, conflict>>

Next ==
    \/ \E m, n \in machines : Begin(m, n) \/ Refuse(m, n)
    \/ ReuseGraph \/ PublishGraph \/ CommitGraph
    \/ ReuseFindings \/ MemoryFindings
    \/ StartWalks \/ RefuseWorkers \/ StartAddresses \/ PublishFeatures \/ Rank
    \/ \E k \in Jobs : RunJob(k)
    \/ TakeResult \/ CommitFindings
    \/ Fail

Spec == Init /\ [][Next]_vars

-----------------------------------------------------------------------------
(* Properties.                                                              *)

(* Every variable holds a value of its kind, and a committed feature row    *)
(* comes with the findings of its attempt.                                  *)
TypeOK ==
    /\ attempts \in Nat /\ machines # {} /\ DOMAIN facts = Kinds
    /\ work.stage \in {"idle", "graph", "graph_row", "findings", "peeling", "addresses", "detectors", "commit"}
    /\ conflict \in BOOLEAN
    /\ (storeRow = Null) = (findings = Null)

(* The graph that gets committed is the one the in-memory builder makes,    *)
(* nodes, edges, attributes and coverage counts, whichever way the attempt  *)
(* ran and whatever failed before (bounded.py:530 "Same nodes, edges and    *)
(* coverage"); so a retry never meets a conflicting file (builder.py:173).  *)
GraphIsDerived ==
    /\ ~conflict
    /\ graphRow # Null => graphRow = MemoryGraph(facts)

(* Every step of a peeling chain is an edge of the committed graph, and its *)
(* amounts strictly fall, so no walk runs in a circle.                      *)
ChainsFollowTheGraph ==
    graphRow # Null =>
        \A w \in Range(SqlWalks(facts)) : \A i \in DOMAIN w.hops :
            LET h == w.hops[i]
            IN /\ <<OutNode(h.at), TxNode(h.tx), "SPENT_BY">> \in DOMAIN graphRow.edges
               /\ h.next # Null =>
                     /\ <<TxNode(h.tx), OutNode(h.next), "CREATES_OUTPUT">> \in DOMAIN graphRow.edges
                     /\ AmountOf(facts, h.next) < AmountOf(facts, h.at)

(* The same activity is queued once: no transaction in two peeling          *)
(* patterns, one finding per address, rule and day                          *)
(* (deterministic.py:413, :449).                                            *)
ReviewedOnce ==
    \A i, j \in DOMAIN findings :
        i # j /\ findings[i].rule = findings[j].rule =>
            IF findings[i].rule = "peeling_chain_candidate"
            THEN findings[i].evidence \cap findings[j].evidence = {}
            ELSE DayOf(findings[i]) # DayOf(findings[j])

(* Every detector signal and every window that meets a rule is inside a     *)
(* finding at least as strong, with its evidence.                           *)
Covers(f, rule, score, evidence) ==
    f.rule = rule /\ f.score >= score /\ evidence \subseteq f.evidence

SignalsAreCovered ==
    /\ \A s \in Range(MemorySignals(facts)) :
          \E f \in Range(findings) : Covers(f, s.kind, s.score, Range(s.txs))
    /\ \A s \in Range(CoinjoinSignals(facts)) :
          \E f \in Range(findings) : Covers(f, s.kind, s.score, s.txs)
    /\ \A r \in Range(storeRow) :
          r.val.in_event_count >= CollectionMin =>
              \E f \in Range(findings) :
                  /\ Covers(f, "concentrated_collection", Points(25 + 15 * r.val.in_event_count), {})
                  /\ f.entity = <<"address", r.key[1]>> /\ <<r.key[2], r.key[3]>> \in f.windows

(* A burst that meets a rule in a short window meets it in the day window   *)
(* around it (deterministic.py:444-446), so one finding per day is enough.  *)
BurstsNest ==
    \A f \in Range(findings) :
        f.rule \in {"concentrated_collection", "emerging_hub", "rapid_redistribution"} =>
            <<Day, WindowStart(f.start, Day)>> \in f.windows

(* Grouping, de-duplication and ranking queue every activity once and lose  *)
(* none (deterministic.py:329, :994).                                       *)
NothingIsLost == findings # Null => ReviewedOnce /\ SignalsAreCovered /\ BurstsNest

(* A committed graph or feature-store row names a file with the content it  *)
(* hashed: a later attempt never replaces a file a row already names.       *)
RowsNameTheirFiles ==
    /\ graphRow # Null => graphFile = graphRow
    /\ storeRow # Null => storeFile = storeRow

(* The plan decides what is held at once, within the shares of its budget,  *)
(* and never what is derived: features, findings and ranks do not depend on *)
(* chunks, partitions, pool order or execution mode (bounded.py:18 "The     *)
(* result is identical"), and the chains among them follow the graph they   *)
(* are shown in, which is the one the facts make, no signal is lost, and    *)
(* the committed rows name the files with all that.                         *)
FindingsAreDerived ==
    /\ \A n \in machines : WorkersAdmitted(n) => PlanFits(n, Records)
    /\ GraphIsDerived
    /\ findings # Null =>
          LET pass == MemoryPass(facts)
          IN findings = pass.findings /\ Range(storeRow) = Range(pass.features)
    /\ ChainsFollowTheGraph
    /\ NothingIsLost
    /\ RowsNameTheirFiles
=============================================================================
