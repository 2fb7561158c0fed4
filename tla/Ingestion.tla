----------------------------- MODULE Ingestion -----------------------------
(***************************************************************************)
(* Ingestion of one source by the imports of a case: rows are read in      *)
(* batches, each batch is published as immutable fragment files on the     *)
(* evidence volume and then committed to the control database, with its    *)
(* receipts, its checkpoint, its counters and its provisional activity in  *)
(* one transaction.  Every attempt may stop between two of these steps,    *)
(* and a later one resumes after the last checkpoint, with the batch size  *)
(* the machine's free memory allows then.                                  *)
(*                                                                         *)
(* The files are shared by all imports of the source: their path is made   *)
(* of the case, the source digest and the batch number.  A worker process  *)
(* runs one import at a time.                                              *)
(***************************************************************************)
EXTENDS Naturals, Sequences, FiniteSets

CONSTANTS
    Jobs,        \* the imports of the source
    Txids,       \* transaction ids
    Variants,    \* contents of a row: two rows of one txid may differ
    Sources,     \* the sources a behaviour may read
    BatchSizes,  \* batch sizes the resource plan may choose
    MaxStops     \* bound: attempts that stop for no reason of their own

Kinds == {"ok", "malformed", "broken"}

ASSUME SourcesAssumption == Sources \subseteq Seq([kind : Kinds, txid : Txids, variant : Variants])
ASSUME SizesAssumption   == BatchSizes \subseteq Nat \ {0}
ASSUME VariantsAssumption == Variants \cap {"unseen", "forgotten"} = {}
ASSUME StopsAssumption   == MaxStops \in Nat

VARIABLES
    source,      \* the rows; a "broken" one makes the reader raise
    files,       \* fragment files, [batch, group, rows]
    receipts,    \* FragmentReceipt rows, [job, batch, group, rows, first, last]
    checkpoint,  \* per job, the last record of its ImportCheckpoint rows
    counts,      \* per job, rows_seen, rows_accepted, rows_quarantined
    activity,    \* per job and transaction, what AddressActivity adds up to
    ingested,    \* jobs whose ingesting stage is finished
    handed,      \* per job, the facts the graph build is given
    wk,          \* the local state of the running ingest_source call
    stops        \* stops so far

db == <<receipts, checkpoint, counts, activity, ingested>>
vars == <<source, files, db, handed, wk, stops>>

-----------------------------------------------------------------------------

\* In the order publish_batch writes them.  "facts" stands for transactions,
\* inputs, outputs and network_observations: a kept row adds to them together.
Groups == <<"facts", "quarantine">>

Off == [phase |-> "off", job |-> 0, size |-> 1, number |-> 0, pos |-> 0, upto |-> 0,
        seen |-> [t \in Txids |-> "unseen"], published |-> 0,
        collecting |-> FALSE, collected |-> {}]

Receipted(j, g) == UNION {r.rows : r \in {q \in receipts : q.job = j /\ q.group = g}}

Committed(j, g) == {x.record : x \in Receipted(j, g)}

BatchNumbers(j) == {r.batch : r \in {q \in receipts : q.job = j}}

\* Continue after the highest committed batch.
NextBatch(j) ==
    IF checkpoint[j] = 0 \/ BatchNumbers(j) = {} THEN 0
    ELSE 1 + CHOOSE b \in BatchNumbers(j) : \A c \in BatchNumbers(j) : c <= b

\* Mutant: a resumed attempt starts with no transaction seen.
SeenNothing(j) == [t \in Txids |-> "unseen"]

\* _committed_txids: the receipts keep which transactions were seen, but not
\* which variant of them.
SeenAgain(j) ==
    [t \in Txids |-> IF \E i \in Committed(j, "facts") : source[i].txid = t
                     THEN "forgotten" ELSE "unseen"]

\* reference_status: a locator cites record i, which some receipt's range covers.
Citable(i) == \E r \in receipts : r.first <= i /\ i <= r.last

(* The rows of the batch the worker holds.                                 *)

InBatch == wk.pos + 1..wk.upto

WellFormed(i) == source[i].kind = "ok"

Kept(i) ==
    /\ WellFormed(i)
    /\ wk.seen[source[i].txid] = "unseen"
    /\ \A k \in wk.pos + 1..i - 1 : WellFormed(k) => source[k].txid # source[i].txid

\* The variant of row i's transaction that was kept before it.
Known(i) ==
    IF wk.seen[source[i].txid] # "unseen" THEN wk.seen[source[i].txid]
    ELSE source[CHOOSE k \in wk.pos + 1..i - 1 : Kept(k) /\ source[k].txid = source[i].txid].variant

Reason(i) ==
    IF ~WellFormed(i) THEN "malformed"
    ELSE IF Known(i) \in {"forgotten", source[i].variant} THEN "duplicate"
    ELSE "conflicting"

BatchRows(g) ==
    IF g = "facts" THEN {[record |-> i, reason |-> "none"] : i \in {k \in InBatch : Kept(k)}}
    ELSE {[record |-> i, reason |-> Reason(i)] : i \in {k \in InBatch : ~Kept(k)}}

FileAt(g) == {f \in files : f.batch = wk.number /\ f.group = g}

-----------------------------------------------------------------------------

Init ==
    /\ source \in Sources
    /\ files = {}
    /\ receipts = {}
    /\ checkpoint = [j \in Jobs |-> 0]
    /\ counts = [j \in Jobs |-> [seen |-> 0, accepted |-> 0, quarantined |-> 0]]
    /\ activity = [j \in Jobs |-> [t \in Txids |-> 0]]
    /\ ingested = {}
    /\ handed = [j \in Jobs |-> {}]
    /\ wk = Off
    /\ stops = 0

\* Mutant: a resumed attempt collects its facts too.
CollectsAlways(j, inMemory) == inMemory

\* The facts are kept in memory when this attempt produces them all.
Collects(j, inMemory) == inMemory /\ checkpoint[j] = 0

\* ingest_source begins, or resumes after the last checkpoint.
Begin(j, size, inMemory) ==
    /\ wk.phase = "off"
    /\ wk' = [Off EXCEPT !.phase = "read", !.job = j, !.size = size,
                         !.number = NextBatch(j), !.pos = checkpoint[j], !.seen = SeenAgain(j),
                         !.collecting = Collects(j, inMemory)]
    /\ j \notin ingested
    /\ UNCHANGED <<source, files, db, handed, stops>>

Chunk == wk.pos + 1..(IF wk.pos + wk.size < Len(source) THEN wk.pos + wk.size ELSE Len(source))

ReadBatch ==
    /\ wk.phase = "read"
    /\ Chunk # {}
    /\ \A i \in Chunk : source[i].kind # "broken"
    /\ wk' = [wk EXCEPT !.phase = "publish", !.published = 0,
                        !.upto = CHOOSE n \in Chunk : \A i \in Chunk : i <= n]
    /\ UNCHANGED <<source, files, db, handed, stops>>

\* The attempt ends with an exception.
Stop == wk' = Off /\ UNCHANGED <<source, files, db, handed>>

\* The reader raises before its chunk is full; a source without rows is refused.
ReadFails ==
    /\ wk.phase = "read"
    /\ \/ \E i \in Chunk : source[i].kind = "broken"
       \/ wk.pos = 0 /\ Len(source) = 0
    /\ Stop
    /\ UNCHANGED stops

\* The next group of publish_batch; an empty one gets no file.
Group == Groups[wk.published + 1]

\* Mutant: an existing file is taken as it is.
Accepts(g) == TRUE

\* _write_immutable accepts an existing file with the same digest.
SameFile(g) == \A f \in FileAt(g) : f.rows = BatchRows(g)

WriteFragment ==
    /\ wk.phase = "publish" /\ wk.published < Len(Groups)
    /\ BatchRows(Group) # {} => SameFile(Group)
    /\ files' = IF BatchRows(Group) = {} \/ FileAt(Group) # {} THEN files
                ELSE files \cup {[batch |-> wk.number, group |-> Group, rows |-> BatchRows(Group)]}
    /\ wk' = [wk EXCEPT !.published = @ + 1]
    /\ UNCHANGED <<source, db, handed, stops>>

FragmentConflict ==
    /\ wk.phase = "publish" /\ wk.published < Len(Groups)
    /\ BatchRows(Group) # {} /\ ~SameFile(Group)
    /\ Stop
    /\ UNCHANGED stops

NewReceipts ==
    {[job |-> wk.job, batch |-> wk.number, group |-> g, rows |-> BatchRows(g), first |-> wk.pos + 1, last |-> wk.upto] :
        g \in {h \in {"facts", "quarantine"} : BatchRows(h) # {}}}

\* Mutant: a receipt of another import with the same rows is shared.
PathTakenByOtherRows ==
    \E r \in receipts, n \in NewReceipts :
        r.job # n.job /\ r.batch = n.batch /\ r.group = n.group /\ r.rows # n.rows

\* uq_fragment_path admits one receipt per file; a receipt of this job is kept.
PathTaken ==
    \E r \in receipts, n \in NewReceipts :
        r.job # n.job /\ r.batch = n.batch /\ r.group = n.group

Counted(c, kept) ==
    [seen |-> c.seen + Cardinality(InBatch), accepted |-> c.accepted + Cardinality(kept),
     quarantined |-> c.quarantined + Cardinality(InBatch \ kept)]

\* Mutant: the map keeps a flag for the variant.
RememberedAsFlag ==
    [t \in Txids |-> IF \E i \in InBatch : Kept(i) /\ source[i].txid = t THEN "kept" ELSE wk.seen[t]]

Remembered ==
    [t \in Txids |-> IF \E i \in InBatch : Kept(i) /\ source[i].txid = t
                     THEN source[CHOOSE i \in InBatch : Kept(i) /\ source[i].txid = t].variant
                     ELSE wk.seen[t]]

CommitBatch ==
    LET j == wk.job
        kept == {i \in InBatch : Kept(i)}
    IN  /\ wk.phase = "publish" /\ wk.published = Len(Groups)
        /\ ~PathTaken
        /\ receipts' = receipts \cup NewReceipts
        /\ checkpoint' = [checkpoint EXCEPT ![j] = wk.upto]
        /\ counts' = [counts EXCEPT ![j] = Counted(@, kept)]
        /\ activity' = [activity EXCEPT ![j] =
               [t \in Txids |-> @[t] + Cardinality({i \in kept : source[i].txid = t})]]
        /\ wk' = [wk EXCEPT !.phase = "read", !.pos = wk.upto, !.number = @ + 1,
                            !.seen = Remembered,
                            !.collected = IF wk.collecting THEN @ \cup kept ELSE @]
        /\ UNCHANGED <<source, files, ingested, handed, stops>>

\* The commit meets the receipt of another import of the source.
CommitRefused ==
    /\ wk.phase = "publish" /\ wk.published = Len(Groups)
    /\ PathTaken
    /\ Stop
    /\ UNCHANGED stops

\* The ingesting stage ends, and the graph is built from the collected facts or
\* from the receipted fragments.
Finish ==
    /\ wk.phase = "read"
    /\ Chunk = {} /\ wk.pos > 0
    /\ ingested' = ingested \cup {wk.job}
    /\ handed' = [handed EXCEPT ![wk.job] =
           IF wk.collecting THEN wk.collected ELSE Committed(wk.job, "facts")]
    /\ wk' = Off
    /\ UNCHANGED <<source, files, receipts, checkpoint, counts, activity, stops>>

\* A crash, or any other exception, between two steps.
Interrupt ==
    /\ stops < MaxStops
    /\ wk.phase # "off"
    /\ stops' = stops + 1
    /\ Stop

Next ==
    \/ \E j \in Jobs, size \in BatchSizes, inMemory \in BOOLEAN : Begin(j, size, inMemory)
    \/ ReadBatch \/ ReadFails
    \/ WriteFragment \/ FragmentConflict
    \/ CommitBatch \/ CommitRefused
    \/ Finish \/ Interrupt

Spec == Init /\ [][Next]_vars

-----------------------------------------------------------------------------
(* Properties.                                                             *)

FileRow == [record : 1..Len(source), reason : {"none", "malformed", "duplicate", "conflicting"}]
File    == [batch : Nat, group : {"facts", "quarantine"}, rows : SUBSET FileRow]
Receipt == [job : Jobs, batch : Nat, group : {"facts", "quarantine"}, rows : SUBSET FileRow, first : Nat, last : Nat]
Counts  == [seen : Nat, accepted : Nat, quarantined : Nat]
Local   == [phase : {"off", "read", "publish"}, job : Jobs \cup {0}, size : Nat \ {0},
            number : Nat, pos : 0..Len(source), upto : 0..Len(source),
            seen : [Txids -> Variants \cup {"unseen", "forgotten"}], published : 0..2,
            collecting : BOOLEAN, collected : SUBSET (1..Len(source))]

\* Every variable keeps its type; no record past the end of the source is named.
TypeOK ==
    /\ source \in Sources
    /\ files \subseteq File
    /\ receipts \subseteq Receipt
    /\ checkpoint \in [Jobs -> 0..Len(source)]
    /\ counts \in [Jobs -> Counts]
    /\ activity \in [Jobs -> [Txids -> Nat]]
    /\ ingested \subseteq Jobs
    /\ handed \in [Jobs -> SUBSET (1..Len(source))]
    /\ wk \in Local
    /\ stops \in Nat

\* What a reader of the receipts sees is what ingestion promises: each row is
\* taken once and in order, and which rows are kept does not depend on where
\* attempts stopped or how the source was cut into batches.
Intake == INSTANCE SourceIntake WITH
    Imports <- Jobs, rows <- source, taken <- checkpoint, ended <- ingested,
    kept <- [j \in Jobs |-> Committed(j, "facts")],
    refused <- [j \in Jobs |-> Committed(j, "quarantine")]

IntakeKept == Intake!IntakeSpec

\* The graph is built from exactly the committed facts, whether this attempt
\* collected them in memory or reads them back.
HandedIsCommitted == \A j \in ingested : handed[j] = Committed(j, "facts")

\* The counters a client reads, the provisional activity and what the graph is
\* built from agree with the receipted fragments: no row of an interrupted
\* batch is counted or handed on twice.
CountersReconcile ==
    /\ HandedIsCommitted
    /\ \A j \in Jobs :
           /\ counts[j].seen = checkpoint[j]
           /\ counts[j].accepted = Cardinality(Committed(j, "facts"))
           /\ counts[j].quarantined = Cardinality(Committed(j, "quarantine"))
           /\ \A t \in Txids :
                  activity[j][t] = Cardinality({i \in Committed(j, "facts") : source[i].txid = t})

\* Imports of one source share its fragment paths, so no two of them ever hold
\* receipts: the first to commit a batch keeps the source for good.
OneImportHoldsTheSource == \A q, r \in receipts : q.job = r.job

\* A receipt vouches for the file at its path: the file is there, is the only
\* one, and holds the rows the receipt counted; all are one import's, and its
\* counters agree with them. A reviewer can cite exactly the records that were
\* committed, kept or quarantined, and none that is still to be read.
ReceiptsAreBacked ==
    /\ CountersReconcile
    /\ \A i \in 1..Len(source) : Citable(i) <=> \E j \in Jobs : i <= checkpoint[j]
    /\ OneImportHoldsTheSource
    /\ \A r \in receipts : [batch |-> r.batch, group |-> r.group, rows |-> r.rows] \in files
    /\ \A f, g \in files : f.batch = g.batch /\ f.group = g.group => f = g

\* README.md:234: "Unreceipted files are ignored during recovery": a file no
\* receipt vouches for never stops an import.
UnreceiptedFilesAreIgnored ==
    wk.phase = "publish" /\ wk.published < Len(Groups) =>
        \A f \in FileAt(Group) : \/ f.rows = BatchRows(Group) \/ BatchRows(Group) = {}
                                 \/ \E r \in receipts : r.batch = f.batch /\ r.group = f.group

=============================================================================
