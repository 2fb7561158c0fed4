--------------------------- MODULE FindingsReading ---------------------------
(* Reading a case out: the findings list, the streamed export, one finding  *)
(* with its history, and the feature rows page by page (api/routes.py,      *)
(* engine/feature_store.py), while imports store findings and features and  *)
(* reviewers decide. The case's readers are those of GraphReading and these;*)
(* a behaviour follows one of them.                                         *)
EXTENDS GraphReading

CONSTANTS
    Findings,     \* ids a finding may get, as numbers: uuids have one order
    Family,       \* of a finding: its snapshot, rule and version, as one number
    Score,        \* of a finding, compared within its family only
    Dispositions, \* what a reviewer may decide
    LegacyRows,   \* feature rows from before feature files
    FileRows,     \* of a snapshot: the rows of its feature file
    ExportPage,   \* rows per page of an export (200 in routes.py)
    MaxDecisions  \* bound on decisions

ASSUME StoreAssumption ==
    /\ Findings \subseteq Nat
    /\ \A id \in Findings : Family[id] \in Nat /\ Score[id] \in Nat
    /\ Null \notin Dispositions
    /\ LegacyRows \in Nat /\ ExportPage \in Nat \ {0}
    /\ DOMAIN FileRows \subseteq Nat /\ \A snapshot \in DOMAIN FileRows : FileRows[snapshot] \in Nat
    /\ IsFiniteSet(Findings) /\ IsFiniteSet(DOMAIN FileRows)

VARIABLES
    findings, \* the stored ones: id -> [version, status]
    reviews,  \* their decisions: id -> sequence of dispositions
    files,    \* snapshots whose feature file is recorded
    reader    \* an export under way, or Null

readingVars == <<findings, reviews, files, reader>>
allVars == <<vars, readingVars>>

-----------------------------------------------------------------------------
(* list_findings.                                                           *)

Band(marks, id) == CASE marks[id].status = "escalated" -> 0
                     [] marks[id].status = "dismissed" -> 2
                     [] OTHER -> 1

(* row_number() over the whole family, whatever was decided. *)
FamilyRank(marks, id) ==
    Cardinality({o \in DOMAIN marks : /\ Family[o] = Family[id]
                                      /\ Score[o] > Score[id] \/ (Score[o] = Score[id] /\ o <= id)})

Place(marks, id) == <<Band(marks, id), FamilyRank(marks, id), Family[id], id>>

Earlier(marks, a, b) ==
    LET p == Place(marks, a)
        q == Place(marks, b)
    IN \E k \in 1 .. 4 : p[k] < q[k] /\ \A j \in 1 .. k - 1 : p[j] = q[j]

(* The list of one review state, or of all (Null).                          *)
Listed(marks, state) ==
    Sorted({id \in DOMAIN marks : state \in {Null, marks[id].status}}, LAMBDA a, b : Earlier(marks, a, b))

-----------------------------------------------------------------------------
(* iter_feature_rows: rows of the database, then file by file in the order  *)
(* of snapshots; a file that ends before the offset is not opened.          *)

RowsOf(snapshot) == [k \in 1 .. FileRows[snapshot] |-> <<snapshot, k>>]
Legacy == [k \in 1 .. LegacyRows |-> <<Null, k>>]

ReadRows(acc, rows, offset) ==
    LET skip == Min({Len(rows), offset - acc.skipped})
    IN [skipped |-> acc.skipped + skip, rows |-> acc.rows \o SubSeq(rows, skip + 1, Len(rows))]

ReadFile(acc, snapshot, offset) ==
    IF offset - acc.skipped >= FileRows[snapshot] THEN [acc EXCEPT !.skipped = @ + FileRows[snapshot]]
    ELSE ReadRows(acc, RowsOf(snapshot), offset)

FeatureRows(stored, offset, limit) ==
    LET start == ReadRows([skipped |-> 0, rows |-> << >>], Legacy, offset)
        all == FoldLeft(LAMBDA acc, snapshot : ReadFile(acc, snapshot, offset), start, Sorted(stored, <)).rows
    IN SubSeq(all, 1, Min({limit, Len(all)}))

FeatureCount(stored) == LegacyRows + MapThenSumSet(LAMBDA snapshot : FileRows[snapshot], stored)

-----------------------------------------------------------------------------
(* The case goes on.                                                        *)

(* A stage commits its findings; their ids are random. *)
StoreFindings(new) ==
    /\ new # {} /\ new \cap DOMAIN findings = {}
    /\ findings' = [id \in DOMAIN findings \cup new |->
                       IF id \in new THEN [version |-> 1, status |-> "open"] ELSE findings[id]]
    /\ reviews' = [id \in DOMAIN findings \cup new |-> IF id \in new THEN << >> ELSE reviews[id]]
    /\ UNCHANGED <<files, reader>>

StoreFeatures(snapshot) ==
    /\ snapshot \notin files
    /\ files' = files \cup {snapshot}
    /\ UNCHANGED <<findings, reviews, reader>>

Decisions == MapThenSumSet(LAMBDA id : Len(reviews[id]), DOMAIN reviews)

(* review_finding, one commit: the finding, the decision, the audit record. *)
Decide(id, disposition) ==
    /\ Decisions < MaxDecisions
    /\ findings' = [findings EXCEPT ![id] = [version |-> @.version + 1, status |-> disposition]]
    /\ reviews' = [reviews EXCEPT ![id] = Append(@, disposition)]
    /\ UNCHANGED <<files, reader>>

-----------------------------------------------------------------------------
(* The exports: one statement at a time, each seeing what is committed.     *)

(* "owed": what was stored when the export began. *)
Started(kind, ids, owed) ==
    [kind |-> kind, step |-> "findings", ids |-> ids, offset |-> 0, page |-> << >>, out |-> << >>, owed |-> owed]

(* stream_findings; finding_evidence; features/export with limit and offset. *)
Stream == reader = Null /\ reader' = Started("stream", {}, DOMAIN findings) /\ UNCHANGED <<findings, reviews, files>>
Evidence(id) == reader = Null /\ reader' = Started("evidence", {id}, {id}) /\ UNCHANGED <<findings, reviews, files>>
PageFeatures ==
    /\ reader = Null
    /\ reader' = [Started("features", {}, Range(FeatureRows(files, 0, FeatureCount(files)))) EXCEPT !.step = "rows"]
    /\ UNCHANGED <<findings, reviews, files>>

(* ORDER BY id OFFSET .. LIMIT; or session.get. *)
Chosen ==
    IF reader.kind = "evidence" THEN <<CHOOSE id \in reader.ids : TRUE>>
    ELSE Page(Sorted(DOMAIN findings, <), reader.offset, ExportPage)

FindingView(id) ==
    [id |-> id, version |-> findings[id].version, status |-> findings[id].status, history |-> << >>, audits |-> 0]

(* finding_review_history, finding_audit_history: each in a query of its own. *)
WithHistory(row) == [row EXCEPT !.history = reviews[row.id]]
WithAudits(row) == [row EXCEPT !.audits = Len(reviews[row.id])]

ReadFindings ==
    /\ reader # Null /\ reader.step = "findings"
    /\ reader' = [reader EXCEPT !.page = [k \in DOMAIN Chosen |-> FindingView(Chosen[k])], !.step = "reviews"]
    /\ UNCHANGED <<findings, reviews, files>>

ReadReviews ==
    /\ reader # Null /\ reader.step = "reviews"
    /\ reader' = [reader EXCEPT !.page = [k \in DOMAIN @ |-> WithHistory(@[k])], !.step = "audits"]
    /\ UNCHANGED <<findings, reviews, files>>

\* Mutant: the findings are shown as they are when the page is sent.
ReadAuditsFresh ==
    /\ reader # Null /\ reader.step = "audits"
    /\ LET shown(row) == WithAudits([FindingView(row.id) EXCEPT !.history = row.history])
           more == reader.kind = "stream" /\ Len(reader.page) = ExportPage
       IN reader' = [reader EXCEPT !.out = @ \o [k \in DOMAIN reader.page |-> shown(reader.page[k])],
                                   !.page = << >>, !.offset = @ + ExportPage,
                                   !.step = IF more THEN "findings" ELSE "done"]
    /\ UNCHANGED <<findings, reviews, files>>

(* Audit records, one per decision; then the page is sent. The stream ends  *)
(* with a page that is not full.                                            *)
ReadAudits ==
    /\ reader # Null /\ reader.step = "audits"
    /\ LET sent == [k \in DOMAIN reader.page |-> WithAudits(reader.page[k])]
           more == reader.kind = "stream" /\ Len(sent) = ExportPage
       IN reader' = [reader EXCEPT !.out = @ \o sent, !.page = << >>, !.offset = @ + ExportPage,
                                   !.step = IF more THEN "findings" ELSE "done"]
    /\ UNCHANGED <<findings, reviews, files>>

(* The caller asks for pages until it has as many rows as there are. *)
ReadFeatures ==
    /\ reader # Null /\ reader.step = "rows"
    /\ LET upto == reader.offset + ExportPage
       IN reader' = [reader EXCEPT !.out = @ \o FeatureRows(files, reader.offset, ExportPage), !.offset = upto,
                                   !.step = IF upto < FeatureCount(files) THEN "rows" ELSE "done"]
    /\ UNCHANGED <<findings, reviews, files>>

ReadingNext ==
    \/ \E new \in SUBSET Findings : StoreFindings(new)
    \/ \E snapshot \in DOMAIN FileRows : StoreFeatures(snapshot)
    \/ \E id \in DOMAIN findings, disposition \in Dispositions : Decide(id, disposition)
    \/ Stream \/ PageFeatures \/ \E id \in DOMAIN findings : Evidence(id)
    \/ ReadFindings \/ ReadReviews \/ ReadAudits \/ ReadFeatures

(* Without a graph mounted, none is asked for. *)
ReadingInit ==
    /\ findings = << >> /\ reviews = << >> /\ files = {} /\ reader = Null
    /\ graphs = <<MemoryGraph(FactsOf(Ledgers[1]))>>
    /\ mount = Null /\ view = Null /\ wire = {} /\ loads = MaxLoads

CaseInit ==
    \/ Init /\ findings = << >> /\ reviews = << >> /\ files = {} /\ reader = Null
    \/ ReadingInit

CaseNext ==
    \/ mount # Null /\ Next /\ UNCHANGED readingVars
    \/ mount = Null /\ ReadingNext /\ UNCHANGED vars

CaseSpec == CaseInit /\ [][CaseNext]_allVars
-----------------------------------------------------------------------------
(* A finding's status and version are never ahead of the history exported   *)
(* with it, nor a decision of its audit record, though they are read one    *)
(* after another while reviewers decide: the history holds the decision     *)
(* that set the status at the version shown.                                *)
HistoryCovers(entry) ==
    /\ entry.version <= Len(entry.history) + 1
    /\ entry.status = IF entry.version = 1 THEN "open" ELSE entry.history[entry.version - 1]
    /\ Len(entry.history) <= entry.audits

(* An export read in pages by offset, while findings and feature files get  *)
(* in between (they move later rows back), leaves out nothing that was      *)
(* stored when it began, and each entry has its history (export_findings,   *)
(* finding_evidence, iter_feature_rows).                                    *)
ExportIsWhole ==
    reader # Null =>
        /\ reader.step = "done" =>
               reader.owed \subseteq
                   IF reader.kind = "features" THEN Range(reader.out) ELSE {reader.out[k].id : k \in DOMAIN reader.out}
        /\ reader.kind # "features" => \A k \in DOMAIN reader.out : HistoryCovers(reader.out[k])

Precedes(list, a, b) == \E i, j \in DOMAIN list : i < j /\ list[i] = a /\ list[j] = b
Lists(list, ids) == Range(list) = ids /\ \A i, j \in DOMAIN list : list[i] = list[j] => i = j

(* Each list shows every finding of its review state once. What is decided  *)
(* on one finding moves that finding in the list and no other: whatever     *)
(* page a reviewer is on, at most one finding slips past, the one decided.  *)
(* Escalated ones come first and dismissed ones last, and a family's better *)
(* findings before its worse ones of the same band; and the list of one     *)
(* state is in the order of the list of all.                                *)
ListIsSteady ==
    LET all == Listed(findings, Null)
    IN /\ Lists(all, DOMAIN findings)
       /\ \A id \in DOMAIN findings, disposition \in Dispositions :
              LET after == Listed([findings EXCEPT ![id].status = disposition], Null)
              IN \A a, b \in DOMAIN findings \ {id} : Precedes(after, a, b) <=> Precedes(all, a, b)
       /\ \A a, b \in DOMAIN findings : Precedes(all, a, b) =>
              /\ Band(findings, a) <= Band(findings, b)
              /\ Family[a] = Family[b] /\ Band(findings, a) = Band(findings, b) => Score[a] >= Score[b]
       /\ \A state \in Dispositions :
              LET shown == {id \in DOMAIN findings : findings[id].status = state}
              IN /\ Lists(Listed(findings, state), shown)
                 /\ \A a, b \in shown : Precedes(Listed(findings, state), a, b) <=> Precedes(all, a, b)

(* The case is read whole, by a view that loads a graph and by an export.   *)
CaseIsReadWhole ==
    IF mount # Null THEN ReadingIsWhole ELSE ExportIsWhole /\ ListIsSteady
=============================================================================
