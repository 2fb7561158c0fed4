--------------------------- MODULE IngestionProofs ---------------------------
(* Theorems about Ingestion, for any imports, sources, batch sizes and      *)
(* number of stops.                                                         *)
(*                                                                          *)
(* The running call always stands where the last checkpoint of its import   *)
(* is, so what it commits is new to its receipts and the counters can be    *)
(* added up; and whichever import commits first has a receipt of batch 0    *)
(* for the group of row 1, which is in the way of every other import.       *)
EXTENDS Ingestion, SequenceTheorems, FiniteSetTheorems, WellFoundedInduction, TLAPS

Running == wk.phase # "off"

\* The choice in NextBatch is of something that is there.
HasTop == \A j \in Jobs : BatchNumbers(j) # {} => \E b \in BatchNumbers(j) : \A c \in BatchNumbers(j) : c <= b

TypeInv ==
    /\ TypeOK /\ HasTop
    /\ Running => wk.job \in Jobs
    /\ wk.phase = "publish" => wk.pos < wk.upto

-----------------------------------------------------------------------------
(* Types.                                                                   *)

LEMMA SourceRows ==
    ASSUME source \in Sources
    PROVE  /\ Len(source) \in Nat
           /\ \A i \in 1 .. Len(source) :
                  source[i].kind \in Kinds /\ source[i].txid \in Txids /\ source[i].variant \in Variants
<1>1. source \in Seq([kind : Kinds, txid : Txids, variant : Variants]) BY SourcesAssumption
<1>2. Len(source) \in Nat /\ source \in [1 .. Len(source) -> [kind : Kinds, txid : Txids, variant : Variants]]
  BY <1>1, LenProperties
<1> QED BY <1>2

LEMMA NextBatchTyped == ASSUME TypeInv, NEW j \in Jobs PROVE NextBatch(j) \in Nat
<1>1. CASE BatchNumbers(j) = {} BY <1>1 DEF NextBatch
<1>2. CASE BatchNumbers(j) # {}
  <2>1. \A b \in BatchNumbers(j) : b \in Nat BY DEF TypeInv, TypeOK, BatchNumbers, Receipt
  <2> DEFINE top == CHOOSE b \in BatchNumbers(j) : \A c \in BatchNumbers(j) : c <= b
  <2>2. top \in BatchNumbers(j) BY <1>2 DEF TypeInv, HasTop
  <2>3. top \in Nat BY <2>1, <2>2
  <2> HIDE DEF top
  <2>4. NextBatch(j) = IF checkpoint[j] = 0 \/ BatchNumbers(j) = {} THEN 0 ELSE 1 + top BY DEF NextBatch, top
  <2> QED BY <2>3, <2>4
<1> QED BY <1>1, <1>2

\* The end of a batch: as many rows as its size, or those that are left.
LEMMA ChunkEnds ==
    ASSUME TypeInv, Chunk # {}
    PROVE  \E n \in 1 .. Len(source) :
               n = (CHOOSE m \in Chunk : \A i \in Chunk : i <= m) /\ wk.pos < n /\ Chunk = wk.pos + 1 .. n
<1>1. Len(source) \in Nat BY SourceRows DEF TypeInv, TypeOK
<1>2. wk.pos \in 0 .. Len(source) /\ wk.size \in Nat BY DEF TypeInv, TypeOK, Local
<1> DEFINE end == IF wk.pos + wk.size < Len(source) THEN wk.pos + wk.size ELSE Len(source)
<1>3. end \in 0 .. Len(source) BY <1>1, <1>2
<1>4. Chunk = wk.pos + 1 .. end BY DEF Chunk
<1> HIDE DEF end
<1>5. wk.pos < end BY <1>2, <1>3, <1>4
<1>6. end \in Chunk /\ \A i \in Chunk : i <= end BY <1>2, <1>3, <1>4, <1>5
<1>7. \A m \in Chunk : m \in Nat BY <1>2, <1>3, <1>4
<1> DEFINE top == CHOOSE m \in Chunk : \A i \in Chunk : i <= m
<1>8. top \in Chunk /\ \A i \in Chunk : i <= top BY <1>6
<1> HIDE DEF top
<1>9. top = end BY <1>3, <1>6, <1>7, <1>8
<1> QED BY <1>1, <1>2, <1>3, <1>4, <1>5, <1>9 DEF top

LEMMA BatchTyped ==
    ASSUME TypeInv, wk.phase = "publish"
    PROVE  /\ InBatch \subseteq 1 .. Len(source)
           /\ \A g : BatchRows(g) \subseteq FileRow
           /\ Group \in {"facts", "quarantine"} \/ wk.published = 2
<1>1. Len(source) \in Nat BY SourceRows DEF TypeInv, TypeOK
<1>2. wk.pos \in 0 .. Len(source) /\ wk.upto \in 0 .. Len(source) /\ wk.published \in 0 .. 2
  BY DEF TypeInv, TypeOK, Local
<1>3. InBatch \subseteq 1 .. Len(source) BY <1>1, <1>2 DEF InBatch
<1>4. \A i : Reason(i) \in {"malformed", "duplicate", "conflicting"} BY DEF Reason
<1>5. \A g : BatchRows(g) \subseteq FileRow BY <1>3, <1>4 DEF BatchRows, FileRow
<1>6. Group \in {"facts", "quarantine"} \/ wk.published = 2 BY <1>2 DEF Group, Groups
<1> QED BY <1>3, <1>5, <1>6

LEMMA OffTyped == TypeOK => Off \in Local
<1>1. TypeOK => Len(source) \in Nat BY SourceRows DEF TypeOK
<1> QED BY <1>1 DEF Off, Local

LEMMA TypeInit == Init => TypeInv
<1> SUFFICES ASSUME Init PROVE TypeInv
  OBVIOUS
<1>1. Len(source) \in Nat BY SourceRows DEF Init
<1>2. Off \in Local BY <1>1 DEF Off, Local
<1>3. TypeOK BY <1>1, <1>2 DEF Init, TypeOK, Counts
<1>4. HasTop BY DEF Init, HasTop, BatchNumbers
<1> QED BY <1>3, <1>4 DEF Init, TypeInv, Running, Off

\* A step of the call that leaves the tables alone needs a typed call only.
LEMMA CallTyped ==
    ASSUME TypeInv, UNCHANGED <<source, db, handed>>, files' \subseteq File, wk' \in Local', stops' \in Nat,
           Running' => wk'.job \in Jobs, wk'.phase = "publish" => wk'.pos < wk'.upto
    PROVE  TypeInv'
BY DEF TypeInv, TypeOK, HasTop, BatchNumbers, db, File, FileRow, Receipt, Local, Running

LEMMA CommitTyped == ASSUME TypeInv, CommitBatch PROVE TypeInv'
<1> DEFINE j == wk.job
<1> DEFINE kept == {i \in InBatch : Kept(i)}
<1> USE DEF TypeInv
<1>1. Len(source) \in Nat BY SourceRows DEF TypeOK
<1>2. wk \in Local /\ wk.phase = "publish" /\ j \in Jobs BY DEF CommitBatch, TypeOK, Running
<1>3. InBatch \subseteq 1 .. Len(source) /\ kept \subseteq 1 .. Len(source) /\ IsFiniteSet(InBatch)
  <2>1. IsFiniteSet(InBatch) BY <1>2, FS_Interval DEF InBatch, Local
  <2> QED BY <1>2, <2>1, BatchTyped
<1>4. IsFiniteSet(kept) /\ IsFiniteSet(InBatch \ kept) BY <1>3, FS_Subset
<1> HIDE DEF kept
<1>5. Counted(counts[j], kept) \in Counts
  <2>1. Cardinality(InBatch) \in Nat /\ Cardinality(kept) \in Nat /\ Cardinality(InBatch \ kept) \in Nat
    BY <1>3, <1>4, FS_CardinalityType
  <2>2. counts[j] \in Counts BY <1>2 DEF TypeOK
  <2> QED BY <2>1, <2>2 DEF Counted, Counts
<1>6. counts' \in [Jobs -> Counts]
  <2>1. counts' = [counts EXCEPT ![j] = Counted(@, kept)] BY DEF CommitBatch, kept
  <2> QED BY <1>5, <2>1 DEF TypeOK
<1>7. activity' \in [Jobs -> [Txids -> Nat]]
  <2> DEFINE added == [t \in Txids |-> activity[j][t] + Cardinality({i \in kept : source[i].txid = t})]
  <2>1. added \in [Txids -> Nat]
    <3>1. ASSUME NEW t \in Txids PROVE Cardinality({i \in kept : source[i].txid = t}) \in Nat
      <4>1. IsFiniteSet({i \in kept : source[i].txid = t}) BY <1>4, FS_Subset
      <4> QED BY <4>1, FS_CardinalityType
    <3>2. \A t \in Txids : activity[j][t] \in Nat BY <1>2 DEF TypeOK
    <3> QED BY <3>1, <3>2
  <2>2. activity' = [activity EXCEPT ![j] = added] BY DEF CommitBatch, kept
  <2> HIDE DEF added
  <2> QED BY <2>1, <2>2 DEF TypeOK
<1>8. receipts' \subseteq Receipt
  <2>1. wk.number \in Nat /\ wk.pos + 1 \in Nat /\ wk.upto \in Nat BY <1>1, <1>2 DEF Local
  <2>2. \A g : BatchRows(g) \in SUBSET FileRow BY <1>2, BatchTyped
  <2>3. NewReceipts \subseteq Receipt BY <1>2, <2>1, <2>2 DEF NewReceipts, Receipt
  <2> QED BY <2>3 DEF CommitBatch, TypeOK
<1>9. checkpoint' \in [Jobs -> 0 .. Len(source)] BY <1>2 DEF CommitBatch, TypeOK, Local
<1>10. wk' \in Local /\ wk'.phase = "read" /\ wk'.job = j
  <2>1. Remembered \in [Txids -> Variants \cup {"unseen", "forgotten"}]
    <3>1. ASSUME NEW t \in Txids, NEW i \in InBatch, Kept(i), source[i].txid = t
          PROVE  source[CHOOSE k \in InBatch : Kept(k) /\ source[k].txid = t].variant \in Variants
      <4> DEFINE k == CHOOSE k \in InBatch : Kept(k) /\ source[k].txid = t
      <4>1. k \in InBatch BY <3>1
      <4> HIDE DEF k
      <4>2. source[k].variant \in Variants BY <1>3, <4>1, SourceRows DEF TypeOK
      <4> QED BY <4>2 DEF k
    <3>2. \A t \in Txids : wk.seen[t] \in Variants \cup {"unseen", "forgotten"} BY <1>2 DEF Local
    <3> QED BY <3>1, <3>2 DEF Remembered
  <2>2. wk.collected \cup kept \subseteq 1 .. Len(source) /\ wk.collected \subseteq 1 .. Len(source)
    BY <1>2, <1>3 DEF Local
  <2> DEFINE collected == IF wk.collecting THEN wk.collected \cup kept ELSE wk.collected
  <2>3. wk' = [wk EXCEPT !.phase = "read", !.pos = wk.upto, !.number = wk.number + 1, !.seen = Remembered,
                         !.collected = collected]
    BY DEF CommitBatch, kept
  <2>4. collected \in SUBSET (1 .. Len(source)) BY <2>2
  <2> HIDE DEF collected
  <2>5. wk.number + 1 \in Nat /\ wk.upto \in 0 .. Len(source) BY <1>2 DEF Local
  <2> QED BY <1>2, <2>1, <2>3, <2>4, <2>5 DEF Local
<1>11. HasTop'
  <2> SUFFICES ASSUME NEW i \in Jobs, BatchNumbers(i)' # {}
               PROVE \E b \in BatchNumbers(i)' : \A c \in BatchNumbers(i)' : c <= b
    BY DEF HasTop
  <2>1. BatchNumbers(i)' \subseteq BatchNumbers(i) \cup {wk.number} /\ BatchNumbers(i) \subseteq BatchNumbers(i)'
    BY DEF CommitBatch, BatchNumbers, NewReceipts
  <2>2. wk.number \in Nat /\ \A b \in BatchNumbers(i) : b \in Nat
    BY <1>2 DEF Local, TypeOK, BatchNumbers, Receipt
  <2>3. CASE BatchNumbers(i) = {} BY <2>1, <2>2, <2>3
  <2>4. CASE BatchNumbers(i) # {}
    <3>1. PICK b \in BatchNumbers(i) : \A c \in BatchNumbers(i) : c <= b BY <2>4 DEF HasTop
    <3> QED BY <2>1, <2>2, <3>1
  <2> QED BY <2>3, <2>4
<1> QED
  BY <1>2, <1>6, <1>7, <1>8, <1>9, <1>10, <1>11
  DEF CommitBatch, TypeOK, Running, File, FileRow, Receipt, Local

\* The call ends with nothing but its own state lost.
LEMMA StopTyped == ASSUME TypeInv, Stop, stops' \in Nat PROVE TypeInv'
<1>1. wk' \in Local' BY OffTyped DEF Stop, TypeInv, TypeOK, Local
<1>2. ~Running' /\ wk'.phase # "publish" BY DEF Stop, Off, Running
<1> QED BY <1>1, <1>2, CallTyped DEF Stop, TypeInv, TypeOK, File, FileRow

LEMMA CommittedTyped == ASSUME TypeInv, NEW j, NEW g PROVE Committed(j, g) \subseteq 1 .. Len(source)
BY DEF TypeInv, TypeOK, Receipt, FileRow, Committed, Receipted

LEMMA TypeStep == TypeInv /\ [Next]_vars => TypeInv'
<1> SUFFICES ASSUME TypeInv, [Next]_vars PROVE TypeInv'
  OBVIOUS
<1>0. /\ Len(source) \in Nat /\ wk \in Local /\ files \subseteq File /\ stops \in Nat /\ checkpoint \in [Jobs -> 0 .. Len(source)]
      /\ Running => wk.job \in Jobs
  BY SourceRows DEF TypeInv, TypeOK
<1>1. ASSUME NEW j \in Jobs, NEW size \in BatchSizes, NEW inMemory \in BOOLEAN, Begin(j, size, inMemory) PROVE TypeInv'
  <2>1. SeenAgain(j) \in [Txids -> Variants \cup {"unseen", "forgotten"}] BY DEF SeenAgain
  <2>2. Collects(j, inMemory) \in BOOLEAN /\ size \in Nat \ {0} BY SizesAssumption DEF Collects
  <2>3. NextBatch(j) \in Nat BY NextBatchTyped
  <2> DEFINE seen == SeenAgain(j)
             number == NextBatch(j)
             collecting == Collects(j, inMemory)
  <2>4. wk' = [Off EXCEPT !.phase = "read", !.job = j, !.size = size, !.number = number, !.pos = checkpoint[j],
                          !.seen = seen, !.collecting = collecting]
    BY <1>1 DEF Begin
  <2> HIDE DEF seen, number, collecting
  <2>5. Off \in Local BY OffTyped DEF TypeInv
  <2>6. wk' \in Local /\ wk'.phase = "read" /\ wk'.job = j
    BY <1>0, <2>1, <2>2, <2>3, <2>4, <2>5 DEF Local, seen, number, collecting
  <2> QED BY <1>0, <1>1, <2>6, CallTyped DEF Begin, Local, File, FileRow
<1>2. CASE ReadBatch
  <2>1. PICK n \in 1 .. Len(source) : n = (CHOOSE m \in Chunk : \A i \in Chunk : i <= m) /\ wk.pos < n
    BY <1>2, ChunkEnds DEF ReadBatch
  <2>2. wk' = [wk EXCEPT !.phase = "publish", !.published = 0, !.upto = n] BY <1>2, <2>1 DEF ReadBatch
  <2>3. n \in 0 .. Len(source) /\ 0 \in 0 .. 2 BY <1>0, <2>1
  <2>4. wk' \in Local /\ wk'.phase = "publish" /\ wk'.pos = wk.pos /\ wk'.upto = n /\ wk'.job = wk.job
    BY <1>0, <2>2, <2>3 DEF Local
  <2> QED BY <1>0, <1>2, <2>1, <2>4, CallTyped DEF ReadBatch, Running, Local, File, FileRow
<1>3. CASE WriteFragment
  <2>0. wk.published + 1 \in 0 .. 2 /\ wk.phase = "publish" /\ wk' = [wk EXCEPT !.published = wk.published + 1]
    BY <1>0, <1>3 DEF WriteFragment, Local, Groups
  <2>1. wk' \in Local /\ wk'.phase = "publish" /\ wk'.pos < wk'.upto /\ wk'.job = wk.job
    BY <1>0, <2>0 DEF Local, TypeInv
  <2>2. files' \subseteq File
    <3>1. Group \in {"facts", "quarantine"}
      BY <1>0, <1>3 DEF WriteFragment, Local, Groups, Group
    <3>2. [batch |-> wk.number, group |-> Group, rows |-> BatchRows(Group)] \in File
      BY <1>0, <1>3, <3>1, BatchTyped DEF WriteFragment, File, Local
    <3> QED BY <1>0, <1>3, <3>2 DEF WriteFragment
  <2> QED BY <1>0, <1>3, <2>1, <2>2, CallTyped DEF WriteFragment, Running, Local
<1>4. CASE CommitBatch BY <1>4, CommitTyped
<1>5. CASE ReadFails \/ FragmentConflict \/ CommitRefused
  BY <1>0, <1>5, StopTyped DEF ReadFails, FragmentConflict, CommitRefused
<1>6. CASE Interrupt BY <1>0, <1>6, StopTyped DEF Interrupt
<1>7. CASE Finish
  <2>1. Off \in Local BY OffTyped DEF TypeInv
  <2>2. wk.job \in Jobs BY <1>0, <1>7 DEF Finish, Running
  <2>3. wk.collected \subseteq 1 .. Len(source) /\ Committed(wk.job, "facts") \subseteq 1 .. Len(source)
    BY <1>0, CommittedTyped DEF Local
  <2>4. handed' \in [Jobs -> SUBSET (1 .. Len(source))]
    BY <1>7, <2>2, <2>3 DEF Finish, TypeInv, TypeOK
  <2>5. ~Running' /\ wk'.phase # "publish" BY <1>7 DEF Finish, Off, Running
  <2> QED
    BY <1>7, <2>1, <2>2, <2>4, <2>5
    DEF Finish, TypeInv, TypeOK, HasTop, BatchNumbers, File, FileRow, Receipt, Local, Running
<1>8. CASE UNCHANGED vars
  BY <1>8 DEF vars, db, TypeInv, TypeOK, HasTop, BatchNumbers, File, FileRow, Receipt, Local, Running
<1> QED BY <1>1, <1>2, <1>3, <1>4, <1>5, <1>6, <1>7, <1>8 DEF Next

(* Every reachable state is well typed: no batch, receipt or fact names a   *)
(* record past the end of the source.                                       *)
THEOREM IngestionTyped == Spec => []TypeOK
<1>1. TypeInv => TypeOK BY DEF TypeInv
<1> QED BY <1>1, TypeInit, TypeStep, PTL DEF Spec

-----------------------------------------------------------------------------
(* Receipts.                                                                *)

Facts(j) == Committed(j, "facts")
Refused(j) == Committed(j, "quarantine")

\* Where row 1 goes, whoever reads it first.
FirstGroup == IF WellFormed(1) THEN "facts" ELSE "quarantine"

Complete(n) ==
    LET g == Groups[n]
    IN BatchRows(g) # {} => [batch |-> wk.number, group |-> g, rows |-> BatchRows(g)] \in files

\* The running call stands where the last checkpoint of its import is.
CallInv == Running =>
    /\ wk.job \notin ingested /\ wk.pos = checkpoint[wk.job]
    /\ wk.pos = 0 => wk.number = 0 /\ \A t \in Txids : wk.seen[t] = "unseen"
    /\ wk.collecting => wk.collected = Facts(wk.job)
    /\ wk.phase = "publish" => \A n \in 1 .. wk.published : Complete(n)

\* The receipts of an import are about its rows up to the checkpoint, each once.
ReceiptInv ==
    /\ \A r \in receipts : /\ r.rows # {} /\ 1 <= r.first /\ r.last <= checkpoint[r.job]
                           /\ \A x \in r.rows : r.first <= x.record /\ x.record <= r.last
    /\ \A j \in Jobs : Facts(j) \cup Refused(j) = 1 .. checkpoint[j] /\ Facts(j) \cap Refused(j) = {}

FirstInv == \A j \in Jobs : checkpoint[j] > 0 =>
    \E r \in receipts : r.job = j /\ r.batch = 0 /\ r.group = FirstGroup

FileInv ==
    /\ \A r \in receipts : [batch |-> r.batch, group |-> r.group, rows |-> r.rows] \in files
    /\ \A f, g \in files : f.batch = g.batch /\ f.group = g.group => f = g

IngestInv ==
    /\ TypeInv /\ CallInv /\ ReceiptInv /\ FirstInv /\ FileInv
    /\ OneImportHoldsTheSource /\ CountersReconcile

LEMMA IngestInit == Init => IngestInv
<1> SUFFICES ASSUME Init PROVE IngestInv
  OBVIOUS
<1>1. TypeInv BY TypeInit
<1>2. \A j : Facts(j) = {} /\ Refused(j) = {} BY DEF Init, Facts, Refused, Committed, Receipted
<1>3. CallInv BY DEF Init, CallInv, Running, Off
<1>4. ReceiptInv BY <1>2 DEF Init, ReceiptInv
<1>5. FirstInv /\ FileInv /\ OneImportHoldsTheSource BY DEF Init, FirstInv, FileInv, OneImportHoldsTheSource
<1>6. CountersReconcile
  <2>1. \A t : {i \in {} : source[i].txid = t} = {} OBVIOUS
  <2> QED BY <1>2, <2>1, FS_EmptySet DEF Init, CountersReconcile, HandedIsCommitted, Facts, Refused
<1> QED BY <1>1, <1>3, <1>4, <1>5, <1>6 DEF IngestInv

\* Steps that leave the tables alone keep what is said of them.
LEMMA TablesKept ==
    ASSUME IngestInv, TypeInv', UNCHANGED <<source, db, handed>>, CallInv', FileInv'
    PROVE  IngestInv'
<1>1. \A j, g : Committed(j, g)' = Committed(j, g) BY DEF db, Committed, Receipted
<1>2. ReceiptInv' BY <1>1 DEF IngestInv, ReceiptInv, db, Facts, Refused
<1>3. FirstInv' /\ OneImportHoldsTheSource'
  BY DEF IngestInv, FirstInv, OneImportHoldsTheSource, FirstGroup, WellFormed, db
<1>4. CountersReconcile' BY <1>1 DEF IngestInv, CountersReconcile, HandedIsCommitted, db
<1> QED BY <1>2, <1>3, <1>4 DEF IngestInv

LEMMA StopKept == ASSUME IngestInv, TypeInv', Stop PROVE IngestInv'
<1>1. CallInv' BY DEF Stop, CallInv, Running, Off
<1>2. FileInv' BY DEF Stop, IngestInv, FileInv, db
<1> QED BY <1>1, <1>2, TablesKept DEF Stop

LEMMA BeginKept ==
    ASSUME IngestInv, TypeInv', NEW j \in Jobs, NEW size \in BatchSizes, NEW inMemory \in BOOLEAN, Begin(j, size, inMemory)
    PROVE  IngestInv'
<1>1. /\ wk'.phase = "read" /\ wk'.job = j /\ wk'.number = NextBatch(j) /\ wk'.pos = checkpoint[j]
      /\ wk'.seen = SeenAgain(j) /\ wk'.collecting = Collects(j, inMemory) /\ wk'.collected = {}
  BY DEF Begin, Off
<1>2. checkpoint[j] = 0 => Facts(j) = {} BY DEF IngestInv, ReceiptInv
<1>3. Facts(j)' = Facts(j) BY DEF Begin, db, Facts, Committed, Receipted
<1>4. wk'.pos = 0 => wk'.number = 0 BY <1>1 DEF NextBatch
<1>5. wk'.pos = 0 => \A t \in Txids : wk'.seen[t] = "unseen" BY <1>1, <1>2 DEF SeenAgain, Facts
<1>6. wk'.collecting => wk'.collected = Facts(j)' BY <1>1, <1>2, <1>3 DEF Collects
<1>7. CallInv' BY <1>1, <1>4, <1>5, <1>6 DEF Begin, CallInv, db
<1>8. FileInv' BY DEF Begin, IngestInv, FileInv, db
<1> QED BY <1>7, <1>8, TablesKept DEF Begin

\* The rows of a batch depend on where it begins and ends, and on what was seen.
LEMMA SameBatch ==
    ASSUME source' = source, wk'.pos = wk.pos, wk'.upto = wk.upto, wk'.seen = wk.seen, NEW g
    PROVE  BatchRows(g)' = BatchRows(g)
<1>1. \A i : Kept(i)' <=> Kept(i) BY DEF Kept, WellFormed
<1>2. \A i : Known(i)' = Known(i) BY DEF Known, Kept, WellFormed
<1>3. \A i : Reason(i)' = Reason(i) BY <1>2 DEF Reason, WellFormed
<1>4. InBatch' = InBatch BY DEF InBatch
<1> QED BY <1>1, <1>3, <1>4 DEF BatchRows

LEMMA ReadKept == ASSUME IngestInv, TypeInv', ReadBatch PROVE IngestInv'
<1>1. wk \in Local BY DEF IngestInv, TypeInv, TypeOK
<1>2. /\ wk'.job = wk.job /\ wk'.pos = wk.pos /\ wk'.number = wk.number /\ wk'.seen = wk.seen
      /\ wk'.collecting = wk.collecting /\ wk'.collected = wk.collected
      /\ wk'.published = 0 /\ Running
  BY <1>1 DEF ReadBatch, Local, Running
<1>3. Facts(wk.job)' = Facts(wk.job) BY <1>2 DEF ReadBatch, db, Facts, Committed, Receipted
<1>4. CallInv'
  <2>1. \A n \in 1 .. 0 : Complete(n)' OBVIOUS
  <2> QED BY <1>2, <1>3, <2>1 DEF ReadBatch, IngestInv, CallInv, db, Facts
<1>5. FileInv' BY DEF ReadBatch, IngestInv, FileInv, db
<1> QED BY <1>4, <1>5, TablesKept DEF ReadBatch

LEMMA WriteKept == ASSUME IngestInv, TypeInv', WriteFragment PROVE IngestInv'
<1> USE DEF IngestInv
<1>1. wk \in Local /\ files \subseteq File BY DEF TypeInv, TypeOK
<1>2. /\ wk'.job = wk.job /\ wk'.pos = wk.pos /\ wk'.number = wk.number /\ wk'.seen = wk.seen /\ wk'.upto = wk.upto
      /\ wk'.collecting = wk.collecting /\ wk'.collected = wk.collected
      /\ wk'.published = wk.published + 1 /\ wk.published \in 0 .. 2 /\ Running /\ wk.phase = "publish"
  BY <1>1 DEF WriteFragment, Local, Running
<1>3. UNCHANGED <<source, receipts, checkpoint, counts, activity, ingested, handed>> BY DEF WriteFragment, db
<1>4. \A g : BatchRows(g)' = BatchRows(g) BY <1>2, <1>3, SameBatch
<1> DEFINE file == [batch |-> wk.number, group |-> Group, rows |-> BatchRows(Group)]
<1>5. /\ files \subseteq files' /\ files' \subseteq files \cup {file}
      /\ BatchRows(Group) # {} => file \in files'
      /\ files' # files => FileAt(Group) = {}
  <2>1. CASE BatchRows(Group) = {} \/ FileAt(Group) = {} BY <2>1 DEF WriteFragment
  <2>2. CASE BatchRows(Group) # {} /\ FileAt(Group) # {}
    <3>1. PICK f \in FileAt(Group) : f.rows = BatchRows(Group) BY <2>2 DEF WriteFragment, SameFile
    <3>2. f \in files /\ f \in File /\ f.batch = wk.number /\ f.group = Group BY <1>1, <3>1 DEF FileAt
    <3>3. f = file BY <3>1, <3>2 DEF File
    <3> QED BY <2>2, <3>2, <3>3 DEF WriteFragment
  <2> QED BY <2>1, <2>2
<1>6. \A n \in 1 .. wk.published + 1 : Complete(n)'
  <2>1. Group = Groups[wk.published + 1] BY DEF Group
  <2>2. ASSUME NEW n \in 1 .. wk.published PROVE Complete(n)'
    BY <1>2, <1>4, <1>5 DEF CallInv, Complete
  <2>3. ASSUME NEW n, n = wk.published + 1 PROVE Complete(n)'
    <3>1. Groups[n] = Group BY <2>1, <2>3
    <3>2. BatchRows(Group) # {} => [batch |-> wk.number, group |-> Group, rows |-> BatchRows(Group)] \in files' BY <1>5
    <3> QED BY <1>2, <1>4, <3>1, <3>2 DEF Complete
  <2>4. \A n \in 1 .. wk.published + 1 : n \in 1 .. wk.published \/ n = wk.published + 1 BY <1>2
  <2> QED BY <2>2, <2>3, <2>4
<1>7. Facts(wk.job)' = Facts(wk.job) BY <1>2, <1>3 DEF Facts, Committed, Receipted
<1>8. CallInv' BY <1>2, <1>3, <1>6, <1>7 DEF CallInv, Facts
<1>9. FileInv'
  <2> HIDE DEF file
  <2>1. file.batch = wk.number /\ file.group = Group BY DEF file
  <2>2. \A f \in files : files' # files => ~(f.batch = file.batch /\ f.group = file.group)
    BY <1>5, <2>1 DEF FileAt
  <2> QED BY <1>3, <1>5, <2>2 DEF FileInv
<1> QED BY <1>3, <1>8, <1>9, TablesKept DEF WriteFragment

LEMMA FinishKept == ASSUME IngestInv, TypeInv', Finish PROVE IngestInv'
<1> USE DEF IngestInv
<1>1. \A j, g : Committed(j, g)' = Committed(j, g) BY DEF Finish, Committed, Receipted
<1>2. wk.job \in Jobs /\ Running BY DEF Finish, TypeInv, Running
<1>3. handed' = [handed EXCEPT ![wk.job] = Facts(wk.job)]
  BY <1>2 DEF Finish, CallInv, Facts
<1>4. CallInv' BY DEF Finish, CallInv, Running, Off
<1>5. FileInv' /\ FirstInv' /\ OneImportHoldsTheSource'
  BY DEF Finish, FileInv, FirstInv, FirstGroup, WellFormed, OneImportHoldsTheSource
<1>6. ReceiptInv' BY <1>1 DEF Finish, ReceiptInv, Facts, Refused
<1>7. HandedIsCommitted'
  <2>1. ingested \subseteq Jobs /\ handed \in [Jobs -> SUBSET (1 .. Len(source))] BY DEF TypeInv, TypeOK
  <2>2. ASSUME NEW j \in ingested' PROVE handed'[j] = Committed(j, "facts")
    BY <1>2, <1>3, <2>1 DEF Finish, CountersReconcile, HandedIsCommitted, Facts
  <2> QED BY <1>1, <2>2 DEF HandedIsCommitted
<1>8. CountersReconcile' BY <1>1, <1>7 DEF Finish, CountersReconcile
<1> QED BY <1>4, <1>5, <1>6, <1>8

-----------------------------------------------------------------------------
(* A batch is committed.                                                    *)

KeptRows == {i \in InBatch : Kept(i)}
RowsTo(g) == IF g = "facts" THEN KeptRows ELSE InBatch \ KeptRows

LEMMA BatchRecords ==
    ASSUME NEW g, NEW i
    PROVE  i \in RowsTo(g) <=> \E x \in BatchRows(g) : x.record = i
<1>1. CASE g = "facts"
  <2>1. BatchRows(g) = {[record |-> k, reason |-> "none"] : k \in KeptRows} BY <1>1 DEF BatchRows, KeptRows
  <2>2. ASSUME NEW x \in BatchRows(g), x.record = i PROVE i \in KeptRows BY <2>1, <2>2
  <2>3. ASSUME i \in KeptRows PROVE \E x \in BatchRows(g) : x.record = i
    <3>1. [record |-> i, reason |-> "none"] \in BatchRows(g) BY <2>1, <2>3
    <3> QED BY <3>1
  <2> QED BY <1>1, <2>2, <2>3 DEF RowsTo
<1>2. CASE g # "facts"
  <2>1. BatchRows(g) = {[record |-> k, reason |-> Reason(k)] : k \in InBatch \ KeptRows}
    <3>1. {k \in InBatch : ~Kept(k)} = InBatch \ KeptRows BY DEF KeptRows
    <3> QED BY <1>2, <3>1 DEF BatchRows
  <2>2. ASSUME NEW x \in BatchRows(g), x.record = i PROVE i \in InBatch \ KeptRows BY <2>1, <2>2
  <2>3. ASSUME i \in InBatch \ KeptRows PROVE \E x \in BatchRows(g) : x.record = i
    <3>1. [record |-> i, reason |-> Reason(i)] \in BatchRows(g) BY <2>1, <2>3
    <3> QED BY <3>1
  <2> QED BY <1>2, <2>2, <2>3 DEF RowsTo
<1> QED BY <1>1, <1>2

LEMMA CommitAdds ==
    ASSUME CommitBatch, NEW j, NEW g \in {"facts", "quarantine"}
    PROVE  Committed(j, g)' = IF j = wk.job THEN Committed(j, g) \cup RowsTo(g) ELSE Committed(j, g)
<1>1. receipts' = receipts \cup NewReceipts BY DEF CommitBatch
<1>2. \A i : i \in Committed(j, g) <=> \E r \in receipts : r.job = j /\ r.group = g /\ \E x \in r.rows : x.record = i
  BY DEF Committed, Receipted
<1>3. \A i : i \in Committed(j, g)' <=> \E r \in receipts' : r.job = j /\ r.group = g /\ \E x \in r.rows : x.record = i
  BY DEF Committed, Receipted
<1>4. ASSUME NEW i
      PROVE  (\E r \in NewReceipts : r.job = j /\ r.group = g /\ \E x \in r.rows : x.record = i)
                 <=> j = wk.job /\ i \in RowsTo(g)
  <2>1. i \in RowsTo(g) <=> \E x \in BatchRows(g) : x.record = i BY BatchRecords
  <2>2. ASSUME NEW r \in NewReceipts, r.job = j, r.group = g, NEW x \in r.rows, x.record = i
        PROVE  j = wk.job /\ i \in RowsTo(g)
    <3>1. r.rows = BatchRows(g) /\ r.job = wk.job BY <2>2 DEF NewReceipts
    <3> QED BY <2>1, <2>2, <3>1
  <2>3. ASSUME j = wk.job, i \in RowsTo(g)
        PROVE  \E r \in NewReceipts : r.job = j /\ r.group = g /\ \E x \in r.rows : x.record = i
    <3> DEFINE r == [job |-> wk.job, batch |-> wk.number, group |-> g, rows |-> BatchRows(g), first |-> wk.pos + 1, last |-> wk.upto]
    <3>1. BatchRows(g) # {} BY <2>1, <2>3
    <3>2. r \in NewReceipts BY <3>1 DEF NewReceipts
    <3>3. r.job = j /\ r.group = g /\ r.rows = BatchRows(g) BY <2>3
    <3> HIDE DEF r
    <3> QED BY <2>1, <2>3, <3>2, <3>3
  <2> QED BY <2>2, <2>3
<1>5. \A i : i \in Committed(j, g)' <=> i \in Committed(j, g) \/ (j = wk.job /\ i \in RowsTo(g))
  BY <1>1, <1>2, <1>3, <1>4
<1> HIDE DEF Committed
<1>6. CASE j = wk.job
  <2>1. Committed(j, g)' = Committed(j, g) \cup RowsTo(g) BY <1>5, <1>6
  <2> QED BY <1>6, <2>1
<1>7. CASE j # wk.job
  <2>1. Committed(j, g)' = Committed(j, g) BY <1>5, <1>7
  <2> QED BY <1>7, <2>1
<1> QED BY <1>6, <1>7

\* What the running batch is made of, where it is committed.
LEMMA BatchFacts ==
    ASSUME IngestInv, CommitBatch
    PROVE  /\ wk.job \in Jobs /\ Len(source) \in Nat
           /\ wk.pos \in Nat /\ wk.upto \in Nat /\ wk.pos < wk.upto /\ wk.upto <= Len(source)
           /\ wk.number \in Nat /\ checkpoint \in [Jobs -> 0 .. Len(source)]
           /\ wk.pos = checkpoint[wk.job] /\ wk.job \notin ingested
           /\ InBatch = wk.pos + 1 .. wk.upto
           /\ KeptRows \cup (InBatch \ KeptRows) = InBatch
           /\ checkpoint' = [checkpoint EXCEPT ![wk.job] = wk.upto]
BY SourceRows DEF CommitBatch, IngestInv, TypeInv, TypeOK, Local, Running, CallInv, InBatch, KeptRows

\* The first batch of an import has a receipt of batch 0 for the group of row 1.
LEMMA FirstBatch ==
    ASSUME IngestInv, CommitBatch, wk.pos = 0
    PROVE  \E r \in NewReceipts : r.job = wk.job /\ r.batch = 0 /\ r.group = FirstGroup
<1>1. wk.number = 0 /\ \A t \in Txids : wk.seen[t] = "unseen" BY DEF CommitBatch, IngestInv, CallInv, Running
<1>2. 1 \in InBatch /\ 1 \in 1 .. Len(source) BY BatchFacts
<1>3. Kept(1) <=> WellFormed(1)
  <2>1. source[1].txid \in Txids BY <1>2, SourceRows DEF IngestInv, TypeInv, TypeOK
  <2>2. wk.pos + 1 .. 1 - 1 = {} OBVIOUS
  <2> QED BY <1>1, <2>1, <2>2 DEF Kept
<1>4. 1 \in RowsTo(FirstGroup) /\ FirstGroup \in {"facts", "quarantine"}
  BY <1>2, <1>3 DEF RowsTo, KeptRows, FirstGroup
<1>5. BatchRows(FirstGroup) # {} BY <1>4, BatchRecords
<1> DEFINE r == [job |-> wk.job, batch |-> wk.number, group |-> FirstGroup, rows |-> BatchRows(FirstGroup),
                 first |-> wk.pos + 1, last |-> wk.upto]
<1>6. r \in NewReceipts BY <1>4, <1>5 DEF NewReceipts
<1>7. r.job = wk.job /\ r.batch = 0 /\ r.group = FirstGroup BY <1>1
<1> QED BY <1>6, <1>7

LEMMA CommitKeepsCall == ASSUME IngestInv, CommitBatch PROVE CallInv'
<1>1. wk \in Local /\ wk.phase = "publish" /\ Running BY DEF CommitBatch, IngestInv, TypeInv, TypeOK, Running
<1> DEFINE collected == IF wk.collecting THEN wk.collected \cup KeptRows ELSE wk.collected
<1>2. wk' = [wk EXCEPT !.phase = "read", !.pos = wk.upto, !.number = wk.number + 1, !.seen = Remembered, !.collected = collected]
  BY DEF CommitBatch, KeptRows
<1> HIDE DEF collected
<1>3. /\ wk'.phase = "read" /\ wk'.job = wk.job /\ wk'.pos = wk.upto /\ wk'.collecting = wk.collecting
      /\ wk'.collected = collected
  BY <1>1, <1>2 DEF Local
<1>4. wk'.pos # 0 /\ wk'.pos = checkpoint'[wk.job] BY <1>3, BatchFacts
<1>5. \A j : j = wk.job => Facts(j)' = Facts(j) \cup KeptRows BY CommitAdds DEF Facts, RowsTo
<1>6. wk'.collecting => wk'.collected = Facts(wk.job) \cup KeptRows
  BY <1>1, <1>3 DEF collected, IngestInv, CallInv
<1>7. wk'.collecting => wk'.collected = Facts(wk.job)'
  <2>1. PICK j : j = wk.job OBVIOUS
  <2>2. Facts(j)' = Facts(wk.job)' BY <1>3, <2>1 DEF Facts, Committed, Receipted
  <2>3. wk'.collecting => wk'.collected = Facts(j)' BY <1>5, <1>6, <2>1
  <2> QED BY <2>2, <2>3
<1>8. wk'.job \notin ingested' BY <1>3, BatchFacts DEF CommitBatch
<1> QED BY <1>3, <1>4, <1>7, <1>8 DEF CallInv

LEMMA CommitKeepsReceipts == ASSUME IngestInv, CommitBatch PROVE ReceiptInv'
<1> USE DEF IngestInv
<1>1. ASSUME NEW r \in receipts'
      PROVE  /\ r.rows # {} /\ 1 <= r.first /\ r.last <= checkpoint'[r.job]
             /\ \A x \in r.rows : r.first <= x.record /\ x.record <= r.last
  <2>1. CASE r \in receipts
    <3>1. r.job \in Jobs /\ r.last \in Nat BY <2>1 DEF TypeInv, TypeOK, Receipt
    <3>2. checkpoint[r.job] \in Nat /\ checkpoint[r.job] <= checkpoint'[r.job] /\ checkpoint'[r.job] \in Nat
      BY <3>1, BatchFacts
    <3> QED BY <2>1, <3>1, <3>2 DEF ReceiptInv
  <2>2. CASE r \in NewReceipts
    <3>1. PICK g \in {"facts", "quarantine"} :
              /\ BatchRows(g) # {}
              /\ r = [job |-> wk.job, batch |-> wk.number, group |-> g, rows |-> BatchRows(g), first |-> wk.pos + 1, last |-> wk.upto]
      BY <2>2 DEF NewReceipts
    <3>2. r.rows = BatchRows(g) /\ r.job = wk.job /\ r.first = wk.pos + 1 /\ r.last = wk.upto BY <3>1
    <3>3. \A x \in BatchRows(g) : x.record \in RowsTo(g) BY BatchRecords
    <3>4. RowsTo(g) \subseteq wk.pos + 1 .. wk.upto BY BatchFacts DEF RowsTo
    <3> HIDE DEF IngestInv
    <3> QED BY <3>1, <3>2, <3>3, <3>4, BatchFacts
  <2> QED BY <2>1, <2>2 DEF CommitBatch
<1>2. ASSUME NEW j \in Jobs PROVE (Facts(j) \cup Refused(j))' = 1 .. checkpoint'[j] /\ (Facts(j) \cap Refused(j))' = {}
  <2>1. Facts(j) \cup Refused(j) = 1 .. checkpoint[j] /\ Facts(j) \cap Refused(j) = {} BY DEF ReceiptInv
  <2>2. CASE j = wk.job
    <3>1. Facts(j)' = Facts(j) \cup KeptRows /\ Refused(j)' = Refused(j) \cup (InBatch \ KeptRows)
      BY <2>2, CommitAdds DEF Facts, Refused, RowsTo
    <3>2. checkpoint'[j] = wk.upto /\ checkpoint[j] = wk.pos BY <2>2, BatchFacts
    <3>3. (1 .. wk.pos) \cup InBatch = 1 .. wk.upto /\ (1 .. wk.pos) \cap InBatch = {} BY BatchFacts
    <3>4. KeptRows \subseteq InBatch BY DEF KeptRows
    <3> QED BY <2>1, <3>1, <3>2, <3>3, <3>4
  <2>3. CASE j # wk.job
    <3>1. Facts(j)' = Facts(j) /\ Refused(j)' = Refused(j) BY <2>3, CommitAdds DEF Facts, Refused
    <3>2. checkpoint'[j] = checkpoint[j] BY <2>3, BatchFacts
    <3> QED BY <2>1, <3>1, <3>2
  <2> QED BY <2>2, <2>3
<1> QED BY <1>1, <1>2 DEF ReceiptInv

LEMMA CommitKeepsFirst == ASSUME IngestInv, CommitBatch PROVE FirstInv' /\ OneImportHoldsTheSource' /\ FileInv'
<1> USE DEF IngestInv
<1>0. receipts' = receipts \cup NewReceipts /\ source' = source /\ files' = files BY DEF CommitBatch
<1>1. \A r \in receipts : r.job \in Jobs /\ checkpoint[r.job] > 0
  <2> SUFFICES ASSUME NEW r \in receipts PROVE r.job \in Jobs /\ checkpoint[r.job] > 0
    OBVIOUS
  <2>1. r.job \in Jobs /\ r.rows \in SUBSET FileRow BY DEF TypeInv, TypeOK, Receipt
  <2>2. PICK x \in r.rows : r.first <= x.record /\ x.record <= r.last BY DEF ReceiptInv
  <2>3. 1 <= r.first /\ r.last <= checkpoint[r.job] /\ r.first \in Nat /\ r.last \in Nat
    BY DEF ReceiptInv, TypeInv, TypeOK, Receipt
  <2>4. x.record \in Nat /\ checkpoint[r.job] \in Nat BY <2>1, <2>2, BatchFacts DEF FileRow
  <2> QED BY <2>1, <2>2, <2>3, <2>4
<1>2. ASSUME NEW j \in Jobs, checkpoint'[j] > 0
      PROVE  \E r \in receipts' : r.job = j /\ r.batch = 0 /\ r.group = FirstGroup
  <2>1. CASE j = wk.job /\ wk.pos = 0 BY <1>0, <2>1, FirstBatch
  <2>2. CASE ~(j = wk.job /\ wk.pos = 0)
    <3>1. checkpoint[j] > 0 BY <1>2, <2>2, BatchFacts
    <3> QED BY <1>0, <3>1 DEF FirstInv
  <2> QED BY <2>1, <2>2
<1>3. FirstInv' BY <1>0, <1>2 DEF FirstInv, FirstGroup, WellFormed
<1>4. \A r \in receipts : r.job = wk.job
  <2> SUFFICES ASSUME NEW r \in receipts PROVE r.job = wk.job
    OBVIOUS
  <2>1. CASE wk.pos = 0
    <3>1. PICK n \in NewReceipts : n.job = wk.job /\ n.batch = 0 /\ n.group = FirstGroup BY <2>1, FirstBatch
    <3>2. PICK q \in receipts : q.job = r.job /\ q.batch = 0 /\ q.group = FirstGroup BY <1>1 DEF FirstInv
    <3>3. ~PathTaken BY DEF CommitBatch
    <3> QED BY <3>1, <3>2, <3>3 DEF PathTaken
  <2>2. CASE wk.pos # 0
    <3>1. PICK q \in receipts : q.job = wk.job BY <2>2, BatchFacts DEF FirstInv
    <3> QED BY <3>1 DEF OneImportHoldsTheSource
  <2> QED BY <2>1, <2>2
<1>5. \A r \in NewReceipts : r.job = wk.job BY DEF NewReceipts
<1>6. OneImportHoldsTheSource' BY <1>0, <1>4, <1>5 DEF OneImportHoldsTheSource
<1>7. ASSUME NEW r \in NewReceipts PROVE [batch |-> r.batch, group |-> r.group, rows |-> r.rows] \in files
  <2>1. PICK g \in {"facts", "quarantine"} :
            BatchRows(g) # {} /\ r.batch = wk.number /\ r.group = g /\ r.rows = BatchRows(g)
    BY DEF NewReceipts
  <2>2. \A n \in 1 .. 2 : Complete(n) BY DEF CommitBatch, CallInv, Running, Groups
  <2>3. PICK n \in 1 .. 2 : Groups[n] = g BY DEF Groups
  <2> QED BY <2>1, <2>2, <2>3 DEF Complete
<1>8. FileInv' BY <1>0, <1>7 DEF FileInv
<1> QED BY <1>3, <1>6, <1>8

LEMMA AddsUp ==
    ASSUME NEW A, NEW B, IsFiniteSet(A), IsFiniteSet(B), A \cap B = {}
    PROVE  Cardinality(A \cup B) = Cardinality(A) + Cardinality(B)
<1>1. Cardinality(A) \in Nat /\ Cardinality(B) \in Nat BY FS_CardinalityType
<1>2. Cardinality(A \cup B) = Cardinality(A) + Cardinality(B) - Cardinality(A \cap B) BY FS_Union
<1>3. Cardinality(A \cap B) = 0 BY FS_EmptySet
<1> QED BY <1>1, <1>2, <1>3

LEMMA CommitCounts == ASSUME IngestInv, CommitBatch PROVE CountersReconcile'
<1>0. /\ counts \in [Jobs -> Counts] /\ activity \in [Jobs -> [Txids -> Nat]] /\ ingested \subseteq Jobs
      /\ source' = source /\ ingested' = ingested /\ handed' = handed
  BY DEF IngestInv, TypeInv, TypeOK, CommitBatch
<1>1. \A j \in Jobs : Facts(j) \subseteq 1 .. checkpoint[j] /\ Refused(j) \subseteq 1 .. checkpoint[j] 
  BY DEF IngestInv, ReceiptInv
<1>2. KeptRows \subseteq wk.pos + 1 .. wk.upto /\ InBatch \ KeptRows \subseteq wk.pos + 1 .. wk.upto
  BY BatchFacts DEF KeptRows
<1>a. IsFiniteSet(1 .. wk.pos) /\ IsFiniteSet(InBatch) /\ 1 .. wk.pos \cap InBatch = {}
  <2>1. InBatch = wk.pos + 1 .. wk.upto /\ wk.pos \in Int /\ wk.pos + 1 \in Int /\ wk.upto \in Int BY BatchFacts
  <2>2. IsFiniteSet(wk.pos + 1 .. wk.upto) BY <2>1, FS_Interval
  <2>3. 1 \in Int /\ IsFiniteSet(1 .. wk.pos) BY <2>1, FS_Interval
  <2> QED BY <2>1, <2>2, <2>3
<1>3. \A j : /\ Facts(j)' = IF j = wk.job THEN Facts(j) \cup KeptRows ELSE Facts(j)
             /\ Refused(j)' = IF j = wk.job THEN Refused(j) \cup (InBatch \ KeptRows) ELSE Refused(j)
  BY CommitAdds DEF Facts, Refused, RowsTo
<1>4. HandedIsCommitted'
  <2>1. \A j \in ingested : j # wk.job BY BatchFacts
  <2>2. \A j \in ingested : handed[j] = Facts(j) BY DEF IngestInv, CountersReconcile, HandedIsCommitted, Facts
  <2>3. \A j \in ingested' : handed'[j] = Facts(j)' BY <1>0, <1>3, <2>1, <2>2
  <2> QED BY <2>3 DEF HandedIsCommitted, Facts
<1>5. ASSUME NEW j \in Jobs
      PROVE  /\ counts'[j].seen = checkpoint'[j]
             /\ counts'[j].accepted = Cardinality(Facts(j)')
             /\ counts'[j].quarantined = Cardinality(Refused(j)')
  <2>0. /\ counts[j].seen = checkpoint[j] /\ counts[j].accepted = Cardinality(Facts(j))
        /\ counts[j].quarantined = Cardinality(Refused(j)) /\ counts[j] \in Counts
    BY <1>0 DEF IngestInv, CountersReconcile, Facts, Refused
  <2>1. counts' = [counts EXCEPT ![wk.job] = Counted(counts[wk.job], KeptRows)] BY DEF CommitBatch, KeptRows
  <2>2. CASE j = wk.job
    <3>1. counts'[j] = Counted(counts[j], KeptRows) BY <1>0, <2>1, <2>2
    <3>2. /\ counts'[j].seen = counts[j].seen + Cardinality(InBatch)
          /\ counts'[j].accepted = counts[j].accepted + Cardinality(KeptRows)
          /\ counts'[j].quarantined = counts[j].quarantined + Cardinality(InBatch \ KeptRows)
      BY <3>1 DEF Counted
    <3>3. Cardinality(InBatch) = wk.upto - wk.pos
      <4>1. InBatch = wk.pos + 1 .. wk.upto /\ wk.pos + 1 \in Int /\ wk.upto \in Int /\ ~(wk.pos + 1 > wk.upto)
        BY BatchFacts
      <4>2. Cardinality(wk.pos + 1 .. wk.upto) = wk.upto - (wk.pos + 1) + 1 BY <4>1, FS_Interval
      <4> QED BY <4>1, <4>2, BatchFacts
    <3>4. checkpoint'[j] = wk.upto /\ checkpoint[j] = wk.pos /\ wk.pos \in Nat /\ wk.upto \in Nat BY <2>2, BatchFacts
    <3>5. Cardinality(Facts(j) \cup KeptRows) = Cardinality(Facts(j)) + Cardinality(KeptRows)
      <4>1. Facts(j) \subseteq 1 .. wk.pos /\ KeptRows \subseteq InBatch BY <1>1, <3>4 DEF KeptRows
      <4>2. IsFiniteSet(Facts(j)) /\ IsFiniteSet(KeptRows) BY <1>a, <4>1, FS_Subset
      <4>3. Facts(j) \cap KeptRows = {} BY <1>a, <4>1
      <4> QED BY <4>2, <4>3, AddsUp
    <3>6. Cardinality(Refused(j) \cup (InBatch \ KeptRows)) = Cardinality(Refused(j)) + Cardinality(InBatch \ KeptRows)
      <4>1. Refused(j) \subseteq 1 .. wk.pos /\ InBatch \ KeptRows \subseteq InBatch BY <1>1, <3>4
      <4>2. IsFiniteSet(Refused(j)) /\ IsFiniteSet(InBatch \ KeptRows) BY <1>a, <4>1, FS_Subset
      <4>3. Refused(j) \cap (InBatch \ KeptRows) = {} BY <1>a, <4>1
      <4> QED BY <4>2, <4>3, AddsUp
    <3>7. counts'[j].seen = checkpoint'[j] BY <2>0, <3>2, <3>3, <3>4
    <3>8. Facts(j)' = Facts(j) \cup KeptRows /\ Refused(j)' = Refused(j) \cup (InBatch \ KeptRows) BY <1>3, <2>2
    <3>9. counts'[j].accepted = Cardinality(Facts(j)') BY <2>0, <3>2, <3>5, <3>8
    <3>10. counts'[j].quarantined = Cardinality(Refused(j)') BY <2>0, <3>2, <3>6, <3>8
    <3> QED BY <3>7, <3>9, <3>10
  <2>3. CASE j # wk.job
    <3>1. counts'[j] = counts[j] BY <1>0, <2>1, <2>3
    <3> QED BY <1>3, <2>0, <2>3, <3>1, BatchFacts
  <2> QED BY <2>2, <2>3
<1>6. ASSUME NEW j \in Jobs, NEW t \in Txids
      PROVE  activity'[j][t] = Cardinality({i \in Facts(j)' : source[i].txid = t})
  <2> DEFINE Of(S) == {i \in S : source[i].txid = t}
  <2>0. activity[j][t] = Cardinality(Of(Facts(j))) BY DEF IngestInv, CountersReconcile, Facts
  <2> DEFINE added == [u \in Txids |-> activity[wk.job][u] + Cardinality({i \in KeptRows : source[i].txid = u})]
  <2>1. activity' = [activity EXCEPT ![wk.job] = added] BY DEF CommitBatch, KeptRows
  <2>2. added[t] = activity[wk.job][t] + Cardinality(Of(KeptRows)) OBVIOUS
  <2> HIDE DEF added
  <2>3. CASE j = wk.job
    <3>1. activity'[j][t] = activity[j][t] + Cardinality(Of(KeptRows)) BY <1>0, <2>1, <2>2, <2>3
    <3>2. Of(Facts(j) \cup KeptRows) = Of(Facts(j)) \cup Of(KeptRows) OBVIOUS
    <3>3. /\ checkpoint[j] \in Nat /\ wk.pos = checkpoint[j] /\ wk.upto \in Nat
          /\ Of(Facts(j)) \subseteq 1 .. checkpoint[j] /\ Of(KeptRows) \subseteq wk.pos + 1 .. wk.upto
      BY <1>1, <1>2, <2>3, BatchFacts
    <3>4. Cardinality(Of(Facts(j)) \cup Of(KeptRows)) = Cardinality(Of(Facts(j))) + Cardinality(Of(KeptRows))
      <4>1. Of(Facts(j)) \subseteq 1 .. wk.pos /\ Of(KeptRows) \subseteq InBatch BY <3>3 DEF KeptRows
      <4> HIDE DEF Of
      <4>2. IsFiniteSet(Of(Facts(j))) /\ IsFiniteSet(Of(KeptRows)) BY <1>a, <4>1, FS_Subset
      <4>3. Of(Facts(j)) \cap Of(KeptRows) = {} BY <1>a, <4>1
      <4> QED BY <4>2, <4>3, AddsUp
    <3> QED BY <1>3, <2>0, <2>3, <3>1, <3>2, <3>4
  <2>4. CASE j # wk.job
    <3>1. activity'[j] = activity[j] BY <1>0, <2>1, <2>4
    <3> QED BY <1>3, <2>0, <2>4, <3>1
  <2> QED BY <2>3, <2>4
<1> QED BY <1>0, <1>4, <1>5, <1>6 DEF CountersReconcile, Facts, Refused

LEMMA IngestStep == IngestInv /\ [Next]_vars => IngestInv'
<1> SUFFICES ASSUME IngestInv, [Next]_vars PROVE IngestInv'
  OBVIOUS
<1>0. TypeInv' BY TypeStep DEF IngestInv
<1>1. ASSUME NEW j \in Jobs, NEW size \in BatchSizes, NEW inMemory \in BOOLEAN, Begin(j, size, inMemory) PROVE IngestInv'
  BY <1>0, <1>1, BeginKept
<1>2. CASE ReadBatch BY <1>0, <1>2, ReadKept
<1>3. CASE WriteFragment BY <1>0, <1>3, WriteKept
<1>4. CASE CommitBatch
  BY <1>0, <1>4, CommitKeepsCall, CommitKeepsReceipts, CommitKeepsFirst, CommitCounts DEF IngestInv
<1>5. CASE ReadFails \/ FragmentConflict \/ CommitRefused \/ Interrupt
  BY <1>0, <1>5, StopKept DEF ReadFails, FragmentConflict, CommitRefused, Interrupt
<1>6. CASE Finish BY <1>0, <1>6, FinishKept
<1>7. CASE UNCHANGED vars
  <2>1. UNCHANGED <<source, db, handed, wk, files>> BY <1>7 DEF vars
  <2>2. \A j, g : Committed(j, g)' = Committed(j, g) BY <2>1 DEF db, Committed, Receipted
  <2>3. CallInv'
    <3>1. \A n : Complete(n)' <=> Complete(n) BY <2>1, SameBatch DEF Complete
    <3> QED BY <2>1, <2>2, <3>1 DEF IngestInv, CallInv, Running, db, Facts
  <2>4. FileInv' BY <2>1 DEF IngestInv, FileInv, db
  <2> QED BY <1>0, <2>1, <2>3, <2>4, TablesKept
<1> QED BY <1>1, <1>2, <1>3, <1>4, <1>5, <1>6, <1>7 DEF Next

(* However often imports of one source stop, resume with other batch sizes  *)
(* and race for its paths, the tables agree: every receipt's file is there  *)
(* and the only one at its path, one import has them all, a record can be   *)
(* cited exactly when it was committed, and counters, provisional activity  *)
(* and what the graph is built from are those of the committed rows.        *)
THEOREM ReceiptsBacked == Spec => []ReceiptsAreBacked
<1>1. ASSUME IngestInv, NEW i \in 1 .. Len(source) PROVE Citable(i) <=> \E j \in Jobs : i <= checkpoint[j]
  <2> USE DEF IngestInv
  <2>0. Len(source) \in Nat /\ checkpoint \in [Jobs -> 0 .. Len(source)] BY <1>1, SourceRows DEF TypeInv, TypeOK
  <2>1. ASSUME NEW r \in receipts, r.first <= i, i <= r.last PROVE \E j \in Jobs : i <= checkpoint[j]
    <3>1. r.job \in Jobs /\ r.last \in Nat /\ r.last <= checkpoint[r.job]
      BY <1>1 DEF TypeInv, TypeOK, Receipt, ReceiptInv
    <3> QED BY <2>0, <2>1, <3>1
  <2>2. ASSUME NEW j \in Jobs, i <= checkpoint[j] PROVE Citable(i)
    <3>1. i \in Facts(j) \cup Refused(j) BY <1>1, <2>0, <2>2 DEF ReceiptInv
    <3>2. PICK r \in receipts : \E x \in r.rows : x.record = i
      BY <3>1 DEF Facts, Refused, Committed, Receipted
    <3> QED BY <1>1, <3>2 DEF ReceiptInv, Citable
  <2> QED BY <2>1, <2>2 DEF Citable
<1>2. IngestInv => ReceiptsAreBacked BY <1>1 DEF IngestInv, FileInv, ReceiptsAreBacked
<1> QED BY <1>2, IngestInit, IngestStep, PTL DEF Spec

-----------------------------------------------------------------------------
(* Order: what is kept does not depend on how the source was cut.           *)

\* The rows among the first n whose transaction is new.
FirstsTo(n) ==
    {i \in 1 .. n : WellFormed(i) /\ \A k \in 1 .. i - 1 : WellFormed(k) => source[k].txid # source[i].txid}

\* An import has kept the first rows up to its checkpoint, and the running call
\* has seen just their transactions, whether it met them or an earlier attempt did.
OrderInv ==
    /\ \A j \in Jobs : Facts(j) = FirstsTo(checkpoint[j])
    /\ \A j \in Jobs : \A i \in 1 .. checkpoint[j] : source[i].kind # "broken"
    /\ wk.phase = "publish" => \A i \in InBatch : source[i].kind # "broken"
    /\ Running => \A t \in Txids :
           wk.seen[t] # "unseen" <=> \E i \in FirstsTo(wk.pos) : source[i].txid = t

LEMMA LeastNumber == ASSUME NEW S, S \subseteq Nat, S # {} PROVE \E m \in S : \A k \in S : m <= k
<1> DEFINE R == OpToRel(<, Nat)
<1>1. IsWellFoundedOn(R, Nat) BY NatLessThanWellFounded
<1>2. \A x, y \in Nat : <<y, x>> \in R <=> y < x BY DEF OpToRel
<1> HIDE DEF R
<1>3. PICK m \in S : \A k \in S : <<k, m>> \notin R BY <1>1, WFMin
<1>4. ASSUME NEW k \in S PROVE m <= k
  <2>1. m \in Nat /\ k \in Nat OBVIOUS
  <2>2. ~(k < m) BY <1>2, <1>3, <2>1
  <2> QED BY <2>1, <2>2
<1> QED BY <1>4

\* Every well-formed row has a first row of its transaction at or before it.
LEMMA FirstOf ==
    ASSUME NEW n \in Nat, NEW i \in 1 .. n, WellFormed(i)
    PROVE  \E k \in FirstsTo(n) : source[k].txid = source[i].txid
<1> DEFINE S == {k \in 1 .. n : WellFormed(k) /\ source[k].txid = source[i].txid}
<1>1. i \in S /\ S \subseteq Nat OBVIOUS
<1>2. PICK m \in S : \A k \in S : m <= k BY <1>1, LeastNumber
<1>3. m \in 1 .. n /\ WellFormed(m) /\ source[m].txid = source[i].txid BY <1>2
<1>4. ASSUME NEW k \in 1 .. m - 1, WellFormed(k) PROVE source[k].txid # source[m].txid
  <2>1. k \in 1 .. n /\ ~(m <= k) BY <1>3
  <2>2. k \notin S BY <1>2, <2>1
  <2> QED BY <1>3, <1>4, <2>1, <2>2
<1>5. m \in FirstsTo(n) BY <1>3, <1>4 DEF FirstsTo
<1> QED BY <1>3, <1>5

\* The batch keeps the first rows among its own.
LEMMA BatchKeepsFirsts ==
    ASSUME IngestInv, OrderInv, CommitBatch
    PROVE  FirstsTo(wk.upto) = FirstsTo(wk.pos) \cup KeptRows
<1>1. wk.pos \in Nat /\ wk.upto \in Nat /\ wk.pos < wk.upto /\ wk.upto <= Len(source) /\ Len(source) \in Nat
  BY BatchFacts
<1>2. ASSUME NEW i \in 1 .. wk.pos PROVE i \in FirstsTo(wk.upto) <=> i \in FirstsTo(wk.pos)
  BY <1>1 DEF FirstsTo
<1>3. ASSUME NEW i \in InBatch PROVE i \in FirstsTo(wk.upto) <=> Kept(i)
  <2>0. /\ i \in wk.pos + 1 .. wk.upto /\ i \in 1 .. wk.upto /\ i \in 1 .. Len(source)
        /\ 1 .. i - 1 = (1 .. wk.pos) \cup (wk.pos + 1 .. i - 1)
    BY <1>1 DEF InBatch
  <2>1. source[i].txid \in Txids BY <2>0, SourceRows DEF IngestInv, TypeInv, TypeOK
  <2>2. wk.seen[source[i].txid] # "unseen" <=> \E k \in FirstsTo(wk.pos) : source[k].txid = source[i].txid
    BY <2>1 DEF OrderInv, CommitBatch, Running
  <2>3. (\E k \in FirstsTo(wk.pos) : source[k].txid = source[i].txid)
            <=> \E k \in 1 .. wk.pos : WellFormed(k) /\ source[k].txid = source[i].txid
    <3>1. ASSUME NEW k \in 1 .. wk.pos, WellFormed(k), source[k].txid = source[i].txid
          PROVE  \E m \in FirstsTo(wk.pos) : source[m].txid = source[i].txid
      BY <1>1, <3>1, FirstOf
    <3> QED BY <3>1 DEF FirstsTo
  <2> QED BY <2>0, <2>2, <2>3 DEF FirstsTo, Kept
<1>4. InBatch = wk.pos + 1 .. wk.upto BY BatchFacts
<1>5. \A i \in FirstsTo(wk.upto) : i \in 1 .. wk.pos \/ i \in InBatch BY <1>1, <1>4 DEF FirstsTo
<1>6. \A i \in FirstsTo(wk.pos) : i \in 1 .. wk.pos BY DEF FirstsTo
<1> QED BY <1>2, <1>3, <1>5, <1>6 DEF KeptRows

\* What the call remembers of a batch is its transactions.
LEMMA RemembersKept ==
    ASSUME IngestInv, CommitBatch, NEW t \in Txids
    PROVE  Remembered[t] # "unseen" <=> wk.seen[t] # "unseen" \/ \E i \in KeptRows : source[i].txid = t
<1>1. CASE \E i \in InBatch : Kept(i) /\ source[i].txid = t
  <2> DEFINE k == CHOOSE i \in InBatch : Kept(i) /\ source[i].txid = t
  <2>1. k \in InBatch BY <1>1
  <2>2. Remembered[t] = source[k].variant BY <1>1 DEF Remembered
  <2> HIDE DEF k
  <2>3. k \in 1 .. Len(source) BY <2>1, BatchFacts
  <2>4. source[k].variant \in Variants BY <2>3, SourceRows DEF IngestInv, TypeInv, TypeOK
  <2> QED BY <1>1, <2>2, <2>4, VariantsAssumption DEF KeptRows
<1>2. CASE ~ \E i \in InBatch : Kept(i) /\ source[i].txid = t BY <1>2 DEF Remembered, KeptRows
<1> QED BY <1>1, <1>2

LEMMA OrderInit == Init => OrderInv
<1> SUFFICES ASSUME Init PROVE OrderInv
  OBVIOUS
<1>1. \A j : Facts(j) = {} BY DEF Init, Facts, Committed, Receipted
<1>2. FirstsTo(0) = {} BY DEF FirstsTo
<1>3. wk.phase = "off" BY DEF Init, Off
<1>4. \A j \in Jobs : checkpoint[j] = 0 BY DEF Init
<1>5. \A j \in Jobs : \A i \in 1 .. checkpoint[j] : source[i].kind # "broken" BY <1>4
<1> QED BY <1>1, <1>2, <1>3, <1>4, <1>5 DEF OrderInv, Running

LEMMA CommitKeepsOrder == ASSUME IngestInv, OrderInv, CommitBatch PROVE OrderInv'
<1>1. wk.job \in Jobs /\ wk \in Local /\ Running BY BatchFacts DEF CommitBatch, IngestInv, TypeInv, TypeOK, Running
<1>2. wk'.phase = "read" /\ wk'.pos = wk.upto /\ wk'.seen = Remembered BY <1>1 DEF CommitBatch, Local
<1>3. source' = source /\ \A n : FirstsTo(n)' = FirstsTo(n) BY DEF CommitBatch, FirstsTo, WellFormed
<1>4. FirstsTo(wk.upto) = FirstsTo(wk.pos) \cup KeptRows BY BatchKeepsFirsts
<1>5. ASSUME NEW j \in Jobs PROVE Facts(j)' = FirstsTo(checkpoint'[j]) /\ \A i \in 1 .. checkpoint'[j] : source[i].kind # "broken"
  <2>1. Facts(j) = FirstsTo(checkpoint[j]) /\ \A i \in 1 .. checkpoint[j] : source[i].kind # "broken" BY DEF OrderInv
  <2>2. CASE j = wk.job
    <3>1. Facts(j)' = Facts(j) \cup KeptRows BY <2>2, CommitAdds DEF Facts, RowsTo
    <3>2. checkpoint'[j] = wk.upto /\ checkpoint[j] = wk.pos BY <2>2, BatchFacts
    <3>3. \A i \in InBatch : source[i].kind # "broken" BY DEF OrderInv, CommitBatch
    <3>4. \A i \in 1 .. wk.upto : i \in 1 .. wk.pos \/ i \in InBatch BY BatchFacts
    <3> QED BY <1>4, <2>1, <3>1, <3>2, <3>3, <3>4
  <2>3. CASE j # wk.job
    <3>1. Facts(j)' = Facts(j) BY <2>3, CommitAdds DEF Facts
    <3>2. checkpoint'[j] = checkpoint[j] BY <2>3, BatchFacts
    <3> QED BY <2>1, <3>1, <3>2
  <2> QED BY <2>2, <2>3
<1>6. \A t \in Txids : Remembered[t] # "unseen" <=> \E i \in FirstsTo(wk.upto) : source[i].txid = t
  BY <1>1, <1>4, RemembersKept DEF OrderInv
<1> QED BY <1>2, <1>3, <1>5, <1>6 DEF OrderInv

\* A step that commits nothing leaves the order alone.
LEMMA OrderKept ==
    ASSUME OrderInv, UNCHANGED <<source, receipts, checkpoint>>,
           wk'.phase = "publish" => \A i \in InBatch' : source[i].kind # "broken",
           Running' => \A t \in Txids :
               wk'.seen[t] # "unseen" <=> \E i \in FirstsTo(wk'.pos) : source[i].txid = t
    PROVE  OrderInv'
<1>1. \A n : FirstsTo(n)' = FirstsTo(n) BY DEF FirstsTo, WellFormed
<1>2. \A j : Facts(j)' = Facts(j) BY DEF Facts, Committed, Receipted
<1> QED BY <1>1, <1>2 DEF OrderInv

LEMMA OrderStep == IngestInv /\ OrderInv /\ [Next]_vars => OrderInv'
<1> SUFFICES ASSUME IngestInv, OrderInv, [Next]_vars PROVE OrderInv'
  OBVIOUS
<1>0. wk \in Local /\ checkpoint \in [Jobs -> 0 .. Len(source)] BY DEF IngestInv, TypeInv, TypeOK
<1>1. ASSUME NEW j \in Jobs, NEW size \in BatchSizes, NEW inMemory \in BOOLEAN, Begin(j, size, inMemory) PROVE OrderInv'
  <2>1. wk'.phase = "read" /\ wk'.pos = checkpoint[j] /\ wk'.seen = SeenAgain(j) BY <1>1 DEF Begin, Off
  <2>2. \A t \in Txids : SeenAgain(j)[t] # "unseen" <=> \E i \in FirstsTo(checkpoint[j]) : source[i].txid = t
    BY DEF SeenAgain, OrderInv, Facts
  <2> QED BY <1>1, <2>1, <2>2, OrderKept DEF Begin, db
<1>2. CASE ReadBatch
  <2>1. PICK n \in 1 .. Len(source) : n = (CHOOSE m \in Chunk : \A i \in Chunk : i <= m) /\ Chunk = wk.pos + 1 .. n
    BY <1>2, ChunkEnds DEF ReadBatch, IngestInv
  <2>2. wk' = [wk EXCEPT !.phase = "publish", !.published = 0, !.upto = n] BY <1>2, <2>1 DEF ReadBatch
  <2>3. wk'.pos = wk.pos /\ wk'.upto = n /\ wk'.seen = wk.seen /\ Running BY <1>0, <1>2, <2>2 DEF Local, ReadBatch, Running
  <2>4. InBatch' = Chunk BY <2>1, <2>3 DEF InBatch
  <2>5. \A i \in InBatch' : source[i].kind # "broken" BY <1>2, <2>4 DEF ReadBatch
  <2> QED BY <1>2, <2>3, <2>5, OrderKept DEF ReadBatch, db, OrderInv
<1>3. CASE WriteFragment
  <2>1. wk'.pos = wk.pos /\ wk'.upto = wk.upto /\ wk'.seen = wk.seen /\ Running /\ wk.phase = "publish"
    BY <1>0, <1>3 DEF WriteFragment, Local, Running
  <2>2. InBatch' = InBatch BY <2>1 DEF InBatch
  <2> QED BY <1>3, <2>1, <2>2, OrderKept DEF WriteFragment, db, OrderInv
<1>4. CASE CommitBatch BY <1>4, CommitKeepsOrder
<1>5. CASE ReadFails \/ FragmentConflict \/ CommitRefused \/ Interrupt
  <2>1. Stop BY <1>5 DEF ReadFails, FragmentConflict, CommitRefused, Interrupt
  <2>2. wk'.phase = "off" BY <2>1 DEF Stop, Off
  <2> QED BY <2>1, <2>2, OrderKept DEF Stop, db, Running
<1>6. CASE Finish
  <2>1. wk'.phase = "off" BY <1>6 DEF Finish, Off
  <2> QED BY <1>6, <2>1, OrderKept DEF Finish, Running
<1>7. CASE UNCHANGED vars
  <2>1. UNCHANGED <<source, receipts, checkpoint, wk>> /\ InBatch' = InBatch /\ Running' = Running BY <1>7 DEF vars, db, InBatch, Running
  <2> QED BY <2>1, OrderKept DEF OrderInv
<1> QED BY <1>1, <1>2, <1>3, <1>4, <1>5, <1>6, <1>7 DEF Next

-----------------------------------------------------------------------------
(* The promise of SourceIntake.                                             *)

FactsOf == [j \in Jobs |-> Committed(j, "facts")]
RefusedOf == [j \in Jobs |-> Committed(j, "quarantine")]

\* What the refused rows are follows from the kept ones.
LEMMA RestIsRefused ==
    ASSUME IngestInv, OrderInv, NEW j \in Jobs
    PROVE  Refused(j) = (1 .. checkpoint[j]) \ FirstsTo(checkpoint[j])
BY DEF IngestInv, ReceiptInv, OrderInv

\* A committed batch takes its rows.
TakesRows(j) ==
    \E n \in checkpoint[j] + 1 .. Len(source) :
        /\ \A i \in 1 .. n : source[i].kind # "broken"
        /\ checkpoint' = [checkpoint EXCEPT ![j] = n]
        /\ FactsOf' = [FactsOf EXCEPT ![j] = FirstsTo(n)]
        /\ RefusedOf' = [RefusedOf EXCEPT ![j] = (1 .. n) \ FirstsTo(n)]
        /\ UNCHANGED <<source, ingested>>

EndsImport(j) ==
    /\ checkpoint[j] = Len(source) /\ checkpoint[j] > 0
    /\ ingested' = ingested \cup {j}
    /\ UNCHANGED <<source, checkpoint, FactsOf, RefusedOf>>

LEMMA CommitTakes == ASSUME IngestInv, OrderInv, CommitBatch PROVE TakesRows(wk.job)
<1>1. PICK j \in Jobs : j = wk.job BY BatchFacts
<1>2. PICK n \in checkpoint[j] + 1 .. Len(source) : n = wk.upto BY <1>1, BatchFacts
<1>3. checkpoint' = [checkpoint EXCEPT ![j] = n] /\ checkpoint \in [Jobs -> 0 .. Len(source)] BY <1>1, <1>2, BatchFacts
<1>4. ASSUME NEW i \in 1 .. n PROVE source[i].kind # "broken"
  <2>1. i \in 1 .. wk.pos \/ i \in InBatch BY <1>2, BatchFacts
  <2>2. i \in 1 .. checkpoint[j] \/ i \in InBatch BY <1>1, <2>1, BatchFacts
  <2> QED BY <2>2 DEF OrderInv, CommitBatch
<1>5. ASSUME NEW i \in Jobs
      PROVE  /\ Facts(i)' = IF i = j THEN FirstsTo(n) ELSE Facts(i)
             /\ Refused(i)' = IF i = j THEN (1 .. n) \ FirstsTo(n) ELSE Refused(i)
  <2>1. CASE i = j
    <3>1. Facts(i)' = Facts(i) \cup KeptRows /\ Refused(i)' = Refused(i) \cup (InBatch \ KeptRows)
      BY <1>1, <2>1, CommitAdds DEF Facts, Refused, RowsTo
    <3>2. checkpoint[i] = wk.pos /\ Facts(i) = FirstsTo(checkpoint[i]) BY <1>1, <2>1, BatchFacts DEF OrderInv
    <3>3. Refused(i) = (1 .. wk.pos) \ FirstsTo(wk.pos) BY <3>2, RestIsRefused
    <3>4. FirstsTo(n) = FirstsTo(wk.pos) \cup KeptRows BY <1>2, BatchKeepsFirsts
    <3>5. 1 .. n = (1 .. wk.pos) \cup InBatch /\ (1 .. wk.pos) \cap InBatch = {} BY <1>2, BatchFacts
    <3>6. FirstsTo(wk.pos) \subseteq 1 .. wk.pos /\ KeptRows \subseteq InBatch BY DEF FirstsTo, KeptRows
    <3> QED BY <2>1, <3>1, <3>2, <3>3, <3>4, <3>5, <3>6
  <2>2. CASE i # j BY <1>1, <2>2, CommitAdds DEF Facts, Refused
  <2> QED BY <2>1, <2>2
<1>6. FactsOf' = [FactsOf EXCEPT ![j] = FirstsTo(n)] BY <1>5 DEF FactsOf, Facts
<1>7. RefusedOf' = [RefusedOf EXCEPT ![j] = (1 .. n) \ FirstsTo(n)] BY <1>5 DEF RefusedOf, Refused
<1>8. UNCHANGED <<source, ingested>> BY DEF CommitBatch
<1>9. TakesRows(j) BY <1>3, <1>4, <1>6, <1>7, <1>8 DEF TakesRows
<1> QED BY <1>1, <1>9

LEMMA FinishEnds == ASSUME IngestInv, Finish PROVE wk.job \in Jobs /\ EndsImport(wk.job)
<1>1. PICK j \in Jobs : j = wk.job BY DEF Finish, IngestInv, TypeInv, Running
<1>2. Len(source) \in Nat /\ wk \in Local /\ wk.pos = checkpoint[j]
  BY <1>1, SourceRows DEF IngestInv, TypeInv, TypeOK, CallInv, Finish, Running
<1>3. wk.pos \in 0 .. Len(source) /\ wk.size \in Nat \ {0} /\ wk.pos > 0 BY <1>2 DEF Local, Finish
<1>4. wk.pos = Len(source)
  <2> SUFFICES ASSUME wk.pos < Len(source) PROVE FALSE
    BY <1>2, <1>3
  <2>1. wk.pos + 1 \in Chunk BY <1>2, <1>3 DEF Chunk
  <2> QED BY <2>1 DEF Finish
<1>5. \A i, g : Committed(i, g)' = Committed(i, g) BY DEF Finish, Committed, Receipted
<1>6. UNCHANGED <<source, checkpoint, FactsOf, RefusedOf>> BY <1>5 DEF Finish, FactsOf, RefusedOf
<1>7. EndsImport(j) BY <1>1, <1>2, <1>3, <1>4, <1>6 DEF EndsImport, Finish
<1> QED BY <1>1, <1>7

\* No other step shows.
LEMMA OtherStepsStutter ==
    ASSUME UNCHANGED <<source, receipts, checkpoint, ingested>>
    PROVE  UNCHANGED <<source, checkpoint, FactsOf, RefusedOf, ingested>>
BY DEF FactsOf, RefusedOf, Committed, Receipted

LEMMA StepTakesOrEnds ==
    ASSUME IngestInv, OrderInv, [Next]_vars
    PROVE  \/ \E j \in Jobs : TakesRows(j) \/ EndsImport(j)
           \/ UNCHANGED <<source, checkpoint, FactsOf, RefusedOf, ingested>>
<1>1. CASE CommitBatch BY <1>1, CommitTakes, BatchFacts
<1>2. CASE Finish BY <1>2, FinishEnds
<1>3. CASE ~CommitBatch /\ ~Finish
  <2>1. UNCHANGED <<source, receipts, checkpoint, ingested>>
    BY <1>3
    DEF Next, vars, db, Begin, ReadBatch, ReadFails, WriteFragment, FragmentConflict, CommitRefused, Interrupt, Stop
  <2> QED BY <2>1, OtherStepsStutter
<1> QED BY <1>1, <1>2, <1>3

(* Whatever batches, stops, resumed attempts and rival imports there are,   *)
(* an import goes through the source in order and never back, has           *)
(* committed the first well-formed row of each transaction it went          *)
(* through and quarantined every other row, and ends at the end of a        *)
(* source no row of which made the reader raise.                            *)
THEOREM IntakeIsKept == Spec => IntakeKept
<1>1. \A n : Intake!Firsts(n) = FirstsTo(n) BY DEF Intake!Firsts, Intake!WellFormed, FirstsTo, WellFormed
<1>2. Init => Intake!IntakeInit
  <2> SUFFICES ASSUME Init PROVE Intake!IntakeInit
    OBVIOUS
  <2>1. \A j, g : Committed(j, g) = {} BY DEF Init, Committed, Receipted
  <2> QED BY <2>1 DEF Init, Intake!IntakeInit
<1>3. IngestInv /\ OrderInv /\ [Next]_vars
      => [Intake!IntakeNext]_<<source, checkpoint, FactsOf, RefusedOf, ingested>>
  <2> SUFFICES ASSUME IngestInv, OrderInv, [Next]_vars
               PROVE  Intake!IntakeNext \/ UNCHANGED <<source, checkpoint, FactsOf, RefusedOf, ingested>>
    OBVIOUS
  <2>1. ASSUME NEW j \in Jobs, TakesRows(j) PROVE Intake!Take(j)
    BY <1>1, <2>1 DEF TakesRows, Intake!Take, FactsOf, RefusedOf
  <2>2. ASSUME NEW j \in Jobs, EndsImport(j) PROVE Intake!End(j)
    BY <2>2 DEF EndsImport, Intake!End, FactsOf, RefusedOf
  <2> QED BY <2>1, <2>2, StepTakesOrEnds DEF Intake!IntakeNext
<1> QED
  BY <1>2, <1>3, IngestInit, IngestStep, OrderInit, OrderStep, PTL
  DEF Spec, IntakeKept, Intake!IntakeSpec, FactsOf, RefusedOf

=============================================================================
