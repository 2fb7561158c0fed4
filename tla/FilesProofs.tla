---------------------------- MODULE FilesProofs ----------------------------
(* Theorems about two components that replace files while others read them: *)
(* AnalyticsRevisions, for any imports, clients, wallets and number of      *)
(* transactions, and GeoIp, for any source files, addresses and bounds.     *)
(* The two share nothing.                                                   *)
EXTENDS AnalyticsRevisions, GeoIp, FiniteSetTheorems, WellFoundedInduction, TLAPS

-----------------------------------------------------------------------------
(* AnalyticsRevisions.  A build takes a revision above every committed one  *)
(* of its import and keeps it there, since an import has one worker: its    *)
(* file cannot meet a committed row's, and its row becomes the latest of    *)
(* its import.                                                              *)

Building(i) == build[i].phase # "idle"

\* A revision is smaller than its date, so that paths are not used up.
Dated ==
    /\ 1 <= clock /\ clock <= MaxBegun + 1
    /\ \A r \in records : r.revision < r.at /\ r.at <= clock
    /\ \A i \in Imports : Building(i) => build[i].revision < build[i].at /\ build[i].at <= clock

HasTop(S) == \E t \in S : \A q \in S : q.at <= t.at

\* The choices in LatestOf and Newest are of something that is there.
Tops ==
    /\ \A i \in Imports : Of(i) # {} => \E t \in Of(i) : \A q \in Of(i) : q.revision <= t.revision
    /\ Originals # {} => HasTop(Originals)
    /\ \A i \in Imports : RunsOf(i) # {} => HasTop(RunsOf(i))

BuildIsNew ==
    \A i \in Imports : Building(i) =>
        /\ \A q \in Of(i) : q.revision < build[i].revision
        /\ build[i].revision > 0 => \E o \in Of(i) : o.revision = 0

HasOriginal == \A r \in records : \E o \in Of(r.import) : o.revision = 0

FilesAreKept ==
    /\ RecordsKeepTheirFiles
    /\ \A i \in Imports : build[i].phase = "written" => files[Path(i, build[i].revision)] = build[i].at

\* What a page holds was committed, and a run that passed the pin check is of
\* these analytics or later ones.
PageIsOfRecord ==
    /\ page.phase # "none" => page.record \in Of(page.record.import)
    /\ RiskIsNotOutdated

AnalyticsInv == TypeOK /\ Dated /\ Tops /\ BuildIsNew /\ HasOriginal /\ FilesAreKept /\ PageIsOfRecord

-----------------------------------------------------------------------------
(* What the queries return.                                                *)

LEMMA LatestOfIsTop ==
    ASSUME Tops, NEW i \in Imports, Of(i) # {}
    PROVE  LatestOf(i) \in Of(i) /\ \A q \in Of(i) : q.revision <= LatestOf(i).revision
BY DEF Tops, LatestOf

LEMMA LatestIsThere ==
    ASSUME TypeOK, Tops, Originals # {}
    PROVE  /\ Newest(Originals) \in Originals
           /\ Latest = LatestOf(Newest(Originals).import)
           /\ Latest \in Of(Newest(Originals).import)
<1>1. Newest(Originals) \in Originals
  BY DEF Tops, HasTop, Newest
<1>2. Newest(Originals).import \in Imports /\ Newest(Originals) \in Of(Newest(Originals).import)
  BY <1>1 DEF Originals, Of, TypeOK, RecordType
<1> QED BY <1>1, <1>2, LatestOfIsTop DEF Latest

LEMMA LatestTyped ==
    ASSUME TypeOK, Tops
    PROVE  Latest \in records \cup {NoRecord}
<1>1. CASE Originals = {} BY <1>1 DEF Latest
<1>2. CASE Originals # {} BY <1>2, LatestIsThere DEF Of
<1> QED BY <1>1, <1>2

LEMMA LatestRunTyped ==
    ASSUME TypeOK, Tops, NEW i \in Imports
    PROVE  LatestRun(i) \in RunType \cup {NoRun}
<1>1. CASE RunsOf(i) = {} BY <1>1 DEF LatestRun
<1>2. CASE RunsOf(i) # {}
  <2>1. Newest(RunsOf(i)) \in RunsOf(i) BY <1>2 DEF Tops, HasTop, Newest
  <2> QED BY <1>2, <2>1 DEF LatestRun, RunsOf, TypeOK
<1> QED BY <1>1, <1>2

\* A dated row more leaves one that is dated last.
LEMMA TopGrows ==
    ASSUME NEW S, NEW x, x.at \in Nat, \A q \in S : q.at \in Nat, S # {} => HasTop(S)
    PROVE  HasTop(S \cup {x})
<1>1. CASE S = {} BY <1>1 DEF HasTop
<1>2. CASE S # {}
  <2>1. PICK t \in S : \A q \in S : q.at <= t.at BY <1>2 DEF HasTop
  <2>2. CASE x.at <= t.at BY <2>1, <2>2 DEF HasTop
  <2>3. CASE t.at <= x.at BY <2>1, <2>3 DEF HasTop
  <2> QED BY <2>1, <2>2, <2>3
<1> QED BY <1>1, <1>2

-----------------------------------------------------------------------------
(* Types.                                                                  *)

LEMMA IdleTyped ==
    NotPropagating \in [phase : {"idle", "record", "seeds", "refused", "commit"}, at : Nat, change : ChangeType,
                        record : RecordType \cup {NoRecord}, seeds : SUBSET Wallets]
BY DEF NotPropagating, NoChange, ChangeType

LEMMA InitTyped == Init => TypeOK
<1> SUFFICES ASSUME Init PROVE TypeOK OBVIOUS
<1>1. PICK old \in {{}} \cup {{i} : i \in Imports} :
        /\ records = {Record(i, 0, 1) : i \in old}
        /\ files = [p \in Paths |-> IF \E i \in old : p = Path(i, 0) THEN 1 ELSE 0]
        /\ tried = old
        /\ runs = {Legacy(i) : i \in old}
  BY DEF Init
<1>2. old \subseteq Imports BY <1>1
<1>3. records \subseteq RecordType /\ runs \subseteq RunType
  BY <1>1, <1>2, BoundAssumption DEF RecordType, RunType, Record, Legacy, Unpinned
<1>4. files \in [Paths -> Nat] BY <1>1
<1>5. risk \in [Clients -> [phase : {"idle", "record", "seeds", "refused", "commit"}, at : Nat,
                           change : ChangeType, record : RecordType \cup {NoRecord}, seeds : SUBSET Wallets]]
  BY IdleTyped DEF Init
<1>6. page \in [phase : {"none", "run", "pin", "shown"}, record : RecordType \cup {NoRecord},
               run : RunType \cup {NoRun}]
  BY DEF Init
<1>7. build \in [Imports -> [phase : {"idle", "computing", "written"}, at : Nat,
                            revision : 0 .. MaxBegun, refresh : BOOLEAN]]
  BY BoundAssumption DEF Init, NotBuilding
<1>8. clock \in Nat /\ overlap \in BOOLEAN /\ seeds \subseteq Wallets BY DEF Init
<1> QED BY <1>1, <1>2, <1>3, <1>4, <1>5, <1>6, <1>7, <1>8 DEF TypeOK

LEMMA WorkerTyped ==
    ASSUME AnalyticsInv, NEW i \in Imports, Worker(i)
    PROVE  TypeOK'
<1> USE DEF AnalyticsInv
<1>1. ASSUME NEW refresh \in BOOLEAN, BeginBuild(i, refresh) PROVE TypeOK'
  <2> DEFINE revision == IF Of(i) = {} THEN 0 ELSE LatestOf(i).revision + 1
  <2>1. clock \in Nat /\ clock <= MaxBegun /\ clock' = clock + 1 BY <1>1 DEF BeginBuild, Begun, TypeOK
  <2>2. revision \in 0 .. MaxBegun
    <3>1. CASE Of(i) = {} BY <3>1, BoundAssumption
    <3>2. CASE Of(i) # {}
      <4>1. LatestOf(i) \in records BY <3>2, LatestOfIsTop DEF Of
      <4>2. LatestOf(i).revision \in Nat /\ LatestOf(i).at \in Nat BY <4>1 DEF TypeOK, RecordType
      <4>3. LatestOf(i).revision < LatestOf(i).at /\ LatestOf(i).at <= clock BY <4>1 DEF Dated
      <4> QED BY <2>1, <3>2, <4>2, <4>3, BoundAssumption
    <3> QED BY <3>1, <3>2
  <2> HIDE DEF revision
  <2>3. build' = [build EXCEPT ![i] = [phase |-> "computing", at |-> clock', refresh |-> refresh,
                                       revision |-> revision]]
    BY <1>1 DEF BeginBuild, revision
  <2> QED BY <1>1, <2>1, <2>2, <2>3 DEF BeginBuild, TypeOK, riskVars
<1>2. CASE WriteFile(i)
  <2>1. files' \in [Paths -> Nat]
    <3>1. build[i].at \in Nat BY DEF TypeOK
    <3>2. files' = [files EXCEPT ![Path(i, build[i].revision)] = build[i].at] BY <1>2 DEF WriteFile
    <3> QED BY <3>1, <3>2 DEF TypeOK
  <2>2. build' \in [Imports -> [phase : {"idle", "computing", "written"}, at : Nat,
                               revision : 0 .. MaxBegun, refresh : BOOLEAN]]
    BY <1>2 DEF WriteFile, TypeOK
  <2>3. UNCHANGED <<clock, overlap, records, tried, seeds, runs, risk, page>> BY <1>2 DEF WriteFile, riskVars
  <2> QED BY <2>1, <2>2, <2>3 DEF TypeOK
<1>3. CASE CommitRecord(i)
  <2>1. Record(i, build[i].revision, build[i].at) \in RecordType BY DEF Record, RecordType, TypeOK
  <2> QED BY <1>3, <2>1, BoundAssumption DEF CommitRecord, TypeOK, NotBuilding, riskVars
<1>4. CASE FailBuild(i) BY <1>4, BoundAssumption DEF FailBuild, TypeOK, NotBuilding, riskVars
<1> QED BY <1>1, <1>2, <1>3, <1>4 DEF Worker

LEMMA ClientTyped ==
    ASSUME AnalyticsInv, NEW c \in Clients, Client(c)
    PROVE  TypeOK'
<1> USE DEF AnalyticsInv
<1>1. ASSUME NEW change \in Changes, BeginRisk(c, change) PROVE TypeOK'
  <2>1. change \in ChangeType BY DEF Changes, NoChange, ChangeType, TypeOK
  <2>2. clock' \in Nat BY <1>1 DEF BeginRisk, Begun, TypeOK
  <2>3. overlap' \in BOOLEAN BY <1>1 DEF BeginRisk, TypeOK
  <2>4. [NotPropagating EXCEPT !.phase = "record", !.at = clock', !.change = change]
          \in [phase : {"idle", "record", "seeds", "refused", "commit"}, at : Nat, change : ChangeType,
               record : RecordType \cup {NoRecord}, seeds : SUBSET Wallets]
    BY <2>1, <2>2, IdleTyped
  <2> QED BY <1>1, <2>2, <2>3, <2>4 DEF BeginRisk, TypeOK, buildVars
<1>2. CASE ReadRecord(c)
  <2>1. Latest \in RecordType \cup {NoRecord} BY LatestTyped DEF TypeOK
  <2> QED BY <1>2, <2>1 DEF ReadRecord, TypeOK, buildVars
<1>3. CASE ReadSeeds(c)
  <2>1. Seen(c) \subseteq Wallets BY DEF Seen, TypeOK, ChangeType
  <2> QED BY <1>3, <2>1 DEF ReadSeeds, TypeOK, buildVars
<1>4. CASE CommitRisk(c)
  <2>1. seeds' \subseteq Wallets BY <1>4 DEF CommitRisk, TypeOK, ChangeType
  <2>2. NewRuns(c) \subseteq RunType BY DEF NewRuns, Run, RunType, RecordType, TypeOK
  <2> QED BY <1>4, <2>1, <2>2, IdleTyped DEF CommitRisk, TypeOK, buildVars
<1>5. CASE AbortRisk(c) BY <1>5, IdleTyped DEF AbortRisk, TypeOK, buildVars
<1> QED BY <1>1, <1>2, <1>3, <1>4, <1>5 DEF Client

LEMMA ReaderTyped ==
    ASSUME AnalyticsInv, Reader
    PROVE  TypeOK'
<1> USE DEF AnalyticsInv
<1>1. CASE OpenPage BY <1>1, LatestTyped DEF OpenPage, TypeOK, buildVars, riskVars
<1>2. CASE ReadRun
  <2>1. page.record \in records BY <1>2 DEF ReadRun, PageIsOfRecord, Of
  <2>2. page.record.import \in Imports BY <2>1 DEF TypeOK, RecordType
  <2> QED BY <1>2, <2>2, LatestRunTyped DEF ReadRun, TypeOK, buildVars, riskVars
<1>3. CASE CheckPin
  <2>1. Current(page.run, LatestOf(page.record.import)) \in RunType \cup {NoRun} BY DEF Current, TypeOK
  <2> QED BY <1>3, <2>1 DEF CheckPin, TypeOK, buildVars, riskVars
<1> QED BY <1>1, <1>2, <1>3 DEF Reader

LEMMA NextTyped == AnalyticsInv /\ [Next]_vars => TypeOK'
<1>1. AnalyticsInv /\ UNCHANGED vars => TypeOK'
  BY DEF AnalyticsInv, TypeOK, vars, buildVars, riskVars
<1> QED BY <1>1, WorkerTyped, ClientTyped, ReaderTyped DEF Next

-----------------------------------------------------------------------------
(* The rest of the invariant.                                              *)

LEMMA InitAnalytics == Init => AnalyticsInv
<1> SUFFICES ASSUME Init PROVE AnalyticsInv OBVIOUS
<1>1. PICK old \in {{}} \cup {{i} : i \in Imports} :
        /\ records = {Record(i, 0, 1) : i \in old}
        /\ files = [p \in Paths |-> IF \E i \in old : p = Path(i, 0) THEN 1 ELSE 0]
        /\ runs = {Legacy(i) : i \in old}
  BY DEF Init
<1>2. TypeOK BY InitTyped
<1>3. clock = 1 /\ (\A i \in Imports : build[i].phase = "idle") /\ page.phase = "none"
  BY DEF Init, NotBuilding
<1>4. Dated BY <1>1, <1>3, BoundAssumption DEF Dated, Building, Record
<1>5. \A q, r \in records : q.at = r.at /\ q.revision = 0 /\ r.revision = 0 BY <1>1 DEF Record
<1>6. \A q, r \in runs : q.at = 1 BY <1>1 DEF Legacy
<1>7. Tops BY <1>2, <1>5, <1>6 DEF Tops, HasTop, Of, Originals, RunsOf, TypeOK, RecordType
<1>8. HasOriginal BY <1>5 DEF HasOriginal, Of
<1>9. \A i \in old : Path(i, 0) \in Paths BY <1>1, BoundAssumption DEF Paths, Path
<1>10. RecordsKeepTheirFiles BY <1>1, <1>9 DEF RecordsKeepTheirFiles, Record
<1> QED BY <1>2, <1>3, <1>4, <1>7, <1>8, <1>10
        DEF AnalyticsInv, BuildIsNew, Building, FilesAreKept, PageIsOfRecord, RiskIsNotOutdated

\* Steps that touch neither rows nor builds nor the page.
LEMMA ClientKeeps ==
    ASSUME AnalyticsInv, NEW c \in Clients, Client(c)
    PROVE  AnalyticsInv'
<1> USE DEF AnalyticsInv
<1>1. UNCHANGED <<records, files, build, page>>
  BY DEF Client, BeginRisk, ReadRecord, ReadSeeds, CommitRisk, AbortRisk, buildVars
<1>2. TypeOK' BY NextTyped DEF Next
<1>3. clock' \in Nat /\ clock <= clock' /\ clock' <= MaxBegun + 1
  <2>1. clock \in Nat /\ clock <= MaxBegun + 1 BY DEF Dated, TypeOK
  <2>2. clock' = clock \/ Begun BY DEF Client, BeginRisk, ReadRecord, ReadSeeds, CommitRisk, AbortRisk
  <2> QED BY <2>1, <2>2, BoundAssumption DEF Begun
<1>4. Dated'
  BY <1>1, <1>3 DEF Dated, Building, TypeOK, RecordType
<1>5. runs' = runs \/ \E q \in RunType : runs' = runs \cup {q}
  <2>1. CASE CommitRisk(c)
    <3>1. CASE risk[c].record = NoRecord BY <2>1, <3>1 DEF CommitRisk, NewRuns
    <3>2. CASE risk[c].record # NoRecord
      <4>1. Run(risk[c].record, risk[c].at, risk[c].seeds) \in RunType
        BY <3>2 DEF Run, RunType, RecordType, TypeOK
      <4> QED BY <2>1, <3>2, <4>1 DEF CommitRisk, NewRuns
    <3> QED BY <3>1, <3>2
  <2>2. CASE ~CommitRisk(c) BY <2>2 DEF Client, BeginRisk, ReadRecord, ReadSeeds, AbortRisk
  <2> QED BY <2>1, <2>2
<1>6. ASSUME NEW i \in Imports, RunsOf(i)' # {} PROVE HasTop(RunsOf(i)')
  <2>1. CASE RunsOf(i)' = RunsOf(i) BY <1>6, <2>1 DEF Tops
  <2>2. CASE RunsOf(i)' # RunsOf(i)
    <3>1. PICK q \in RunType : RunsOf(i)' = RunsOf(i) \cup {q} BY <1>5, <2>2 DEF RunsOf
    <3>2. q.at \in Nat /\ \A r \in RunsOf(i) : r.at \in Nat BY <3>1 DEF RunsOf, RunType, TypeOK
    <3>3. RunsOf(i) # {} => HasTop(RunsOf(i)) BY DEF Tops
    <3> QED BY <3>1, <3>2, <3>3, TopGrows
  <2> QED BY <2>1, <2>2
<1>7. Tops'
  <2>1. \A i : Of(i)' = Of(i) BY <1>1 DEF Of
  <2>2. Originals' = Originals BY <1>1 DEF Originals
  <2> QED BY <1>6, <2>1, <2>2 DEF Tops, HasTop
<1>8. BuildIsNew' /\ HasOriginal' /\ FilesAreKept' /\ PageIsOfRecord'
  BY <1>1 DEF BuildIsNew, Building, HasOriginal, FilesAreKept, RecordsKeepTheirFiles, PageIsOfRecord,
              RiskIsNotOutdated, Of
<1> QED BY <1>2, <1>4, <1>7, <1>8

LEMMA ReaderKeeps ==
    ASSUME AnalyticsInv, Reader
    PROVE  AnalyticsInv'
<1> USE DEF AnalyticsInv
<1>1. UNCHANGED <<clock, records, files, build, runs>>
  BY DEF Reader, OpenPage, ReadRun, CheckPin, buildVars, riskVars
<1>2. TypeOK' BY NextTyped DEF Next
<1>3. \A i : Of(i)' = Of(i) BY <1>1 DEF Of
<1>4. Dated' /\ Tops' /\ BuildIsNew' /\ HasOriginal' /\ FilesAreKept'
  BY <1>1, <1>3 DEF Dated, Tops, HasTop, Originals, RunsOf, BuildIsNew, Building, HasOriginal, FilesAreKept,
                    RecordsKeepTheirFiles
<1>5. PageIsOfRecord'
  <2>1. CASE OpenPage
    <3>1. page'.phase = "run" /\ page'.record = Latest BY <2>1 DEF OpenPage, TypeOK
    <3>2. Latest \in Of(Latest.import) BY <2>1, LatestTyped DEF OpenPage, Of
    <3> QED BY <1>3, <3>1, <3>2 DEF PageIsOfRecord, RiskIsNotOutdated
  <2>2. CASE ReadRun
    <3>1. page'.phase = "pin" /\ page'.record = page.record /\ page.phase # "none" BY <2>2 DEF ReadRun, TypeOK
    <3> QED BY <1>3, <3>1 DEF PageIsOfRecord, RiskIsNotOutdated
  <2>3. CASE CheckPin
    <3> DEFINE i    == page.record.import
               last == LatestOf(i)
    <3>1. page'.record = page.record /\ page'.run = Current(page.run, last) /\ page.phase # "none"
      BY <2>3 DEF CheckPin, TypeOK
    <3>2. page.record \in Of(i) /\ i \in Imports BY <3>1 DEF PageIsOfRecord, Of, TypeOK, RecordType
    <3>3. last \in Of(i) /\ page.record.revision <= last.revision BY <3>2, LatestOfIsTop
    <3>4. last.at > 0 /\ last.revision \in Nat /\ page.record.revision \in Nat
      BY <3>2, <3>3 DEF Of, TypeOK, RecordType, Dated
    <3>5. ASSUME page'.run # NoRun
          PROVE  IF page'.run.pinned = Unpinned THEN page.record.revision = 0
                 ELSE last.at = page'.run.pinned
      BY <3>1, <3>3, <3>4, <3>5 DEF Current, Unpinned
    <3>6. RiskIsNotOutdated' BY <1>3, <3>1, <3>3, <3>4, <3>5 DEF RiskIsNotOutdated
    <3> QED BY <1>3, <3>1, <3>2, <3>6 DEF PageIsOfRecord
  <2> QED BY <2>1, <2>2, <2>3 DEF Reader
<1> QED BY <1>2, <1>4, <1>5

\* A step of a worker that commits no row.
LEMMA BuildKeeps ==
    ASSUME AnalyticsInv, NEW i \in Imports, Worker(i), ~CommitRecord(i)
    PROVE  AnalyticsInv'
<1> USE DEF AnalyticsInv
<1>1. UNCHANGED <<records, runs, page>>
  BY DEF Worker, BeginBuild, WriteFile, FailBuild, riskVars
<1>2. TypeOK' BY NextTyped DEF Next
<1>3. (\A j : Of(j)' = Of(j)) /\ Originals' = Originals /\ (\A j : RunsOf(j)' = RunsOf(j))
  BY <1>1 DEF Of, Originals, RunsOf
<1>4. Tops' /\ HasOriginal' /\ PageIsOfRecord'
  BY <1>1, <1>3 DEF Tops, HasTop, HasOriginal, PageIsOfRecord, RiskIsNotOutdated
<1>5. \A j \in Imports : j # i => build'[j] = build[j]
  BY DEF Worker, BeginBuild, WriteFile, FailBuild, TypeOK
<1>6. ASSUME NEW refresh \in BOOLEAN, BeginBuild(i, refresh) PROVE Dated' /\ BuildIsNew' /\ FilesAreKept'
  <2>1. clock \in Nat /\ clock <= MaxBegun /\ clock' = clock + 1 BY <1>6 DEF BeginBuild, Begun, TypeOK
  <2>2. build'[i].at = clock' /\ build'[i].phase = "computing"
        /\ build'[i].revision = IF Of(i) = {} THEN 0 ELSE LatestOf(i).revision + 1
    BY <1>6 DEF BeginBuild, TypeOK
  <2>3. build'[i].revision < build'[i].at
        /\ (\A q \in Of(i) : q.revision < build'[i].revision)
        /\ (build'[i].revision > 0 => \E o \in Of(i) : o.revision = 0)
    <3>1. CASE Of(i) = {} BY <2>1, <2>2, <3>1
    <3>2. CASE Of(i) # {}
      <4>1. LatestOf(i) \in records /\ \A q \in Of(i) : q.revision <= LatestOf(i).revision
        BY <3>2, LatestOfIsTop DEF Of
      <4>2. LatestOf(i).revision < LatestOf(i).at /\ LatestOf(i).at <= clock BY <4>1 DEF Dated
      <4>3. LatestOf(i).revision \in Nat /\ LatestOf(i).at \in Nat BY <4>1 DEF TypeOK, RecordType
      <4>4. \A q \in Of(i) : q.revision \in Nat BY DEF Of, TypeOK, RecordType
      <4>5. \E o \in Of(i) : o.revision = 0 BY <3>2 DEF HasOriginal, Of
      <4> QED BY <2>1, <2>2, <3>2, <4>1, <4>2, <4>3, <4>4, <4>5
    <3> QED BY <3>1, <3>2
  <2>4. Dated' BY <1>1, <1>5, <2>1, <2>2, <2>3, BoundAssumption DEF Dated, Building, TypeOK, RecordType
  <2>5. BuildIsNew' BY <1>3, <1>5, <2>3 DEF BuildIsNew, Building
  <2>6. files' = files BY <1>6 DEF BeginBuild
  <2> QED BY <1>1, <1>5, <2>2, <2>4, <2>5, <2>6 DEF FilesAreKept, RecordsKeepTheirFiles
<1>7. CASE WriteFile(i)
  <2> DEFINE path == Path(i, build[i].revision)
  <2>1. build[i].phase = "computing" /\ build'[i].phase = "written" /\ build'[i].at = build[i].at
        /\ build'[i].revision = build[i].revision /\ clock' = clock
    BY <1>7 DEF WriteFile, TypeOK
  <2>2. Dated' /\ BuildIsNew' BY <1>1, <1>3, <1>5, <2>1 DEF Dated, BuildIsNew, Building
  <2>3. path \in Paths /\ files' = [files EXCEPT ![path] = build[i].at]
    BY <1>7 DEF WriteFile, Path, Paths, TypeOK
  <2>4. files'[path] = build[i].at BY <2>3 DEF TypeOK
  <2>5. \A p \in Paths : p # path => files'[p] = files[p] BY <2>3 DEF TypeOK
  <2>6. ASSUME NEW r \in records PROVE Path(r.import, r.revision) # path /\ Path(r.import, r.revision) \in Paths
    <3>1. r \in RecordType /\ build[i].revision \in Nat BY DEF TypeOK
    <3>2. r.import = i => r.revision < build[i].revision BY <2>1 DEF BuildIsNew, Building, Of
    <3> QED BY <3>1, <3>2 DEF Path, Paths, RecordType
  <2>7. \A j \in Imports : Path(j, build[j].revision) \in Paths /\ (j # i => Path(j, build[j].revision) # path)
    BY DEF Path, Paths, TypeOK
  <2>8. FilesAreKept' BY <1>1, <1>5, <2>1, <2>4, <2>5, <2>6, <2>7 DEF FilesAreKept, RecordsKeepTheirFiles
  <2> QED BY <1>2, <1>4, <2>2, <2>8
<1>8. CASE FailBuild(i)
  <2>1. build'[i].phase = "idle" /\ clock' = clock /\ files' = files BY <1>8 DEF FailBuild, NotBuilding, TypeOK
  <2>2. Dated' /\ BuildIsNew' /\ FilesAreKept'
    BY <1>1, <1>3, <1>5, <2>1 DEF Dated, BuildIsNew, Building, FilesAreKept, RecordsKeepTheirFiles
  <2> QED BY <1>2, <1>4, <2>2
<1> QED BY <1>2, <1>4, <1>6, <1>7, <1>8 DEF Worker

\* The committed row is the latest of its import.
LEMMA CommitIsTop ==
    ASSUME AnalyticsInv, NEW i \in Imports, CommitRecord(i)
    PROVE  LET new == Record(i, build[i].revision, build[i].at)
           IN  /\ new \in RecordType /\ new.at <= clock /\ new.revision < new.at
               /\ records' = records \cup {new}
               /\ Of(i)' = Of(i) \cup {new}
               /\ \A j : j # i => Of(j)' = Of(j)
               /\ \A q \in Of(i) : q.revision < new.revision
               /\ new.revision > 0 => \E o \in Of(i) : o.revision = 0
<1> DEFINE new == Record(i, build[i].revision, build[i].at)
<1>1. Building(i) /\ records' = records \cup {new} BY DEF CommitRecord, Building
<1>2. new \in RecordType /\ new.import = i /\ new.revision = build[i].revision /\ new.at = build[i].at
  BY DEF AnalyticsInv, TypeOK, Record, RecordType
<1>3. new.at <= clock /\ new.revision < new.at BY <1>1, <1>2 DEF AnalyticsInv, Dated
<1>4. (\A q \in Of(i) : q.revision < new.revision) /\ (new.revision > 0 => \E o \in Of(i) : o.revision = 0)
  BY <1>1, <1>2 DEF AnalyticsInv, BuildIsNew
<1>5. Of(i)' = Of(i) \cup {new} /\ \A j : j # i => Of(j)' = Of(j) BY <1>1, <1>2 DEF Of
<1> QED BY <1>1, <1>2, <1>3, <1>4, <1>5

LEMMA CommitKeeps ==
    ASSUME AnalyticsInv, NEW i \in Imports, CommitRecord(i)
    PROVE  AnalyticsInv'
<1> DEFINE new == Record(i, build[i].revision, build[i].at)
<1> USE DEF AnalyticsInv
<1>1. /\ new \in RecordType /\ new.at <= clock /\ new.revision < new.at
      /\ records' = records \cup {new}
      /\ Of(i)' = Of(i) \cup {new}
      /\ \A j : j # i => Of(j)' = Of(j)
      /\ \A q \in Of(i) : q.revision < new.revision
      /\ new.revision > 0 => \E o \in Of(i) : o.revision = 0
  BY CommitIsTop
<1>2. new.import = i /\ new.revision = build[i].revision /\ new.at = build[i].at BY DEF Record
<1>3. files' = files /\ runs' = runs /\ page' = page /\ clock' = clock /\ build[i].phase = "written"
  BY DEF CommitRecord, riskVars
<1>4. build'[i].phase = "idle" /\ \A j \in Imports : j # i => build'[j] = build[j]
  BY DEF CommitRecord, NotBuilding, TypeOK
<1> HIDE DEF new
<1>5. TypeOK' BY NextTyped DEF Next, Worker
<1>6. Dated' BY <1>1, <1>3, <1>4 DEF Dated, Building
<1>7. Tops'
  <2>1. \A j \in Imports : Of(j)' # {} => \E t \in Of(j)' : \A q \in Of(j)' : q.revision <= t.revision
    <3>1. \A q \in Of(i) : q.revision \in Nat BY DEF Of, TypeOK, RecordType
    <3>2. new.revision \in Nat BY <1>1 DEF RecordType
    <3>3. \A q \in Of(i)' : q.revision <= new.revision BY <1>1, <3>1, <3>2
    <3> QED BY <1>1, <3>3 DEF Tops
  <2>2. Originals' # {} => HasTop(Originals')
    <3>1. new.at \in Nat /\ \A q \in Originals : q.at \in Nat BY <1>1 DEF Originals, TypeOK, RecordType
    <3>2. Originals # {} => HasTop(Originals) BY DEF Tops
    <3>3. Originals' = Originals \/ Originals' = Originals \cup {new} BY <1>1 DEF Originals
    <3> QED BY <3>1, <3>2, <3>3, TopGrows
  <2>3. \A j : RunsOf(j)' = RunsOf(j) BY <1>3 DEF RunsOf
  <2> QED BY <2>1, <2>2, <2>3 DEF Tops, HasTop
<1>8. BuildIsNew' BY <1>1, <1>4 DEF BuildIsNew, Building
<1>9. HasOriginal'
  <2>1. \E o \in Of(i)' : o.revision = 0
    <3>1. CASE new.revision = 0 BY <1>1, <3>1
    <3>2. CASE new.revision > 0 BY <1>1, <3>2
    <3> QED BY <1>1, <3>1, <3>2 DEF RecordType
  <2>2. \A r \in records' : r.import # i => r \in records BY <1>1, <1>2
  <2> QED BY <1>1, <2>1, <2>2 DEF HasOriginal
<1>10. FilesAreKept'
  BY <1>1, <1>2, <1>3, <1>4 DEF FilesAreKept, RecordsKeepTheirFiles
<1>11. PageIsOfRecord'
  <2>1. \A j : Of(j) \subseteq Of(j)' BY <1>1
  <2> QED BY <1>3, <2>1 DEF PageIsOfRecord, RiskIsNotOutdated
<1> QED BY <1>5, <1>6, <1>7, <1>8, <1>9, <1>10, <1>11

LEMMA NextKeeps == AnalyticsInv /\ [Next]_vars => AnalyticsInv'
<1>1. AnalyticsInv /\ UNCHANGED vars => AnalyticsInv'
  <2> SUFFICES ASSUME AnalyticsInv, UNCHANGED vars PROVE AnalyticsInv' OBVIOUS
  <2> USE DEF AnalyticsInv
  <2>1. UNCHANGED <<clock, records, files, build, runs, page>> BY DEF vars, buildVars, riskVars
  <2>2. TypeOK' BY NextTyped
  <2>3. Dated' /\ BuildIsNew' /\ HasOriginal' BY <2>1 DEF Dated, BuildIsNew, Building, HasOriginal, Of
  <2>4. Tops' BY <2>1 DEF Tops, HasTop, Of, Originals, RunsOf
  <2>5. FilesAreKept' /\ PageIsOfRecord'
    BY <2>1 DEF FilesAreKept, RecordsKeepTheirFiles, PageIsOfRecord, RiskIsNotOutdated, Of
  <2> QED BY <2>2, <2>3, <2>4, <2>5
<1> QED BY <1>1, ClientKeeps, ReaderKeeps, BuildKeeps, CommitKeeps DEF Next

LEMMA AnalyticsInductive == Spec => []AnalyticsInv
BY InitAnalytics, NextKeeps, PTL DEF Spec

\* Every variable keeps its type.
THEOREM AnalyticsTyped == Spec => []TypeOK
BY AnalyticsInductive, PTL DEF AnalyticsInv

\* Whatever fails in between, no build writes over the file of a committed row.
THEOREM FilesStay == Spec => []RecordsKeepTheirFiles
<1>1. AnalyticsInv => RecordsKeepTheirFiles BY DEF AnalyticsInv, FilesAreKept
<1> QED BY <1>1, AnalyticsInductive, PTL

\* A page never shows risk older than its entities.
THEOREM RiskKeepsUp == Spec => []RiskIsNotOutdated
<1>1. AnalyticsInv => RiskIsNotOutdated BY DEF AnalyticsInv, PageIsOfRecord
<1> QED BY <1>1, AnalyticsInductive, PTL

LEMMA LatestIsOfOriginal ==
    ASSUME AnalyticsInv, Originals # {}
    PROVE  Latest.import = Newest(Originals).import
<1>1. Latest \in Of(Newest(Originals).import) BY LatestIsThere DEF AnalyticsInv
<1> QED BY <1>1 DEF Of

\* A revision becomes the view of its own import and disturbs no other.
THEOREM ViewIsKept == Spec => RefreshKeepsTheView
<1>1. ASSUME AnalyticsInv, AnalyticsInv', [Next]_vars, NEW r \in records' \ records, r.revision > 0
      PROVE  Latest' = IF Latest.import = r.import THEN r ELSE Latest
  <2>1. PICK i \in Imports : CommitRecord(i)
    <3>1. \A i \in Imports : Worker(i) /\ ~CommitRecord(i) => records' = records
      BY DEF Worker, BeginBuild, WriteFile, FailBuild
    <3>2. \A c \in Clients : Client(c) => records' = records
      BY DEF Client, BeginRisk, ReadRecord, ReadSeeds, CommitRisk, AbortRisk, buildVars
    <3>3. Reader => records' = records BY DEF Reader, OpenPage, ReadRun, CheckPin, buildVars
    <3> QED BY <1>1, <3>1, <3>2, <3>3 DEF Next, vars, buildVars
  <2> DEFINE new == Record(i, build[i].revision, build[i].at)
  <2>2. /\ new \in RecordType /\ records' = records \cup {new} /\ Of(i)' = Of(i) \cup {new}
        /\ \A j : j # i => Of(j)' = Of(j)
        /\ \A q \in Of(i) : q.revision < new.revision
        /\ new.revision > 0 => \E o \in Of(i) : o.revision = 0
    BY <1>1, <2>1, CommitIsTop
  <2>3. r = new /\ new.import = i BY <2>2 DEF Record
  <2> HIDE DEF new
  <2>4. Originals' = Originals /\ Originals # {} BY <1>1, <2>2, <2>3 DEF Originals, Of
  <2>5. PICK shown : shown = Newest(Originals).import OBVIOUS
  <2>6. Latest = LatestOf(shown) /\ Latest' = LatestOf(shown)' /\ Latest.import = shown
    <3>1. Newest(Originals)' = Newest(Originals) BY <2>4 DEF Newest
    <3> QED BY <1>1, <2>4, <2>5, <3>1, LatestIsThere, LatestIsOfOriginal DEF AnalyticsInv, Latest
  <2>7. CASE shown # i
    <3>1. Of(shown)' = Of(shown) BY <2>2, <2>7
    <3>2. LatestOf(shown)' = LatestOf(shown) BY <3>1 DEF LatestOf, NoRecord
    <3> QED BY <2>3, <2>6, <2>7, <3>2
  <2>8. CASE shown = i
    <3>1. \A q \in Of(i) : q.revision \in Nat /\ new.revision \in Nat
      BY <1>1, <2>2 DEF AnalyticsInv, TypeOK, Of, RecordType
    <3>2. \A q \in Of(i)' : q # new => ~(new.revision <= q.revision) BY <2>2, <3>1
    <3>3. LatestOf(i)' \in Of(i)' /\ \A q \in Of(i)' : q.revision <= LatestOf(i)'.revision
      <4>1. Tops' BY <1>1 DEF AnalyticsInv
      <4> QED BY <2>2, <4>1 DEF Tops, LatestOf
    <3>4. LatestOf(i)' = new BY <2>2, <3>2, <3>3
    <3> QED BY <2>3, <2>6, <2>8, <3>4
  <2> QED BY <2>7, <2>8
<1>2. AnalyticsInv /\ AnalyticsInv' /\ [Next]_vars =>
        [\A r \in records' \ records : r.revision > 0 => Latest' = IF Latest.import = r.import THEN r ELSE Latest]_vars
  BY <1>1
<1> QED BY <1>2, AnalyticsInductive, PTL DEF Spec, RefreshKeepsTheView

-----------------------------------------------------------------------------
(* Seeds.                                                                  *)

\* Every row bears a date of its own.
DatesDiffer ==
    /\ \A r, q \in records : r.at = q.at => r = q
    /\ \A i \in Imports : Building(i) => \A r \in records : r.at # build[i].at
    /\ \A i, j \in Imports : Building(i) /\ Building(j) /\ build[i].at = build[j].at => i = j

\* Risk was propagated over analytics that were there.
RunsAreDated ==
    /\ \A q \in runs : Of(q.import) # {} /\ q.at \in Nat /\ q.at <= clock
    /\ \A c \in Clients :
           Open(c) => risk[c].at \in Nat /\ risk[c].at <= clock /\ risk[c].record \in records \cup {NoRecord}

\* Runs that name their analytics, of the import that is shown.
Shown(q) == q.import = Latest.import /\ q.pinned # Unpinned

\* One transaction at a time: each run is younger than those before it.
OneAtATime ==
    /\ \A c, d \in Clients : Open(c) /\ Open(d) => c = d
    /\ \A c \in Clients, q \in runs : Open(c) => q.at < risk[c].at

\* Where the shown import has runs, it was shown already when an open transaction
\* read what to propagate over: the transaction will add a run of its own.
NoRunIsLeftBehind ==
    \A c \in Clients : risk[c].phase \in {"seeds", "commit"} =>
        \/ risk[c].record # NoRecord /\ risk[c].record.import = Latest.import
        \/ \A q \in runs : ~Shown(q)

SeedsAreRead ==
    \A c \in Clients : risk[c].phase = "commit" /\ risk[c].record # NoRecord => risk[c].seeds = Seen(c)

LastRunReflects ==
    \A q \in runs : Shown(q) /\ (\A p \in RunsOf(q.import) : p.at <= q.at) => q.seeds = seeds

SeedInv ==
    /\ AnalyticsInv /\ DatesDiffer /\ RunsAreDated
    /\ ~overlap => OneAtATime /\ NoRunIsLeftBehind /\ SeedsAreRead /\ LastRunReflects

LEMMA InitSeeds == Init => SeedInv
<1> SUFFICES ASSUME Init PROVE SeedInv OBVIOUS
<1>1. PICK old \in {{}} \cup {{i} : i \in Imports} :
        records = {Record(i, 0, 1) : i \in old} /\ runs = {Legacy(i) : i \in old}
  BY DEF Init
<1>2. /\ clock = 1 /\ (\A i \in Imports : build[i].phase = "idle")
      /\ \A c \in Clients : risk[c].phase = "idle"
  BY DEF Init, NotBuilding, NotPropagating
<1>3. DatesDiffer BY <1>1, <1>2 DEF DatesDiffer, Building, Record
<1>4. \A q \in runs : q.import \in old /\ q.at = 1 /\ q.pinned = Unpinned BY <1>1 DEF Legacy
<1>5. \A i \in old : Record(i, 0, 1) \in Of(i) BY <1>1 DEF Of, Record
<1>6. RunsAreDated BY <1>2, <1>4, <1>5 DEF RunsAreDated, Open
<1>7. OneAtATime /\ NoRunIsLeftBehind /\ SeedsAreRead /\ LastRunReflects
  BY <1>2, <1>4 DEF OneAtATime, Open, NoRunIsLeftBehind, SeedsAreRead, LastRunReflects, Shown
<1> QED BY <1>3, <1>6, <1>7, InitAnalytics DEF SeedInv

LEMMA LatestSame ==
    ASSUME records' = records
    PROVE  Latest' = Latest /\ \A i : Of(i)' = Of(i)
<1>1. Originals' = Originals /\ \A i : Of(i)' = Of(i) BY DEF Originals, Of
<1>2. Newest(Originals)' = Newest(Originals) BY <1>1 DEF Newest
<1>3. ASSUME NEW i PROVE LatestOf(i)' = LatestOf(i)
  <2>1. Of(i)' = Of(i) BY <1>1
  <2> QED BY <2>1 DEF LatestOf, NoRecord
<1>4. PICK i : Newest(Originals).import = i OBVIOUS
<1>5. Latest = (IF Originals = {} THEN NoRecord ELSE LatestOf(i)) BY <1>4 DEF Latest
<1>6. Latest' = (IF Originals' = {} THEN NoRecord ELSE LatestOf(i)') BY <1>2, <1>4 DEF Latest, NoRecord
<1> QED BY <1>1, <1>3, <1>5, <1>6

\* A row that is committed leaves the import that is shown, or is the first of
\* an import, and of this one there can be no run.
LEMMA ShownMoves ==
    ASSUME AnalyticsInv, AnalyticsInv', DatesDiffer', NEW i \in Imports, CommitRecord(i)
    PROVE  \/ Latest'.import = Latest.import /\ Originals # {}
           \/ Latest'.import = i /\ Of(i) = {}
<1> DEFINE new == Record(i, build[i].revision, build[i].at)
<1>1. /\ new \in RecordType /\ records' = records \cup {new}
      /\ \A q \in Of(i) : q.revision < new.revision
      /\ new.revision > 0 => \E o \in Of(i) : o.revision = 0
  BY CommitIsTop
<1>2. new.import = i /\ new.revision \in Nat BY <1>1 DEF Record, RecordType
<1> HIDE DEF new
<1>3. CASE new.revision # 0
  <2>1. Originals' = Originals /\ Originals # {} BY <1>1, <1>2, <1>3 DEF Originals, Of
  <2>2. Newest(Originals)' = Newest(Originals) BY <2>1 DEF Newest
  <2>3. Latest.import = Newest(Originals).import BY <2>1, LatestIsOfOriginal
  <2>4. Latest'.import = Newest(Originals)'.import
    <3>1. Latest' = LatestOf(Newest(Originals).import)' /\ Originals' # {} BY <2>1 DEF Latest
    <3>2. Newest(Originals)' \in Originals' BY <3>1 DEF AnalyticsInv, Tops, HasTop, Newest
    <3>3. Newest(Originals)'.import \in Imports /\ Newest(Originals)' \in Of(Newest(Originals).import)'
      BY <3>2 DEF Originals, Of, AnalyticsInv, TypeOK, RecordType
    <3>4. LatestOf(Newest(Originals).import)' \in Of(Newest(Originals).import)'
      BY <3>3 DEF AnalyticsInv, Tops, LatestOf
    <3> QED BY <3>1, <3>4 DEF Of
  <2> QED BY <2>1, <2>2, <2>3, <2>4
<1>4. CASE new.revision = 0
  <2>1. Of(i) = {}
    <3>1. \A q \in Of(i) : q.revision \in Nat BY DEF Of, AnalyticsInv, TypeOK, RecordType
    <3> QED BY <1>1, <1>4, <3>1
  <2>2. Originals' = Originals \cup {new} BY <1>1, <1>4 DEF Originals
  <2>3. Newest(Originals)' \in Originals' /\ \A q \in Originals' : q.at <= Newest(Originals)'.at
    BY <2>2 DEF AnalyticsInv, Tops, HasTop, Newest
  <2>4. Latest'.import = Newest(Originals)'.import
    <3>1. Latest' = LatestOf(Newest(Originals).import)' BY <2>2 DEF Latest
    <3>2. Newest(Originals)'.import \in Imports /\ Newest(Originals)' \in Of(Newest(Originals).import)'
      BY <2>3 DEF Originals, Of, AnalyticsInv, TypeOK, RecordType
    <3>3. LatestOf(Newest(Originals).import)' \in Of(Newest(Originals).import)'
      BY <3>2 DEF AnalyticsInv, Tops, LatestOf
    <3> QED BY <3>1, <3>3 DEF Of
  <2>5. CASE Newest(Originals)' = new BY <1>2, <2>1, <2>4, <2>5
  <2>6. CASE Newest(Originals)' # new
    <3>1. Newest(Originals)' \in Originals /\ Originals # {} BY <2>2, <2>3, <2>6
    <3>2. Newest(Originals) \in Originals /\ \A q \in Originals : q.at <= Newest(Originals).at
      BY <3>1 DEF AnalyticsInv, Tops, HasTop, Newest
    <3>3. \A q \in Originals : q.at \in Nat BY DEF Originals, AnalyticsInv, TypeOK, RecordType
    <3>4. Newest(Originals)'.at = Newest(Originals).at BY <2>2, <2>3, <3>1, <3>2, <3>3
    <3>5. Newest(Originals)' = Newest(Originals) BY <1>1, <3>1, <3>2, <3>4 DEF DatesDiffer, Originals
    <3> QED BY <2>4, <3>1, <3>5, LatestIsOfOriginal
  <2> QED BY <2>5, <2>6
<1> QED BY <1>3, <1>4

LEMMA DatesKept ==
    ASSUME AnalyticsInv, DatesDiffer, [Next]_vars
    PROVE  DatesDiffer'
<1> USE DEF AnalyticsInv
<1>1. ASSUME NEW i \in Imports, NEW refresh \in BOOLEAN, BeginBuild(i, refresh) PROVE DatesDiffer'
  <2>1. /\ clock \in Nat /\ clock' = clock + 1 /\ records' = records
        /\ build'[i].at = clock' /\ \A j \in Imports : j # i => build'[j] = build[j]
    BY <1>1 DEF BeginBuild, Begun, TypeOK
  <2>2. /\ \A r \in records : r.at \in Nat /\ r.at <= clock
        /\ \A j \in Imports : Building(j) => build[j].at \in Nat /\ build[j].at <= clock
    BY DEF Dated, TypeOK, RecordType
  <2> QED BY <2>1, <2>2 DEF DatesDiffer, Building
<1>2. ASSUME NEW i \in Imports, WriteFile(i) PROVE DatesDiffer'
  <2>1. /\ records' = records /\ Building(i) /\ build'[i].at = build[i].at
        /\ \A j \in Imports : j # i => build'[j] = build[j]
    BY <1>2 DEF WriteFile, TypeOK, Building
  <2> QED BY <2>1 DEF DatesDiffer, Building
<1>3. ASSUME NEW i \in Imports, CommitRecord(i) PROVE DatesDiffer'
  <2>1. /\ records' = records \cup {Record(i, build[i].revision, build[i].at)} /\ Building(i)
        /\ build'[i].phase = "idle" /\ \A j \in Imports : j # i => build'[j] = build[j]
    BY <1>3 DEF CommitRecord, TypeOK, Building, NotBuilding
  <2> QED BY <2>1 DEF DatesDiffer, Building, Record
<1>4. ASSUME NEW i \in Imports, FailBuild(i) PROVE DatesDiffer'
  <2>1. /\ records' = records /\ build'[i].phase = "idle"
        /\ \A j \in Imports : j # i => build'[j] = build[j]
    BY <1>4 DEF FailBuild, TypeOK, NotBuilding
  <2> QED BY <2>1 DEF DatesDiffer, Building
<1>5. CASE (\E c \in Clients : Client(c)) \/ Reader \/ UNCHANGED vars
  <2>1. UNCHANGED <<records, build>>
    BY <1>5 DEF Client, BeginRisk, ReadRecord, ReadSeeds, CommitRisk, AbortRisk, Reader, OpenPage, ReadRun, CheckPin,
                buildVars, vars
  <2> QED BY <2>1 DEF DatesDiffer, Building
<1> QED BY <1>1, <1>2, <1>3, <1>4, <1>5 DEF Next, Worker

\* Clocks and dates only go on.
LEMMA ClockGrows ==
    ASSUME AnalyticsInv, [Next]_vars
    PROVE  clock \in Nat /\ clock' \in Nat /\ clock <= clock'
<1>1. clock \in Nat BY DEF AnalyticsInv, TypeOK
<1>2. clock' = clock \/ clock' = clock + 1
  BY DEF Next, Worker, BeginBuild, WriteFile, CommitRecord, FailBuild, Client, BeginRisk, ReadRecord, ReadSeeds,
         CommitRisk, AbortRisk, Reader, OpenPage, ReadRun, CheckPin, Begun, vars
<1> QED BY <1>1, <1>2

\* The steps of workers and of the page leave seeds, runs and clients alone.
LEMMA OthersKeepSeeds ==
    ASSUME SeedInv, AnalyticsInv', DatesDiffer', [Next]_vars, UNCHANGED riskVars
    PROVE  SeedInv'
<1>1. /\ UNCHANGED <<seeds, runs, risk, overlap>> /\ AnalyticsInv /\ RunsAreDated
      /\ clock \in Nat /\ clock' \in Nat /\ clock <= clock'
  BY ClockGrows DEF riskVars, SeedInv
<1>2. RunsAreDated'
  <2>1. records \subseteq records' /\ \A i : Of(i) \subseteq Of(i)'
    <3>1. records \subseteq records'
      BY DEF Next, Worker, BeginBuild, WriteFile, CommitRecord, FailBuild, Client, BeginRisk, ReadRecord, ReadSeeds,
             CommitRisk, AbortRisk, Reader, OpenPage, ReadRun, CheckPin, buildVars, vars
    <3> QED BY <3>1 DEF Of
  <2> QED BY <1>1, <2>1 DEF RunsAreDated, Open, NoRecord
<1>3. ASSUME ~overlap' PROVE OneAtATime' /\ SeedsAreRead'
  BY <1>1, <1>3 DEF SeedInv, OneAtATime, Open, SeedsAreRead, Seen
<1>4. \/ Latest'.import = Latest.import
      \/ \A q \in runs : q.import # Latest'.import
  <2>1. CASE records' = records BY <2>1, LatestSame
  <2>2. CASE \E i \in Imports : CommitRecord(i)
    <3>1. PICK i \in Imports : CommitRecord(i) BY <2>2
    <3>2. CASE Latest'.import = i /\ Of(i) = {} BY <1>1, <3>2 DEF RunsAreDated
    <3> QED BY <1>1, <3>1, <3>2, ShownMoves
  <2> QED
    BY <2>1, <2>2 DEF Next, Worker, BeginBuild, WriteFile, FailBuild, Client, BeginRisk, ReadRecord, ReadSeeds,
                      CommitRisk, AbortRisk, Reader, OpenPage, ReadRun, CheckPin, buildVars, vars
<1>5. ASSUME ~overlap' PROVE NoRunIsLeftBehind' /\ LastRunReflects'
  <2>1. NoRunIsLeftBehind /\ LastRunReflects BY <1>1, <1>5 DEF SeedInv
  <2>2. (\A i : RunsOf(i)' = RunsOf(i)) BY <1>1 DEF RunsOf
  <2>3. CASE Latest'.import = Latest.import
    <3>1. \A q : Shown(q)' <=> Shown(q) BY <2>3 DEF Shown
    <3> QED BY <1>1, <2>1, <2>2, <2>3, <3>1 DEF NoRunIsLeftBehind, LastRunReflects
  <2>4. CASE \A q \in runs : q.import # Latest'.import
    <3>1. \A q \in runs' : ~Shown(q)' BY <1>1, <2>4 DEF Shown
    <3> QED BY <3>1 DEF NoRunIsLeftBehind, LastRunReflects
  <2> QED BY <1>4, <2>3, <2>4
<1> QED BY <1>2, <1>3, <1>5 DEF SeedInv

\* A client's step: what is shown does not move.
LEMMA ClientsKeepSeeds ==
    ASSUME SeedInv, AnalyticsInv', DatesDiffer', NEW c \in Clients, Client(c)
    PROVE  SeedInv'
<1>1. /\ UNCHANGED records /\ AnalyticsInv /\ RunsAreDated /\ TypeOK
      /\ clock \in Nat /\ clock' \in Nat /\ clock <= clock'
  <2>1. UNCHANGED records
    BY DEF Client, BeginRisk, ReadRecord, ReadSeeds, CommitRisk, AbortRisk, buildVars
  <2> QED BY <2>1, ClockGrows DEF SeedInv, AnalyticsInv, Next
<1>2. Latest' = Latest /\ (\A i : Of(i)' = Of(i)) /\ \A q : Shown(q)' <=> Shown(q)
  BY <1>1, LatestSame DEF Shown
<1>3. \A d \in Clients : d # c => risk'[d] = risk[d]
  BY <1>1 DEF Client, BeginRisk, ReadRecord, ReadSeeds, CommitRisk, AbortRisk, TypeOK
<1>4. Latest = NoRecord => runs = {}
  <2> SUFFICES ASSUME Latest = NoRecord PROVE runs = {}
    OBVIOUS
  <2>1. \A r \in records : r # NoRecord BY <1>1 DEF AnalyticsInv, Dated, TypeOK, RecordType, NoRecord
  <2>2. Originals = {}
    <3>1. Originals # {} => Latest \in records BY <1>1, LatestIsThere DEF AnalyticsInv, Of
    <3> QED BY <2>1, <3>1
  <2>3. records = {} BY <1>1, <2>2 DEF AnalyticsInv, HasOriginal, Originals, Of
  <2> QED BY <1>1, <2>3 DEF RunsAreDated, Of
<1>5. ASSUME NEW change \in Changes, BeginRisk(c, change) PROVE SeedInv'
  <2>1. /\ UNCHANGED <<seeds, runs>> /\ clock' = clock + 1 /\ risk'[c].at = clock' /\ risk'[c].phase = "record"
        /\ overlap' = (overlap \/ \E d \in Clients : Open(d))
    BY <1>1, <1>5 DEF BeginRisk, Begun, TypeOK, NotPropagating
  <2>4. risk'[c].record = NoRecord BY <1>1, <1>5 DEF BeginRisk, TypeOK, NotPropagating
  <2>2. RunsAreDated' BY <1>1, <1>2, <1>3, <2>1, <2>4 DEF RunsAreDated, Open
  <2>3. ASSUME ~overlap' PROVE OneAtATime' /\ NoRunIsLeftBehind' /\ SeedsAreRead' /\ LastRunReflects'
    <3>1. ~overlap /\ \A d \in Clients : ~Open(d) BY <2>1, <2>3
    <3>2. \A d \in Clients : d # c => risk'[d].phase = "idle" BY <1>3, <3>1 DEF Open
    <3>3. OneAtATime' BY <1>1, <2>1, <3>2 DEF OneAtATime, Open, RunsAreDated
    <3>4. NoRunIsLeftBehind' /\ SeedsAreRead' BY <2>1, <3>2 DEF NoRunIsLeftBehind, SeedsAreRead
    <3>5. LastRunReflects' BY <1>2, <2>1, <3>1 DEF SeedInv, LastRunReflects, RunsOf
    <3> QED BY <3>3, <3>4, <3>5
  <2> QED BY <2>2, <2>3 DEF SeedInv
<1>6. CASE ReadRecord(c)
  <2>1. /\ UNCHANGED <<seeds, runs, overlap, clock>> /\ risk[c].phase = "record"
        /\ risk'[c].record = Latest /\ risk'[c].at = risk[c].at
        /\ risk'[c].phase = IF Latest # NoRecord THEN "seeds"
                            ELSE IF risk[c].change = NoChange THEN "refused" ELSE "commit"
    BY <1>1, <1>6 DEF ReadRecord, TypeOK
  <2>2. \A d \in Clients : risk'[d].phase # "idle" => Open(d) /\ risk'[d].at = risk[d].at
    BY <1>3, <2>1 DEF Open
  <2>5. Latest \in records \cup {NoRecord} BY <1>1, LatestTyped DEF AnalyticsInv
  <2>3. RunsAreDated' BY <1>1, <1>2, <1>3, <2>1, <2>2, <2>5 DEF RunsAreDated, Open
  <2>4. ASSUME ~overlap' PROVE OneAtATime' /\ NoRunIsLeftBehind' /\ SeedsAreRead' /\ LastRunReflects'
    <3>1. OneAtATime /\ NoRunIsLeftBehind /\ SeedsAreRead /\ LastRunReflects BY <2>1, <2>4 DEF SeedInv
    <3>2. OneAtATime' BY <2>1, <2>2, <3>1 DEF OneAtATime, Open
    <3>3. NoRunIsLeftBehind' BY <1>2, <1>3, <1>4, <2>1, <3>1 DEF NoRunIsLeftBehind
    <3>4. SeedsAreRead'
      <4>1. risk'[c].phase = "commit" => risk'[c].record = NoRecord BY <2>1
      <4> QED BY <1>3, <2>1, <3>1, <4>1 DEF SeedsAreRead, Seen
    <3>5. LastRunReflects' BY <1>2, <2>1, <3>1 DEF LastRunReflects, RunsOf
    <3> QED BY <3>2, <3>3, <3>4, <3>5
  <2> QED BY <2>3, <2>4 DEF SeedInv
<1>7. CASE ReadSeeds(c)
  <2>1. /\ UNCHANGED <<seeds, runs, overlap, clock>> /\ risk[c].phase = "seeds"
        /\ risk'[c].record = risk[c].record /\ risk'[c].at = risk[c].at /\ risk'[c].change = risk[c].change
        /\ risk'[c].phase = "commit" /\ risk'[c].seeds = Seen(c)
    BY <1>1, <1>7 DEF ReadSeeds, TypeOK
  <2>2. \A d \in Clients : risk'[d].phase # "idle" => Open(d) /\ risk'[d].at = risk[d].at
    BY <1>3, <2>1 DEF Open
  <2>3. RunsAreDated' BY <1>1, <1>2, <1>3, <2>1, <2>2 DEF RunsAreDated, Open
  <2>4. ASSUME ~overlap' PROVE OneAtATime' /\ NoRunIsLeftBehind' /\ SeedsAreRead' /\ LastRunReflects'
    <3>1. OneAtATime /\ NoRunIsLeftBehind /\ SeedsAreRead /\ LastRunReflects BY <2>1, <2>4 DEF SeedInv
    <3>2. OneAtATime' BY <2>1, <2>2, <3>1 DEF OneAtATime, Open
    <3>3. NoRunIsLeftBehind' BY <1>2, <1>3, <2>1, <3>1 DEF NoRunIsLeftBehind
    <3>4. SeedsAreRead' BY <1>3, <2>1, <3>1 DEF SeedsAreRead, Seen
    <3>5. LastRunReflects' BY <1>2, <2>1, <3>1 DEF LastRunReflects, RunsOf
    <3> QED BY <3>2, <3>3, <3>4, <3>5
  <2> QED BY <2>3, <2>4 DEF SeedInv
<1>8. CASE CommitRisk(c)
  <2>1. /\ UNCHANGED <<overlap, clock>> /\ risk[c].phase = "commit" /\ Open(c) /\ risk'[c].phase = "idle"
        /\ seeds' = Seen(c) /\ runs' = runs \cup NewRuns(c)
    BY <1>1, <1>8 DEF CommitRisk, TypeOK, NotPropagating, Open, Seen
  <2> DEFINE new == Run(risk[c].record, risk[c].at, risk[c].seeds)
  <2>2. NewRuns(c) = (IF risk[c].record = NoRecord THEN {} ELSE {new}) BY DEF NewRuns
  <2>3. /\ new.import = risk[c].record.import /\ new.pinned = risk[c].record.at
        /\ new.at = risk[c].at /\ new.seeds = risk[c].seeds
    BY DEF Run
  <2> HIDE DEF new
  <2>4. risk[c].record # NoRecord => Of(risk[c].record.import) # {}
    BY <1>1, <2>1 DEF RunsAreDated, Of
  <2>5. RunsAreDated' BY <1>1, <1>2, <1>3, <2>1, <2>2, <2>3, <2>4 DEF RunsAreDated, Open
  <2>6. ASSUME ~overlap' PROVE OneAtATime' /\ NoRunIsLeftBehind' /\ SeedsAreRead' /\ LastRunReflects'
    <3>1. OneAtATime /\ NoRunIsLeftBehind /\ SeedsAreRead /\ LastRunReflects BY <2>1, <2>6 DEF SeedInv
    <3>2. \A d \in Clients : risk'[d].phase = "idle" BY <1>3, <2>1, <3>1 DEF OneAtATime, Open
    <3>3. OneAtATime' /\ NoRunIsLeftBehind' /\ SeedsAreRead'
      BY <3>2 DEF OneAtATime, Open, NoRunIsLeftBehind, SeedsAreRead
    <3>4. LastRunReflects'
      <4> SUFFICES ASSUME NEW q \in runs', Shown(q), \A p \in runs' : p.import = q.import => p.at <= q.at
                   PROVE  q.seeds = seeds'
        BY <1>2 DEF LastRunReflects, RunsOf
      <4>1. CASE q \in runs
        <5>1. risk[c].record # NoRecord /\ risk[c].record.import = Latest.import
          BY <2>1, <3>1, <4>1 DEF NoRunIsLeftBehind
        <5>2. new \in runs' /\ new.import = q.import BY <2>1, <2>2, <2>3, <5>1 DEF Shown
        <5>3. q.at < new.at /\ q.at \in Nat /\ new.at \in Nat
          BY <1>1, <2>1, <2>3, <3>1, <4>1 DEF OneAtATime, RunsAreDated
        <5> QED BY <5>2, <5>3
      <4>2. CASE q = new /\ risk[c].record # NoRecord
        BY <2>1, <2>3, <3>1, <4>2 DEF SeedsAreRead
      <4> QED BY <2>1, <2>2, <4>1, <4>2
    <3> QED BY <3>3, <3>4
  <2> QED BY <2>5, <2>6 DEF SeedInv
<1>9. CASE AbortRisk(c)
  <2>1. UNCHANGED <<seeds, runs, overlap, clock>> /\ risk'[c].phase = "idle"
    BY <1>1, <1>9 DEF AbortRisk, TypeOK, NotPropagating
  <2>2. RunsAreDated' BY <1>1, <1>2, <1>3, <2>1 DEF RunsAreDated, Open
  <2>3. ASSUME ~overlap' PROVE OneAtATime' /\ NoRunIsLeftBehind' /\ SeedsAreRead' /\ LastRunReflects'
    BY <1>2, <1>3, <2>1, <2>3 DEF SeedInv, OneAtATime, Open, NoRunIsLeftBehind, SeedsAreRead, Seen,
                                  LastRunReflects, RunsOf
  <2> QED BY <2>2, <2>3 DEF SeedInv
<1> QED BY <1>5, <1>6, <1>7, <1>8, <1>9 DEF Client

LEMMA SeedsInductive == Spec => []SeedInv
<1>1. SeedInv /\ [Next]_vars => SeedInv'
  <2> SUFFICES ASSUME SeedInv, [Next]_vars PROVE SeedInv' OBVIOUS
  <2>1. AnalyticsInv' /\ DatesDiffer' BY NextKeeps, DatesKept DEF SeedInv
  <2>2. CASE \E c \in Clients : Client(c) BY <2>1, <2>2, ClientsKeepSeeds
  <2>3. CASE ~\E c \in Clients : Client(c)
    <3>1. UNCHANGED riskVars
      BY <2>3 DEF Next, Worker, BeginBuild, WriteFile, CommitRecord, FailBuild, Reader, OpenPage, ReadRun, CheckPin, vars
    <3> QED BY <2>1, <3>1, OthersKeepSeeds
  <2> QED BY <2>2, <2>3
<1> QED BY <1>1, InitSeeds, PTL DEF Spec

\* As long as risk transactions did not overlap, the run that is shown was
\* propagated from the seeds that are there, whatever was built, refreshed,
\* changed or aborted in between.
THEOREM SeedsStayReflected == Spec => []SeedsAreReflected
<1>1. SeedInv => SeedsAreReflected
  <2> SUFFICES ASSUME SeedInv, ~overlap, Current(LatestRun(Latest.import), Latest).pinned # Unpinned
               PROVE  Current(LatestRun(Latest.import), Latest).seeds = seeds
    BY DEF SeedsAreReflected
  <2>1. PICK q : q = LatestRun(Latest.import) OBVIOUS
  <2>2. Current(q, Latest) = q /\ q.pinned # Unpinned BY <2>1 DEF Current, NoRun
  <2>3. RunsOf(Latest.import) # {} BY <2>1, <2>2 DEF LatestRun, NoRun
  <2>4. Latest.import \in Imports BY <2>3 DEF RunsOf, SeedInv, AnalyticsInv, TypeOK, RunType
  <2>5. q \in RunsOf(Latest.import) /\ \A p \in RunsOf(Latest.import) : p.at <= q.at
    BY <2>1, <2>3, <2>4 DEF LatestRun, Newest, SeedInv, AnalyticsInv, Tops, HasTop
  <2> QED BY <2>1, <2>2, <2>5 DEF SeedInv, LastRunReflects, Shown, RunsOf
<1> QED BY <1>1, SeedsInductive, PTL

-----------------------------------------------------------------------------
(* GeoIp.  A directory is dated when it is staged and never changes, so     *)
(* that two of one stamp are one; and a failing compilation leaves at least *)
(* one of the three names in place until the next one has staged its own.   *)
(* What one directory answers is followed through sorting, trimming,        *)
(* interning and bisection, and then through the steps in which a process   *)
(* reads it.                                                                *)

Directories == {Directory(source, n) : source \in Databases, n \in 1 .. MaxInstalls}
Places == {final, previous, staged}

(* What the steps of a compilation know of the three names. *)
CompilerInv ==
    /\ faults \in Nat /\ installs \in 0 .. MaxInstalls
    /\ Places \subseteq Directories \cup {Null}
    /\ compiler \in {"idle", "clear", "aside", "install", "tidy"}
    /\ compiler \in {"clear", "aside", "install"} => staged # Null
    /\ compiler \in {"idle", "tidy"} => staged = Null
    /\ compiler \in {"aside", "tidy"} => final # Null
    /\ compiler = "install" => final = Null

LEMMA DirectoryIsThere ==
    ASSUME NEW d \in Directories
    PROVE  d # Null /\ d.stamp \in 1 .. MaxInstalls
BY NullAssumption DEF Directories, Directory

LEMMA CompilerInit == GeoInit => CompilerInv
BY BoundsAssumption DEF GeoInit, CompilerInv, Places

LEMMA CompilerStep == CompilerInv /\ [GeoNext]_geoVars => CompilerInv'
<1> SUFFICES ASSUME CompilerInv, [GeoNext]_geoVars PROVE CompilerInv'
  OBVIOUS
<1> USE BoundsAssumption DEF CompilerInv, Places
<1>1. ASSUME NEW source \in Databases, Stage(source) PROVE CompilerInv'
  <2>1. installs + 1 \in 1 .. MaxInstalls /\ installs' = installs + 1
    BY <1>1 DEF Stage
  <2>2. staged' \in Directories /\ staged' # Null
    BY <1>1, <2>1, NullAssumption DEF Stage, Directories
  <2> QED BY <1>1, <2>1, <2>2 DEF Stage
<1>2. CASE ClearPrevious BY <1>2 DEF ClearPrevious
<1>3. CASE MoveAside BY <1>3 DEF MoveAside
<1>4. CASE Install BY <1>4 DEF Install
<1>5. CASE Tidy BY <1>5 DEF Tidy
<1>6. CASE Abandon BY <1>6 DEF Abandon
<1>7. CASE UNCHANGED <<final, previous, staged, compiler, installs, faults>> BY <1>7
<1> QED
  BY <1>1, <1>2, <1>3, <1>4, <1>5, <1>6, <1>7
  DEF GeoNext, Stat, ReadManifest, LoadPart, NoFiles, Answer, Close, Ask, geoVars

-----------------------------------------------------------------------------
(* Where a directory is left once one was installed: without a fault it is  *)
(* the installed one, but between the renames; after one it may be the one  *)
(* put aside, until the next compilation has one of its own.                *)
Left ==
    /\ faults = 0 => IF compiler = "install" THEN previous # Null ELSE final # Null
    /\ faults = 1 /\ compiler = "idle" => final # Null \/ previous # Null

LEMMA LeftFromInstalled == CompilerInv /\ final # Null => Left
BY DEF CompilerInv, Left

LEMMA LeftStep == CompilerInv /\ Left /\ [GeoNext]_geoVars => Left'
<1> SUFFICES ASSUME CompilerInv, Left, [GeoNext]_geoVars PROVE Left'
  OBVIOUS
<1> USE DEF CompilerInv, Left
<1>1. ASSUME NEW source \in Databases, Stage(source) PROVE Left' BY <1>1 DEF Stage
<1>2. CASE ClearPrevious BY <1>2 DEF ClearPrevious
<1>3. CASE MoveAside BY <1>3 DEF MoveAside
<1>4. CASE Install BY <1>4 DEF Install
<1>5. CASE Tidy BY <1>5 DEF Tidy
<1>6. CASE Abandon BY <1>6 DEF Abandon
<1>7. CASE UNCHANGED <<final, previous, staged, compiler, installs, faults>> BY <1>7
<1> QED
  BY <1>1, <1>2, <1>3, <1>4, <1>5, <1>6, <1>7
  DEF GeoNext, Stat, ReadManifest, LoadPart, NoFiles, Answer, Close, Ask, geoVars

(* Once a database was installed, one crash or failed rename anywhere in    *)
(* any compilation leaves a complete directory under one of the names that  *)
(* compile_database uses.                                                   *)
THEOREM OneFaultIsSurvived == GeoSpec => SomethingIsLeft
<1>1. CompilerInv /\ Left => (faults <= 1 => \E directory \in {final, previous, staged} : directory # Null)
  <2> SUFFICES ASSUME CompilerInv, Left, faults <= 1 PROVE \E directory \in {final, previous, staged} : directory # Null
    OBVIOUS
  <2>1. faults = 0 \/ faults = 1 BY DEF CompilerInv
  <2>2. final # Null \/ previous # Null \/ staged # Null BY <2>1 DEF CompilerInv, Left
  <2> QED BY <2>2
<1> QED
  BY <1>1, CompilerInit, CompilerStep, LeftFromInstalled, LeftStep, PTL DEF GeoSpec, SomethingIsLeft

-----------------------------------------------------------------------------
(* What a process has open is of the stamp it saw before; only directories  *)
(* installed since can have been read in between, and they are later.       *)
Fields(record, names) == DOMAIN record = names
Opened ==
    /\ Fields(cached, {"stamp", "countries", "tables", "from"}) /\ cached.stamp \in 1 .. installs
    /\ final # Null /\ cached.stamp = final.stamp => cached.from = {final}
    /\ staged # Null => cached.stamp < staged.stamp

CacheInv ==
    /\ Fields(reader, {"step", "stamp", "ip", "load", "answer"})
    /\ cached # Null => Opened
    /\ reader.step = "manifest" => reader.stamp \in 1 .. installs
    /\ reader.step \in {"open", "lookup", "answered"} => Opened

\* Nothing that was installed or seen is as new as what is staged.
StagedIsNew ==
    /\ final # Null => final.stamp <= installs
    /\ final # Null /\ reader.step = "manifest" => reader.stamp <= final.stamp
    /\ staged # Null =>
          /\ staged.stamp <= installs
          /\ final # Null => final.stamp < staged.stamp
          /\ reader.step = "manifest" => reader.stamp < staged.stamp

HealInv == CompilerInv /\ CacheInv /\ StagedIsNew

LEMMA HealInit == GeoInit => HealInv
<1> SUFFICES ASSUME GeoInit PROVE HealInv
  OBVIOUS
<1>1. CompilerInv BY CompilerInit
<1>2. CacheInv BY DEF GeoInit, CacheInv, Opened, Fields, Closed
<1>3. StagedIsNew BY DEF GeoInit, StagedIsNew
<1> QED BY <1>1, <1>2, <1>3 DEF HealInv

\* The steps of a compilation leave the cache and the reader alone.
LEMMA CompilerHeals ==
    ASSUME HealInv, CompilerInv', UNCHANGED <<cached, reader>>,
           (\E source \in Databases : Stage(source)) \/ ClearPrevious \/ MoveAside \/ Install \/ Tidy \/ Abandon
    PROVE  CacheInv' /\ StagedIsNew'
<1> USE DEF HealInv, CompilerInv, CacheInv, StagedIsNew, Opened, Fields, Places
<1>0. ASSUME NEW d \in {final, previous, staged}, d # Null PROVE d.stamp \in 1 .. MaxInstalls
  BY <1>0, DirectoryIsThere
<1>1. ASSUME NEW source \in Databases, Stage(source) PROVE CacheInv' /\ StagedIsNew'
  <2>1. installs' = installs + 1 /\ staged'.stamp = installs + 1 /\ final' = final
    BY <1>1 DEF Stage, Directory
  <2> QED BY <1>0, <1>1, <2>1 DEF Stage
<1>2. CASE ClearPrevious BY <1>2 DEF ClearPrevious
<1>3. CASE MoveAside BY <1>3 DEF MoveAside
<1>4. CASE Install BY <1>0, <1>4 DEF Install
<1>5. CASE Tidy BY <1>5 DEF Tidy
<1>6. CASE Abandon BY <1>6 DEF Abandon
<1> QED BY <1>1, <1>2, <1>3, <1>4, <1>5, <1>6

\* The steps of an analysis leave the directories alone.
LEMMA ReaderHeals ==
    ASSUME HealInv, UNCHANGED <<final, previous, staged, compiler, installs, faults>>,
           Stat \/ ReadManifest \/ LoadPart \/ NoFiles \/ Answer \/ Close \/ \E ip \in Addresses : Ask(ip)
    PROVE  CacheInv' /\ StagedIsNew'
<1> USE DEF HealInv, CompilerInv, CacheInv, StagedIsNew, Opened, Fields, Places
<1>0. final # Null => final.stamp \in 1 .. installs
  BY DirectoryIsThere
<1>1. CASE Stat
  <2>1. CASE final = Null BY <1>1, <2>1 DEF Stat, Closed
  <2>2. CASE final # Null
    <3>1. cached' = cached /\ Fields(reader', {"step", "stamp", "ip", "load", "answer"}) /\ reader'.stamp = final.stamp
      BY <1>1, <2>2 DEF Stat
    <3>2. reader'.step \in {"open", "manifest"} /\ (reader'.step = "open" => Opened)
      BY <1>1, <2>2 DEF Stat
    <3> QED BY <1>0, <2>2, <3>1, <3>2
  <2> QED BY <2>1, <2>2
<1>2. CASE ReadManifest
  <2>1. CASE final = Null BY <1>2, <2>1 DEF ReadManifest, Closed
  <2>2. CASE final # Null BY <1>0, <1>2, <2>2 DEF ReadManifest
  <2> QED BY <2>1, <2>2
<1>3. CASE LoadPart
  <2>1. /\ Fields(cached', {"stamp", "countries", "tables", "from"})
        /\ cached'.stamp = cached.stamp /\ cached'.from = cached.from \cup {final}
    BY <1>3 DEF LoadPart
  <2>2. Fields(reader', {"step", "stamp", "ip", "load", "answer"}) /\ reader'.step = "lookup" /\ Opened /\ final # Null
    BY <1>3 DEF LoadPart
  <2>3. cached'.stamp = final.stamp => cached'.from = {final} BY <2>1, <2>2
  <2> QED BY <2>1, <2>2, <2>3
<1>4. CASE NoFiles
  <2>1. final = Null /\ Opened /\ Fields(reader, {"step", "stamp", "ip", "load", "answer"})
    BY <1>4 DEF NoFiles
  <2>2. CASE reader.load = << >>
    <3>1. Fields(cached', {"stamp", "countries", "tables", "from"}) /\ cached'.stamp = cached.stamp /\ reader' = reader
      BY <1>4, <2>2 DEF NoFiles
    <3> QED BY <2>1, <3>1
  <2>3. CASE reader.load # << >> BY <1>4, <2>1, <2>3 DEF NoFiles, Closed
  <2> QED BY <2>2, <2>3
<1>5. CASE Answer BY <1>5 DEF Answer
<1>6. CASE Close BY <1>6 DEF Close, Closed
<1>7. ASSUME NEW ip \in Addresses, Ask(ip) PROVE CacheInv' /\ StagedIsNew'
  BY <1>7 DEF Ask
<1> QED BY <1>1, <1>2, <1>3, <1>4, <1>5, <1>6, <1>7

LEMMA HealStep == HealInv /\ [GeoNext]_geoVars => HealInv'
<1> SUFFICES ASSUME HealInv, [GeoNext]_geoVars PROVE HealInv'
  OBVIOUS
<1>0. CompilerInv' BY CompilerStep DEF HealInv
<1>1. CASE (\E source \in Databases : Stage(source)) \/ ClearPrevious \/ MoveAside \/ Install \/ Tidy \/ Abandon
  <2>1. UNCHANGED <<cached, reader>>
    BY <1>1 DEF Stage, ClearPrevious, MoveAside, Install, Tidy, Abandon
  <2> QED BY <1>0, <1>1, <2>1, CompilerHeals DEF HealInv
<1>2. CASE Stat \/ ReadManifest \/ LoadPart \/ NoFiles \/ Answer \/ Close \/ \E ip \in Addresses : Ask(ip)
  <2>1. UNCHANGED <<final, previous, staged, compiler, installs, faults>>
    BY <1>2 DEF Stat, ReadManifest, LoadPart, NoFiles, Answer, Close, Ask
  <2> QED BY <1>0, <1>2, <2>1, ReaderHeals DEF HealInv
<1>3. CASE UNCHANGED geoVars
  BY <1>0, <1>3 DEF HealInv, CacheInv, StagedIsNew, Opened, Fields, geoVars
<1> QED BY <1>1, <1>2, <1>3 DEF GeoNext

(* However compilations cut into an analysis that opens a database and      *)
(* loads its tables lazily, an open database that passes for the installed  *)
(* one was read from it alone: what was mixed is dropped when it is next    *)
(* opened (open_database compares the manifest's time).                     *)
THEOREM CacheHeals == GeoSpec => []CurrentCacheIsWhole
<1>1. HealInv => CurrentCacheIsWhole BY DEF HealInv, CacheInv, Opened, CurrentCacheIsWhole
<1> QED BY <1>1, HealInit, HealStep, PTL DEF GeoSpec

-----------------------------------------------------------------------------
(* Folds, one step after the other.                                         *)

LEMMA LeastNumber == ASSUME NEW S, S \subseteq Nat, S # {} PROVE \E m \in S : \A k \in S : m <= k
<1> DEFINE R == OpToRel(<, Nat)
<1>1. IsWellFoundedOn(R, Nat) BY NatLessThanWellFounded
<1>2. \A x, y \in Nat : <<y, x>> \in R <=> y < x BY DEF OpToRel
<1> HIDE DEF R
<1>3. PICK m \in S : \A k \in S : <<k, m>> \notin R BY <1>1, WFMin
<1>4. ASSUME NEW k \in S PROVE m <= k
  <2>1. m \in Nat /\ k \in Nat OBVIOUS
  <2>2. ~(k < m) BY <1>2, <1>3, <2>1
  <2> QED BY <2>1, <2>2
<1> QED BY <1>4

LEMMA Counting ==
    ASSUME NEW n \in Nat, NEW T, 0 \in T, \A m \in 1 .. n : m - 1 \in T => m \in T
    PROVE  0 .. n \subseteq T
<1> DEFINE S == (0 .. n) \ T
<1> SUFFICES ASSUME S # {} PROVE FALSE
  OBVIOUS
<1>0. S \subseteq Nat
  OBVIOUS
<1>1. PICK m \in S : \A k \in S : m <= k
  <2> HIDE DEF S
  <2> QED BY <1>0, LeastNumber
<1>2. m \in 1 .. n /\ m - 1 \in 0 .. n
  BY <1>1
<1>3. m - 1 \notin S
  BY <1>1, <1>2
<1> QED BY <1>1, <1>2, <1>3

LEMMA GreatestNumber ==
    ASSUME NEW m \in Nat, NEW s \in SUBSET (1 .. m), s # {}
    PROVE  Max(s) \in s /\ \A k \in s : k <= Max(s)
<1> DEFINE S == {m - k : k \in s}
<1>1. \A k \in s : k \in Nat /\ m - k \in Nat OBVIOUS
<1>2. S \subseteq Nat /\ S # {} BY <1>1
<1> HIDE DEF S
<1>3. PICK j \in S : \A k \in S : j <= k BY <1>2, LeastNumber
<1>4. PICK q \in s : j = m - q BY DEF S
<1>5. ASSUME NEW k \in s PROVE q >= k
  <2>1. m - k \in S BY DEF S
  <2> QED BY <1>1, <1>3, <1>4, <2>1
<1>6. Max(s) \in s /\ \A k \in s : Max(s) >= k BY <1>5 DEF Max
<1> QED BY <1>1, <1>6

LEMMA LastIsMax ==
    ASSUME NEW m \in Nat, NEW s \in SUBSET (1 .. m), m \in s
    PROVE  Max(s) = m
<1>1. Max(s) \in s /\ m <= Max(s) BY GreatestNumber
<1>2. Max(s) \in 1 .. m BY <1>1
<1> QED BY <1>1, <1>2

\* The accumulator of a fold over n places, as a function of the places folded.
Accumulates(g, n, base, step) ==
    \A s \in SUBSET (1 .. n) : g[s] = IF s = {} THEN base ELSE step[Max(s)][g[s \ {Max(s)}]]

LEMMA FoldExists ==
    ASSUME NEW n \in Nat, NEW A, NEW base \in A, NEW step \in [1 .. n -> [A -> A]]
    PROVE  \E g \in [SUBSET (1 .. n) -> A] : Accumulates(g, n, base, step)
<1> DEFINE T == {m \in 0 .. n : \E g \in [SUBSET (1 .. m) -> A] : Accumulates(g, m, base, step)}
<1>1. 0 \in T
  <2> DEFINE g == [s \in SUBSET (1 .. 0) |-> base]
  <2>1. g \in [SUBSET (1 .. 0) -> A] /\ \A s \in SUBSET (1 .. 0) : s = {} /\ g[s] = base OBVIOUS
  <2>2. Accumulates(g, 0, base, step) BY <2>1 DEF Accumulates
  <2> HIDE DEF g
  <2> QED BY <2>1, <2>2
<1>2. ASSUME NEW m \in 1 .. n, m - 1 \in T PROVE m \in T
  <2>1. PICK g \in [SUBSET (1 .. m - 1) -> A] : Accumulates(g, m - 1, base, step) BY <1>2
  <2> DEFINE h == [s \in SUBSET (1 .. m) |-> IF m \in s THEN step[m][g[s \ {m}]] ELSE g[s]]
  <2>2. ASSUME NEW s \in SUBSET (1 .. m)
        PROVE  /\ h[s] \in A
               /\ h[s] = IF s = {} THEN base ELSE step[Max(s)][h[s \ {Max(s)}]]
    <3>1. CASE m \in s
      <4>1. Max(s) = m BY <3>1, LastIsMax
      <4>2. s \ {m} \in SUBSET (1 .. m - 1) /\ s \ {m} \in SUBSET (1 .. m) OBVIOUS
      <4>3. h[s \ {m}] = g[s \ {m}] /\ h[s] = step[m][g[s \ {m}]] BY <3>1, <4>2
      <4>4. g[s \ {m}] \in A /\ step[m] \in [A -> A] BY <4>2
      <4> HIDE DEF h
      <4> QED BY <3>1, <4>1, <4>3, <4>4
    <3>2. CASE m \notin s
      <4> DEFINE r == s \ {Max(s)}
      <4>0. \A k \in s : k \in 1 .. m - 1 BY <3>2
      <4>1. s \in SUBSET (1 .. m - 1) /\ r \in SUBSET (1 .. m - 1) /\ r \in SUBSET (1 .. m) /\ m \notin r
        <5> HIDE DEF h
        <5>1. \A k \in r : k \in s OBVIOUS
        <5> HIDE DEF r
        <5>2. \A k \in r : k \in 1 .. m - 1 BY <4>0, <5>1
        <5> QED BY <3>2, <4>0, <5>1, <5>2
      <4>2. h[s] = g[s] /\ h[r] = g[r] BY <3>2, <4>1
      <4>3. g[s] = IF s = {} THEN base ELSE step[Max(s)][g[r]] BY <2>1, <4>1 DEF Accumulates
      <4> HIDE DEF h, r
      <4>4. h[s] = IF s = {} THEN base ELSE step[Max(s)][h[r]] BY <4>2, <4>3
      <4> QED BY <4>1, <4>2, <4>4 DEF r
    <3> QED BY <3>1, <3>2
  <2>3. h \in [SUBSET (1 .. m) -> A]
    <3>1. \A s \in SUBSET (1 .. m) : h[s] \in A BY <2>2
    <3> QED BY <3>1
  <2>4. Accumulates(h, m, base, step) BY <2>2 DEF Accumulates
  <2> HIDE DEF h
  <2> QED BY <2>3, <2>4
<1> HIDE DEF T
<1>3. n \in T
  <2>1. 0 .. n \subseteq T BY <1>1, <1>2, Counting
  <2> QED BY <2>1
<1> QED BY <1>3 DEF T

To(i) == 1 .. i

LEMMA FirstPlaces ==
    ASSUME NEW n \in Nat, NEW i \in 1 .. n
    PROVE  /\ To(i) \in SUBSET (1 .. n) /\ To(i) # {}
           /\ Max(To(i)) = i /\ To(i) \ {i} = To(i - 1)
<1>1. i \in Nat /\ To(i) \in SUBSET (1 .. i) /\ i \in To(i) BY DEF To
<1>2. Max(To(i)) = i BY <1>1, LastIsMax
<1>3. To(i) \in SUBSET (1 .. n) /\ To(i) # {} BY <1>1
<1>4. To(i) \ {i} = To(i - 1) BY DEF To
<1> QED BY <1>2, <1>3, <1>4

LEMMA MergeSteps ==
    ASSUME NEW values, NEW rows \in Seq(Ranges(values))
    PROVE  \E a : /\ FoldLeft(Merge, << >>, rows) = a[Len(rows)] /\ a[0] = << >>
                  /\ \A i \in 1 .. Len(rows) : a[i] = Merge(a[i - 1], rows[i])
<1> DEFINE A == Seq(Ranges(values))
           n == Len(rows)
           step == [i \in 1 .. n |-> [merged \in A |-> Merge(merged, rows[i])]]
           Body(g) == [s \in SUBSET (1 .. n) |->
                          IF s = {} THEN << >> ELSE Merge(g[s \ {Max(s)}], rows[Max(s)])]
           iter == CHOOSE g : g = Body(g)
<1>0. n \in Nat /\ DOMAIN rows = 1 .. n OBVIOUS
<1>1. ASSUME NEW merged \in A, NEW row \in Ranges(values) PROVE Merge(merged, row) \in A
  <2>1. ASSUME merged # << >> PROVE Last(merged).to + 1 \in Nat
    <3>1. merged[Len(merged)] \in Ranges(values) BY <2>1
    <3> QED BY <3>1 DEF Last, Ranges
  <2>2. ASSUME merged # << >> PROVE [row EXCEPT !.from = Last(merged).to + 1] \in Ranges(values)
    BY <2>1, <2>2 DEF Ranges
  <2> QED BY <2>2 DEF Merge
<1>2. step \in [1 .. n -> [A -> A]]
  <2>1. \A i \in 1 .. n : rows[i] \in Ranges(values) OBVIOUS
  <2> HIDE DEF A, n
  <2> QED BY <1>1, <2>1
<1>3. PICK g \in [SUBSET (1 .. n) -> A] : Accumulates(g, n, << >>, step)
  <2>1. << >> \in A OBVIOUS
  <2> HIDE DEF A, step, n
  <2> QED BY <1>0, <1>2, <2>1, FoldExists
<1>4. g = Body(g)
  <2>1. ASSUME NEW s \in SUBSET (1 .. n), s # {}
        PROVE  step[Max(s)][g[s \ {Max(s)}]] = Merge(g[s \ {Max(s)}], rows[Max(s)])
    <3>1. Max(s) \in 1 .. n
      <4> HIDE DEF n
      <4>1. Max(s) \in s BY <1>0, <2>1, GreatestNumber
      <4> QED BY <4>1
    <3>2. g[s \ {Max(s)}] \in A
      <4>1. s \ {Max(s)} \in SUBSET (1 .. n) OBVIOUS
      <4> HIDE DEF A, n
      <4> QED BY <4>1
    <3> HIDE DEF A, n
    <3> QED BY <3>1, <3>2
  <2> HIDE DEF A, n, step
  <2> QED BY <1>3, <2>1 DEF Accumulates
<1>5. iter = Body(iter)
  <2> HIDE DEF Body
  <2> QED BY <1>4
<1>6. FoldLeft(Merge, << >>, rows) = iter[1 .. n]
  BY <1>0 DEF FoldLeft, MapThenFoldSet
<1> DEFINE a == [i \in 0 .. n |-> iter[To(i)]]
<1> HIDE DEF iter
<1>7. a[0] = << >>
  <2>1. To(0) = {} /\ {} \in SUBSET (1 .. n) BY DEF To
  <2>2. iter[To(0)] = << >>
    <3>1. iter[To(0)] = Body(iter)[To(0)] BY <1>5
    <3> QED BY <2>1, <3>1
  <2> QED BY <1>0, <2>2
<1>8. ASSUME NEW i \in 1 .. n PROVE a[i] = Merge(a[i - 1], rows[i])
  <2>1. To(i) \in SUBSET (1 .. n) /\ To(i) # {} /\ Max(To(i)) = i /\ To(i) \ {i} = To(i - 1)
    <3> HIDE DEF n
    <3> QED BY <1>0, FirstPlaces
  <2>2. iter[To(i)] = Merge(iter[To(i - 1)], rows[i])
    <3>1. iter[To(i)] = Body(iter)[To(i)] BY <1>5
    <3> QED BY <2>1, <3>1
  <2> QED BY <1>0, <2>2
<1>9. a[n] = iter[1 .. n] BY <1>0 DEF To
<1> HIDE DEF a, n
<1> QED BY <1>6, <1>7, <1>8, <1>9 DEF n

LEMMA AddSteps ==
    ASSUME NEW values, NEW rows \in Seq(Ranges(values))
    PROVE  \E a : /\ FoldLeft(Add, << >>, rows) = a[Len(rows)] /\ a[0] = << >>
                  /\ \A i \in 1 .. Len(rows) : a[i] = Add(a[i - 1], rows[i])
<1> DEFINE A == Seq(Ranges(values \ {Null}))
           n == Len(rows)
           step == [i \in 1 .. n |-> [kept \in A |-> Add(kept, rows[i])]]
           Body(g) == [s \in SUBSET (1 .. n) |->
                          IF s = {} THEN << >> ELSE Add(g[s \ {Max(s)}], rows[Max(s)])]
           iter == CHOOSE g : g = Body(g)
<1>0. n \in Nat /\ DOMAIN rows = 1 .. n OBVIOUS
<1>1. ASSUME NEW kept \in A, NEW row \in Ranges(values) PROVE Add(kept, row) \in A
  <2>1. row.value # Null => row \in Ranges(values \ {Null}) BY DEF Ranges
  <2> QED BY <2>1 DEF Add
<1>2. step \in [1 .. n -> [A -> A]]
  <2>1. \A i \in 1 .. n : rows[i] \in Ranges(values) OBVIOUS
  <2> HIDE DEF A, n
  <2> QED BY <1>1, <2>1
<1>3. PICK g \in [SUBSET (1 .. n) -> A] : Accumulates(g, n, << >>, step)
  <2>1. << >> \in A OBVIOUS
  <2> HIDE DEF A, step, n
  <2> QED BY <1>0, <1>2, <2>1, FoldExists
<1>4. g = Body(g)
  <2>1. ASSUME NEW s \in SUBSET (1 .. n), s # {}
        PROVE  step[Max(s)][g[s \ {Max(s)}]] = Add(g[s \ {Max(s)}], rows[Max(s)])
    <3>1. Max(s) \in 1 .. n
      <4> HIDE DEF n
      <4>1. Max(s) \in s BY <1>0, <2>1, GreatestNumber
      <4> QED BY <4>1
    <3>2. g[s \ {Max(s)}] \in A
      <4>1. s \ {Max(s)} \in SUBSET (1 .. n) OBVIOUS
      <4> HIDE DEF A, n
      <4> QED BY <4>1
    <3> HIDE DEF A, n
    <3> QED BY <3>1, <3>2
  <2> HIDE DEF A, n, step
  <2> QED BY <1>3, <2>1 DEF Accumulates
<1>5. iter = Body(iter)
  <2> HIDE DEF Body
  <2> QED BY <1>4
<1>6. FoldLeft(Add, << >>, rows) = iter[1 .. n]
  BY <1>0 DEF FoldLeft, MapThenFoldSet
<1> DEFINE a == [i \in 0 .. n |-> iter[To(i)]]
<1> HIDE DEF iter
<1>7. a[0] = << >>
  <2>1. To(0) = {} /\ {} \in SUBSET (1 .. n) BY DEF To
  <2>2. iter[To(0)] = << >>
    <3>1. iter[To(0)] = Body(iter)[To(0)] BY <1>5
    <3> QED BY <2>1, <3>1
  <2> QED BY <1>0, <2>2
<1>8. ASSUME NEW i \in 1 .. n PROVE a[i] = Add(a[i - 1], rows[i])
  <2>1. To(i) \in SUBSET (1 .. n) /\ To(i) # {} /\ Max(To(i)) = i /\ To(i) \ {i} = To(i - 1)
    <3> HIDE DEF n
    <3> QED BY <1>0, FirstPlaces
  <2>2. iter[To(i)] = Add(iter[To(i - 1)], rows[i])
    <3>1. iter[To(i)] = Body(iter)[To(i)] BY <1>5
    <3> QED BY <2>1, <3>1
  <2> QED BY <1>0, <2>2
<1>9. a[n] = iter[1 .. n] BY <1>0 DEF To
<1> HIDE DEF a, n
<1> QED BY <1>6, <1>7, <1>8, <1>9 DEF n

LEMMA MeetSteps ==
    ASSUME NEW values, NEW rows \in Seq(Ranges(values))
    PROVE  \E a : /\ FoldLeft(Meet, << >>, rows) = a[Len(rows)] /\ a[0] = << >>
                  /\ \A i \in 1 .. Len(rows) : a[i] = Meet(a[i - 1], rows[i])
<1> DEFINE A == Seq(values)
           n == Len(rows)
           step == [i \in 1 .. n |-> [codes \in A |-> Meet(codes, rows[i])]]
           Body(g) == [s \in SUBSET (1 .. n) |->
                          IF s = {} THEN << >> ELSE Meet(g[s \ {Max(s)}], rows[Max(s)])]
           iter == CHOOSE g : g = Body(g)
<1>0. n \in Nat /\ DOMAIN rows = 1 .. n OBVIOUS
<1>1. ASSUME NEW codes \in A, NEW row \in Ranges(values) PROVE Meet(codes, row) \in A
  <2>1. row.value \in values BY DEF Ranges
  <2> QED BY <2>1 DEF Meet
<1>2. step \in [1 .. n -> [A -> A]]
  <2>1. \A i \in 1 .. n : rows[i] \in Ranges(values) OBVIOUS
  <2> HIDE DEF A, n
  <2> QED BY <1>1, <2>1
<1>3. PICK g \in [SUBSET (1 .. n) -> A] : Accumulates(g, n, << >>, step)
  <2>1. << >> \in A OBVIOUS
  <2> HIDE DEF A, step, n
  <2> QED BY <1>0, <1>2, <2>1, FoldExists
<1>4. g = Body(g)
  <2>1. ASSUME NEW s \in SUBSET (1 .. n), s # {}
        PROVE  step[Max(s)][g[s \ {Max(s)}]] = Meet(g[s \ {Max(s)}], rows[Max(s)])
    <3>1. Max(s) \in 1 .. n
      <4> HIDE DEF n
      <4>1. Max(s) \in s BY <1>0, <2>1, GreatestNumber
      <4> QED BY <4>1
    <3>2. g[s \ {Max(s)}] \in A
      <4>1. s \ {Max(s)} \in SUBSET (1 .. n) OBVIOUS
      <4> HIDE DEF A, n
      <4> QED BY <4>1
    <3> HIDE DEF A, n
    <3> QED BY <3>1, <3>2
  <2> HIDE DEF A, n, step
  <2> QED BY <1>3, <2>1 DEF Accumulates
<1>5. iter = Body(iter)
  <2> HIDE DEF Body
  <2> QED BY <1>4
<1>6. FoldLeft(Meet, << >>, rows) = iter[1 .. n]
  BY <1>0 DEF FoldLeft, MapThenFoldSet
<1> DEFINE a == [i \in 0 .. n |-> iter[To(i)]]
<1> HIDE DEF iter
<1>7. a[0] = << >>
  <2>1. To(0) = {} /\ {} \in SUBSET (1 .. n) BY DEF To
  <2>2. iter[To(0)] = << >>
    <3>1. iter[To(0)] = Body(iter)[To(0)] BY <1>5
    <3> QED BY <2>1, <3>1
  <2> QED BY <1>0, <2>2
<1>8. ASSUME NEW i \in 1 .. n PROVE a[i] = Meet(a[i - 1], rows[i])
  <2>1. To(i) \in SUBSET (1 .. n) /\ To(i) # {} /\ Max(To(i)) = i /\ To(i) \ {i} = To(i - 1)
    <3> HIDE DEF n
    <3> QED BY <1>0, FirstPlaces
  <2>2. iter[To(i)] = Meet(iter[To(i - 1)], rows[i])
    <3>1. iter[To(i)] = Body(iter)[To(i)] BY <1>5
    <3> QED BY <2>1, <3>1
  <2> QED BY <1>0, <2>2
<1>9. a[n] = iter[1 .. n] BY <1>0 DEF To
<1> HIDE DEF a, n
<1> QED BY <1>6, <1>7, <1>8, <1>9 DEF n

-----------------------------------------------------------------------------
(* The table of one kind, row by row.                                       *)
Covers(row, ip) == row.from <= ip /\ ip <= row.to

Sorted(rows) == \A n, m \in DOMAIN rows : n <= m => rows[n].from <= rows[m].from

\* The first row that holds an address.
Tells(rows, ip, j) == Covers(rows[j], ip) /\ \A k \in 1 .. j - 1 : ~Covers(rows[k], ip)

Apart(table) ==
    \A n, m \in DOMAIN table : n < m => table[n].from <= table[m].from /\ table[n].to < table[m].from

\* Where the last row of a table ends, and that it starts no later than its source does unless it is proper.
EndsAt(row, last) == row.to = last.to /\ row.from <= last.from /\ (last.from <= last.to \/ last.from = row.from)

Ends(rows, table, i) == table # << >> => \E j \in 1 .. i : EndsAt(rows[j], Last(table))

Holds(table, ip, value) == \E n \in DOMAIN table : Covers(table[n], ip) /\ table[n].value = value

Told(rows, table, i) == \A ip \in Nat, j \in 1 .. i : Tells(rows, ip, j) => Holds(table, ip, rows[j].value)

Backed(rows, table, i) ==
    \A ip \in Nat, n \in DOMAIN table : Covers(table[n], ip) => \E j \in 1 .. i : Covers(rows[j], ip)

Right(rows, values, table, i) ==
    /\ table \in Seq(Ranges(values)) /\ Apart(table)
    /\ Ends(rows, table, i) /\ Told(rows, table, i) /\ Backed(rows, table, i)

LEMMA Appended ==
    ASSUME NEW values, NEW rows \in Seq(Ranges(values)), NEW i \in 1 .. Len(rows),
           NEW table, Right(rows, values, table, i - 1),
           NEW row \in Ranges(values), row.to = rows[i].to, row.value = rows[i].value,
           EndsAt(rows[i], row),
           \A n \in DOMAIN table : table[n].from <= row.from /\ table[n].to < row.from,
           \A ip \in Nat : Tells(rows, ip, i) => Covers(row, ip)
    PROVE  Right(rows, values, Append(table, row), i)
<1> DEFINE new == Append(table, row)
           l == Len(table)
<1>0. table \in Seq(Ranges(values)) /\ l \in Nat /\ DOMAIN table = 1 .. l BY DEF Right
<1>1. new \in Seq(Ranges(values)) /\ Len(new) = l + 1 /\ DOMAIN new = 1 .. l + 1 /\ new # << >> BY <1>0
<1>2. new[l + 1] = row /\ \A n \in 1 .. l : new[n] = table[n] BY <1>0
<1>2a. \A n \in 1 .. l + 1 : n \in 1 .. l \/ n = l + 1 BY <1>0
<1>r. i \in Nat /\ i - 1 \in Nat /\ (\A j \in 1 .. i : j \in 1 .. i - 1 \/ j = i) /\ \A j \in 1 .. i - 1 : j \in 1 .. i
  OBVIOUS
<1> HIDE DEF new, l
<1>3. Apart(new)
  <2>1. ASSUME NEW n \in 1 .. l + 1, NEW m \in 1 .. l + 1, n < m
        PROVE  new[n].from <= new[m].from /\ new[n].to < new[m].from
    <3>1. n \in 1 .. l BY <1>0, <2>1
    <3>2. CASE m \in 1 .. l
      <4>1. Apart(table) BY DEF Right
      <4> QED BY <1>0, <1>2, <2>1, <3>1, <3>2, <4>1 DEF Apart
    <3>3. CASE m = l + 1 BY <1>0, <1>2, <3>1, <3>3
    <3> QED BY <1>2a, <3>2, <3>3
  <2> QED BY <1>1, <2>1 DEF Apart
<1>4. Ends(rows, new, i)
  <2>1. Last(new) = row BY <1>1, <1>2 DEF Last
  <2>2. i \in 1 .. i OBVIOUS
  <2> QED BY <2>1, <2>2 DEF Ends
<1>5. Told(rows, new, i)
  <2>1. ASSUME NEW ip \in Nat, NEW j \in 1 .. i, Tells(rows, ip, j) PROVE Holds(new, ip, rows[j].value)
    <3>1. CASE j = i
      <4>1. l + 1 \in DOMAIN new BY <1>0, <1>1
      <4>2. Covers(row, ip) BY <2>1, <3>1
      <4> QED BY <1>2, <3>1, <4>1, <4>2 DEF Holds
    <3>2. CASE j \in 1 .. i - 1
      <4>1. Holds(table, ip, rows[j].value) BY <2>1, <3>2 DEF Right, Told
      <4>2. PICK n \in 1 .. l : Covers(table[n], ip) /\ table[n].value = rows[j].value
        BY <1>0, <4>1 DEF Holds
      <4>3. n \in DOMAIN new BY <1>0, <1>1
      <4> QED BY <1>2, <4>2, <4>3 DEF Holds
    <3> QED BY <1>r, <3>1, <3>2
  <2> QED BY <2>1 DEF Told
<1>6. Backed(rows, new, i)
  <2>1. ASSUME NEW ip \in Nat, NEW n \in 1 .. l + 1, Covers(new[n], ip) PROVE \E j \in 1 .. i : Covers(rows[j], ip)
    <3>1. CASE n \in 1 .. l
      <4>1. PICK j \in 1 .. i - 1 : Covers(rows[j], ip) BY <1>0, <1>2, <2>1, <3>1 DEF Right, Backed
      <4> QED BY <1>r, <4>1
    <3>2. CASE n = l + 1
      <4>1. row.from <= ip /\ ip <= rows[i].to BY <1>2, <2>1, <3>2 DEF Covers
      <4>2. rows[i].from <= row.from BY DEF EndsAt
      <4>3. rows[i].from \in Nat /\ row.from \in Nat
        <5>1. rows[i] \in Ranges(values) OBVIOUS
        <5> QED BY <5>1 DEF Ranges
      <4>4. Covers(rows[i], ip) BY <4>1, <4>2, <4>3 DEF Covers
      <4> QED BY <4>4
    <3> QED BY <1>2a, <3>1, <3>2
  <2> QED BY <1>1, <2>1 DEF Backed
<1> QED BY <1>1, <1>3, <1>4, <1>5, <1>6 DEF Right, new

LEMMA Dropped ==
    ASSUME NEW values, NEW rows \in Seq(Ranges(values)), NEW i \in 1 .. Len(rows),
           NEW table, Right(rows, values, table, i - 1),
           \A ip \in Nat : ~Tells(rows, ip, i)
    PROVE  Right(rows, values, table, i)
<1>r. i \in Nat /\ i - 1 \in Nat /\ (\A j \in 1 .. i : j \in 1 .. i - 1 \/ j = i) /\ \A j \in 1 .. i - 1 : j \in 1 .. i
  OBVIOUS
<1>1. Ends(rows, table, i) BY <1>r DEF Right, Ends
<1>2. Told(rows, table, i) BY <1>r DEF Right, Told
<1>3. Backed(rows, table, i)
  <2>1. ASSUME NEW ip \in Nat, NEW n \in DOMAIN table, Covers(table[n], ip) PROVE \E j \in 1 .. i : Covers(rows[j], ip)
    <3>1. PICK j \in 1 .. i - 1 : Covers(rows[j], ip) BY <2>1 DEF Right, Backed
    <3> QED BY <1>r, <3>1
  <2> QED BY <2>1 DEF Backed
<1> QED BY <1>1, <1>2, <1>3 DEF Right

LEMMA RangeFields ==
    ASSUME NEW values, NEW row \in Ranges(values)
    PROVE  row.from \in Nat /\ row.to \in Nat /\ row.value \in values
BY DEF Ranges

LEMMA MergeIsRight ==
    ASSUME NEW values, NEW rows \in Seq(Ranges(values)), Sorted(rows), NEW i \in 1 .. Len(rows),
           NEW table, Right(rows, values, table, i - 1)
    PROVE  Right(rows, values, Merge(table, rows[i]), i)
<1> DEFINE row == rows[i]
           last == Last(table)
           l == Len(table)
<1>0. table \in Seq(Ranges(values)) /\ l \in Nat /\ DOMAIN table = 1 .. l BY DEF Right
<1>1. row \in Ranges(values) /\ row.from \in Nat /\ row.to \in Nat
  <2>1. rows[i] \in Ranges(values) OBVIOUS
  <2> QED BY <2>1, RangeFields
<1>2. ASSUME NEW n \in 1 .. l PROVE table[n] \in Ranges(values) /\ table[n].from \in Nat /\ table[n].to \in Nat
  <2>1. table[n] \in Ranges(values) BY <1>0
  <2> QED BY <2>1, RangeFields
<1>3. CASE table = << >>
  <2>1. Merge(table, row) = Append(table, row) BY <1>3 DEF Merge
  <2>2. \A n \in DOMAIN table : table[n].from <= row.from /\ table[n].to < row.from BY <1>3
  <2>3. EndsAt(row, row) BY <1>1 DEF EndsAt
  <2>4. \A ip \in Nat : Tells(rows, ip, i) => Covers(row, ip) BY DEF Tells
  <2> HIDE DEF l
  <2> QED BY <1>1, <2>1, <2>2, <2>3, <2>4, Appended
<1>4. CASE table # << >>
  <2>0. l \in 1 .. l /\ last = table[l] /\ \A n \in 1 .. l : n < l \/ n = l
    <3>1. l \in Nat \ {0} BY <1>0, <1>4
    <3>2. last = table[l] BY DEF Last
    <3> HIDE DEF l, last
    <3> QED BY <3>1, <3>2
  <2>1. PICK j \in 1 .. i - 1 : EndsAt(rows[j], last) BY <1>4 DEF Right, Ends
  <2>2. j \in DOMAIN rows /\ i \in DOMAIN rows /\ j <= i /\ j \in 1 .. Len(rows)
    <3>1. DOMAIN rows = 1 .. Len(rows) /\ Len(rows) \in Nat OBVIOUS
    <3> QED BY <3>1
  <2>3. rows[j].from <= row.from BY <2>2 DEF Sorted
  <2>4. rows[j].from \in Nat /\ rows[j].to \in Nat
    <3>1. rows[j] \in Ranges(values) BY <2>2
    <3> QED BY <3>1 DEF Ranges
  <2>5. last \in Ranges(values) /\ last.from \in Nat /\ last.to \in Nat BY <1>2, <2>0
  <2>6. \A n \in 1 .. l : n < l => table[n].from <= last.from /\ table[n].to < last.from
    BY <1>0, <2>0 DEF Right, Apart
  <2>e. /\ rows[j].to = last.to /\ rows[j].from <= last.from
        /\ last.from <= last.to \/ last.from = rows[j].from
    BY <2>1 DEF EndsAt
  <2> HIDE DEF row, last, l
  <2>7. CASE row.from > last.to
    <3>1. Merge(table, row) = Append(table, row) BY <2>7 DEF Merge, last
    <3>2. last.from <= row.from BY <1>1, <2>3, <2>4, <2>5, <2>e, <2>7
    <3>3. ASSUME NEW n \in 1 .. l PROVE table[n].from <= row.from /\ table[n].to < row.from
      <4>1. CASE n = l BY <2>0, <2>7, <3>2, <4>1, <1>1, <2>5
      <4>2. CASE n < l
        <5>1. table[n].from <= last.from /\ table[n].to < last.from BY <2>6, <4>2
        <5> QED BY <1>1, <1>2, <2>5, <3>2, <5>1
      <4> QED BY <2>0, <4>1, <4>2
    <3>4. EndsAt(row, row) BY <1>1 DEF EndsAt
    <3>5. \A ip \in Nat : Tells(rows, ip, i) => Covers(row, ip) BY DEF Tells, row
    <3> QED BY <1>0, <1>1, <3>1, <3>3, <3>4, <3>5, Appended DEF row
  <2>8. CASE row.from <= last.to
    <3>1. last.from <= last.to BY <1>1, <2>3, <2>4, <2>5, <2>e, <2>8
    <3>2. ASSUME NEW ip \in Nat, Tells(rows, ip, i) PROVE last.to < ip
      <4>1. row.from <= ip /\ ~Covers(rows[j], ip) BY <2>1, <3>2 DEF Tells, Covers, row
      <4>2. rows[j].from <= ip BY <1>1, <2>3, <2>4, <4>1
      <4>3. ~(ip <= rows[j].to) BY <4>1, <4>2 DEF Covers
      <4> QED BY <2>4, <2>5, <2>e, <4>3
    <3>3. CASE last.to >= row.to
      <4>1. Merge(table, row) = table BY <1>1, <1>4, <2>5, <2>8, <3>3 DEF Merge, last
      <4>2. ASSUME NEW ip \in Nat PROVE ~Tells(rows, ip, i)
        <5>1. Tells(rows, ip, i) => ip <= row.to BY DEF Tells, Covers, row
        <5> QED BY <1>1, <2>5, <3>2, <3>3, <5>1
      <4> QED BY <4>1, <4>2, Dropped DEF row
    <3>4. CASE ~(last.to >= row.to)
      <4> DEFINE new == [row EXCEPT !.from = last.to + 1]
      <4>1. Merge(table, row) = Append(table, new) BY <1>1, <1>4, <2>5, <2>8, <3>4 DEF Merge, last
      <4>2. new \in Ranges(values) /\ new.from = last.to + 1 /\ new.to = row.to /\ new.value = row.value
        <5>1. last.to + 1 \in Nat /\ DOMAIN row = {"from", "to", "value"} BY <1>1, <2>5 DEF Ranges
        <5> QED BY <1>1, <5>1 DEF Ranges
      <4> HIDE DEF new
      <4>3. ASSUME NEW n \in 1 .. l PROVE table[n].from <= new.from /\ table[n].to < new.from
        <5>1. CASE n = l BY <2>0, <2>5, <3>1, <4>2, <5>1
        <5>2. CASE n < l
          <6>1. table[n].from <= last.from /\ table[n].to < last.from BY <2>6, <5>2
          <6> QED BY <1>2, <2>5, <3>1, <4>2, <6>1
        <5> QED BY <2>0, <5>1, <5>2
      <4>4. EndsAt(row, new) BY <1>1, <2>5, <2>8, <3>4, <4>2 DEF EndsAt
      <4>5. ASSUME NEW ip \in Nat, Tells(rows, ip, i) PROVE Covers(new, ip)
        <5>1. last.to < ip BY <3>2, <4>5
        <5>2. ip <= row.to BY <4>5 DEF Tells, Covers, row
        <5> QED BY <2>5, <4>2, <5>1, <5>2 DEF Covers
      <4> QED BY <1>0, <4>1, <4>2, <4>3, <4>4, <4>5, Appended DEF row
    <3> QED BY <3>3, <3>4
  <2> QED BY <1>1, <2>5, <2>7, <2>8
<1> QED BY <1>3, <1>4

LEMMA MergedIsRight ==
    ASSUME NEW values, NEW rows \in Seq(Ranges(values)), Sorted(rows)
    PROVE  Right(rows, values, FoldLeft(Merge, << >>, rows), Len(rows))
<1> DEFINE n == Len(rows)
<1>0. n \in Nat OBVIOUS
<1>1. PICK a : /\ FoldLeft(Merge, << >>, rows) = a[n] /\ a[0] = << >>
               /\ \A i \in 1 .. n : a[i] = Merge(a[i - 1], rows[i])
  BY MergeSteps
<1> DEFINE T == {i \in 0 .. n : Right(rows, values, a[i], i)}
<1>2. 0 \in T
  <2>1. Right(rows, values, << >>, 0) BY DEF Right, Apart, Ends, Told, Backed
  <2> QED BY <1>0, <1>1, <2>1
<1>3. ASSUME NEW i \in 1 .. n, i - 1 \in T PROVE i \in T
  <2>1. Right(rows, values, a[i - 1], i - 1) BY <1>3
  <2>2. Right(rows, values, Merge(a[i - 1], rows[i]), i) BY <2>1, MergeIsRight
  <2>3. a[i] = Merge(a[i - 1], rows[i]) BY <1>1
  <2> QED BY <2>2, <2>3
<1> HIDE DEF T, n
<1>4. 0 .. n \subseteq T BY <1>0, <1>2, <1>3, Counting
<1>5. n \in T BY <1>0, <1>4
<1> QED BY <1>1, <1>5 DEF T, n

-----------------------------------------------------------------------------
(* Sorting.                                                                 *)
Below(rows, i) == {j \in DOMAIN rows : RowLess(rows, j, i)}

LEMMA RowLessIsTotal ==
    ASSUME NEW values, NEW rows \in Seq(Ranges(values)), NEW i \in DOMAIN rows, NEW j \in DOMAIN rows
    PROVE  /\ ~RowLess(rows, i, i)
           /\ i = j \/ RowLess(rows, i, j) \/ RowLess(rows, j, i)
           /\ RowLess(rows, i, j) => rows[i].from <= rows[j].from
           /\ \A k \in DOMAIN rows : RowLess(rows, i, j) /\ RowLess(rows, j, k) => RowLess(rows, i, k)
<1>1. \A k \in DOMAIN rows : k \in Nat /\ rows[k].from \in Nat /\ rows[k].to \in Nat
  <2>1. \A k \in DOMAIN rows : k \in Nat /\ rows[k] \in Ranges(values) OBVIOUS
  <2> QED BY <2>1, RangeFields
<1> QED BY <1>1 DEF RowLess

LEMMA BelowCounts ==
    ASSUME NEW values, NEW rows \in Seq(Ranges(values)), NEW i \in DOMAIN rows
    PROVE  /\ Cardinality(Below(rows, i)) \in 0 .. Len(rows) - 1
           /\ \A j \in DOMAIN rows :
                  RowLess(rows, i, j) => Cardinality(Below(rows, i)) < Cardinality(Below(rows, j))
<1>0. DOMAIN rows = 1 .. Len(rows) /\ Len(rows) \in Nat OBVIOUS
<1>1. IsFiniteSet(DOMAIN rows) /\ Cardinality(DOMAIN rows) = Len(rows)
  <2>1. 1 \in Int /\ Len(rows) \in Int BY <1>0
  <2>2. IsFiniteSet(1 .. Len(rows)) /\ Cardinality(1 .. Len(rows)) = IF 1 > Len(rows) THEN 0 ELSE Len(rows) - 1 + 1
    BY <2>1, FS_Interval
  <2> QED BY <1>0, <2>2
<1>2. ASSUME NEW j \in DOMAIN rows
      PROVE  IsFiniteSet(Below(rows, j)) /\ Cardinality(Below(rows, j)) \in Nat
  <2>1. Below(rows, j) \in SUBSET DOMAIN rows BY DEF Below
  <2> QED BY <1>1, <2>1, FS_Subset, FS_CardinalityType
<1>3. Cardinality(Below(rows, i)) < Len(rows)
  <2>1. Below(rows, i) \in SUBSET DOMAIN rows /\ i \notin Below(rows, i) BY RowLessIsTotal DEF Below
  <2>2. Cardinality(Below(rows, i)) <= Len(rows) /\ Cardinality(Below(rows, i)) # Len(rows)
    BY <1>1, <2>1, FS_Subset
  <2> QED BY <1>0, <1>2, <2>2
<1>4. ASSUME NEW j \in DOMAIN rows, RowLess(rows, i, j)
      PROVE  Cardinality(Below(rows, i)) < Cardinality(Below(rows, j))
  <2>1. Below(rows, i) \in SUBSET Below(rows, j) BY <1>4, RowLessIsTotal DEF Below
  <2>2. i \in Below(rows, j) /\ i \notin Below(rows, i) BY <1>4, RowLessIsTotal DEF Below
  <2>3. /\ Cardinality(Below(rows, i)) <= Cardinality(Below(rows, j))
        /\ Cardinality(Below(rows, i)) # Cardinality(Below(rows, j))
    BY <1>2, <2>1, <2>2, FS_Subset
  <2> QED BY <1>2, <2>3
<1> QED BY <1>0, <1>2, <1>3, <1>4

LEMMA EveryPlaceIsTaken ==
    ASSUME NEW values, NEW rows \in Seq(Ranges(values)), NEW n \in 1 .. Len(rows)
    PROVE  \E i \in DOMAIN rows : Cardinality(Below(rows, i)) = n - 1
<1> DEFINE l == Len(rows)
           place == [i \in DOMAIN rows |-> Cardinality(Below(rows, i))]
<1>0. DOMAIN rows = 1 .. l /\ l \in Nat OBVIOUS
<1>1. \A i \in DOMAIN rows : place[i] \in 0 .. l - 1 BY BelowCounts
<1>2. ASSUME NEW i \in DOMAIN rows, NEW j \in DOMAIN rows, place[i] = place[j] PROVE i = j
  <2>1. RowLess(rows, i, j) => place[i] < place[j] BY BelowCounts
  <2>2. RowLess(rows, j, i) => place[j] < place[i] BY BelowCounts
  <2> HIDE DEF place, l
  <2>3. place[i] \in Int /\ place[j] \in Int BY <1>0, <1>1
  <2>4. ~RowLess(rows, i, j) /\ ~RowLess(rows, j, i) BY <1>2, <2>1, <2>2, <2>3
  <2> QED BY <2>4, RowLessIsTotal
<1>3. place \in Injection(DOMAIN rows, 0 .. l - 1) BY <1>1, <1>2 DEF Injection, IsInjective
<1>4. IsFiniteSet(0 .. l - 1) /\ Cardinality(0 .. l - 1) = l
  <2>1. 0 \in Int /\ l - 1 \in Int BY <1>0
  <2> HIDE DEF l
  <2>2. IsFiniteSet(0 .. l - 1) /\ Cardinality(0 .. l - 1) = IF 0 > l - 1 THEN 0 ELSE l - 1 - 0 + 1
    BY <2>1, FS_Interval
  <2> QED BY <1>0, <2>2
<1>5. Cardinality(DOMAIN rows) = l
  <2>1. 1 \in Int /\ l \in Int BY <1>0
  <2> HIDE DEF l
  <2>2. Cardinality(1 .. l) = IF 1 > l THEN 0 ELSE l - 1 + 1 BY <2>1, FS_Interval
  <2> QED BY <1>0, <2>2
<1>6. place \in Surjection(DOMAIN rows, 0 .. l - 1)
  <2> HIDE DEF place, l
  <2> QED BY <1>3, <1>4, <1>5, FS_Injection
<1>7. n - 1 \in 0 .. l - 1 OBVIOUS
<1>8. \E i \in DOMAIN rows : place[i] = n - 1
  <2> HIDE DEF place, l
  <2> QED BY <1>6, <1>7 DEF Surjection
<1> QED BY <1>8

LEMMA OrderedIsSorted ==
    ASSUME NEW values, NEW rows \in Seq(Ranges(values))
    PROVE  /\ Ordered(rows) \in Seq(Ranges(values)) /\ Sorted(Ordered(rows))
           /\ \A n \in DOMAIN Ordered(rows) : \E i \in DOMAIN rows : Ordered(rows)[n] = rows[i]
<1> DEFINE l == Len(rows)
           at == [n \in DOMAIN rows |-> CHOOSE i \in DOMAIN rows : Cardinality(Below(rows, i)) = n - 1]
<1>0. DOMAIN rows = 1 .. l /\ l \in Nat OBVIOUS
<1>1. ASSUME NEW n \in 1 .. l PROVE at[n] \in DOMAIN rows /\ Cardinality(Below(rows, at[n])) = n - 1
  BY EveryPlaceIsTaken
<1>2. Ordered(rows) = [n \in DOMAIN rows |-> rows[at[n]]] BY DEF Ordered, Below
<1> HIDE DEF at
<1>3. ASSUME NEW n \in 1 .. l, NEW m \in 1 .. l, n <= m PROVE rows[at[n]].from <= rows[at[m]].from
  <2>1. CASE at[n] = at[m]
    <3>1. rows[at[n]] \in Ranges(values) BY <1>1
    <3>2. rows[at[n]].from \in Nat BY <3>1, RangeFields
    <3> QED BY <2>1, <3>2
  <2>2. CASE RowLess(rows, at[n], at[m]) BY <1>1, <2>2, RowLessIsTotal
  <2>3. CASE RowLess(rows, at[m], at[n])
    <3>1. Cardinality(Below(rows, at[m])) < Cardinality(Below(rows, at[n])) BY <1>1, <2>3, BelowCounts
    <3>2. m - 1 < n - 1 BY <1>1, <3>1
    <3> QED BY <1>3, <3>2
  <2> QED BY <1>1, <2>1, <2>2, <2>3, RowLessIsTotal
<1>4. \A n \in 1 .. l : rows[at[n]] \in Ranges(values) BY <1>1
<1> HIDE DEF l
<1>5. Ordered(rows) \in Seq(Ranges(values)) BY <1>0, <1>2, <1>4
<1>6. Sorted(Ordered(rows)) BY <1>0, <1>2, <1>3 DEF Sorted
<1>7. \A n \in DOMAIN Ordered(rows) : \E i \in DOMAIN rows : Ordered(rows)[n] = rows[i] BY <1>0, <1>1, <1>2
<1> QED BY <1>5, <1>6, <1>7

-----------------------------------------------------------------------------
(* Reading the rows, and the codes they hold.                               *)

LEMMA KeptTyped ==
    ASSUME NEW values, NEW rows \in Seq(Ranges(values))
    PROVE  Kept(rows) \in Seq(Ranges(values \ {Null}))
<1> DEFINE n == Len(rows)
           A == Seq(Ranges(values \ {Null}))
<1>0. n \in Nat /\ \A i \in 1 .. n : rows[i] \in Ranges(values) OBVIOUS
<1>1. PICK a : /\ FoldLeft(Add, << >>, rows) = a[n] /\ a[0] = << >>
               /\ \A i \in 1 .. n : a[i] = Add(a[i - 1], rows[i])
  BY AddSteps
<1> DEFINE T == {i \in 0 .. n : a[i] \in A}
<1>2. 0 \in T
  <2>1. << >> \in A /\ 0 \in 0 .. n BY <1>0
  <2> HIDE DEF A, n
  <2> QED BY <1>1, <2>1
<1>3. ASSUME NEW i \in 1 .. n, i - 1 \in T PROVE i \in T
  <2>1. a[i - 1] \in A /\ a[i] = Add(a[i - 1], rows[i]) BY <1>1, <1>3
  <2>2. rows[i].value # Null => rows[i] \in Ranges(values \ {Null}) BY <1>0 DEF Ranges
  <2>3. a[i] \in A BY <2>1, <2>2 DEF Add
  <2> QED BY <2>3
<1> HIDE DEF T, n
<1>4. 0 .. n \subseteq T BY <1>0, <1>2, <1>3, Counting
<1>5. n \in T BY <1>0, <1>4
<1> QED BY <1>1, <1>5 DEF T, n, Kept

LEMMA CodesHold ==
    ASSUME NEW values, NEW rows \in Seq(Ranges(values))
    PROVE  /\ DOMAIN Codes(rows) \subseteq Nat
           /\ \A i \in 1 .. Len(Kept(rows)) : \E m \in DOMAIN Codes(rows) : Codes(rows)[m] = Kept(rows)[i].value
<1> DEFINE kept == Kept(rows)
           n == Len(kept)
           real == values \ {Null}
<1>0. kept \in Seq(Ranges(real)) BY KeptTyped
<1> HIDE DEF kept, real
<1>1. n \in Nat /\ (\A j \in 1 .. n : kept[j] \in Ranges(real)) BY <1>0
<1>2. PICK a : /\ FoldLeft(Meet, << >>, kept) = a[n] /\ a[0] = << >>
               /\ \A j \in 1 .. n : a[j] = Meet(a[j - 1], kept[j])
  BY <1>0, MeetSteps
<1> DEFINE Met(j) == a[j] \in Seq(real) /\ \A k \in 1 .. j : \E m \in DOMAIN a[j] : a[j][m] = kept[k].value
           T == {j \in 0 .. n : Met(j)}
<1>3. 0 \in T
  <2>1. << >> \in Seq(real) /\ 0 \in 0 .. n /\ 1 .. 0 = {} BY <1>1
  <2>2. Met(0) BY <1>2, <2>1
  <2> HIDE DEF n
  <2> QED BY <2>1, <2>2
<1>4. ASSUME NEW j \in 1 .. n, j - 1 \in T PROVE j \in T
  <2> DEFINE old == a[j - 1]
             value == kept[j].value
  <2>1. old \in Seq(real) /\ \A k \in 1 .. j - 1 : \E m \in DOMAIN old : old[m] = kept[k].value BY <1>4
  <2>2. value \in real BY <1>1 DEF Ranges
  <2>3. a[j] = IF value \in Range(old) THEN old ELSE Append(old, value) BY <1>2 DEF Meet
  <2>4. \A k \in 1 .. j : k \in 1 .. j - 1 \/ k = j OBVIOUS
  <2> HIDE DEF old, value
  <2>5. CASE value \in Range(old)
    <3>1. a[j] = old /\ \E m \in DOMAIN old : old[m] = value BY <2>3, <2>5 DEF Range
    <3>2. Met(j) BY <2>1, <2>4, <3>1 DEF value
    <3> QED BY <3>2
  <2>6. CASE value \notin Range(old)
    <3> DEFINE l == Len(old)
    <3>0. l \in Nat /\ DOMAIN old = 1 .. l BY <2>1
    <3>1. /\ a[j] = Append(old, value) /\ a[j] \in Seq(real) /\ DOMAIN a[j] = 1 .. l + 1
          /\ a[j][l + 1] = value /\ \A m \in 1 .. l : a[j][m] = old[m]
      BY <2>1, <2>2, <2>3, <2>6
    <3> HIDE DEF l
    <3>2. l + 1 \in DOMAIN a[j] /\ \A m \in 1 .. l : m \in DOMAIN a[j] BY <3>0, <3>1
    <3>3. ASSUME NEW k \in 1 .. j PROVE \E m \in DOMAIN a[j] : a[j][m] = kept[k].value
      <4>1. CASE k = j BY <3>1, <3>2, <4>1 DEF value
      <4>2. CASE k \in 1 .. j - 1
        <5>1. PICK m \in 1 .. l : old[m] = kept[k].value BY <2>1, <3>0, <4>2
        <5> QED BY <3>1, <3>2, <5>1
      <4> QED BY <2>4, <4>1, <4>2
    <3>4. Met(j) BY <3>1, <3>3
    <3> QED BY <3>4
  <2> QED BY <2>5, <2>6
<1> HIDE DEF T, n
<1>5. 0 .. n \subseteq T BY <1>1, <1>3, <1>4, Counting
<1>6. n \in T BY <1>1, <1>5
<1>7. a[n] \in Seq(real) /\ \A i \in 1 .. n : \E m \in DOMAIN a[n] : a[n][m] = kept[i].value BY <1>6 DEF T
<1>8. Codes(rows) = a[n] /\ n = Len(kept) BY <1>2 DEF Codes, kept, n
<1>9. DOMAIN a[n] \subseteq Nat BY <1>7
<1> QED BY <1>7, <1>8, <1>9 DEF kept

-----------------------------------------------------------------------------
(* Bisection.                                                               *)
Reads(columns, table) ==
    /\ DOMAIN columns["start"] = DOMAIN table /\ Len(columns["end"]) = Len(table) /\ Len(columns["value"]) = Len(table)
    /\ \A n \in DOMAIN table : columns["start"][n] = table[n].from /\ columns["end"][n] = table[n].to

Found(columns, ip, n) ==
    IF n > 0 /\ n <= Len(columns["end"]) /\ n <= Len(columns["value"]) /\ ip <= columns["end"][n]
    THEN columns["value"][n] ELSE Null

LEMMA FindCounts ==
    ASSUME NEW columns, NEW table, DOMAIN columns["start"] = DOMAIN table,
           \A i \in DOMAIN table : columns["start"][i] = table[i].from,
           NEW ip, NEW n \in Nat, {i \in DOMAIN table : table[i].from <= ip} = 1 .. n
    PROVE  Find(columns, ip) = Found(columns, ip, n)
<1>1. {i \in DOMAIN columns["start"] : columns["start"][i] <= ip} = 1 .. n OBVIOUS
<1>2. Cardinality(1 .. n) = n
  <2>1. 1 \in Int /\ n \in Int OBVIOUS
  <2>2. Cardinality(1 .. n) = IF 1 > n THEN 0 ELSE n - 1 + 1 BY <2>1, FS_Interval
  <2> QED BY <2>2
<1> QED BY <1>1, <1>2 DEF Find, Found

LEMMA FindHits ==
    ASSUME NEW values, NEW table \in Seq(Ranges(values)), Apart(table),
           NEW columns, Reads(columns, table),
           NEW ip \in Nat, NEW n \in DOMAIN table, Covers(table[n], ip)
    PROVE  Find(columns, ip) = columns["value"][n]
<1> DEFINE l == Len(table)
           S == {i \in DOMAIN table : table[i].from <= ip}
<1>0. l \in Nat /\ DOMAIN table = 1 .. l /\ n \in 1 .. l OBVIOUS
<1>1. \A i \in 1 .. l : table[i] \in Ranges(values) OBVIOUS
<1> HIDE DEF l
<1>2. \A i \in 1 .. l : table[i].from \in Nat /\ table[i].to \in Nat BY <1>1, RangeFields
<1>3. table[n].from <= ip /\ ip <= table[n].to BY DEF Covers
<1>4. ASSUME NEW i \in 1 .. l, i <= n PROVE table[i].from <= ip
  <2>1. i = n \/ i < n BY <1>0, <1>4
  <2>2. i < n => table[i].from <= table[n].from BY <1>0 DEF Apart
  <2> QED BY <1>0, <1>2, <1>3, <2>1, <2>2
<1>5. ASSUME NEW i \in 1 .. l, i > n PROVE ~(table[i].from <= ip)
  <2>1. table[n].to < table[i].from BY <1>0, <1>5 DEF Apart
  <2> QED BY <1>0, <1>2, <1>3, <2>1
<1>6. S = 1 .. n BY <1>0, <1>4, <1>5
<1>7. n \in Nat BY <1>0
<1> HIDE DEF S
<1>8. Find(columns, ip) = Found(columns, ip, n) BY <1>6, <1>7, FindCounts DEF Reads, S
<1> QED BY <1>0, <1>3, <1>8 DEF Found, Reads, l

LEMMA FindMisses ==
    ASSUME NEW values, NEW table \in Seq(Ranges(values)), Apart(table),
           NEW columns, Reads(columns, table),
           NEW ip \in Nat, \A n \in DOMAIN table : ~Covers(table[n], ip)
    PROVE  Find(columns, ip) = Null
<1> DEFINE l == Len(table)
           S == {i \in DOMAIN table : table[i].from <= ip}
<1>0. l \in Nat /\ DOMAIN table = 1 .. l OBVIOUS
<1>1. \A i \in 1 .. l : table[i] \in Ranges(values) OBVIOUS
<1> HIDE DEF l
<1>2. \A i \in 1 .. l : table[i].from \in Nat /\ table[i].to \in Nat BY <1>1, RangeFields
<1>3. S \in SUBSET (1 .. l) BY <1>0
<1>4. CASE S = {}
  <2>1. S = 1 .. 0 BY <1>4
  <2> HIDE DEF S
  <2>2. Find(columns, ip) = Found(columns, ip, 0) BY <2>1, FindCounts DEF Reads, S
  <2> QED BY <2>2 DEF Found
<1>5. CASE S # {}
  <2> DEFINE n == Max(S)
  <2>1. n \in S /\ \A i \in S : i <= n
    <3> HIDE DEF S
    <3> QED BY <1>0, <1>3, <1>5, GreatestNumber
  <2> HIDE DEF n
  <2>2. n \in 1 .. l /\ table[n].from <= ip BY <1>3, <2>1
  <2>3. ASSUME NEW i \in 1 .. l, i <= n PROVE table[i].from <= ip
    <3>1. i = n \/ i < n BY <2>2, <2>3
    <3>2. i < n => table[i].from <= table[n].from BY <1>0, <2>2 DEF Apart
    <3> QED BY <1>2, <2>2, <3>1, <3>2
  <2>4. S = 1 .. n BY <1>0, <2>1, <2>2, <2>3
  <2>5. n \in Nat BY <1>0, <2>2
  <2> HIDE DEF S
  <2>6. Find(columns, ip) = Found(columns, ip, n) BY <2>4, <2>5, FindCounts DEF Reads, S
  <2>7. ~(ip <= columns["end"][n]) BY <1>0, <2>2 DEF Reads, Covers
  <2> QED BY <2>6, <2>7 DEF Found
<1> QED BY <1>4, <1>5

-----------------------------------------------------------------------------
(* The tables of a source file.                                             *)
Named(source, kind) == {source[kind][i].value : i \in DOMAIN source[kind]} \ {Null}
Rows(source, kind) == Ordered(Kept(source[kind]))

LEMMA TableIsRight ==
    ASSUME NEW source \in Databases, NEW kind \in Range(Kinds)
    PROVE  /\ Rows(source, kind) \in Seq(Ranges(Named(source, kind)))
           /\ \A j \in DOMAIN Rows(source, kind) :
                  \E m \in DOMAIN Codes(source[kind]) : Codes(source[kind])[m] = Rows(source, kind)[j].value
           /\ DOMAIN Codes(source[kind]) \subseteq Nat
           /\ Right(Rows(source, kind), Named(source, kind), Table(source[kind]), Len(Rows(source, kind)))
<1> DEFINE rows == source[kind]
           all == {rows[i].value : i \in DOMAIN rows}
<1>1. rows \in Seq(Ranges(all))
  <2>1. PICK n \in DOMAIN Kinds : kind = Kinds[n] BY DEF Range
  <2> QED BY <2>1, DatabasesAssumption
<1> HIDE DEF rows
<1> HIDE DEF all
<1>2. Kept(rows) \in Seq(Ranges(all \ {Null})) BY <1>1, KeptTyped
<1>3. /\ Ordered(Kept(rows)) \in Seq(Ranges(all \ {Null})) /\ Sorted(Ordered(Kept(rows)))
      /\ \A n \in DOMAIN Ordered(Kept(rows)) : \E i \in DOMAIN Kept(rows) : Ordered(Kept(rows))[n] = Kept(rows)[i]
  BY <1>2, OrderedIsSorted
<1>4. Right(Ordered(Kept(rows)), all \ {Null}, Table(rows), Len(Ordered(Kept(rows))))
  BY <1>3, MergedIsRight DEF Table
<1>5. DOMAIN Kept(rows) = 1 .. Len(Kept(rows)) BY <1>2
<1>6. /\ DOMAIN Codes(rows) \subseteq Nat
      /\ \A i \in DOMAIN Kept(rows) : \E m \in DOMAIN Codes(rows) : Codes(rows)[m] = Kept(rows)[i].value
  BY <1>1, <1>5, CodesHold
<1>7. \A j \in DOMAIN Ordered(Kept(rows)) :
          \E m \in DOMAIN Codes(rows) : Codes(rows)[m] = Ordered(Kept(rows))[j].value
  BY <1>3, <1>6
<1> QED BY <1>3, <1>4, <1>6, <1>7 DEF Rows, Named, rows, all

\* What a source says is what its first row that holds the address says.
LEMMA SaysFirst ==
    ASSUME NEW source, NEW kind, NEW values, Rows(source, kind) \in Seq(Ranges(values)), NEW ip \in Public
    PROVE  \/ /\ \A j \in DOMAIN Rows(source, kind) : ~Covers(Rows(source, kind)[j], ip)
              /\ Says(source, kind, ip) = Null
           \/ \E j \in DOMAIN Rows(source, kind) :
                  Tells(Rows(source, kind), ip, j) /\ Says(source, kind, ip) = Rows(source, kind)[j].value
<1> DEFINE rows == Rows(source, kind)
           holding == {n \in DOMAIN rows : rows[n].from <= ip /\ ip <= rows[n].to}
           first == CHOOSE n \in holding : \A m \in holding : n <= m
<1>0. DOMAIN rows = 1 .. Len(rows) /\ Len(rows) \in Nat OBVIOUS
<1>1. Says(source, kind, ip) = IF holding = {} THEN Null ELSE rows[first].value BY DEF Says, Rows
<1> HIDE DEF rows
<1>2. holding \subseteq Nat BY <1>0
<1>3. CASE holding = {} BY <1>1, <1>3 DEF Covers, rows
<1>4. CASE holding # {}
  <2>1. \E n \in holding : \A m \in holding : n <= m
    <3> HIDE DEF holding
    <3> QED BY <1>2, <1>4, LeastNumber
  <2>2. first \in holding /\ \A m \in holding : first <= m BY <2>1
  <2> HIDE DEF first
  <2>3. first \in DOMAIN rows /\ Covers(rows[first], ip) /\ first \in Nat /\ first \in 1 .. Len(rows)
    BY <1>0, <2>2 DEF Covers
  <2>4. ASSUME NEW k \in 1 .. first - 1 PROVE ~Covers(rows[k], ip)
    <3>1. k \in DOMAIN rows /\ ~(first <= k) BY <1>0, <2>3
    <3>2. k \notin holding BY <2>2, <3>1
    <3> QED BY <3>1, <3>2 DEF Covers
  <2>5. Tells(rows, ip, first) BY <2>3, <2>4 DEF Tells
  <2> HIDE DEF holding
  <2> QED BY <1>1, <1>4, <2>3, <2>5 DEF rows
<1> QED BY <1>3, <1>4

Tables(columns, source, kind) == \A part \in Range(Parts) : columns[part] = Column(source, kind, part)

LEMMA FoundIsSaid ==
    ASSUME NEW source \in Databases, NEW kind \in Range(Kinds), NEW ip \in Nat, ip \in Public,
           NEW columns, Tables(columns, source, kind)
    PROVE  \/ Find(columns, ip) = Null /\ Says(source, kind, ip) = Null
           \/ /\ Find(columns, ip) = Stored(source, kind, Says(source, kind, ip)) /\ Says(source, kind, ip) # Null
              /\ \E m \in DOMAIN Codes(source[kind]) : Codes(source[kind])[m] = Says(source, kind, ip)
              /\ DOMAIN Codes(source[kind]) \subseteq Nat
<1> DEFINE rows == Rows(source, kind)
           table == Table(source[kind])
           values == Named(source, kind)
<1>1. /\ rows \in Seq(Ranges(values)) /\ Right(rows, values, table, Len(rows))
      /\ \A j \in DOMAIN rows :
             \E m \in DOMAIN Codes(source[kind]) : Codes(source[kind])[m] = rows[j].value
      /\ DOMAIN Codes(source[kind]) \subseteq Nat
  BY TableIsRight
<1>2. /\ columns["start"] = [n \in DOMAIN table |-> table[n].from]
      /\ columns["end"] = [n \in DOMAIN table |-> table[n].to]
      /\ columns["value"] = [n \in DOMAIN table |-> Stored(source, kind, table[n].value)]
  <2>1. "start" \in Range(Parts) /\ "end" \in Range(Parts) /\ "value" \in Range(Parts)
    BY DEF Range, Parts
  <2>2. /\ columns["start"] = Column(source, kind, "start")
        /\ columns["end"] = Column(source, kind, "end")
        /\ columns["value"] = Column(source, kind, "value")
    BY <2>1 DEF Tables
  <2> HIDE DEF table
  <2> QED BY <2>2 DEF Column, table
<1>v. values = Named(source, kind) OBVIOUS
<1> HIDE DEF rows, table, values
<1>3. table \in Seq(Ranges(values)) /\ Apart(table) BY <1>1 DEF Right
<1>4. Reads(columns, table)
  <2>1. DOMAIN table = 1 .. Len(table) /\ Len(table) \in Nat BY <1>3
  <2>2. Len(columns["end"]) = Len(table) /\ Len(columns["value"]) = Len(table) BY <1>2, <2>1
  <2> QED BY <1>2, <2>2 DEF Reads
<1>5. DOMAIN rows = 1 .. Len(rows) /\ Len(rows) \in Nat BY <1>1
<1>6. CASE (\A j \in DOMAIN rows : ~Covers(rows[j], ip)) /\ Says(source, kind, ip) = Null
  <2>1. \A n \in DOMAIN table : ~Covers(table[n], ip) BY <1>1, <1>5, <1>6 DEF Right, Backed
  <2> QED BY <1>3, <1>4, <1>6, <2>1, FindMisses
<1>7. ASSUME NEW j \in DOMAIN rows, Tells(rows, ip, j), Says(source, kind, ip) = rows[j].value
      PROVE  \/ Find(columns, ip) = Null /\ Says(source, kind, ip) = Null
             \/ /\ Find(columns, ip) = Stored(source, kind, Says(source, kind, ip)) /\ Says(source, kind, ip) # Null
                /\ \E m \in DOMAIN Codes(source[kind]) : Codes(source[kind])[m] = Says(source, kind, ip)
                /\ DOMAIN Codes(source[kind]) \subseteq Nat
  <2>1. Holds(table, ip, rows[j].value) BY <1>1, <1>5, <1>7 DEF Right, Told
  <2>2. PICK n \in DOMAIN table : Covers(table[n], ip) /\ table[n].value = rows[j].value BY <2>1 DEF Holds
  <2>3. Find(columns, ip) = columns["value"][n] BY <1>3, <1>4, <2>2, FindHits
  <2>4. Find(columns, ip) = Stored(source, kind, Says(source, kind, ip)) BY <1>2, <1>7, <2>2, <2>3
  <2>5. rows[j].value # Null
    <3>1. rows[j] \in Ranges(values) BY <1>1
    <3>2. rows[j].value \in values BY <3>1, RangeFields
    <3> QED BY <3>2 DEF values, Named
  <2> QED BY <1>1, <1>7, <2>4, <2>5
<1> QED BY <1>1, <1>6, <1>7, SaysFirst DEF rows

-----------------------------------------------------------------------------
(* What a process holds that has read one directory only.                   *)
Columns == {Column(source, kind, part) : source \in Databases, kind \in Range(Kinds), part \in Range(Parts)}

\* The tables it has, and the parts of the one it is reading.
FromOne(source) ==
    /\ cached.countries = Codes(source["country"])
    /\ \A kind \in DOMAIN cached.tables :
           cached.tables[kind] = [part \in Range(Parts) |-> Column(source, kind, part)]
    /\ \A n \in 1 .. Len(reader.load) : reader.load[n] = Column(source, NextKind, Parts[n])

Answered(source) == reader.step = "answered" => reader.answer = AnswerOf(source, reader.ip)

Live == cached # Null \/ reader.step \in {"open", "lookup", "answered"}

Whole ==
    /\ cached.from \subseteq Directories \cup {Null} /\ cached.from # {}
    /\ DOMAIN cached.tables \subseteq Range(Kinds)
    /\ \A d \in Directories : cached.from = {d} => FromOne(d.source) /\ Answered(d.source)

Reading ==
    /\ reader.load \in Seq(Columns) /\ Len(reader.load) \in 0 .. 2
    /\ reader.load # << >> => reader.step = "lookup" /\ Missing # {}
    /\ reader.step = "lookup" => reader.ip \in Public /\ reader.ip \in Addresses

AnswersInv == HealInv /\ Reading /\ (Live => Whole)

LEMMA SourceOf == ASSUME NEW d \in Directories PROVE d.source \in Databases /\ d # Null
BY NullAssumption DEF Directories, Directory

LEMMA TheKinds == Range(Kinds) = {"country", "asn"} /\ DOMAIN Kinds = 1 .. 2
BY DEF Range, Kinds

LEMMA TheParts ==
    /\ DOMAIN Parts = 1 .. 3 /\ Range(Parts) = {"start", "end", "value"}
    /\ Parts[1] = "start" /\ Parts[2] = "end" /\ Parts[3] = "value"
BY DEF Range, Parts

LEMMA AnswersInit == GeoInit => AnswersInv
<1> SUFFICES ASSUME GeoInit PROVE AnswersInv
  OBVIOUS
<1>1. HealInv BY HealInit
<1>2. << >> \in Seq(Columns) OBVIOUS
<1>3. Reading BY <1>2 DEF GeoInit, Reading, Closed
<1>4. ~Live BY DEF GeoInit, Live, Closed
<1> QED BY <1>1, <1>3, <1>4 DEF AnswersInv

LEMMA HeldIsSaid ==
    ASSUME AnswersInv, reader.step = "lookup", Missing = {},
           NEW d \in Directories, cached.from = {d}, NEW kind \in Range(Kinds)
    PROVE  Held(kind, reader.ip) = Says(d.source, kind, reader.ip)
<1> DEFINE ip == reader.ip
           source == d.source
           columns == cached.tables[kind]
           place == IF columns = Null THEN Null ELSE Find(columns, ip)
           said == Says(source, kind, ip)
<1>0. source \in Databases BY SourceOf
<1>1. FromOne(source) BY DEF AnswersInv, Live, Whole
<1>2. kind \in DOMAIN cached.tables BY DEF Missing, Range
<1>3. columns = [part \in Range(Parts) |-> Column(source, kind, part)] BY <1>1, <1>2 DEF FromOne
<1>4. ip \in Public /\ ip \in Nat BY DatabasesAssumption DEF AnswersInv, Reading
<1>5. columns # Null /\ Tables(columns, source, kind)
  <2> HIDE DEF columns, source
  <2> QED BY <1>0, <1>3, TablesAssumption DEF Tables
<1>6. Held(kind, ip) = CASE place = Null -> Null
                         [] place # Null /\ kind = "asn" -> place
                         [] OTHER -> IF place \in DOMAIN cached.countries
                                     THEN cached.countries[place] ELSE "IndexError"
  BY DEF Held
<1>7. cached.countries = Codes(source["country"]) BY <1>1 DEF FromOne
<1>8. place = Find(columns, ip) BY <1>5
<1> HIDE DEF ip, source, columns
<1>9. \/ place = Null /\ said = Null
      \/ /\ place = Stored(source, kind, said) /\ said # Null
         /\ \E m \in DOMAIN Codes(source[kind]) : Codes(source[kind])[m] = said
         /\ DOMAIN Codes(source[kind]) \subseteq Nat
  BY <1>0, <1>4, <1>5, <1>8, FoundIsSaid
<1> HIDE DEF place, said
<1>10. CASE place = Null /\ said = Null BY <1>6, <1>10 DEF said, ip, source
<1>11. ASSUME place = Stored(source, kind, said), said # Null,
              \E m \in DOMAIN Codes(source[kind]) : Codes(source[kind])[m] = said,
              DOMAIN Codes(source[kind]) \subseteq Nat
       PROVE  Held(kind, ip) = said
  <2>1. CASE kind = "asn"
    <3>1. place = said BY <1>11, <2>1 DEF Stored
    <3> QED BY <1>6, <1>11, <2>1, <3>1
  <2>2. CASE kind = "country"
    <3>1. place = CHOOSE m \in DOMAIN Codes(source[kind]) : Codes(source[kind])[m] = said
      BY <1>11, <2>2 DEF Stored
    <3>2. place \in DOMAIN Codes(source[kind]) /\ Codes(source[kind])[place] = said BY <1>11, <3>1
    <3>3. place # Null /\ kind # "asn" BY <1>11, <2>2, <3>2, NullAssumption
    <3>4. place \in DOMAIN cached.countries /\ cached.countries[place] = said BY <1>7, <2>2, <3>2
    <3> QED BY <1>6, <3>3, <3>4
  <2> QED BY <2>1, <2>2, TheKinds
<1> QED BY <1>9, <1>10, <1>11 DEF said, ip, source

\* What a process has open is as whole as before if it has only moved on from what it was reading.
LEMMA MovesOn ==
    ASSUME AnswersInv, cached' = cached, reader'.load = << >>, Live' => Live,
           reader'.step = "lookup" => reader'.ip \in Public /\ reader'.ip \in Addresses,
           \A d \in Directories : Live /\ cached.from = {d} => Answered(d.source)'
    PROVE  (Reading /\ (Live => Whole))'
<1>1. << >> \in Seq(Columns) /\ Len(<< >>) = 0 OBVIOUS
<1>2. Reading' BY <1>1 DEF Reading
<1>3. ASSUME Live' PROVE Whole'
  <2>1. Live /\ Whole BY <1>3 DEF AnswersInv
  <2>2. ASSUME NEW d \in Directories, cached.from = {d} PROVE FromOne(d.source)' /\ Answered(d.source)'
    <3>1. FromOne(d.source) BY <2>1, <2>2 DEF Whole
    <3>2. FromOne(d.source)' BY <1>1, <3>1 DEF FromOne
    <3> QED BY <2>1, <2>2, <3>2
  <2> QED BY <2>1, <2>2 DEF Whole
<1> QED BY <1>2, <1>3

LEMMA StatIsWhole == AnswersInv /\ Stat => (Reading /\ (Live => Whole))'
<1> SUFFICES ASSUME AnswersInv, Stat PROVE (Reading /\ (Live => Whole))'
  OBVIOUS
<1>1. cached' = cached /\ reader.load = << >> BY DEF Stat, AnswersInv, Reading
<1>2. reader'.load = << >> /\ reader'.step \in {"closed", "open", "manifest"} /\ (Live' => Live)
  <2>1. CASE final = Null BY <1>1, <2>1 DEF Stat, Closed, Live
  <2>2. CASE final # Null
    <3>1. Fields(reader, {"step", "stamp", "ip", "load", "answer"}) BY DEF AnswersInv, HealInv, CacheInv
    <3>2. /\ reader' = [reader EXCEPT !.stamp = final.stamp, !.step = reader'.step]
          /\ reader'.step = IF cached # Null /\ cached.stamp = final.stamp THEN "open" ELSE "manifest"
      BY <2>2, <3>1 DEF Stat, Fields
    <3> QED BY <1>1, <3>1, <3>2 DEF Live, Fields
  <2> QED BY <2>1, <2>2
<1>3. \A d \in Directories : Answered(d.source)' BY <1>2 DEF Answered
<1> QED BY <1>1, <1>2, <1>3, MovesOn

LEMMA CloseIsWhole == AnswersInv /\ Close => (Reading /\ (Live => Whole))'
<1> SUFFICES ASSUME AnswersInv, Close PROVE (Reading /\ (Live => Whole))'
  OBVIOUS
<1>1. cached' = cached /\ reader'.load = << >> /\ reader'.step = "closed" BY DEF Close, Closed
<1>2. Live' => Live BY <1>1 DEF Live
<1>3. \A d \in Directories : Answered(d.source)' BY <1>1 DEF Answered
<1> QED BY <1>1, <1>2, <1>3, MovesOn

LEMMA AskIsWhole == ASSUME NEW ip \in Addresses PROVE AnswersInv /\ Ask(ip) => (Reading /\ (Live => Whole))'
<1> SUFFICES ASSUME AnswersInv, Ask(ip) PROVE (Reading /\ (Live => Whole))'
  OBVIOUS
<1>1. cached' = cached /\ reader.load = << >> /\ Live BY DEF Ask, AnswersInv, Reading, Live
<1>2. /\ reader'.load = << >> /\ reader'.step = IF ip \in Public THEN "lookup" ELSE "answered"
      /\ reader'.ip = ip /\ reader'.answer = [kind \in Range(Kinds) |-> Null]
  <2>1. Fields(reader, {"step", "stamp", "ip", "load", "answer"}) BY DEF AnswersInv, HealInv, CacheInv
  <2> QED BY <1>1, <2>1 DEF Ask, Fields
<1>3. ASSUME NEW d \in Directories PROVE Answered(d.source)'
  <2>1. ip \notin Public => AnswerOf(d.source, ip) = [kind \in Range(Kinds) |-> Null] BY DEF AnswerOf, Says
  <2> QED BY <1>2, <2>1 DEF Answered
<1>4. reader'.step = "lookup" => reader'.ip \in Public /\ reader'.ip \in Addresses BY <1>2
<1> QED BY <1>1, <1>2, <1>3, <1>4, MovesOn

LEMMA AnswerIsWhole == AnswersInv /\ Answer => (Reading /\ (Live => Whole))'
<1> SUFFICES ASSUME AnswersInv, Answer PROVE (Reading /\ (Live => Whole))'
  OBVIOUS
<1>1. cached' = cached /\ reader.load = << >> /\ Live /\ reader.step = "lookup" /\ Missing = {}
  BY DEF Answer, AnswersInv, Reading, Live
<1>2. /\ reader'.load = << >> /\ reader'.step = "answered" /\ reader'.ip = reader.ip
      /\ reader'.answer = [kind \in Range(Kinds) |-> Held(kind, reader.ip)]
  <2>1. Fields(reader, {"step", "stamp", "ip", "load", "answer"}) BY DEF AnswersInv, HealInv, CacheInv
  <2> QED BY <1>1, <2>1 DEF Answer, Fields
<1>3. ASSUME NEW d \in Directories, cached.from = {d} PROVE Answered(d.source)'
  <2>1. \A kind \in Range(Kinds) : Held(kind, reader.ip) = Says(d.source, kind, reader.ip)
    BY <1>1, <1>3, HeldIsSaid
  <2>2. reader'.answer = AnswerOf(d.source, reader.ip) BY <1>2, <2>1 DEF AnswerOf
  <2> QED BY <1>2, <2>2 DEF Answered
<1> QED BY <1>1, <1>2, <1>3, MovesOn

LEMMA ReadManifestIsWhole == AnswersInv /\ ReadManifest => (Reading /\ (Live => Whole))'
<1> SUFFICES ASSUME AnswersInv, ReadManifest PROVE (Reading /\ (Live => Whole))'
  OBVIOUS
<1>1. reader.load = << >> BY DEF ReadManifest, AnswersInv, Reading
<1>2. CASE final = Null
  <2>1. cached' = cached /\ reader'.load = << >> /\ reader'.step = "closed" BY <1>2 DEF ReadManifest, Closed
  <2>2. Live' => Live BY <2>1 DEF Live
  <2>3. \A d \in Directories : Answered(d.source)' BY <2>1 DEF Answered
  <2> QED BY <2>1, <2>2, <2>3, MovesOn
<1>3. CASE final # Null
  <2>1. reader'.load = << >> /\ reader'.step = "open"
    <3>1. Fields(reader, {"step", "stamp", "ip", "load", "answer"}) BY DEF AnswersInv, HealInv, CacheInv
    <3> QED BY <1>1, <1>3, <3>1 DEF ReadManifest, Fields
  <2>2. /\ cached'.from = {final} /\ cached'.countries = Codes(final.source["country"])
        /\ DOMAIN cached'.tables = {}
    BY <1>3 DEF ReadManifest
  <2>3. final \in Directories BY <1>3 DEF AnswersInv, HealInv, CompilerInv, Places
  <2>4. << >> \in Seq(Columns) /\ Len(<< >>) = 0 OBVIOUS
  <2>5. Reading' BY <2>1, <2>4 DEF Reading
  <2>6. ASSUME NEW d \in Directories, cached'.from = {d} PROVE FromOne(d.source)' /\ Answered(d.source)'
    <3>1. d = final BY <2>2, <2>6
    <3> QED BY <2>1, <2>2, <2>4, <3>1 DEF FromOne, Answered
  <2>7. Whole' BY <2>2, <2>3, <2>6 DEF Whole
  <2> QED BY <2>5, <2>7
<1> QED BY <1>2, <1>3

LEMMA NextKindIsKind == ASSUME Missing # {} PROVE NextKind \in Range(Kinds)
<1> DEFINE first == CHOOSE n \in Missing : \A m \in Missing : n <= m
<1>1. Missing \subseteq {1, 2} BY TheKinds DEF Missing
<1>2. \E n \in Missing : \A m \in Missing : n <= m
  <2>1. CASE 1 \in Missing BY <1>1, <2>1
  <2>2. CASE 1 \notin Missing
    <3>1. Missing = {2} BY <1>1, <2>2
    <3> QED BY <3>1
  <2> QED BY <2>1, <2>2
<1>3. first \in Missing BY <1>2
<1> HIDE DEF first
<1>4. first \in DOMAIN Kinds BY <1>3 DEF Missing
<1> QED BY <1>4 DEF NextKind, Range, first

LEMMA NoFilesIsWhole == AnswersInv /\ NoFiles => (Reading /\ (Live => Whole))'
<1> SUFFICES ASSUME AnswersInv, NoFiles PROVE (Reading /\ (Live => Whole))'
  OBVIOUS
<1>1. Live /\ Whole /\ Reading /\ Opened /\ Missing # {} /\ reader.step = "lookup"
  BY DEF NoFiles, AnswersInv, HealInv, CacheInv, Live
<1>2. CASE reader.load # << >>
  <2>1. cached' = cached /\ reader'.load = << >> /\ reader'.step = "closed" BY <1>2 DEF NoFiles, Closed
  <2>2. \A d \in Directories : Answered(d.source)' BY <2>1 DEF Answered
  <2> QED BY <1>1, <2>1, <2>2, MovesOn
<1>3. CASE reader.load = << >>
  <2>1. /\ reader' = reader /\ cached'.from = cached.from \cup {Null}
        /\ DOMAIN cached'.tables = DOMAIN cached.tables \cup {NextKind}
    <3>1. DOMAIN Remember(NextKind, Null) = DOMAIN cached.tables \cup {NextKind} BY DEF Remember
    <3>2. DOMAIN cached = {"stamp", "countries", "tables", "from"} BY <1>1 DEF Opened, Fields
    <3>3. reader' = reader /\ cached' = [cached EXCEPT !.tables = Remember(NextKind, Null), !.from = @ \cup {Null}]
      BY <1>3 DEF NoFiles
    <3> QED BY <3>1, <3>2, <3>3
  <2>2. NextKind \in Range(Kinds) BY <1>1, NextKindIsKind
  <2>3. Reading' BY <1>1, <1>3, <2>1 DEF Reading
  <2>4. \A d \in Directories : cached'.from # {d} BY <2>1, SourceOf
  <2>5. Whole' BY <1>1, <2>1, <2>2, <2>4 DEF Whole
  <2> QED BY <2>3, <2>5
<1> QED BY <1>2, <1>3

LEMMA LoadPartIsWhole == AnswersInv /\ LoadPart => (Reading /\ (Live => Whole))'
<1> SUFFICES ASSUME AnswersInv, LoadPart PROVE (Reading /\ (Live => Whole))'
  OBVIOUS
<1> DEFINE l == Len(reader.load)
           part == Parts[l + 1]
           column == Column(final.source, NextKind, part)
           load == Append(reader.load, column)
<1>1. Live /\ Whole /\ Reading /\ Opened /\ Missing # {} /\ reader.step = "lookup" /\ final # Null
  BY DEF LoadPart, AnswersInv, HealInv, CacheInv, Live
<1>2. l \in 0 .. 2 /\ NextKind \in Range(Kinds) /\ reader.load \in Seq(Columns)
  BY <1>1, NextKindIsKind DEF Reading
<1>3. final \in Directories /\ final.source \in Databases
  BY <1>1, SourceOf DEF AnswersInv, HealInv, CompilerInv, Places
<1>4. part \in Range(Parts)
  <2> HIDE DEF l
  <2>0. l + 1 \in 1 .. 3 BY <1>2
  <2>1. l + 1 \in DOMAIN Parts BY <2>0, TheParts
  <2> QED BY <2>1 DEF Range
<1>5. column \in Columns BY <1>2, <1>3, <1>4 DEF Columns
<1>6. Fields(reader, {"step", "stamp", "ip", "load", "answer"}) BY DEF AnswersInv, HealInv, CacheInv
<1> HIDE DEF part
<1> HIDE DEF column
<1>7. /\ load \in Seq(Columns) /\ Len(load) = l + 1 /\ load[l + 1] = column
      /\ \A n \in 1 .. l : load[n] = reader.load[n]
  BY <1>2, <1>5
<1>8. /\ cached'.from = cached.from \cup {final} /\ cached'.countries = cached.countries
      /\ cached'.tables = IF Len(load) < 3 THEN cached.tables
                          ELSE Remember(NextKind, [p \in Range(Parts) |->
                                                       load[CHOOSE n \in DOMAIN Parts : Parts[n] = p]])
      /\ reader'.load = IF Len(load) < 3 THEN load ELSE << >>
      /\ reader'.step = "lookup" /\ reader'.ip = reader.ip
  BY <1>1, <1>6 DEF LoadPart, Opened, Fields, part, column
<1>l. l = Len(reader.load) OBVIOUS
<1> HIDE DEF load, l
<1>9. ASSUME NEW d \in Directories, cached'.from = {d}
      PROVE  d = final /\ FromOne(final.source)
  <2>1. d = final /\ cached.from = {final} BY <1>1, <1>8, <1>9 DEF Whole
  <2> QED BY <1>1, <1>3, <2>1 DEF Whole
<1>10. \A d \in Directories : Answered(d.source)' BY <1>8 DEF Answered
<1>11. cached'.from \subseteq Directories \cup {Null} /\ cached'.from # {} BY <1>1, <1>3, <1>8 DEF Whole
<1>12. CASE l < 2
  <2>1. cached'.tables = cached.tables /\ reader'.load = load BY <1>2, <1>7, <1>8, <1>12
  <2>2. Missing' = Missing /\ NextKind' = NextKind BY <2>1 DEF Missing, NextKind
  <2>a. Len(load) \in 0 .. 2 BY <1>2, <1>7, <1>12
  <2>3. Reading' BY <1>1, <1>7, <1>8, <2>1, <2>2, <2>a DEF Reading
  <2>4. ASSUME NEW d \in Directories, cached'.from = {d} PROVE FromOne(d.source)'
    <3>1. d = final /\ FromOne(final.source) BY <1>9, <2>4
    <3>2. ASSUME NEW n \in 1 .. l + 1 PROVE load[n] = Column(final.source, NextKind, Parts[n])
      <4>1. CASE n = l + 1 BY <1>7, <4>1 DEF column, part
      <4>2. CASE n \in 1 .. l BY <1>7, <1>l, <3>1, <4>2 DEF FromOne
      <4> QED BY <1>2, <4>1, <4>2
    <3>3. cached'.countries = cached.countries BY <1>8
    <3> QED BY <1>7, <2>1, <2>2, <3>1, <3>2, <3>3 DEF FromOne
  <2>5. Whole' BY <1>1, <1>10, <1>11, <2>1, <2>4 DEF Whole
  <2> QED BY <2>3, <2>5
<1>13. CASE l = 2
  <2> DEFINE table == [p \in Range(Parts) |-> load[CHOOSE n \in DOMAIN Parts : Parts[n] = p]]
  <2>0. ~(Len(load) < 3) BY <1>7, <1>13
  <2>1. cached'.tables = Remember(NextKind, table) /\ reader'.load = << >> BY <1>8, <2>0
  <2>s. reader'.step = "lookup" /\ reader'.ip = reader.ip BY <1>8
  <2>2. << >> \in Seq(Columns) /\ Len(<< >>) = 0 OBVIOUS
  <2>3. Reading' BY <1>1, <2>1, <2>2, <2>s DEF Reading
  <2> HIDE DEF table
  <2>4. DOMAIN cached'.tables = DOMAIN cached.tables \cup {NextKind} BY <2>1 DEF Remember
  <2>5. ASSUME NEW d \in Directories, cached'.from = {d} PROVE FromOne(d.source)'
    <3>1. d = final /\ FromOne(final.source) BY <1>9, <2>5
    <3>2. ASSUME NEW n \in 1 .. 3 PROVE load[n] = Column(final.source, NextKind, Parts[n])
      <4>1. CASE n = 3 BY <1>7, <1>13, <4>1 DEF column, part
      <4>2. CASE n \in 1 .. 2 BY <1>7, <1>l, <1>13, <3>1, <4>2 DEF FromOne
      <4> QED BY <4>1, <4>2
    <3>3. ASSUME NEW p \in Range(Parts) PROVE table[p] = Column(final.source, NextKind, p)
      <4> DEFINE n == CHOOSE n \in DOMAIN Parts : Parts[n] = p
      <4>1. n \in DOMAIN Parts /\ Parts[n] = p BY DEF Range
      <4>2. table[p] = load[n] BY DEF table
      <4> HIDE DEF n
      <4> QED BY <3>2, <4>1, <4>2, TheParts
    <3>4. table = [p \in Range(Parts) |-> Column(final.source, NextKind, p)]
      <4>1. table = [p \in Range(Parts) |-> table[p]] BY DEF table
      <4> HIDE DEF table
      <4> QED BY <3>3, <4>1
    <3>5. ASSUME NEW kind \in DOMAIN cached'.tables
          PROVE  cached'.tables[kind] = [p \in Range(Parts) |-> Column(final.source, kind, p)]
      <4>1. CASE kind = NextKind BY <2>1, <3>4, <4>1 DEF Remember
      <4>2. CASE kind # NextKind
        <5>1. kind \in DOMAIN cached.tables /\ cached'.tables[kind] = cached.tables[kind]
          BY <2>1, <2>4, <4>2 DEF Remember
        <5> QED BY <3>1, <5>1 DEF FromOne
      <4> QED BY <4>1, <4>2
    <3>6. cached'.countries = cached.countries BY <1>8
    <3>7. \A n \in 1 .. Len(reader'.load) : FALSE BY <2>1, <2>2
    <3> QED BY <3>1, <3>5, <3>6, <3>7 DEF FromOne
  <2>6. Whole' BY <1>1, <1>2, <1>10, <1>11, <2>4, <2>5 DEF Whole
  <2> QED BY <2>3, <2>6
<1> QED BY <1>2, <1>12, <1>13

LEMMA AnswersStep == AnswersInv /\ [GeoNext]_geoVars => AnswersInv'
<1> SUFFICES ASSUME AnswersInv, [GeoNext]_geoVars PROVE AnswersInv'
  OBVIOUS
<1>0. HealInv' BY HealStep DEF AnswersInv
<1>1. CASE UNCHANGED <<cached, reader>>
  <2>1. Missing' = Missing /\ NextKind' = NextKind BY <1>1 DEF Missing, NextKind
  <2>2. Reading' BY <1>1, <2>1 DEF AnswersInv, Reading
  <2>3. ASSUME Live' PROVE Whole'
    <3>1. Whole BY <1>1, <2>3 DEF AnswersInv, Live
    <3>2. ASSUME NEW d \in Directories, FromOne(d.source), Answered(d.source)
          PROVE  FromOne(d.source)' /\ Answered(d.source)'
      BY <1>1, <2>1, <3>2 DEF FromOne, Answered
    <3> QED BY <1>1, <3>1, <3>2 DEF Whole
  <2> QED BY <1>0, <2>2, <2>3 DEF AnswersInv
<1>2. CASE Stat \/ ReadManifest \/ LoadPart \/ NoFiles \/ Answer \/ Close \/ \E ip \in Addresses : Ask(ip)
  <2>1. (Reading /\ (Live => Whole))'
    BY <1>2, StatIsWhole, ReadManifestIsWhole, LoadPartIsWhole, NoFilesIsWhole, AnswerIsWhole,
       CloseIsWhole, AskIsWhole
  <2> QED BY <1>0, <2>1 DEF AnswersInv
<1>3. CASE (\E source \in Databases : Stage(source)) \/ ClearPrevious \/ MoveAside \/ Install \/ Tidy \/ Abandon
  BY <1>1, <1>3 DEF Stage, ClearPrevious, MoveAside, Install, Tidy, Abandon
<1>4. CASE UNCHANGED geoVars BY <1>1, <1>4 DEF geoVars
<1> QED BY <1>2, <1>3, <1>4 DEF GeoNext

(* For every source file of address ranges - overlapping, nested, unsorted, *)
(* reversed or repeated - sorting, trimming, interning and bisection lose   *)
(* nothing: an address is answered with the value of the first range, in    *)
(* the order of the source's own sort, that holds it, by a process that has *)
(* read one directory only, whatever was installed meanwhile; and the cache *)
(* heals.                                                                   *)
THEOREM AnswersAreRight == GeoSpec => []OneDirectoryIsRight
<1>1. AnswersInv => OneDirectoryIsRight
  <2> SUFFICES ASSUME AnswersInv PROVE OneDirectoryIsRight
    OBVIOUS
  <2>1. CurrentCacheIsWhole BY DEF AnswersInv, HealInv, CacheInv, Opened, CurrentCacheIsWhole
  <2>2. ASSUME reader.step = "answered", NEW d \in cached.from, cached.from = {d}, d # Null
        PROVE  reader.answer = AnswerOf(d.source, reader.ip)
    <3>1. Whole BY <2>2 DEF AnswersInv, Live
    <3>2. d \in Directories BY <2>2, <3>1 DEF Whole
    <3> QED BY <2>2, <3>1, <3>2 DEF Whole, Answered
  <2> QED BY <2>1, <2>2 DEF OneDirectoryIsRight
<1> QED BY <1>1, AnswersInit, AnswersStep, PTL DEF GeoSpec

=============================================================================
