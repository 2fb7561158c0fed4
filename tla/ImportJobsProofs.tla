-------------------------- MODULE ImportJobsProofs --------------------------
(* Theorems about ImportJobs, for every value of its constants.            *)
EXTENDS ImportJobs, TLAPS

\* TypeOK alone is not inductive: a worker about to open or close a stage row is
\* at a stage, not at "none" or "regrouping".
AtStage == \A w \in Workers : wk[w].phase \in {"open", "close"} => wk[w].at \in Stages
TypeInv == TypeOK /\ AtStage

LEMMA BusyHasJob ==
    ASSUME TypeInv, NEW w \in Workers, wk[w].phase # "idle"
    PROVE  wk[w].job \in Jobs
  BY DEF TypeInv, TypeOK, Local

LEMMA IdleTyped == Idle \in Local
  BY DEF Idle, Local, Phases, Failing, NoRow, MemRow, HeldRow

LEMMA MergeTyped ==
    ASSUME NEW old \in JobRow, NEW seen \in MemRow, NEW new \in MemRow,
           NEW alive \in BOOLEAN,
           new.state = seen.state \/ new.state \in States,
           new.stage = seen.stage \/ new.stage \in StageNames
    PROVE  [Merge(old, seen, new) EXCEPT !.live = alive] \in JobRow
<1> DEFINE m == Merge(old, seen, new)
<1>1. /\ old.state \in States /\ old.stage \in StageNames
      /\ old.owner \in Workers \cup {Nobody} /\ old.attempt \in Nat
      /\ new.owner \in Workers \cup {Nobody} /\ new.attempt \in Nat
  BY DEF JobRow, MemRow
<1>2. m = [old EXCEPT !.state = m.state, !.stage = m.stage, !.owner = m.owner, !.attempt = m.attempt]
  BY DEF Merge, JobRow
<1>3. /\ m.state = IF new.state = seen.state THEN old.state ELSE new.state
      /\ m.stage = IF new.stage = seen.stage THEN old.stage ELSE new.stage
      /\ m.owner = IF new.owner = seen.owner THEN old.owner ELSE new.owner
      /\ m.attempt = IF new.attempt = seen.attempt THEN old.attempt ELSE new.attempt
  BY DEF Merge, JobRow
<1>4. /\ m.state \in States /\ m.stage \in StageNames
      /\ m.owner \in Workers \cup {Nobody} /\ m.attempt \in Nat
  BY <1>1, <1>3, Zenon
<1>5. m \in JobRow
  <2> HIDE DEF m
  <2> QED BY <1>2, <1>4 DEF JobRow
<1> HIDE DEF m
<1>6. [m EXCEPT !.live = alive] \in JobRow
  BY <1>5 DEF JobRow
<1> QED BY <1>6 DEF m

LEMMA WithRowTyped ==
    ASSUME TypeInv, NEW j \in Jobs, NEW s \in Stages, NEW a \in Nat
    PROVE  WithRow(j, s, a) \in [Stages -> StageRows]
  BY DEF WithRow, TypeInv, TypeOK, StageRows, Statuses

LEMMA FinishedTyped ==
    ASSUME TypeInv, NEW j \in Jobs, NEW row, NEW status \in Statuses
    PROVE  Finished(j, row, status) \in [Stages -> StageRows]
<1> SUFFICES ASSUME NEW s \in Stages PROVE Finished(j, row, status)[s] \in StageRows
  BY DEF Finished
<1>1. rows[j][s] \in StageRows BY DEF TypeInv, TypeOK
<1>2. [rows[j][s] EXCEPT !.status = status] \in StageRows
  BY <1>1 DEF StageRows, Statuses
<1> QED BY <1>1, <1>2 DEF Finished

LEMMA FailRunningTyped ==
    ASSUME TypeInv, NEW j \in Jobs
    PROVE  FailRunning(j) \in [Stages -> StageRows]
<1> SUFFICES ASSUME NEW s \in Stages PROVE FailRunning(j)[s] \in StageRows
  BY DEF FailRunning
<1>1. rows[j][s] \in StageRows BY DEF TypeInv, TypeOK
<1>2. [rows[j][s] EXCEPT !.status = "failed"] \in StageRows
  BY <1>1 DEF StageRows, Statuses
<1> QED BY <1>1, <1>2 DEF FailRunning

LEMMA FulfilledTyped ==
    ASSUME TypeInv, NEW j \in Jobs, NEW x
    PROVE  /\ FulfilGrouping(j, x) \in SUBSET RequestRows
           /\ FulfilRefresh(j, x) \in SUBSET RequestRows
<1>1. \A q \in requests[j] : q \in RequestRows BY DEF TypeInv, TypeOK
<1>2. \A q \in RequestRows : [q EXCEPT !.fulfilled = TRUE] \in RequestRows BY DEF RequestRows
<1> QED BY <1>1, <1>2, Zenon DEF FulfilGrouping, FulfilRefresh

LEMMA InitTyped == Init => TypeInv
<1> SUFFICES ASSUME Init PROVE TypeInv OBVIOUS
<1> USE DEF Init
<1>1. PICK old \in SUBSET Jobs :
        /\ db = [j \in Jobs |-> IF j \in old THEN Legacy ELSE Fresh]
        /\ product = [j \in Jobs |-> [s \in Stages |->
               IF j \in old /\ s \in {"graph_building", "findings", "ml_scoring", "analytics"}
               THEN 1 ELSE 0]]
        /\ snapshot = [j \in Jobs |-> IF j \in old THEN "complete" ELSE "none"]
        /\ checkpoint = [j \in Jobs |-> IF j \in old THEN Batches ELSE 0]
        /\ ungrouped = [j \in Jobs |-> j \in old]
  OBVIOUS
<1>2. Fresh \in JobRow /\ Legacy \in JobRow
  BY DEF Fresh, Legacy, JobRow, States, StageNames, Active, Leased, Terminal
<1>3. db \in [Jobs -> JobRow] BY <1>1, <1>2
<1>4. wk \in [Workers -> Local] /\ \A w \in Workers : wk[w] = Idle BY IdleTyped
<1>5. \A w \in Workers : wk[w].phase = "idle" /\ wk[w].job = 0 BY <1>4 DEF Idle
<1>6. product \in [Jobs -> [Stages -> Nat]] BY <1>1
<1>7. checkpoint \in [Jobs -> Nat] /\ ungrouped \in [Jobs -> BOOLEAN]
  BY <1>1, BatchesAssumption
<1>8. rows \in [Jobs -> [Stages -> StageRows]] /\ requests \in [Jobs -> SUBSET RequestRows]
  BY DEF StageRows, Statuses
<1> QED BY <1>1, <1>3, <1>4, <1>5, <1>6, <1>7, <1>8 DEF TypeInv, TypeOK, AtStage


\* The local state of a worker after a step, and what is left as it was.
LEMMA LocalTyped ==
    ASSUME TypeInv, NEW w \in Workers, NEW r \in Local,
           r.phase = "idle" <=> r.job = 0,
           r.phase \in {"open", "close"} => r.at \in Stages,
           wk' = [wk EXCEPT ![w] = r],
           db' \in [Jobs -> JobRow],
           rows' \in [Jobs -> [Stages -> StageRows]],
           requests' \in [Jobs -> SUBSET RequestRows],
           product' \in [Jobs -> [Stages -> Nat]],
           snapshot' \in [Jobs -> {"none", "provisional", "graph_building", "complete"}],
           checkpoint' \in [Jobs -> Nat],
           ungrouped' \in [Jobs -> BOOLEAN],
           faults' \in [{"crash", "exception", "overrun"} -> Nat], asks' \in Nat
    PROVE  TypeInv'
  BY DEF TypeInv, TypeOK, AtStage

LEMMA RowStepTyped ==
    ASSUME TypeInv, NEW w \in Workers, wk[w].phase # "idle"
    PROVE  /\ \A s \in Stages : OpenedRow(w, s) => rows' \in [Jobs -> [Stages -> StageRows]]
           /\ \A status \in Statuses : ClosedRow(w, status) => rows' \in [Jobs -> [Stages -> StageRows]]
<1>1. wk[w].job \in Jobs /\ wk[w].mem.attempt \in Nat
  BY BusyHasJob DEF TypeInv, TypeOK, Local, MemRow
<1>2. rows \in [Jobs -> [Stages -> StageRows]] BY DEF TypeInv, TypeOK
<1>3. ASSUME NEW s \in Stages, OpenedRow(w, s) PROVE rows' \in [Jobs -> [Stages -> StageRows]]
  <2>1. WithRow(wk[w].job, s, wk[w].mem.attempt) \in [Stages -> StageRows] BY <1>1, WithRowTyped
  <2> QED BY <1>1, <1>2, <1>3, <2>1 DEF OpenedRow
<1>4. ASSUME NEW status \in Statuses, ClosedRow(w, status) PROVE rows' \in [Jobs -> [Stages -> StageRows]]
  <2>1. Finished(wk[w].job, wk[w].row, status) \in [Stages -> StageRows] BY <1>1, FinishedTyped
  <2> QED BY <1>1, <1>2, <1>4, <2>1 DEF ClosedRow
<1> QED BY <1>3, <1>4

LEMMA SaveTyped ==
    ASSUME TypeInv, NEW w \in Workers, wk[w].phase # "idle",
           NEW new \in MemRow, NEW alive \in BOOLEAN, SaveJob(w, new, alive),
           new.state = wk[w].mem.state \/ new.state \in States,
           new.stage = wk[w].mem.stage \/ new.stage \in StageNames
    PROVE  db' \in [Jobs -> JobRow]
<1>1. wk[w].job \in Jobs /\ wk[w].mem \in MemRow
  BY BusyHasJob DEF TypeInv, TypeOK, Local
<1>2. db \in [Jobs -> JobRow] /\ db[wk[w].job] \in JobRow BY <1>1 DEF TypeInv, TypeOK
<1>3. [Merge(db[wk[w].job], wk[w].mem, new) EXCEPT !.live = alive] \in JobRow
  BY <1>1, <1>2, MergeTyped
<1> QED BY <1>1, <1>2, <1>3 DEF SaveJob

LEMMA OutputTyped ==
    ASSUME TypeInv, NEW w \in Workers, wk[w].phase # "idle", NEW b
    PROVE  /\ \A s \in Stages : Stored(w, s, b) => product' \in [Jobs -> [Stages -> Nat]]
           /\ NewFindings(w, b) => ungrouped' \in [Jobs -> BOOLEAN]
<1>1. wk[w].job \in Jobs /\ wk[w].mem.attempt \in Nat BY BusyHasJob DEF TypeInv, TypeOK, Local, MemRow
<1>2. product \in [Jobs -> [Stages -> Nat]] /\ ungrouped \in [Jobs -> BOOLEAN]
  BY DEF TypeInv, TypeOK
<1>3. ASSUME NEW s \in Stages, Stored(w, s, b) PROVE product' \in [Jobs -> [Stages -> Nat]]
  <2> DEFINE stamp == IF s \in {"analytics", "investigation_grouping"} THEN wk[w].mem.attempt ELSE 1
  <2>1. stamp \in Nat BY <1>1
  <2>2. product' = [product EXCEPT ![wk[w].job][s] = IF b THEN stamp ELSE @]
    BY <1>3 DEF Stored
  <2>3. (IF b THEN stamp ELSE product[wk[w].job][s]) \in Nat BY <1>1, <1>2, <2>1
  <2> HIDE DEF stamp
  <2> QED BY <1>1, <1>2, <2>2, <2>3
<1>4. ASSUME NewFindings(w, b) PROVE ungrouped' \in [Jobs -> BOOLEAN]
  BY <1>1, <1>2, <1>4 DEF NewFindings
<1> QED BY <1>3, <1>4

LEMMA EnterTyped ==
    ASSUME TypeInv, NEW w \in Workers, wk[w].phase # "idle", NEW s \in Stages, Enter(w, s)
    PROVE  /\ db' \in [Jobs -> JobRow]
           /\ \E r \in Local : /\ wk' = [wk EXCEPT ![w] = r]
                               /\ r.phase \in {"open", "close"} /\ r.at = s /\ r.job \in Jobs
<1> DEFINE new == [wk[w].mem EXCEPT !.stage = s]
           r == [wk[w] EXCEPT !.mem = new, !.at = s,
                              !.phase = IF wk[w].row = NoRow THEN "open" ELSE "close"]
<1>1. wk[w] \in Local /\ wk[w].job \in Jobs /\ wk[w].mem \in MemRow
  BY BusyHasJob DEF TypeInv, TypeOK, Local
<1>2. new \in MemRow /\ new.state = wk[w].mem.state /\ new.stage \in StageNames
  BY <1>1 DEF MemRow, StageNames
<1>3. SaveJob(w, new, TRUE) /\ wk' = [wk EXCEPT ![w] = r] BY DEF Enter
<1>4. db' \in [Jobs -> JobRow] BY <1>2, <1>3, SaveTyped
<1>5. r \in Local /\ r.phase \in {"open", "close"} /\ r.at = s /\ r.job = wk[w].job
  <2> HIDE DEF new
  <2> QED BY <1>1, <1>2 DEF Local, Phases
<1> HIDE DEF r
<1> QED BY <1>1, <1>3, <1>4, <1>5

\* A step of a worker that touches rows only.
LEMMA RowsTyped ==
    ASSUME TypeInv, NEW w \in Workers, NEW r \in Local, r.phase # "idle", r.job # 0,
           r.phase \in {"open", "close"} => r.at \in Stages,
           wk' = [wk EXCEPT ![w] = r], rows' \in [Jobs -> [Stages -> StageRows]],
           UNCHANGED <<db, requests, product, snapshot, checkpoint, ungrouped, faults, asks>>
    PROVE  TypeInv'
<1>1. /\ db' \in [Jobs -> JobRow] /\ requests' \in [Jobs -> SUBSET RequestRows]
      /\ product' \in [Jobs -> [Stages -> Nat]] /\ checkpoint' \in [Jobs -> Nat]
      /\ snapshot' \in [Jobs -> {"none", "provisional", "graph_building", "complete"}]
      /\ ungrouped' \in [Jobs -> BOOLEAN] /\ asks' \in Nat
      /\ faults' \in [{"crash", "exception", "overrun"} -> Nat]
  BY DEF TypeInv, TypeOK
<1> QED BY <1>1, LocalTyped

LEMMA CloseRowTyped == ASSUME TypeInv, NEW w \in Workers, CloseRow(w) PROVE TypeInv'
<1> DEFINE r == [wk[w] EXCEPT !.phase = "open", !.row = NoRow]
<1>1. wk[w] \in Local /\ wk[w].phase # "idle" /\ wk[w].job \in Jobs /\ wk[w].at \in Stages
  BY BusyHasJob DEF CloseRow, TypeInv, TypeOK, AtStage
<1>2. r \in Local /\ r.phase = "open" /\ r.job = wk[w].job /\ r.at = wk[w].at
  BY <1>1 DEF Local, Phases, NoRow, HeldRow
<1>3. wk' = [wk EXCEPT ![w] = r] BY DEF CloseRow
<1>4. rows' \in [Jobs -> [Stages -> StageRows]]
  BY <1>1, RowStepTyped DEF CloseRow, Statuses
<1> HIDE DEF r
<1>5. r.job # 0 BY <1>1, <1>2 DEF TypeInv, TypeOK
<1>6. UNCHANGED <<db, requests, product, snapshot, checkpoint, ungrouped, faults, asks>> BY DEF CloseRow
<1> QED BY <1>1, <1>2, <1>3, <1>4, <1>5, <1>6, RowsTyped

LEMMA ReuseRowTyped == ASSUME TypeInv, NEW w \in Workers, ReuseRow(w) PROVE TypeInv'
<1> DEFINE r == [wk[w] EXCEPT !.phase = "work"]
<1>1. wk[w] \in Local /\ wk[w].phase # "idle" /\ wk[w].job \in Jobs
  BY BusyHasJob DEF ReuseRow, TypeInv, TypeOK
<1>2. r \in Local /\ r.phase = "work" /\ r.job = wk[w].job
  BY <1>1 DEF Local, Phases
<1>3. wk' = [wk EXCEPT ![w] = r] BY DEF ReuseRow
<1> HIDE DEF r
<1> QED BY <1>1, <1>2, <1>3, LocalTyped DEF ReuseRow, TypeInv, TypeOK, dbVars

LEMMA OpenRowTyped == ASSUME TypeInv, NEW w \in Workers, OpenRow(w) PROVE TypeInv'
<1> DEFINE r == [wk[w] EXCEPT !.phase = "work",
              !.row = [stage |-> wk[w].at, attempt |-> wk[w].mem.attempt]]
<1>1. wk[w] \in Local /\ wk[w].phase # "idle" /\ wk[w].job \in Jobs /\ wk[w].at \in Stages
      /\ [stage |-> wk[w].at, attempt |-> wk[w].mem.attempt] \in HeldRow
  BY BusyHasJob DEF OpenRow, TypeInv, TypeOK, Local, MemRow, HeldRow, AtStage
<1>2. r \in Local /\ r.phase = "work" /\ r.job = wk[w].job
  BY <1>1 DEF Local, Phases
<1>3. wk' = [wk EXCEPT ![w] = r] BY DEF OpenRow
<1>4. rows' \in [Jobs -> [Stages -> StageRows]]
  BY <1>1, RowStepTyped DEF OpenRow
<1> HIDE DEF r
<1>5. r.job # 0 BY <1>1, <1>2 DEF TypeInv, TypeOK
<1>6. UNCHANGED <<db, requests, product, snapshot, checkpoint, ungrouped, faults, asks>> BY DEF OpenRow
<1> QED BY <1>1, <1>2, <1>3, <1>4, <1>5, <1>6, RowsTyped

LEMMA OpenVerificationTyped == ASSUME TypeInv, NEW w \in Workers, OpenVerification(w) PROVE TypeInv'
<1> DEFINE r == [wk[w] EXCEPT !.phase = "work", !.at = "source_verification",
              !.row = [stage |-> "source_verification", attempt |-> wk[w].mem.attempt]]
<1>1. wk[w] \in Local /\ wk[w].phase # "idle" /\ wk[w].job \in Jobs
      /\ [stage |-> "source_verification", attempt |-> wk[w].mem.attempt] \in HeldRow
  BY BusyHasJob DEF OpenVerification, TypeInv, TypeOK, Local, MemRow, HeldRow, Stages, RequiredStages
<1>2. r \in Local /\ r.phase = "work" /\ r.job = wk[w].job
  BY <1>1 DEF Local, Phases, Stages, RequiredStages
<1>3. wk' = [wk EXCEPT ![w] = r] BY DEF OpenVerification
<1>4. rows' \in [Jobs -> [Stages -> StageRows]]
  BY <1>1, RowStepTyped DEF OpenVerification, Stages, RequiredStages
<1> HIDE DEF r
<1> QED BY <1>1, <1>2, <1>3, <1>4, LocalTyped, JobsAssumption DEF OpenVerification, TypeInv, TypeOK, dbVars

LEMMA VerifySourceTyped == ASSUME TypeInv, NEW w \in Workers, VerifySource(w) PROVE TypeInv'
<1> DEFINE r == [wk[w] EXCEPT !.phase = "decide", !.row = NoRow]
<1>1. wk[w] \in Local /\ wk[w].phase # "idle" /\ wk[w].job \in Jobs
  BY BusyHasJob DEF VerifySource, TypeInv, TypeOK, In
<1>2. r \in Local /\ r.phase = "decide" /\ r.job = wk[w].job
  BY <1>1 DEF Local, Phases, NoRow, HeldRow
<1>3. wk' = [wk EXCEPT ![w] = r] BY DEF VerifySource
<1>4. rows' \in [Jobs -> [Stages -> StageRows]]
  BY <1>1, RowStepTyped DEF VerifySource, Statuses
<1> HIDE DEF r
<1> QED BY <1>1, <1>2, <1>3, <1>4, LocalTyped DEF VerifySource, TypeInv, TypeOK, dbVars

LEMMA IdleFacts == Idle \in Local /\ Idle.phase = "idle" /\ Idle.job = 0
  BY IdleTyped DEF Idle

LEMMA RaisedTyped ==
    ASSUME TypeInv, NEW w \in Workers, wk[w].phase # "idle", NEW kind \in Failing
    PROVE  Raised(w, kind) \in Local /\ Raised(w, kind).phase = kind /\ Raised(w, kind).job \in Jobs
<1>1. wk[w].job \in Jobs /\ wk[w].retried \in BOOLEAN BY BusyHasJob DEF TypeInv, TypeOK, Local
<1>2. Idle \in Local BY IdleTyped
<1> QED BY <1>1, <1>2 DEF Raised, Idle, Local, Phases

LEMMA ColumnsTyped ==
    ASSUME NEW d \in JobRow PROVE Columns(d) \in MemRow
  BY DEF Columns, JobRow, MemRow

LEMMA StartRegroupingTyped == ASSUME TypeInv, NEW w \in Workers, StartRegrouping(w) PROVE TypeInv'
<1> DEFINE new == [wk[w].mem EXCEPT !.stage = "investigation_grouping"]
           r == [wk[w] EXCEPT !.mem = new, !.phase = "work", !.at = "regrouping",
                      !.row = [stage |-> "investigation_grouping", attempt |-> wk[w].mem.attempt]]
<1>1. wk[w] \in Local /\ wk[w].phase # "idle" /\ wk[w].job \in Jobs /\ wk[w].mem \in MemRow
      /\ db[wk[w].job] \in JobRow
      /\ [stage |-> "investigation_grouping", attempt |-> wk[w].mem.attempt] \in HeldRow
  BY BusyHasJob DEF StartRegrouping, TypeInv, TypeOK, Local, MemRow, HeldRow, Stages, RequiredStages
<1>2. new \in MemRow /\ (new.state = wk[w].mem.state \/ new.state \in States) /\ new.stage \in StageNames
  BY <1>1 DEF MemRow, States, Active, Leased, Terminal, StageNames, Stages, RequiredStages
<1>3. SaveJob(w, new, db[wk[w].job].live) /\ db[wk[w].job].live \in BOOLEAN BY <1>1 DEF StartRegrouping, JobRow
<1>4. db' \in [Jobs -> JobRow] BY <1>1, <1>2, <1>3, SaveTyped
<1>5. r \in Local /\ r.phase = "work" /\ r.job = wk[w].job
  <2> HIDE DEF new
  <2> QED BY <1>1, <1>2 DEF Local, Phases
<1>6. wk' = [wk EXCEPT ![w] = r] BY DEF StartRegrouping
<1>7. rows' \in [Jobs -> [Stages -> StageRows]]
  BY <1>1, RowStepTyped DEF StartRegrouping, Stages, RequiredStages
<1> HIDE DEF r, new
<1>8. /\ product' \in [Jobs -> [Stages -> Nat]]
      /\ ungrouped' \in [Jobs -> BOOLEAN] /\ faults' \in [{"crash", "exception", "overrun"} -> Nat] /\ asks' \in Nat
      /\ requests' \in [Jobs -> SUBSET RequestRows]
      /\ checkpoint' \in [Jobs -> Nat]
      /\ snapshot' \in [Jobs -> {"none", "provisional", "graph_building", "complete"}]
  BY DEF StartRegrouping, TypeInv, TypeOK
<1>9. (r.phase = "idle" <=> r.job = 0) /\ r.phase \notin {"open", "close"}
  BY <1>1, <1>5, JobsAssumption
<1> QED BY <1>4, <1>5, <1>6, <1>7, <1>8, <1>9, LocalTyped

LEMMA RefuseRegroupingTyped == ASSUME TypeInv, NEW w \in Workers, RefuseRegrouping(w) PROVE TypeInv'
<1> DEFINE r == Raised(w, "failing_fatal")
<1>1. wk[w].phase # "idle" BY DEF RefuseRegrouping
<1>2. r \in Local /\ r.phase \in Failing /\ r.job \in Jobs BY <1>1, RaisedTyped DEF Failing
<1>3. r.phase \notin {"idle", "open", "close"} /\ r.job # 0 BY <1>2, JobsAssumption DEF Failing
<1>4. wk' = [wk EXCEPT ![w] = r] BY DEF RefuseRegrouping
<1> HIDE DEF r
<1> QED BY <1>2, <1>3, <1>4, LocalTyped DEF RefuseRegrouping, TypeInv, TypeOK, dbVars

LEMMA DuplicateKeyTyped == ASSUME TypeInv, NEW w \in Workers, DuplicateKey(w) PROVE TypeInv'
<1> DEFINE r == Raised(w, "failing_fatal")
<1>1. wk[w].phase # "idle" BY DEF DuplicateKey, KeyTaken, In
<1>2. r \in Local /\ r.phase \in Failing /\ r.job \in Jobs BY <1>1, RaisedTyped DEF Failing
<1>3. r.phase \notin {"idle", "open", "close"} /\ r.job # 0 BY <1>2, JobsAssumption DEF Failing
<1>4. wk' = [wk EXCEPT ![w] = r] BY DEF DuplicateKey
<1> HIDE DEF r
<1> QED BY <1>2, <1>3, <1>4, LocalTyped DEF DuplicateKey, TypeInv, TypeOK, dbVars

LEMMA LoseLeaseTyped == ASSUME TypeInv, NEW w \in Workers, LoseLease(w) PROVE TypeInv'
<1> DEFINE r == Raised(w, "failing_fatal")
<1>1. wk[w].phase # "idle" BY DEF LoseLease
<1>2. r \in Local /\ r.phase \in Failing /\ r.job \in Jobs BY <1>1, RaisedTyped DEF Failing
<1>3. r.phase \notin {"idle", "open", "close"} /\ r.job # 0 BY <1>2, JobsAssumption DEF Failing
<1>4. wk' = [wk EXCEPT ![w] = r] BY DEF LoseLease
<1> HIDE DEF r
<1> QED BY <1>2, <1>3, <1>4, LocalTyped DEF LoseLease, TypeInv, TypeOK, dbVars

\* A fault is counted under its kind.
LEMMA FaultTyped ==
    ASSUME TypeInv, NEW kind, Fault(kind)
    PROVE  /\ faults' \in [{"crash", "exception", "overrun"} -> Nat]
           /\ faults'["overrun"] >= faults["overrun"]
           /\ kind = "overrun" => faults'["overrun"] > 0
<1> DEFINE K == {"crash", "exception", "overrun"}
<1>1. faults \in [K -> Nat] BY DEF TypeInv, TypeOK
<1>2. kind \in K BY FaultsAssumption DEF Fault
<1>3. faults' = [faults EXCEPT ![kind] = faults[kind] + 1] BY DEF Fault
<1>4. "overrun" \in K OBVIOUS
<1> HIDE DEF K
<1>5. /\ faults' \in [K -> Nat] /\ faults'["overrun"] >= faults["overrun"]
      /\ kind = "overrun" => faults'["overrun"] > 0
  BY <1>1, <1>2, <1>3, <1>4
<1> QED BY <1>5 DEF K

LEMMA RaiseTyped == ASSUME TypeInv, NEW w \in Workers, NEW kind \in Failing, Raise(w, kind) PROVE TypeInv'
<1> DEFINE r == Raised(w, kind)
<1>1. wk[w].phase # "idle" BY DEF Raise
<1>2. r \in Local /\ r.phase \in Failing /\ r.job \in Jobs BY <1>1, RaisedTyped DEF Failing
<1>3. r.phase \notin {"idle", "open", "close"} /\ r.job # 0 BY <1>2, JobsAssumption DEF Failing
<1>4. wk' = [wk EXCEPT ![w] = r] BY DEF Raise
<1>5. faults' \in [{"crash", "exception", "overrun"} -> Nat] BY FaultTyped DEF Raise
<1> HIDE DEF r
<1> QED BY <1>2, <1>3, <1>4, <1>5, LocalTyped DEF Raise, TypeInv, TypeOK, dbVars

LEMMA StartImportTyped == ASSUME TypeInv, NEW w \in Workers, StartImport(w) PROVE TypeInv'
<1> DEFINE j == wk[w].job
           done == Succeeded(j, "ingesting")
           wanted == {q.attempt : q \in {p \in Pending(j, wk[w].mem.attempt) : p.kind = "refresh"}}
           ref == IF done THEN NoRow ELSE [stage |-> "ingesting", attempt |-> wk[w].mem.attempt]
<1>1. wk[w] \in Local /\ wk[w].phase # "idle" /\ j \in Jobs /\ checkpoint[j] \in Nat
  BY BusyHasJob DEF StartImport, TypeInv, TypeOK
<1>2. wanted \in SUBSET Nat
  <2>1. requests[j] \subseteq RequestRows BY <1>1 DEF TypeInv, TypeOK
  <2>2. \A q \in requests[j] : q.attempt \in Nat BY <2>1 DEF RequestRows
  <2> QED BY <2>2 DEF Pending
<1>3. ref \in HeldRow BY <1>1 DEF NoRow, HeldRow, Stages, RequiredStages, Local, MemRow
<1>4. PICK geoip \in BOOLEAN :
          wk' = [wk EXCEPT ![w].phase = "begin", ![w].at = "ingesting",
                           ![w].pos = checkpoint[j], ![w].wanted = wanted,
                           ![w].refreshing = wanted # {} \/ geoip, ![w].row = ref]
  BY DEF StartImport
<1> DEFINE r == [wk[w] EXCEPT !.phase = "begin", !.at = "ingesting", !.pos = checkpoint[j],
                              !.wanted = wanted, !.refreshing = wanted # {} \/ geoip, !.row = ref]
<1>5. wk' = [wk EXCEPT ![w] = r]
  <2> HIDE DEF wanted, ref, done, j
  <2> QED BY <1>4
<1>6. r \in Local /\ r.phase = "begin" /\ r.job = wk[w].job
  <2> HIDE DEF wanted, ref, done, j
  <2>1. (wanted # {} \/ geoip) \in BOOLEAN OBVIOUS
  <2> QED BY <1>1, <1>2, <1>3, <2>1 DEF Local, Phases, Stages, RequiredStages
<1>7. rows' \in [Jobs -> [Stages -> StageRows]]
  BY <1>1, RowStepTyped DEF StartImport, Stages, RequiredStages, TypeInv, TypeOK
<1> HIDE DEF r, wanted, ref, done
<1> QED BY <1>1, <1>5, <1>6, <1>7, LocalTyped DEF StartImport, TypeInv, TypeOK

LEMMA BeginIngestTyped == ASSUME TypeInv, NEW w \in Workers, BeginIngest(w) PROVE TypeInv'
<1> DEFINE new == [wk[w].mem EXCEPT !.state = "running", !.stage = "ingesting"]
           r == [wk[w] EXCEPT !.mem = new, !.phase = "work"]
<1>1. wk[w] \in Local /\ wk[w].phase # "idle" /\ wk[w].job \in Jobs /\ wk[w].mem \in MemRow
      /\ db[wk[w].job] \in JobRow
  BY BusyHasJob DEF BeginIngest, TypeInv, TypeOK, Local
<1>2. new \in MemRow /\ (new.state = wk[w].mem.state \/ new.state \in States) /\ new.stage \in StageNames
  BY <1>1 DEF MemRow, States, Active, Leased, Terminal, StageNames, Stages, RequiredStages
<1>3. SaveJob(w, new, db[wk[w].job].live) /\ db[wk[w].job].live \in BOOLEAN BY <1>1 DEF BeginIngest, JobRow
<1>4. db' \in [Jobs -> JobRow] BY <1>1, <1>2, <1>3, SaveTyped
<1>5. r \in Local /\ r.phase = "work" /\ r.job = wk[w].job
  <2> HIDE DEF new
  <2> QED BY <1>1, <1>2 DEF Local, Phases
<1>6. wk' = [wk EXCEPT ![w] = r] BY DEF BeginIngest
<1> HIDE DEF r, new
<1>7. /\ product' \in [Jobs -> [Stages -> Nat]]
      /\ ungrouped' \in [Jobs -> BOOLEAN] /\ faults' \in [{"crash", "exception", "overrun"} -> Nat] /\ asks' \in Nat
      /\ requests' \in [Jobs -> SUBSET RequestRows]
      /\ checkpoint' \in [Jobs -> Nat] /\ rows' \in [Jobs -> [Stages -> StageRows]]
      /\ snapshot' \in [Jobs -> {"none", "provisional", "graph_building", "complete"}]
  BY DEF BeginIngest, TypeInv, TypeOK
<1>8. (r.phase = "idle" <=> r.job = 0) /\ r.phase \notin {"open", "close"}
  BY <1>1, <1>5, JobsAssumption
<1> QED BY <1>4, <1>5, <1>6, <1>7, <1>8, LocalTyped

LEMMA CommitBatchTyped == ASSUME TypeInv, NEW w \in Workers, CommitBatch(w) PROVE TypeInv'
<1> DEFINE new == [wk[w].mem EXCEPT !.state = "checkpointed", !.stage = "ingesting"]
           r == [wk[w] EXCEPT !.mem = new, !.pos = @ + 1]
<1>1. wk[w] \in Local /\ wk[w].phase # "idle" /\ wk[w].job \in Jobs /\ wk[w].mem \in MemRow
      /\ db[wk[w].job] \in JobRow /\ wk[w].phase = "work" /\ wk[w].pos + 1 \in Nat
  BY BusyHasJob DEF CommitBatch, TypeInv, TypeOK, Local, In
<1>2. new \in MemRow /\ (new.state = wk[w].mem.state \/ new.state \in States) /\ new.stage \in StageNames
  BY <1>1 DEF MemRow, States, Active, Leased, Terminal, StageNames, Stages, RequiredStages
<1>3. SaveJob(w, new, TRUE) /\ TRUE \in BOOLEAN BY <1>1 DEF CommitBatch, JobRow
<1>4. db' \in [Jobs -> JobRow] BY <1>1, <1>2, <1>3, SaveTyped
<1>5. r \in Local /\ r.phase = "work" /\ r.job = wk[w].job
  <2> DEFINE p == wk[w].pos + 1
  <2>1. r = [wk[w] EXCEPT !.mem = new, !.pos = p] BY DEF Local
  <2>2. p \in Nat BY <1>1
  <2> HIDE DEF new, p, r
  <2> QED BY <1>1, <1>2, <2>1, <2>2 DEF Local, Phases
<1>6. wk' = [wk EXCEPT ![w] = r] BY DEF CommitBatch
<1>7. checkpoint' \in [Jobs -> Nat] /\ snapshot' \in [Jobs -> {"none", "provisional", "graph_building", "complete"}]
  BY <1>1 DEF CommitBatch, TypeInv, TypeOK
<1> HIDE DEF r, new
<1>8. /\ product' \in [Jobs -> [Stages -> Nat]]
      /\ ungrouped' \in [Jobs -> BOOLEAN] /\ faults' \in [{"crash", "exception", "overrun"} -> Nat] /\ asks' \in Nat
      /\ requests' \in [Jobs -> SUBSET RequestRows]
      /\ rows' \in [Jobs -> [Stages -> StageRows]]
  BY DEF CommitBatch, TypeInv, TypeOK
<1>9. (r.phase = "idle" <=> r.job = 0) /\ r.phase \notin {"open", "close"}
  BY <1>1, <1>5, JobsAssumption
<1> QED BY <1>4, <1>5, <1>6, <1>7, <1>8, <1>9, LocalTyped

LEMMA FinishIngestTyped == ASSUME TypeInv, NEW w \in Workers, FinishIngest(w) PROVE TypeInv'
<1> DEFINE r == [wk[w] EXCEPT !.row = NoRow]
<1>1. wk[w] \in Local /\ wk[w].phase # "idle" /\ wk[w].job \in Jobs /\ wk[w].phase = "work"
  BY BusyHasJob DEF FinishIngest, TypeInv, TypeOK, In
<1>2. r \in Local /\ r.phase = "work" /\ r.job = wk[w].job
  BY <1>1 DEF Local, Phases, NoRow, HeldRow
<1>3. wk' = [wk EXCEPT ![w] = r] BY DEF FinishIngest
<1>4. rows' \in [Jobs -> [Stages -> StageRows]]
  BY <1>1, RowStepTyped DEF FinishIngest, Statuses
<1> HIDE DEF r
<1> QED BY <1>1, <1>2, <1>3, <1>4, LocalTyped DEF FinishIngest, TypeInv, TypeOK, dbVars

LEMMA EnterGraphTyped ==
    ASSUME TypeInv, NEW w \in Workers, EnterGraph(w) PROVE TypeInv'
<1>1. wk[w].phase # "idle" /\ Enter(w, "graph_building") /\ "graph_building" \in Stages
  BY DEF EnterGraph, In, Stages, RequiredStages
<1>2. db' \in [Jobs -> JobRow] /\ wk[w].job \in Jobs BY <1>1, EnterTyped, BusyHasJob
<1>3. PICK r \in Local : /\ wk' = [wk EXCEPT ![w] = r]
                          /\ r.phase \in {"open", "close"} /\ r.at = "graph_building" /\ r.job \in Jobs
  BY <1>1, EnterTyped
<1>4. r.phase # "idle" /\ r.job # 0 /\ r.at \in Stages BY <1>1, <1>3, JobsAssumption
<1>5. snapshot' \in [Jobs -> {"none", "provisional", "graph_building", "complete"}]
  BY <1>2 DEF EnterGraph, TypeInv, TypeOK
<1> QED BY <1>1, <1>2, <1>3, <1>4, <1>5, LocalTyped DEF EnterGraph, TypeInv, TypeOK

LEMMA BuildAndEnterTyped ==
    ASSUME TypeInv, NEW w \in Workers, NEW s \in Stages, NEW next \in Stages, BuildAndEnter(w, s, next) PROVE TypeInv'
<1>1. wk[w].phase # "idle" /\ Enter(w, next) /\ next \in Stages
  BY DEF BuildAndEnter, In, Stages, RequiredStages
<1>2. db' \in [Jobs -> JobRow] /\ wk[w].job \in Jobs BY <1>1, EnterTyped, BusyHasJob
<1>3. PICK r \in Local : /\ wk' = [wk EXCEPT ![w] = r]
                          /\ r.phase \in {"open", "close"} /\ r.at = next /\ r.job \in Jobs
  BY <1>1, EnterTyped
<1>4. r.phase # "idle" /\ r.job # 0 /\ r.at \in Stages BY <1>1, <1>3, JobsAssumption
<1>5. product' \in [Jobs -> [Stages -> Nat]] /\ ungrouped' \in [Jobs -> BOOLEAN]
  BY <1>1, OutputTyped DEF BuildAndEnter
<1> QED BY <1>1, <1>2, <1>3, <1>4, <1>5, LocalTyped DEF BuildAndEnter, TypeInv, TypeOK

LEMMA EnterAnalyticsTyped ==
    ASSUME TypeInv, NEW w \in Workers, EnterAnalytics(w) PROVE TypeInv'
<1>1. wk[w].phase # "idle" /\ Enter(w, "analytics") /\ "analytics" \in Stages
  BY DEF EnterAnalytics, In, Stages, RequiredStages
<1>2. db' \in [Jobs -> JobRow] /\ wk[w].job \in Jobs BY <1>1, EnterTyped, BusyHasJob
<1>3. PICK r \in Local : /\ wk' = [wk EXCEPT ![w] = r]
                          /\ r.phase \in {"open", "close"} /\ r.at = "analytics" /\ r.job \in Jobs
  BY <1>1, EnterTyped
<1>4. r.phase # "idle" /\ r.job # 0 /\ r.at \in Stages BY <1>1, <1>3, JobsAssumption
<1> QED BY <1>1, <1>2, <1>3, <1>4, LocalTyped DEF EnterAnalytics, TypeInv, TypeOK

LEMMA EnterGroupingTyped ==
    ASSUME TypeInv, NEW w \in Workers, EnterGrouping(w) PROVE TypeInv'
<1>1. wk[w].phase # "idle" /\ Enter(w, "investigation_grouping") /\ "investigation_grouping" \in Stages
  BY DEF EnterGrouping, In, Stages, RequiredStages
<1>2. db' \in [Jobs -> JobRow] /\ wk[w].job \in Jobs BY <1>1, EnterTyped, BusyHasJob
<1>3. PICK r \in Local : /\ wk' = [wk EXCEPT ![w] = r]
                          /\ r.phase \in {"open", "close"} /\ r.at = "investigation_grouping" /\ r.job \in Jobs
  BY <1>1, EnterTyped
<1>4. r.phase # "idle" /\ r.job # 0 /\ r.at \in Stages BY <1>1, <1>3, JobsAssumption
<1> QED BY <1>1, <1>2, <1>3, <1>4, LocalTyped DEF EnterGrouping, TypeInv, TypeOK

LEMMA ScoreTyped == ASSUME TypeInv, NEW w \in Workers, Score(w) PROVE TypeInv'
<1> DEFINE r == [wk[w] EXCEPT !.phase = "scored"]
<1>1. wk[w] \in Local /\ wk[w].phase # "idle" /\ wk[w].job \in Jobs
  BY BusyHasJob DEF Score, TypeInv, TypeOK, In
<1>2. r \in Local /\ r.phase = "scored" /\ r.job = wk[w].job
  BY <1>1 DEF Local, Phases
<1>3. wk' = [wk EXCEPT ![w] = r] BY DEF Score
<1>4. product' \in [Jobs -> [Stages -> Nat]] /\ ungrouped' \in [Jobs -> BOOLEAN]
  BY <1>1, OutputTyped DEF Score, Stages, RequiredStages
<1> HIDE DEF r
<1> QED BY <1>1, <1>2, <1>3, <1>4, LocalTyped DEF Score, TypeInv, TypeOK, dbVars

LEMMA FinishScoringTyped == ASSUME TypeInv, NEW w \in Workers, FinishScoring(w) PROVE TypeInv'
<1> DEFINE r == [wk[w] EXCEPT !.phase = "leave", !.row = NoRow]
<1>1. wk[w] \in Local /\ wk[w].phase # "idle" /\ wk[w].job \in Jobs
  BY BusyHasJob DEF FinishScoring, TypeInv, TypeOK
<1>2. r \in Local /\ r.phase = "leave" /\ r.job = wk[w].job
  BY <1>1 DEF Local, Phases, NoRow, HeldRow
<1>3. wk' = [wk EXCEPT ![w] = r] BY DEF FinishScoring
<1>4. rows' \in [Jobs -> [Stages -> StageRows]]
  BY <1>1, RowStepTyped DEF FinishScoring, Statuses
<1> HIDE DEF r
<1>5. r.job # 0 BY <1>1, <1>2 DEF TypeInv, TypeOK
<1>6. UNCHANGED <<db, requests, product, snapshot, checkpoint, ungrouped, faults, asks>> BY DEF FinishScoring
<1> QED BY <1>1, <1>2, <1>3, <1>4, <1>5, <1>6, RowsTyped

LEMMA AnalyzeTyped == ASSUME TypeInv, NEW w \in Workers, Analyze(w) PROVE TypeInv'
<1> DEFINE r == [wk[w] EXCEPT !.phase = "open", !.at = "coverage", !.row = NoRow]
<1>1. wk[w] \in Local /\ wk[w].phase # "idle" /\ wk[w].job \in Jobs
  BY BusyHasJob DEF Analyze, TypeInv, TypeOK, In
<1>2. r \in Local /\ r.phase = "open" /\ r.at \in Stages /\ r.job = wk[w].job
  BY <1>1 DEF Local, Phases, NoRow, HeldRow, Stages
<1>3. wk' = [wk EXCEPT ![w] = r] BY DEF Analyze
<1>4. rows' \in [Jobs -> [Stages -> StageRows]]
  BY <1>1, RowStepTyped DEF Analyze, Statuses
<1>5. product' \in [Jobs -> [Stages -> Nat]] /\ ungrouped' \in [Jobs -> BOOLEAN]
  BY <1>1, OutputTyped DEF Analyze, Stages, RequiredStages
<1>6. requests' \in [Jobs -> SUBSET RequestRows]
  BY <1>1, FulfilledTyped DEF Analyze, TypeInv, TypeOK
<1> HIDE DEF r
<1> QED BY <1>1, <1>2, <1>3, <1>4, <1>5, <1>6, LocalTyped DEF Analyze, TypeInv, TypeOK, dbVars

LEMMA ReportCoverageTyped == ASSUME TypeInv, NEW w \in Workers, ReportCoverage(w) PROVE TypeInv'
<1> DEFINE r == [wk[w] EXCEPT !.phase = "leave", !.row = NoRow]
<1>1. wk[w] \in Local /\ wk[w].phase # "idle" /\ wk[w].job \in Jobs
  BY BusyHasJob DEF ReportCoverage, TypeInv, TypeOK, In
<1>2. r \in Local /\ r.phase = "leave" /\ r.job = wk[w].job
  BY <1>1 DEF Local, Phases, NoRow, HeldRow
<1>3. wk' = [wk EXCEPT ![w] = r] BY DEF ReportCoverage
<1>4. rows' \in [Jobs -> [Stages -> StageRows]]
  BY <1>1, RowStepTyped DEF ReportCoverage, Statuses
<1> HIDE DEF r
<1> QED BY <1>1, <1>2, <1>3, <1>4, LocalTyped DEF ReportCoverage, TypeInv, TypeOK, dbVars

LEMMA AnalyticsFailsTyped == ASSUME TypeInv, NEW w \in Workers, AnalyticsFails(w) PROVE TypeInv'
<1> DEFINE r == [wk[w] EXCEPT !.phase = "leave", !.row = NoRow, !.mem = Columns(db[wk[w].job])]
<1>1. wk[w] \in Local /\ wk[w].phase # "idle" /\ wk[w].job \in Jobs /\ db[wk[w].job] \in JobRow
  BY BusyHasJob DEF AnalyticsFails, TypeInv, TypeOK, In
<1>2. r \in Local /\ r.phase = "leave" /\ r.job = wk[w].job
  <2>1. Columns(db[wk[w].job]) \in MemRow BY <1>1, ColumnsTyped
  <2> QED BY <1>1, <2>1 DEF Local, Phases, NoRow, HeldRow
<1>3. wk' = [wk EXCEPT ![w] = r] BY DEF AnalyticsFails
<1>4. rows' \in [Jobs -> [Stages -> StageRows]]
  BY <1>1, RowStepTyped DEF AnalyticsFails, Statuses
<1> HIDE DEF r
<1> QED BY <1>1, <1>2, <1>3, <1>4, LocalTyped DEF AnalyticsFails, TypeInv, TypeOK, dbVars

LEMMA SkipScoringTyped == ASSUME TypeInv, NEW w \in Workers, SkipScoring(w) PROVE TypeInv'
<1>1. wk[w] \in Local /\ wk[w].phase # "idle" /\ wk[w].job \in Jobs /\ db[wk[w].job] \in JobRow
      /\ wk[w].mem \in MemRow
  BY BusyHasJob DEF SkipScoring, TypeInv, TypeOK, In, Local
<1>2. PICK mem \in {wk[w].mem, Columns(db[wk[w].job])} :
          wk' = [wk EXCEPT ![w].phase = "unscored", ![w].mem = mem]
  BY DEF SkipScoring
<1>3. mem \in MemRow BY <1>1, <1>2, ColumnsTyped
<1> DEFINE r == [wk[w] EXCEPT !.phase = "unscored", !.mem = mem]
<1>4. r \in Local /\ r.phase = "unscored" /\ r.job = wk[w].job BY <1>1, <1>3 DEF Local, Phases
<1>5. wk' = [wk EXCEPT ![w] = r] BY <1>2
<1> HIDE DEF r
<1> QED BY <1>1, <1>4, <1>5, LocalTyped DEF SkipScoring, TypeInv, TypeOK, dbVars

LEMMA LiveTyped ==
    ASSUME TypeInv, NEW j \in Jobs, NEW alive \in BOOLEAN, db' = [db EXCEPT ![j].live = alive]
    PROVE  db' \in [Jobs -> JobRow]
<1>1. db[j] \in JobRow /\ db \in [Jobs -> JobRow] BY DEF TypeInv, TypeOK
<1>2. [db[j] EXCEPT !.live = alive] \in JobRow BY <1>1 DEF JobRow
<1> QED BY <1>1, <1>2

LEMMA StartGroupingTyped == ASSUME TypeInv, NEW w \in Workers, StartGrouping(w) PROVE TypeInv'
<1> DEFINE r == [wk[w] EXCEPT !.phase = "grouping"]
<1>1. wk[w] \in Local /\ wk[w].phase # "idle" /\ wk[w].job \in Jobs /\ db[wk[w].job] \in JobRow
  BY BusyHasJob DEF StartGrouping, TypeInv, TypeOK
<1>2. r \in Local /\ r.phase = "grouping" /\ r.job = wk[w].job
  BY <1>1 DEF Local, Phases
<1>3. wk' = [wk EXCEPT ![w] = r] BY DEF StartGrouping
<1>4. db' \in [Jobs -> JobRow]
  <2> DEFINE alive == db[wk[w].job].live \/ SideChannel
  <2>1. db' = [db EXCEPT ![wk[w].job].live = alive] BY DEF StartGrouping
  <2>2. alive \in BOOLEAN BY <1>1 DEF JobRow
  <2> HIDE DEF alive
  <2> QED BY <1>1, <2>1, <2>2, LiveTyped
<1> HIDE DEF r
<1> QED BY <1>1, <1>2, <1>3, <1>4, LocalTyped DEF StartGrouping, TypeInv, TypeOK, dbVars

LEMMA RenewLeaseTyped == ASSUME TypeInv, NEW w \in Workers, RenewLease(w) PROVE TypeInv'
<1>1. wk[w].job \in Jobs BY BusyHasJob DEF RenewLease
<1>2. db' \in [Jobs -> JobRow] BY <1>1, LiveTyped DEF RenewLease
<1> QED BY <1>2 DEF RenewLease, TypeInv, TypeOK, AtStage

LEMMA LapseLeaseTyped == ASSUME TypeInv, NEW j \in Jobs, LapseLease(j) PROVE TypeInv'
<1>1. db' \in [Jobs -> JobRow] BY LiveTyped DEF LapseLease
<1>2. faults' \in [{"crash", "exception", "overrun"} -> Nat] BY FaultTyped DEF LapseLease, TypeInv, TypeOK
<1> QED BY <1>1, <1>2 DEF LapseLease, TypeInv, TypeOK, AtStage

LEMMA PublishedTyped ==
    ASSUME TypeInv, NEW w \in Workers, wk[w].phase # "idle", Published(w)
    PROVE  /\ product' \in [Jobs -> [Stages -> Nat]]
           /\ requests' \in [Jobs -> SUBSET RequestRows]
           /\ ungrouped' \in [Jobs -> BOOLEAN]
           /\ rows' \in [Jobs -> [Stages -> StageRows]]
<1>1. wk[w].job \in Jobs BY BusyHasJob
<1> QED BY <1>1, OutputTyped, FulfilledTyped, RowStepTyped
        DEF Published, Stages, RequiredStages, Statuses, TypeInv, TypeOK

LEMMA CompletedTyped ==
    ASSUME TypeInv, NEW w \in Workers, wk[w].phase # "idle", CompletedJob(w)
    PROVE  db' \in [Jobs -> JobRow]
<1> DEFINE new == [wk[w].mem EXCEPT !.state = "completed", !.stage = "ingested", !.owner = Nobody]
<1>1. wk[w].mem \in MemRow BY DEF TypeInv, TypeOK, Local
<1>2. new \in MemRow /\ new.state \in States /\ new.stage \in StageNames
  BY <1>1 DEF MemRow, States, Terminal, StageNames
<1>3. SaveJob(w, new, FALSE) BY DEF CompletedJob
<1> HIDE DEF new
<1> QED BY <1>2, <1>3, SaveTyped

LEMMA PublishGroupsTyped == ASSUME TypeInv, NEW w \in Workers, PublishGroups(w) PROVE TypeInv'
<1> DEFINE r == [wk[w] EXCEPT !.phase = "complete", !.row = NoRow]
<1>1. wk[w] \in Local /\ wk[w].phase # "idle" /\ wk[w].job \in Jobs
  BY BusyHasJob DEF PublishGroups, TypeInv, TypeOK, In
<1>2. r \in Local /\ r.phase = "complete" /\ r.job = wk[w].job
  BY <1>1 DEF Local, Phases, NoRow, HeldRow
<1>3. wk' = [wk EXCEPT ![w] = r] BY DEF PublishGroups
<1>4. /\ product' \in [Jobs -> [Stages -> Nat]] /\ requests' \in [Jobs -> SUBSET RequestRows]
      /\ ungrouped' \in [Jobs -> BOOLEAN] /\ rows' \in [Jobs -> [Stages -> StageRows]]
  BY <1>1, PublishedTyped DEF PublishGroups
<1> HIDE DEF r
<1> QED BY <1>1, <1>2, <1>3, <1>4, LocalTyped DEF PublishGroups, TypeInv, TypeOK, dbVars

LEMMA CompleteImportTyped == ASSUME TypeInv, NEW w \in Workers, CompleteImport(w) PROVE TypeInv'
<1>1. wk[w].phase # "idle" /\ wk[w].job \in Jobs BY BusyHasJob DEF CompleteImport, In, Failing
<1>2. wk' = [wk EXCEPT ![w] = Idle] BY DEF CompleteImport
<1>3. db' \in [Jobs -> JobRow]
  BY <1>1, CompletedTyped DEF CompleteImport
<1>4. snapshot' \in [Jobs -> {"none", "provisional", "graph_building", "complete"}]
  BY <1>1 DEF CompleteImport, TypeInv, TypeOK
<1> QED BY <1>1, <1>2, <1>3, <1>4, IdleFacts, LocalTyped DEF CompleteImport, TypeInv, TypeOK, dbVars

LEMMA PublishAndCompleteTyped == ASSUME TypeInv, NEW w \in Workers, PublishAndComplete(w) PROVE TypeInv'
<1>1. wk[w].phase # "idle" /\ wk[w].job \in Jobs BY BusyHasJob DEF PublishAndComplete, In, Failing
<1>2. wk' = [wk EXCEPT ![w] = Idle] BY DEF PublishAndComplete
<1>3. db' \in [Jobs -> JobRow]
  BY <1>1, CompletedTyped DEF PublishAndComplete
<1>4. snapshot' \in [Jobs -> {"none", "provisional", "graph_building", "complete"}]
  BY <1>1 DEF PublishAndComplete, TypeInv, TypeOK
<1>5. /\ product' \in [Jobs -> [Stages -> Nat]] /\ requests' \in [Jobs -> SUBSET RequestRows]
      /\ ungrouped' \in [Jobs -> BOOLEAN] /\ rows' \in [Jobs -> [Stages -> StageRows]]
  BY <1>1, PublishedTyped DEF PublishAndComplete
<1> QED BY <1>1, <1>2, <1>3, <1>4, <1>5, IdleFacts, LocalTyped DEF PublishAndComplete, TypeInv, TypeOK, dbVars

LEMMA RegroupAndCompleteTyped == ASSUME TypeInv, NEW w \in Workers, RegroupAndComplete(w) PROVE TypeInv'
<1>1. wk[w].phase # "idle" /\ wk[w].job \in Jobs BY BusyHasJob DEF RegroupAndComplete, In, Failing
<1>2. wk' = [wk EXCEPT ![w] = Idle] BY DEF RegroupAndComplete
<1>3. db' \in [Jobs -> JobRow]
  BY <1>1, CompletedTyped DEF RegroupAndComplete
<1>4. /\ product' \in [Jobs -> [Stages -> Nat]] /\ requests' \in [Jobs -> SUBSET RequestRows]
      /\ ungrouped' \in [Jobs -> BOOLEAN] /\ rows' \in [Jobs -> [Stages -> StageRows]]
  BY <1>1, PublishedTyped DEF RegroupAndComplete
<1> QED BY <1>1, <1>2, <1>3, <1>4, IdleFacts, LocalTyped DEF RegroupAndComplete, TypeInv, TypeOK, dbVars

LEMMA AbandonTyped == ASSUME TypeInv, NEW w \in Workers, Abandon(w) PROVE TypeInv'
<1>1. wk[w].phase # "idle" /\ wk[w].job \in Jobs BY BusyHasJob DEF Abandon, In, Failing
<1>2. wk' = [wk EXCEPT ![w] = Idle] BY DEF Abandon
<1> QED BY <1>1, <1>2, IdleFacts, LocalTyped DEF Abandon, TypeInv, TypeOK, dbVars

LEMMA CrashTyped == ASSUME TypeInv, NEW w \in Workers, Crash(w) PROVE TypeInv'
<1>1. wk[w].phase # "idle" /\ wk[w].job \in Jobs BY BusyHasJob DEF Crash, In, Failing
<1>2. wk' = [wk EXCEPT ![w] = Idle] BY DEF Crash
<1>3. faults' \in [{"crash", "exception", "overrun"} -> Nat]
  BY FaultTyped DEF Crash
<1> QED BY <1>1, <1>2, <1>3, IdleFacts, LocalTyped DEF Crash, TypeInv, TypeOK, dbVars

LEMMA FailJobTyped == ASSUME TypeInv, NEW w \in Workers, FailJob(w) PROVE TypeInv'
<1>1. wk[w].phase # "idle" /\ wk[w].job \in Jobs BY BusyHasJob DEF FailJob, In, Failing
<1>2. wk' = [wk EXCEPT ![w] = Idle] BY DEF FailJob
<1>3. db' \in [Jobs -> JobRow]
  <2>1. db \in [Jobs -> JobRow] /\ db[wk[w].job] \in JobRow BY <1>1 DEF TypeInv, TypeOK
  <2>2. \A code \in {"SOURCE_VERIFICATION_FAILED", "ANALYSIS_STAGE_FAILED"} :
            [db[wk[w].job] EXCEPT !.state = "failed", !.stage = "failed", !.owner = Nobody,
                                  !.live = FALSE, !.error = code] \in JobRow
    BY <2>1 DEF JobRow, States, Terminal, StageNames
  <2> QED BY <1>1, <2>1, <2>2 DEF FailJob
<1>4. rows' \in [Jobs -> [Stages -> StageRows]]
  BY <1>1, FailRunningTyped DEF FailJob, TypeInv, TypeOK
<1> QED BY <1>1, <1>2, <1>3, <1>4, IdleFacts, LocalTyped DEF FailJob, TypeInv, TypeOK, dbVars

LEMMA HoldingTyped ==
    ASSUME NEW j \in Jobs, NEW mem \in MemRow, NEW again \in BOOLEAN
    PROVE  LET r == Holding(j, mem, again)
           IN  r \in Local /\ r.phase = "claimed" /\ r.job = j
  BY IdleTyped DEF Holding, Idle, Local, Phases

LEMMA TakenTyped ==
    ASSUME NEW d \in JobRow, NEW w \in Workers
    PROVE  Taken(d, w) \in JobRow /\ Retried(d) \in JobRow /\ Requeue(d) \in JobRow
<1>1. d.attempt + 1 \in Nat BY DEF JobRow
<1> QED BY <1>1 DEF Taken, Retried, Requeue, JobRow, States, Active, Leased, StageNames, Stages, RequiredStages

LEMMA ClaimTyped == ASSUME TypeInv, NEW w \in Workers, NEW j \in Jobs, Claim(w, j) PROVE TypeInv'
<1> DEFINE d == Taken(db[j], w)
           r == Holding(j, Columns(d), FALSE)
<1>1. db \in [Jobs -> JobRow] /\ d \in JobRow BY TakenTyped DEF TypeInv, TypeOK
<1>2. db' \in [Jobs -> JobRow] BY <1>1 DEF Claim
<1>3. wk' = [wk EXCEPT ![w] = r] BY DEF Claim
<1>4. Columns(d) \in MemRow BY <1>1, ColumnsTyped
<1>5. r \in Local /\ r.phase = "claimed" /\ r.job \in Jobs BY <1>4, HoldingTyped
<1> HIDE DEF d, r
<1> QED BY <1>2, <1>3, <1>5, LocalTyped, JobsAssumption DEF Claim, TypeInv, TypeOK

LEMMA RetryOnceTyped == ASSUME TypeInv, NEW w \in Workers, RetryOnce(w) PROVE TypeInv'
<1> DEFINE j == wk[w].job
           d == Retried(db[j])
           r == Holding(j, Columns(d), TRUE)
<1>1. j \in Jobs BY BusyHasJob DEF RetryOnce, MayRetry
<1>2. db \in [Jobs -> JobRow] /\ d \in JobRow BY <1>1, TakenTyped DEF TypeInv, TypeOK
<1>3. db' \in [Jobs -> JobRow] BY <1>1, <1>2 DEF RetryOnce
<1>4. wk' = [wk EXCEPT ![w] = r] BY DEF RetryOnce
<1>5. Columns(d) \in MemRow BY <1>2, ColumnsTyped
<1>6. r \in Local /\ r.phase = "claimed" /\ r.job \in Jobs BY <1>1, <1>5, HoldingTyped
<1>7. rows' \in [Jobs -> [Stages -> StageRows]]
  BY <1>1, FailRunningTyped DEF RetryOnce, TypeInv, TypeOK
<1> HIDE DEF d, r, j
<1> QED BY <1>3, <1>4, <1>6, <1>7, LocalTyped, JobsAssumption DEF RetryOnce, TypeInv, TypeOK

LEMMA RetryAnalysisTyped ==
    ASSUME TypeInv, NEW j \in Jobs, NEW kind \in {"plain", "refresh"}, RetryAnalysis(j, kind)
    PROVE  TypeInv'
<1>1. db \in [Jobs -> JobRow] /\ db[j] \in JobRow /\ requests \in [Jobs -> SUBSET RequestRows]
  BY DEF TypeInv, TypeOK
<1>2. Requeue(db[j]) \in JobRow
  BY <1>1 DEF Requeue, JobRow, States, Active, StageNames
<1>3. NewRequest(db[j].attempt + 1, kind) \in RequestRows BY <1>1 DEF NewRequest, RequestRows, JobRow
<1>4. db' \in [Jobs -> JobRow] BY <1>1, <1>2 DEF RetryAnalysis
<1>5. requests' \in [Jobs -> SUBSET RequestRows] BY <1>1, <1>3 DEF RetryAnalysis
<1>6. asks' \in Nat BY DEF RetryAnalysis, TypeInv, TypeOK
<1> QED BY <1>4, <1>5, <1>6 DEF RetryAnalysis, TypeInv, TypeOK, AtStage

LEMMA BuildQueueTyped == ASSUME TypeInv, BuildQueue PROVE TypeInv'
<1>1. \A j \in Jobs : db[j] \in JobRow /\ requests[j] \in SUBSET RequestRows
  BY DEF TypeInv, TypeOK
<1>2. \A j \in Jobs : Requeue(db[j]) \in JobRow
  BY <1>1 DEF Requeue, JobRow, States, Active, StageNames
<1>3. ASSUME NEW j \in Jobs PROVE NewRequest(db[j].attempt + 1, "group") \in RequestRows
  <2>1. db[j] \in JobRow BY <1>1
  <2>2. db[j].attempt \in Nat BY <2>1 DEF JobRow
  <2>3. db[j].attempt + 1 \in Nat BY <2>2
  <2> QED BY <2>3 DEF NewRequest, RequestRows
<1>4. db' \in [Jobs -> JobRow] BY <1>1, <1>2 DEF BuildQueue
<1>5. requests' \in [Jobs -> SUBSET RequestRows] BY <1>1, <1>3 DEF BuildQueue
<1>6. asks' \in Nat BY DEF BuildQueue, TypeInv, TypeOK
<1> QED BY <1>4, <1>5, <1>6 DEF BuildQueue, TypeInv, TypeOK, AtStage

LEMMA NextTyped == TypeInv /\ [Next]_vars => TypeInv'
<1> SUFFICES ASSUME TypeInv, [Next]_vars PROVE TypeInv' OBVIOUS
<1>1. CASE UNCHANGED vars BY <1>1 DEF vars, dbVars, TypeInv, TypeOK, AtStage
<1>2. CASE Api BY <1>2, RetryAnalysisTyped, BuildQueueTyped DEF Api
<1>3. CASE \E j \in Jobs : LapseLease(j) BY <1>3, LapseLeaseTyped
<1>4. ASSUME NEW w \in Workers, NEW j \in Jobs, Claim(w, j) PROVE TypeInv'
  BY <1>4, ClaimTyped
<1>5. ASSUME NEW w \in Workers, Choose(w) PROVE TypeInv'
  BY <1>5, OpenVerificationTyped, VerifySourceTyped, StartRegroupingTyped,
     RefuseRegroupingTyped, StartImportTyped DEF Choose
<1>6. ASSUME NEW w \in Workers, FullRun(w) PROVE TypeInv'
  <2>1. {"graph_building", "findings", "ml_scoring"} \subseteq Stages BY DEF Stages, RequiredStages
  <2> QED BY <1>6, <2>1, BeginIngestTyped, CommitBatchTyped, FinishIngestTyped, EnterGraphTyped,
        BuildAndEnterTyped, ScoreTyped, SkipScoringTyped, FinishScoringTyped,
        EnterAnalyticsTyped, AnalyzeTyped, AnalyticsFailsTyped, ReportCoverageTyped,
        EnterGroupingTyped, CloseRowTyped, ReuseRowTyped, OpenRowTyped DEF FullRun
<1>7. ASSUME NEW w \in Workers, GroupingRun(w) PROVE TypeInv'
  BY <1>7, StartGroupingTyped, LoseLeaseTyped, PublishGroupsTyped, CompleteImportTyped,
     PublishAndCompleteTyped, RegroupAndCompleteTyped DEF GroupingRun
<1>8. ASSUME NEW w \in Workers, Handler(w) PROVE TypeInv'
  BY <1>8, DuplicateKeyTyped, AbandonTyped, RetryOnceTyped, FailJobTyped DEF Handler
<1>9. ASSUME NEW w \in Workers, RenewLease(w) \/ Crash(w) \/ \E kind \in Failing : Raise(w, kind)
      PROVE TypeInv'
  BY <1>9, RenewLeaseTyped, CrashTyped, RaiseTyped
<1> QED BY <1>1, <1>2, <1>3, <1>4, <1>5, <1>6, <1>7, <1>8, <1>9 DEF Next, Work

\* Every variable of the job system keeps its type in every reachable state,
\* for any jobs, workers, batches, faults and requests.
THEOREM TypeCorrect == Spec => []TypeOK
<1>1. Init => TypeInv BY InitTyped
<1>2. TypeInv /\ [Next]_vars => TypeInv' BY NextTyped
<1>3. TypeInv => TypeOK BY DEF TypeInv
<1> QED BY <1>1, <1>2, <1>3, PTL DEF Spec

-----------------------------------------------------------------------------
(* Until a lease lapses under a running worker.                            *)

\* A busy worker holds the live lease of its job: what makes two workers on one
\* job impossible, and what a claim relies on.
Holds(w) ==
    wk[w].phase # "idle" =>
        /\ db[wk[w].job].owner = w
        /\ db[wk[w].job].state \in Leased
        /\ db[wk[w].job].live

\* Two workers never share a job because each would own its row.
LeaseInv == \A w \in Workers : Holds(w)

KeysKept ==
    \A i \in Jobs :
        \/ requests'[i] = requests[i]
        \/ \E x : requests'[i] = FulfilGrouping(i, x) \/ requests'[i] = FulfilRefresh(i, x)

\* What every step of a busy worker has in common.
WorkerStep(w) ==
    /\ wk[w].phase # "idle"
    /\ \A v \in Workers \ {w} : wk'[v] = wk[v]
    /\ \A i \in Jobs \ {wk[w].job} : db'[i] = db[i]
    /\ db'[wk[w].job].attempt >= db[wk[w].job].attempt
    /\ db'[wk[w].job].state # "queued"
    /\ wk'[w].phase # "idle" => Holds(w)' /\ wk'[w].job = wk[w].job
    /\ KeysKept

\* A step that leaves the job row alone.
LEMMA LocalStep ==
    ASSUME TypeInv, LeaseInv, NEW w \in Workers, wk[w].phase # "idle", NEW r,
           db' = db, KeysKept, wk' = [wk EXCEPT ![w] = r],
           r.phase = "idle" \/ r.job = wk[w].job
    PROVE  WorkerStep(w)
<1>1. wk[w].job \in Jobs /\ wk \in [Workers -> Local] BY BusyHasJob DEF TypeInv, TypeOK
<1>2. Holds(w) /\ db[wk[w].job].attempt \in Nat BY <1>1 DEF LeaseInv, TypeInv, TypeOK, JobRow
<1>3. wk'[w] = r /\ \A v \in Workers \ {w} : wk'[v] = wk[v] BY <1>1
<1> QED BY <1>1, <1>2, <1>3 DEF WorkerStep, Holds, Leased

\* A step that commits the worker's copy of the row and goes on.
LEMMA SaveStep ==
    ASSUME TypeInv, LeaseInv, NEW w \in Workers, wk[w].phase # "idle", NEW r, NEW new,
           NEW alive, SaveJob(w, new, alive), alive = TRUE \/ alive = db[wk[w].job].live,
           new.owner = wk[w].mem.owner, new.attempt = wk[w].mem.attempt,
           new.state = wk[w].mem.state \/ new.state \in Leased,
           KeysKept, wk' = [wk EXCEPT ![w] = r], r.job = wk[w].job
    PROVE  WorkerStep(w)
<1> DEFINE j == wk[w].job
<1>1. j \in Jobs /\ wk \in [Workers -> Local] BY BusyHasJob DEF TypeInv, TypeOK
<1>2. db \in [Jobs -> JobRow] /\ db[j] \in JobRow BY <1>1 DEF TypeInv, TypeOK
<1>3. db[j].owner = w /\ db[j].state \in Leased /\ db[j].live BY DEF LeaseInv, Holds
<1>4. /\ \A i \in Jobs \ {j} : db'[i] = db[i]
      /\ db'[j] = [Merge(db[j], wk[w].mem, new) EXCEPT !.live = alive]
  BY <1>1, <1>2 DEF SaveJob
<1>5. /\ db'[j].owner = w /\ db'[j].attempt = db[j].attempt /\ db'[j].live
      /\ db'[j].state \in Leased
  <2>1. /\ db'[j].owner = db[j].owner /\ db'[j].attempt = db[j].attempt /\ db'[j].live = alive
        /\ db'[j].state = IF new.state = wk[w].mem.state THEN db[j].state ELSE new.state
    BY <1>2, <1>4 DEF Merge, JobRow
  <2>2. alive = TRUE BY <1>2, <1>3 DEF JobRow
  <2> QED BY <1>3, <2>1, <2>2
<1>6. wk'[w] = r /\ \A v \in Workers \ {w} : wk'[v] = wk[v] BY <1>1
<1>7. db[j].attempt \in Nat BY <1>2 DEF JobRow
<1>8. Holds(w)' BY <1>5, <1>6 DEF Holds
<1>9. db'[j].state # "queued" BY <1>5 DEF Leased
<1> QED BY <1>4, <1>5, <1>6, <1>7, <1>8, <1>9 DEF WorkerStep

LEMMA EnterStep ==
    ASSUME TypeInv, LeaseInv, NEW w \in Workers, wk[w].phase # "idle", NEW s \in Stages,
           Enter(w, s), KeysKept
    PROVE  WorkerStep(w)
<1> DEFINE new == [wk[w].mem EXCEPT !.stage = s]
           r == [wk[w] EXCEPT !.mem = new, !.at = s,
                              !.phase = IF wk[w].row = NoRow THEN "open" ELSE "close"]
<1>1. wk[w] \in Local /\ wk[w].mem \in MemRow BY DEF TypeInv, TypeOK, Local
<1>2. new.owner = wk[w].mem.owner /\ new.attempt = wk[w].mem.attempt /\ new.state = wk[w].mem.state
  BY <1>1 DEF MemRow
<1>3. SaveJob(w, new, TRUE) /\ wk' = [wk EXCEPT ![w] = r] BY DEF Enter
<1>4. r.job = wk[w].job
  <2> HIDE DEF new
  <2> QED BY <1>1 DEF Local
<1> HIDE DEF new, r
<1> QED BY <1>2, <1>3, <1>4, SaveStep

LEMMA CompletedStep ==
    ASSUME TypeInv, LeaseInv, NEW w \in Workers, wk[w].phase # "idle", CompletedJob(w), KeysKept,
           wk' = [wk EXCEPT ![w] = Idle]
    PROVE  WorkerStep(w)
<1> DEFINE j == wk[w].job
           new == [wk[w].mem EXCEPT !.state = "completed", !.stage = "ingested", !.owner = Nobody]
<1>1. j \in Jobs /\ wk \in [Workers -> Local] /\ wk[w].mem \in MemRow
  BY BusyHasJob DEF TypeInv, TypeOK, Local
<1>2. db \in [Jobs -> JobRow] /\ db[j] \in JobRow /\ db[j].state \in Leased
  BY <1>1 DEF TypeInv, TypeOK, LeaseInv, Holds
<1>3. new.attempt = wk[w].mem.attempt /\ new.state = "completed" BY <1>1 DEF MemRow
<1>4. /\ \A i \in Jobs \ {j} : db'[i] = db[i]
      /\ db'[j] = [Merge(db[j], wk[w].mem, new) EXCEPT !.live = FALSE]
  BY <1>1, <1>2 DEF CompletedJob, SaveJob
<1> HIDE DEF new
<1>5. db'[j].attempt = db[j].attempt /\ db'[j].state \in {db[j].state, "completed"}
  BY <1>2, <1>3, <1>4 DEF Merge, JobRow
<1>6. wk'[w].phase = "idle" /\ \A v \in Workers \ {w} : wk'[v] = wk[v] BY <1>1, IdleFacts
<1>7. db[j].attempt \in Nat BY <1>2 DEF JobRow
<1> QED BY <1>2, <1>4, <1>5, <1>6, <1>7 DEF WorkerStep, Leased

LEMMA CloseRowStep == ASSUME TypeInv, LeaseInv, NEW w \in Workers, CloseRow(w) PROVE WorkerStep(w)
<1> DEFINE r == [wk[w] EXCEPT !.phase = "open", !.row = NoRow]
<1>1. wk[w] \in Local /\ wk[w].phase # "idle" /\ wk[w].job \in Jobs
  BY BusyHasJob DEF CloseRow, TypeInv, TypeOK
<1>2. r.job = wk[w].job BY <1>1 DEF Local
<1>3. wk' = [wk EXCEPT ![w] = r] /\ db' = db BY DEF CloseRow, dbVars
<1>4. KeysKept BY <1>1 DEF CloseRow, KeysKept, dbVars, TypeInv, TypeOK
<1> HIDE DEF r
<1> QED BY <1>1, <1>2, <1>3, <1>4, LocalStep

LEMMA ReuseRowStep == ASSUME TypeInv, LeaseInv, NEW w \in Workers, ReuseRow(w) PROVE WorkerStep(w)
<1> DEFINE r == [wk[w] EXCEPT !.phase = "work"]
<1>1. wk[w] \in Local /\ wk[w].phase # "idle" /\ wk[w].job \in Jobs
  BY BusyHasJob DEF ReuseRow, TypeInv, TypeOK
<1>2. r.job = wk[w].job BY <1>1 DEF Local
<1>3. wk' = [wk EXCEPT ![w] = r] /\ db' = db BY DEF ReuseRow, dbVars
<1>4. KeysKept BY <1>1 DEF ReuseRow, KeysKept, dbVars, TypeInv, TypeOK
<1> HIDE DEF r
<1> QED BY <1>1, <1>2, <1>3, <1>4, LocalStep

LEMMA OpenRowStep == ASSUME TypeInv, LeaseInv, NEW w \in Workers, OpenRow(w) PROVE WorkerStep(w)
<1> DEFINE r == [wk[w] EXCEPT !.phase = "work",
              !.row = [stage |-> wk[w].at, attempt |-> wk[w].mem.attempt]]
<1>1. wk[w] \in Local /\ wk[w].phase # "idle" /\ wk[w].job \in Jobs
  BY BusyHasJob DEF OpenRow, TypeInv, TypeOK
<1>2. r.job = wk[w].job BY <1>1 DEF Local
<1>3. wk' = [wk EXCEPT ![w] = r] /\ db' = db BY DEF OpenRow, dbVars
<1>4. KeysKept BY <1>1 DEF OpenRow, KeysKept, dbVars, TypeInv, TypeOK
<1> HIDE DEF r
<1> QED BY <1>1, <1>2, <1>3, <1>4, LocalStep

LEMMA OpenVerificationStep == ASSUME TypeInv, LeaseInv, NEW w \in Workers, OpenVerification(w) PROVE WorkerStep(w)
<1> DEFINE r == [wk[w] EXCEPT !.phase = "work", !.at = "source_verification",
              !.row = [stage |-> "source_verification", attempt |-> wk[w].mem.attempt]]
<1>1. wk[w] \in Local /\ wk[w].phase # "idle" /\ wk[w].job \in Jobs
  BY BusyHasJob DEF OpenVerification, TypeInv, TypeOK
<1>2. r.job = wk[w].job BY <1>1 DEF Local
<1>3. wk' = [wk EXCEPT ![w] = r] /\ db' = db BY DEF OpenVerification, dbVars
<1>4. KeysKept BY <1>1 DEF OpenVerification, KeysKept, dbVars, TypeInv, TypeOK
<1> HIDE DEF r
<1> QED BY <1>1, <1>2, <1>3, <1>4, LocalStep

LEMMA VerifySourceStep == ASSUME TypeInv, LeaseInv, NEW w \in Workers, VerifySource(w) PROVE WorkerStep(w)
<1> DEFINE r == [wk[w] EXCEPT !.phase = "decide", !.row = NoRow]
<1>1. wk[w] \in Local /\ wk[w].phase # "idle" /\ wk[w].job \in Jobs
  BY BusyHasJob DEF VerifySource, TypeInv, TypeOK, In
<1>2. r.job = wk[w].job BY <1>1 DEF Local
<1>3. wk' = [wk EXCEPT ![w] = r] /\ db' = db BY DEF VerifySource, dbVars
<1>4. KeysKept BY <1>1 DEF VerifySource, KeysKept, dbVars, TypeInv, TypeOK
<1> HIDE DEF r
<1> QED BY <1>1, <1>2, <1>3, <1>4, LocalStep

LEMMA RefuseRegroupingStep == ASSUME TypeInv, LeaseInv, NEW w \in Workers, RefuseRegrouping(w) PROVE WorkerStep(w)
<1> DEFINE r == Raised(w, "failing_fatal")
<1>1. wk[w] \in Local /\ wk[w].phase # "idle" /\ wk[w].job \in Jobs
  BY BusyHasJob DEF RefuseRegrouping, TypeInv, TypeOK
<1>2. r.job = wk[w].job BY <1>1, IdleTyped DEF Raised, Local
<1>3. wk' = [wk EXCEPT ![w] = r] /\ db' = db BY DEF RefuseRegrouping, dbVars
<1>4. KeysKept BY <1>1 DEF RefuseRegrouping, KeysKept, dbVars, TypeInv, TypeOK
<1> HIDE DEF r
<1> QED BY <1>1, <1>2, <1>3, <1>4, LocalStep

LEMMA DuplicateKeyStep == ASSUME TypeInv, LeaseInv, NEW w \in Workers, DuplicateKey(w) PROVE WorkerStep(w)
<1> DEFINE r == Raised(w, "failing_fatal")
<1>1. wk[w] \in Local /\ wk[w].phase # "idle" /\ wk[w].job \in Jobs
  BY BusyHasJob DEF DuplicateKey, KeyTaken, In, TypeInv, TypeOK
<1>2. r.job = wk[w].job BY <1>1, IdleTyped DEF Raised, Local
<1>3. wk' = [wk EXCEPT ![w] = r] /\ db' = db BY DEF DuplicateKey, dbVars
<1>4. KeysKept BY <1>1 DEF DuplicateKey, KeysKept, dbVars, TypeInv, TypeOK
<1> HIDE DEF r
<1> QED BY <1>1, <1>2, <1>3, <1>4, LocalStep

LEMMA LoseLeaseStep == ASSUME TypeInv, LeaseInv, NEW w \in Workers, LoseLease(w) PROVE WorkerStep(w)
<1> DEFINE r == Raised(w, "failing_fatal")
<1>1. wk[w] \in Local /\ wk[w].phase # "idle" /\ wk[w].job \in Jobs
  BY BusyHasJob DEF LoseLease, TypeInv, TypeOK
<1>2. r.job = wk[w].job BY <1>1, IdleTyped DEF Raised, Local
<1>3. wk' = [wk EXCEPT ![w] = r] /\ db' = db BY DEF LoseLease, dbVars
<1>4. KeysKept BY <1>1 DEF LoseLease, KeysKept, dbVars, TypeInv, TypeOK
<1> HIDE DEF r
<1> QED BY <1>1, <1>2, <1>3, <1>4, LocalStep

LEMMA FinishIngestStep == ASSUME TypeInv, LeaseInv, NEW w \in Workers, FinishIngest(w) PROVE WorkerStep(w)
<1> DEFINE r == [wk[w] EXCEPT !.row = NoRow]
<1>1. wk[w] \in Local /\ wk[w].phase # "idle" /\ wk[w].job \in Jobs
  BY BusyHasJob DEF FinishIngest, TypeInv, TypeOK, In
<1>2. r.job = wk[w].job BY <1>1 DEF Local
<1>3. wk' = [wk EXCEPT ![w] = r] /\ db' = db BY DEF FinishIngest, dbVars
<1>4. KeysKept BY <1>1 DEF FinishIngest, KeysKept, dbVars, TypeInv, TypeOK
<1> HIDE DEF r
<1> QED BY <1>1, <1>2, <1>3, <1>4, LocalStep

LEMMA ScoreStep == ASSUME TypeInv, LeaseInv, NEW w \in Workers, Score(w) PROVE WorkerStep(w)
<1> DEFINE r == [wk[w] EXCEPT !.phase = "scored"]
<1>1. wk[w] \in Local /\ wk[w].phase # "idle" /\ wk[w].job \in Jobs
  BY BusyHasJob DEF Score, TypeInv, TypeOK, In
<1>2. r.job = wk[w].job BY <1>1 DEF Local
<1>3. wk' = [wk EXCEPT ![w] = r] /\ db' = db BY DEF Score, dbVars
<1>4. KeysKept BY <1>1 DEF Score, KeysKept, dbVars, TypeInv, TypeOK
<1> HIDE DEF r
<1> QED BY <1>1, <1>2, <1>3, <1>4, LocalStep

LEMMA FinishScoringStep == ASSUME TypeInv, LeaseInv, NEW w \in Workers, FinishScoring(w) PROVE WorkerStep(w)
<1> DEFINE r == [wk[w] EXCEPT !.phase = "leave", !.row = NoRow]
<1>1. wk[w] \in Local /\ wk[w].phase # "idle" /\ wk[w].job \in Jobs
  BY BusyHasJob DEF FinishScoring, TypeInv, TypeOK
<1>2. r.job = wk[w].job BY <1>1 DEF Local
<1>3. wk' = [wk EXCEPT ![w] = r] /\ db' = db BY DEF FinishScoring, dbVars
<1>4. KeysKept BY <1>1 DEF FinishScoring, KeysKept, dbVars, TypeInv, TypeOK
<1> HIDE DEF r
<1> QED BY <1>1, <1>2, <1>3, <1>4, LocalStep

LEMMA AnalyzeStep == ASSUME TypeInv, LeaseInv, NEW w \in Workers, Analyze(w) PROVE WorkerStep(w)
<1> DEFINE r == [wk[w] EXCEPT !.phase = "open", !.at = "coverage", !.row = NoRow]
<1>1. wk[w] \in Local /\ wk[w].phase # "idle" /\ wk[w].job \in Jobs
  BY BusyHasJob DEF Analyze, TypeInv, TypeOK, In
<1>2. r.job = wk[w].job BY <1>1 DEF Local
<1>3. wk' = [wk EXCEPT ![w] = r] /\ db' = db BY DEF Analyze, dbVars
<1>4. KeysKept BY <1>1 DEF Analyze, KeysKept, dbVars, TypeInv, TypeOK
<1> HIDE DEF r
<1> QED BY <1>1, <1>2, <1>3, <1>4, LocalStep

LEMMA AnalyticsFailsStep == ASSUME TypeInv, LeaseInv, NEW w \in Workers, AnalyticsFails(w) PROVE WorkerStep(w)
<1> DEFINE r == [wk[w] EXCEPT !.phase = "leave", !.row = NoRow, !.mem = Columns(db[wk[w].job])]
<1>1. wk[w] \in Local /\ wk[w].phase # "idle" /\ wk[w].job \in Jobs
  BY BusyHasJob DEF AnalyticsFails, TypeInv, TypeOK, In
<1>2. r.job = wk[w].job BY <1>1 DEF Local
<1>3. wk' = [wk EXCEPT ![w] = r] /\ db' = db BY DEF AnalyticsFails, dbVars
<1>4. KeysKept BY <1>1 DEF AnalyticsFails, KeysKept, dbVars, TypeInv, TypeOK
<1> HIDE DEF r
<1> QED BY <1>1, <1>2, <1>3, <1>4, LocalStep

LEMMA ReportCoverageStep == ASSUME TypeInv, LeaseInv, NEW w \in Workers, ReportCoverage(w) PROVE WorkerStep(w)
<1> DEFINE r == [wk[w] EXCEPT !.phase = "leave", !.row = NoRow]
<1>1. wk[w] \in Local /\ wk[w].phase # "idle" /\ wk[w].job \in Jobs
  BY BusyHasJob DEF ReportCoverage, TypeInv, TypeOK, In
<1>2. r.job = wk[w].job BY <1>1 DEF Local
<1>3. wk' = [wk EXCEPT ![w] = r] /\ db' = db BY DEF ReportCoverage, dbVars
<1>4. KeysKept BY <1>1 DEF ReportCoverage, KeysKept, dbVars, TypeInv, TypeOK
<1> HIDE DEF r
<1> QED BY <1>1, <1>2, <1>3, <1>4, LocalStep

LEMMA PublishGroupsStep == ASSUME TypeInv, LeaseInv, NEW w \in Workers, PublishGroups(w) PROVE WorkerStep(w)
<1> DEFINE r == [wk[w] EXCEPT !.phase = "complete", !.row = NoRow]
<1>1. wk[w] \in Local /\ wk[w].phase # "idle" /\ wk[w].job \in Jobs
  BY BusyHasJob DEF PublishGroups, TypeInv, TypeOK, In
<1>2. r.job = wk[w].job BY <1>1 DEF Local
<1>3. wk' = [wk EXCEPT ![w] = r] /\ db' = db BY DEF PublishGroups, dbVars
<1>4. KeysKept BY <1>1 DEF PublishGroups, KeysKept, dbVars, TypeInv, TypeOK, Published
<1> HIDE DEF r
<1> QED BY <1>1, <1>2, <1>3, <1>4, LocalStep

LEMMA RaiseStep ==
    ASSUME TypeInv, LeaseInv, NEW w \in Workers, NEW kind \in Failing, Raise(w, kind)
    PROVE  WorkerStep(w)
<1> DEFINE r == Raised(w, kind)
<1>1. wk[w] \in Local /\ wk[w].phase # "idle" BY DEF Raise, TypeInv, TypeOK
<1>2. r.job = wk[w].job BY <1>1, IdleTyped DEF Raised, Local
<1>3. wk' = [wk EXCEPT ![w] = r] /\ db' = db /\ KeysKept BY DEF Raise, dbVars, KeysKept
<1> HIDE DEF r
<1> QED BY <1>1, <1>2, <1>3, LocalStep

LEMMA LeaveStep ==
    ASSUME TypeInv, LeaseInv, NEW w \in Workers, Abandon(w) \/ Crash(w)
    PROVE  WorkerStep(w)
<1>1. wk[w].phase # "idle" BY DEF Abandon, Crash, Failing
<1>2. wk' = [wk EXCEPT ![w] = Idle] /\ db' = db /\ KeysKept BY DEF Abandon, Crash, dbVars, KeysKept
<1> QED BY <1>1, <1>2, IdleFacts, LocalStep

LEMMA SkipScoringStep ==
    ASSUME TypeInv, LeaseInv, NEW w \in Workers, SkipScoring(w) PROVE WorkerStep(w)
<1>1. wk[w] \in Local /\ wk[w].phase # "idle" BY DEF SkipScoring, In, TypeInv, TypeOK
<1>2. PICK mem : wk' = [wk EXCEPT ![w].phase = "unscored", ![w].mem = mem] BY DEF SkipScoring
<1> DEFINE r == [wk[w] EXCEPT !.phase = "unscored", !.mem = mem]
<1>3. wk' = [wk EXCEPT ![w] = r] BY <1>2
<1>4. r.job = wk[w].job BY <1>1 DEF Local
<1>5. db' = db /\ KeysKept BY DEF SkipScoring, dbVars, KeysKept
<1> HIDE DEF r
<1> QED BY <1>1, <1>3, <1>4, <1>5, LocalStep

LEMMA StartImportStep ==
    ASSUME TypeInv, LeaseInv, NEW w \in Workers, StartImport(w) PROVE WorkerStep(w)
<1>1. wk[w] \in Local /\ wk[w].phase # "idle" BY DEF StartImport, TypeInv, TypeOK
<1> DEFINE j == wk[w].job
           wanted == {q.attempt : q \in {p \in Pending(j, wk[w].mem.attempt) : p.kind = "refresh"}}
           ref == IF Succeeded(j, "ingesting") THEN NoRow
                  ELSE [stage |-> "ingesting", attempt |-> wk[w].mem.attempt]
<1>2. PICK geoip \in BOOLEAN :
          wk' = [wk EXCEPT ![w].phase = "begin", ![w].at = "ingesting",
                           ![w].pos = checkpoint[j], ![w].wanted = wanted,
                           ![w].refreshing = wanted # {} \/ geoip, ![w].row = ref]
  BY DEF StartImport
<1> DEFINE r == [wk[w] EXCEPT !.phase = "begin", !.at = "ingesting", !.pos = checkpoint[j],
                              !.wanted = wanted, !.refreshing = wanted # {} \/ geoip, !.row = ref]
<1> HIDE DEF wanted, ref, j
<1>3. wk' = [wk EXCEPT ![w] = r] BY <1>2
<1>4. r.job = wk[w].job BY <1>1 DEF Local
<1>5. db' = db /\ KeysKept BY DEF StartImport, KeysKept
<1> HIDE DEF r
<1> QED BY <1>1, <1>3, <1>4, <1>5, LocalStep

LEMMA StartGroupingStep ==
    ASSUME TypeInv, LeaseInv, NEW w \in Workers, StartGrouping(w) PROVE WorkerStep(w)
<1> DEFINE j == wk[w].job
<1>1. wk[w] \in Local /\ wk[w].phase # "idle" /\ j \in Jobs
  BY BusyHasJob DEF StartGrouping, TypeInv, TypeOK
<1>2. db \in [Jobs -> JobRow] /\ db[j] \in JobRow BY <1>1 DEF TypeInv, TypeOK
<1>3. db[j].owner = w /\ db[j].state \in Leased /\ db[j].live BY <1>1 DEF LeaseInv, Holds
<1>4. db' = db BY <1>1, <1>2, <1>3 DEF StartGrouping, JobRow
<1>5. wk' = [wk EXCEPT ![w] = [wk[w] EXCEPT !.phase = "grouping"]] BY DEF StartGrouping
<1>6. [wk[w] EXCEPT !.phase = "grouping"].job = j BY <1>1 DEF Local
<1>7. KeysKept BY DEF StartGrouping, KeysKept
<1> QED BY <1>1, <1>4, <1>5, <1>6, <1>7, LocalStep

LEMMA StartRegroupingStep == ASSUME TypeInv, LeaseInv, NEW w \in Workers, StartRegrouping(w) PROVE WorkerStep(w)
<1> DEFINE new == [wk[w].mem EXCEPT !.stage = "investigation_grouping"]
           r == [wk[w] EXCEPT !.mem = new, !.phase = "work", !.at = "regrouping",
                      !.row = [stage |-> "investigation_grouping", attempt |-> wk[w].mem.attempt]]
<1>1. wk[w] \in Local /\ wk[w].phase # "idle" /\ wk[w].mem \in MemRow
  BY DEF StartRegrouping, TypeInv, TypeOK, Local
<1>2. /\ new.owner = wk[w].mem.owner /\ new.attempt = wk[w].mem.attempt
      /\ new.state = wk[w].mem.state \/ new.state \in Leased
  BY <1>1 DEF MemRow, Leased
<1>3. SaveJob(w, new, db[wk[w].job].live) /\ wk' = [wk EXCEPT ![w] = r] BY DEF StartRegrouping
<1>4. r.job = wk[w].job
  <2> HIDE DEF new
  <2> QED BY <1>1 DEF Local
<1>5. KeysKept BY DEF StartRegrouping, KeysKept
<1> HIDE DEF new, r
<1> QED BY <1>1, <1>2, <1>3, <1>4, <1>5, SaveStep

LEMMA BeginIngestStep == ASSUME TypeInv, LeaseInv, NEW w \in Workers, BeginIngest(w) PROVE WorkerStep(w)
<1> DEFINE new == [wk[w].mem EXCEPT !.state = "running", !.stage = "ingesting"]
           r == [wk[w] EXCEPT !.mem = new, !.phase = "work"]
<1>1. wk[w] \in Local /\ wk[w].phase # "idle" /\ wk[w].mem \in MemRow
  BY DEF BeginIngest, TypeInv, TypeOK, Local
<1>2. /\ new.owner = wk[w].mem.owner /\ new.attempt = wk[w].mem.attempt
      /\ new.state = wk[w].mem.state \/ new.state \in Leased
  BY <1>1 DEF MemRow, Leased
<1>3. SaveJob(w, new, db[wk[w].job].live) /\ wk' = [wk EXCEPT ![w] = r] BY DEF BeginIngest
<1>4. r.job = wk[w].job
  <2> HIDE DEF new
  <2> QED BY <1>1 DEF Local
<1>5. KeysKept BY DEF BeginIngest, KeysKept
<1> HIDE DEF new, r
<1> QED BY <1>1, <1>2, <1>3, <1>4, <1>5, SaveStep

LEMMA CommitBatchStep == ASSUME TypeInv, LeaseInv, NEW w \in Workers, CommitBatch(w) PROVE WorkerStep(w)
<1> DEFINE new == [wk[w].mem EXCEPT !.state = "checkpointed", !.stage = "ingesting"]
           r == [wk[w] EXCEPT !.mem = new, !.pos = @ + 1]
<1>1. wk[w] \in Local /\ wk[w].phase # "idle" /\ wk[w].mem \in MemRow
  BY DEF CommitBatch, TypeInv, TypeOK, Local, In
<1>2. /\ new.owner = wk[w].mem.owner /\ new.attempt = wk[w].mem.attempt
      /\ new.state = wk[w].mem.state \/ new.state \in Leased
  BY <1>1 DEF MemRow, Leased
<1>3. SaveJob(w, new, TRUE) /\ wk' = [wk EXCEPT ![w] = r] BY DEF CommitBatch
<1>4. r.job = wk[w].job
  <2> HIDE DEF new
  <2> QED BY <1>1 DEF Local
<1>5. KeysKept BY DEF CommitBatch, KeysKept
<1> HIDE DEF new, r
<1> QED BY <1>1, <1>2, <1>3, <1>4, <1>5, SaveStep

LEMMA EnterGraphStep ==
    ASSUME TypeInv, LeaseInv, NEW w \in Workers, EnterGraph(w) PROVE WorkerStep(w)
<1>1. wk[w].phase # "idle" /\ Enter(w, "graph_building") /\ "graph_building" \in Stages /\ KeysKept
  BY DEF EnterGraph, In, KeysKept, Stages, RequiredStages
<1> QED BY <1>1, EnterStep

LEMMA BuildAndEnterStep ==
    ASSUME TypeInv, LeaseInv, NEW w \in Workers, NEW s \in Stages, NEW next \in Stages, BuildAndEnter(w, s, next) PROVE WorkerStep(w)
<1>1. wk[w].phase # "idle" /\ Enter(w, next) /\ next \in Stages /\ KeysKept
  BY DEF BuildAndEnter, In, KeysKept, Stages, RequiredStages
<1> QED BY <1>1, EnterStep

LEMMA EnterAnalyticsStep ==
    ASSUME TypeInv, LeaseInv, NEW w \in Workers, EnterAnalytics(w) PROVE WorkerStep(w)
<1>1. wk[w].phase # "idle" /\ Enter(w, "analytics") /\ "analytics" \in Stages /\ KeysKept
  BY DEF EnterAnalytics, In, KeysKept, Stages, RequiredStages
<1> QED BY <1>1, EnterStep

LEMMA EnterGroupingStep ==
    ASSUME TypeInv, LeaseInv, NEW w \in Workers, EnterGrouping(w) PROVE WorkerStep(w)
<1>1. wk[w].phase # "idle" /\ Enter(w, "investigation_grouping") /\ "investigation_grouping" \in Stages /\ KeysKept
  BY DEF EnterGrouping, In, KeysKept, Stages, RequiredStages
<1> QED BY <1>1, EnterStep

LEMMA CompleteImportStep == ASSUME TypeInv, LeaseInv, NEW w \in Workers, CompleteImport(w) PROVE WorkerStep(w)
<1>1. wk[w].phase # "idle" /\ wk[w].job \in Jobs BY BusyHasJob DEF CompleteImport, In
<1>2. KeysKept BY <1>1 DEF CompleteImport, KeysKept, TypeInv, TypeOK
<1>3. CompletedJob(w) /\ wk' = [wk EXCEPT ![w] = Idle] BY DEF CompleteImport
<1> QED BY <1>1, <1>2, <1>3, CompletedStep

LEMMA PublishAndCompleteStep == ASSUME TypeInv, LeaseInv, NEW w \in Workers, PublishAndComplete(w) PROVE WorkerStep(w)
<1>1. wk[w].phase # "idle" /\ wk[w].job \in Jobs BY BusyHasJob DEF PublishAndComplete, In
<1>2. KeysKept BY <1>1 DEF PublishAndComplete, KeysKept, TypeInv, TypeOK, Published
<1>3. CompletedJob(w) /\ wk' = [wk EXCEPT ![w] = Idle] BY DEF PublishAndComplete
<1> QED BY <1>1, <1>2, <1>3, CompletedStep

LEMMA RegroupAndCompleteStep == ASSUME TypeInv, LeaseInv, NEW w \in Workers, RegroupAndComplete(w) PROVE WorkerStep(w)
<1>1. wk[w].phase # "idle" /\ wk[w].job \in Jobs BY BusyHasJob DEF RegroupAndComplete, In
<1>2. KeysKept BY <1>1 DEF RegroupAndComplete, KeysKept, TypeInv, TypeOK, Published
<1>3. CompletedJob(w) /\ wk' = [wk EXCEPT ![w] = Idle] BY DEF RegroupAndComplete
<1> QED BY <1>1, <1>2, <1>3, CompletedStep

LEMMA RetryOnceStep == ASSUME TypeInv, LeaseInv, NEW w \in Workers, RetryOnce(w) PROVE WorkerStep(w)
<1> DEFINE j == wk[w].job
           r == Holding(j, Columns(Retried(db[j])), TRUE)
<1>1. j \in Jobs /\ wk[w].phase # "idle" /\ wk \in [Workers -> Local]
  BY BusyHasJob DEF RetryOnce, MayRetry, TypeInv, TypeOK
<1>2. db \in [Jobs -> JobRow] /\ db[j] \in JobRow BY <1>1 DEF TypeInv, TypeOK
<1>3. db[j].owner = w BY <1>1 DEF LeaseInv, Holds
<1>4. db' = [db EXCEPT ![j] = Retried(db[j])] /\ wk' = [wk EXCEPT ![w] = r] /\ KeysKept
  BY DEF RetryOnce, KeysKept
<1>5. /\ Retried(db[j]).owner = w /\ Retried(db[j]).state = "running" /\ Retried(db[j]).live
      /\ Retried(db[j]).attempt = db[j].attempt + 1
  BY <1>2, <1>3 DEF Retried, JobRow
<1>6. Columns(Retried(db[j])) \in MemRow BY <1>2, TakenTyped, ColumnsTyped
<1>7. r.job = j BY <1>1, <1>6, HoldingTyped
<1>8. db[j].attempt \in Nat BY <1>2 DEF JobRow
<1> HIDE DEF r
<1>9. wk'[w] = r /\ (\A v \in Workers \ {w} : wk'[v] = wk[v])
      /\ db'[j] = Retried(db[j]) /\ \A i \in Jobs \ {j} : db'[i] = db[i]
  BY <1>1, <1>2, <1>4
<1> QED BY <1>1, <1>4, <1>5, <1>7, <1>8, <1>9 DEF WorkerStep, Holds, Leased

LEMMA FailJobStep == ASSUME TypeInv, LeaseInv, NEW w \in Workers, FailJob(w) PROVE WorkerStep(w)
<1> DEFINE j == wk[w].job
<1>1. j \in Jobs /\ wk[w].phase # "idle" /\ wk \in [Workers -> Local]
  BY BusyHasJob DEF FailJob, Failing, TypeInv, TypeOK
<1>2. db \in [Jobs -> JobRow] /\ db[j] \in JobRow BY <1>1 DEF TypeInv, TypeOK
<1>3. PICK code : db' = [db EXCEPT ![j] = [@ EXCEPT !.state = "failed", !.stage = "failed",
                                             !.owner = Nobody, !.live = FALSE, !.error = code]]
  BY DEF FailJob
<1>4. db'[j].state = "failed" /\ db'[j].attempt = db[j].attempt /\ db[j].attempt \in Nat
  BY <1>1, <1>2, <1>3 DEF JobRow
<1>5. \A i \in Jobs \ {j} : db'[i] = db[i] BY <1>2, <1>3
<1>6. wk'[w].phase = "idle" /\ (\A v \in Workers \ {w} : wk'[v] = wk[v]) /\ KeysKept
  BY <1>1, IdleFacts DEF FailJob, KeysKept
<1> QED BY <1>1, <1>4, <1>5, <1>6 DEF WorkerStep

LEMMA WorkSteps ==
    ASSUME TypeInv, LeaseInv, NEW w \in Workers,
           Work(w) \/ Crash(w) \/ \E kind \in Failing : Raise(w, kind)
    PROVE  WorkerStep(w)
<1>1. CASE Choose(w)
  BY <1>1, OpenVerificationStep, VerifySourceStep, StartRegroupingStep, RefuseRegroupingStep,
     StartImportStep DEF Choose
<1>2. CASE FullRun(w)
  <2>1. {"graph_building", "findings", "ml_scoring"} \subseteq Stages BY DEF Stages, RequiredStages
  <2> QED BY <1>2, <2>1, BeginIngestStep, CommitBatchStep, FinishIngestStep, EnterGraphStep,
        BuildAndEnterStep, ScoreStep, SkipScoringStep, FinishScoringStep, EnterAnalyticsStep,
        AnalyzeStep, AnalyticsFailsStep, ReportCoverageStep, EnterGroupingStep, CloseRowStep,
        ReuseRowStep, OpenRowStep DEF FullRun
<1>3. CASE GroupingRun(w)
  BY <1>3, StartGroupingStep, LoseLeaseStep, PublishGroupsStep, CompleteImportStep,
     PublishAndCompleteStep, RegroupAndCompleteStep DEF GroupingRun
<1>4. CASE Handler(w) BY <1>4, DuplicateKeyStep, LeaveStep, RetryOnceStep, FailJobStep DEF Handler
<1> QED BY <1>1, <1>2, <1>3, <1>4, LeaveStep, RaiseStep DEF Work

\* Fulfilling requests changes no key.
LEMMA KeptKeysUnique ==
    ASSUME TypeInv, KeysKept, NEW j \in Jobs,
           \A p, q \in requests[j] : p.attempt = q.attempt => p = q
    PROVE  /\ \A q \in requests'[j] : \E p \in requests[j] : p.attempt = q.attempt
           /\ \A p, q \in requests'[j] : p.attempt = q.attempt => p = q
<1>1. requests[j] \subseteq RequestRows BY DEF TypeInv, TypeOK
<1>2. \A q \in requests[j] : [q EXCEPT !.fulfilled = TRUE].attempt = q.attempt
  BY <1>1 DEF RequestRows
<1>3. CASE requests'[j] = requests[j] BY <1>3
<1>4. ASSUME NEW x, requests'[j] = FulfilGrouping(j, x)
      PROVE  /\ \A q \in requests'[j] : \E p \in requests[j] : p.attempt = q.attempt
             /\ \A p, q \in requests'[j] : p.attempt = q.attempt => p = q
  <2> DEFINE F(p) == IF p.kind = "group" /\ p.attempt <= x THEN [p EXCEPT !.fulfilled = TRUE] ELSE p
  <2>1. \A p \in requests[j] : F(p).attempt = p.attempt BY <1>2
  <2>2. requests'[j] = {F(p) : p \in requests[j]} BY <1>4 DEF FulfilGrouping
  <2> HIDE DEF F
  <2> QED BY <2>1, <2>2
<1>5. ASSUME NEW x, requests'[j] = FulfilRefresh(j, x)
      PROVE  /\ \A q \in requests'[j] : \E p \in requests[j] : p.attempt = q.attempt
             /\ \A p, q \in requests'[j] : p.attempt = q.attempt => p = q
  <2> DEFINE F(p) == IF p.kind = "refresh" /\ p.attempt \in x THEN [p EXCEPT !.fulfilled = TRUE] ELSE p
  <2>1. \A p \in requests[j] : F(p).attempt = p.attempt BY <1>2
  <2>2. requests'[j] = {F(p) : p \in requests[j]} BY <1>5 DEF FulfilRefresh
  <2> HIDE DEF F
  <2> QED BY <2>1, <2>2
<1> QED BY <1>3, <1>4, <1>5 DEF KeysKept

LEMMA WorkerKeepsLeases ==
    ASSUME TypeInv, LeaseInv, NEW w \in Workers, WorkerStep(w) PROVE LeaseInv'
<1> SUFFICES ASSUME NEW v \in Workers, wk'[v].phase # "idle" PROVE Holds(v)'
  BY DEF LeaseInv, Holds
<1>1. CASE v = w BY <1>1 DEF WorkerStep
<1>2. CASE v # w
  <2>1. wk'[v] = wk[v] /\ Holds(v) /\ Holds(w) BY <1>2 DEF WorkerStep, LeaseInv
  <2>2. wk[v].job # wk[w].job BY <1>2, <2>1 DEF Holds, WorkerStep
  <2>3. wk[v].job \in Jobs BY <2>1, BusyHasJob
  <2>4. db'[wk[v].job] = db[wk[v].job] BY <2>2, <2>3 DEF WorkerStep
  <2> QED BY <2>1, <2>4 DEF Holds
<1> QED BY <1>1, <1>2

LEMMA WorkerKeepsKeys ==
    ASSUME TypeInv, TypeInv', LeaseInv, FreshKeys, NEW w \in Workers, WorkerStep(w) PROVE FreshKeys'
<1> SUFFICES ASSUME NEW j \in Jobs
             PROVE  /\ \A q \in requests'[j] :
                           \/ q.attempt <= db'[j].attempt
                           \/ db'[j].state = "queued" /\ q.attempt = db'[j].attempt + 1
                    /\ \A p, q \in requests'[j] : p.attempt = q.attempt => p = q
  BY DEF FreshKeys
<1>1. KeysKept BY DEF WorkerStep
<1>2. /\ \A q \in requests'[j] : \E p \in requests[j] : p.attempt = q.attempt
      /\ \A p, q \in requests'[j] : p.attempt = q.attempt => p = q
  BY <1>1, KeptKeysUnique DEF FreshKeys
<1>3. \A p \in requests[j] : p.attempt \in Nat
  <2>1. requests[j] \subseteq RequestRows BY DEF TypeInv, TypeOK
  <2> QED BY <2>1 DEF RequestRows
<1>4. db[j].attempt \in Nat /\ db'[j].attempt \in Nat
  <2>1. db[j] \in JobRow /\ db'[j] \in JobRow BY DEF TypeInv, TypeOK
  <2> QED BY <2>1 DEF JobRow
<1>5. CASE j = wk[w].job
  <2>1. db[j].state # "queued" BY <1>5 DEF WorkerStep, LeaseInv, Holds, Leased
  <2>2. db'[j].state # "queued" /\ db'[j].attempt >= db[j].attempt BY <1>5 DEF WorkerStep
  <2>3. \A p \in requests[j] : p.attempt <= db[j].attempt BY <1>3, <1>4, <2>1 DEF FreshKeys
  <2> QED BY <1>2, <1>3, <1>4, <2>2, <2>3
<1>6. CASE j # wk[w].job
  <2>1. db'[j] = db[j] BY <1>6 DEF WorkerStep
  <2> QED BY <1>2, <1>3, <2>1 DEF FreshKeys
<1> QED BY <1>5, <1>6

\* A claim takes a job no busy worker holds.
LEMMA ClaimKeeps ==
    ASSUME TypeInv, LeaseInv, FreshKeys, NEW w \in Workers, NEW j \in Jobs, Claim(w, j)
    PROVE  LeaseInv' /\ FreshKeys'
<1> DEFINE r == Holding(j, Columns(Taken(db[j], w)), FALSE)
<1>1. db \in [Jobs -> JobRow] /\ db[j] \in JobRow /\ wk \in [Workers -> Local]
  BY DEF TypeInv, TypeOK
<1>2. db' = [db EXCEPT ![j] = Taken(db[j], w)] /\ wk' = [wk EXCEPT ![w] = r] BY DEF Claim
<1>3. /\ Taken(db[j], w).owner = w /\ Taken(db[j], w).state = "running" /\ Taken(db[j], w).live
      /\ Taken(db[j], w).attempt = db[j].attempt + 1
  BY <1>1 DEF Taken, JobRow
<1>4. r.job = j BY <1>1, TakenTyped, ColumnsTyped, HoldingTyped
<1> HIDE DEF r
<1>5. /\ wk'[w] = r /\ \A v \in Workers \ {w} : wk'[v] = wk[v]
      /\ db'[j] = Taken(db[j], w) /\ \A i \in Jobs \ {j} : db'[i] = db[i]
  BY <1>1, <1>2
<1>6. LeaseInv'
  <2> SUFFICES ASSUME NEW v \in Workers, wk'[v].phase # "idle" PROVE Holds(v)'
    BY DEF LeaseInv, Holds
  <2>1. CASE v = w BY <1>3, <1>4, <1>5, <2>1 DEF Holds, Leased
  <2>2. CASE v # w
    <3>1. wk'[v] = wk[v] /\ wk[v].job \in Jobs BY <1>5, <2>2, BusyHasJob
    <3>2. Holds(v) BY DEF LeaseInv
    <3>3. wk[v].job # j BY <3>1, <3>2 DEF Claim, Claimable, Holds, Leased
    <3> QED BY <1>5, <3>1, <3>2, <3>3 DEF Holds
  <2> QED BY <2>1, <2>2
<1>7. FreshKeys'
  <2>1. requests' = requests BY DEF Claim
  <2>2. \A i \in Jobs : \A q \in requests[i] : q.attempt \in Nat
    <3>1. \A i \in Jobs : requests[i] \subseteq RequestRows BY DEF TypeInv, TypeOK
    <3> QED BY <3>1 DEF RequestRows
  <2>3. db[j].attempt \in Nat BY <1>1 DEF JobRow
  <2> QED BY <1>3, <1>5, <2>1, <2>2, <2>3 DEF FreshKeys
<1> QED BY <1>6, <1>7

\* Leases lapse only where nobody works, and renewals renew a live lease.
LEMMA LeaseTimeKeeps ==
    ASSUME TypeInv, LeaseInv, FreshKeys, LeasesHold, LeasesHold',
           (\E j \in Jobs : LapseLease(j)) \/ (\E w \in Workers : RenewLease(w))
    PROVE  LeaseInv' /\ FreshKeys'
<1>1. PICK j \in Jobs : /\ db' = [db EXCEPT ![j].live = FALSE] /\ ~OwnerRuns(j)
                        \/ db' = [db EXCEPT ![j].live = TRUE]
  <2>1. ASSUME NEW w \in Workers, RenewLease(w)
        PROVE  wk[w].job \in Jobs /\ db' = [db EXCEPT ![wk[w].job].live = TRUE]
    BY <2>1, BusyHasJob DEF RenewLease
  <2>2. ASSUME NEW i \in Jobs, LapseLease(i)
        PROVE  db' = [db EXCEPT ![i].live = FALSE] /\ ~OwnerRuns(i)
    <3>1. ~Fault("overrun") BY FaultTyped DEF LeasesHold
    <3> QED BY <2>2, <3>1 DEF LapseLease
  <2> QED BY <2>1, <2>2
<1>2. wk' = wk /\ requests' = requests BY DEF LapseLease, RenewLease
<1>3. \A i \in Jobs : db[i] \in JobRow BY DEF TypeInv, TypeOK
<1>4. ASSUME NEW i \in Jobs
      PROVE  /\ db'[i].owner = db[i].owner /\ db'[i].state = db[i].state
             /\ db'[i].attempt = db[i].attempt
             /\ db[i].live /\ OwnerRuns(i) => db'[i].live
  <2>1. CASE i # j BY <1>1, <1>3, <2>1 DEF TypeInv, TypeOK
  <2>2. CASE i = j /\ db' = [db EXCEPT ![j].live = FALSE] /\ ~OwnerRuns(j)
    BY <1>3, <2>2 DEF JobRow, TypeInv, TypeOK
  <2>3. CASE i = j /\ db' = [db EXCEPT ![j].live = TRUE]
    BY <1>3, <2>3 DEF JobRow, TypeInv, TypeOK
  <2> QED BY <1>1, <2>1, <2>2, <2>3
<1>5. LeaseInv'
  <2> SUFFICES ASSUME NEW v \in Workers, wk[v].phase # "idle" PROVE Holds(v)'
    BY <1>2 DEF LeaseInv, Holds
  <2>1. wk[v].job \in Jobs /\ Holds(v) BY BusyHasJob DEF LeaseInv
  <2>2. OwnerRuns(wk[v].job) BY <2>1 DEF OwnerRuns, Holds
  <2> QED BY <1>2, <1>4, <2>1, <2>2 DEF Holds
<1>6. FreshKeys' BY <1>2, <1>4 DEF FreshKeys
<1> QED BY <1>5, <1>6

\* The API touches only settled jobs, and the key it takes is free.
LEMMA ApiKeeps ==
    ASSUME TypeInv, LeaseInv, FreshKeys, Api
    PROVE  LeaseInv' /\ FreshKeys'
<1>1. PICK chosen \in SUBSET Jobs, kind \in {"plain", "refresh", "group"} :
          /\ \A j \in chosen : db[j].state \in Terminal /\ RequestKeyFree(j)
          /\ \A j \in Jobs : /\ requests'[j] = IF j \in chosen
                                 THEN requests[j] \cup {NewRequest(db[j].attempt + 1, kind)}
                                 ELSE requests[j]
                             /\ db'[j] = IF j \in chosen THEN Requeue(db[j]) ELSE db[j]
  <2>1. ASSUME NEW j \in Jobs, NEW kind \in {"plain", "refresh"}, RetryAnalysis(j, kind)
        PROVE  /\ db[j].state \in Terminal /\ RequestKeyFree(j)
               /\ \A i \in Jobs : /\ requests'[i] = IF i \in {j}
                                      THEN requests[i] \cup {NewRequest(db[i].attempt + 1, kind)}
                                      ELSE requests[i]
                                  /\ db'[i] = IF i \in {j} THEN Requeue(db[i]) ELSE db[i]
    BY <2>1 DEF RetryAnalysis, TypeInv, TypeOK
  <2>2. ASSUME BuildQueue
        PROVE  LET chosen == {j \in Jobs : Regroupable(j)}
               IN  /\ \A j \in chosen : db[j].state \in Terminal /\ RequestKeyFree(j)
                   /\ \A j \in Jobs : /\ requests'[j] = IF j \in chosen
                                          THEN requests[j] \cup {NewRequest(db[j].attempt + 1, "group")}
                                          ELSE requests[j]
                                      /\ db'[j] = IF j \in chosen THEN Requeue(db[j]) ELSE db[j]
    BY <2>2 DEF BuildQueue, Regroupable, Terminal
  <2>3. CASE BuildQueue
    <3>1. {j \in Jobs : Regroupable(j)} \in SUBSET Jobs OBVIOUS
    <3> QED BY <2>2, <2>3, <3>1
  <2>4. CASE \E j \in Jobs, kind \in {"plain", "refresh"} : RetryAnalysis(j, kind)
    <3>1. PICK j \in Jobs, kind \in {"plain", "refresh"} : RetryAnalysis(j, kind) BY <2>4
    <3>2. {j} \in SUBSET Jobs /\ (\A i \in {j} : i = j) /\ kind \in {"plain", "refresh", "group"}
      BY <3>1
    <3> WITNESS {j} \in SUBSET Jobs, kind \in {"plain", "refresh", "group"}
    <3> QED BY <2>1, <3>1, <3>2
  <2> QED BY <2>3, <2>4 DEF Api
<1>2. wk' = wk BY DEF Api, RetryAnalysis, BuildQueue
<1>3. \A j \in Jobs : db[j] \in JobRow /\ requests[j] \subseteq RequestRows BY DEF TypeInv, TypeOK
<1>4. LeaseInv'
  <2> SUFFICES ASSUME NEW v \in Workers, wk[v].phase # "idle" PROVE Holds(v)'
    BY <1>2 DEF LeaseInv, Holds
  <2>1. wk[v].job \in Jobs /\ Holds(v) BY BusyHasJob DEF LeaseInv
  <2>2. wk[v].job \notin chosen BY <1>1, <2>1 DEF Holds, Leased, Terminal
  <2> QED BY <1>1, <1>2, <2>1, <2>2 DEF Holds
<1>5. FreshKeys'
  <2> SUFFICES ASSUME NEW j \in Jobs
               PROVE  /\ \A q \in requests'[j] :
                             \/ q.attempt <= db'[j].attempt
                             \/ db'[j].state = "queued" /\ q.attempt = db'[j].attempt + 1
                      /\ \A p, q \in requests'[j] : p.attempt = q.attempt => p = q
    BY DEF FreshKeys
  <2>1. CASE j \notin chosen BY <1>1, <2>1 DEF FreshKeys
  <2>2. CASE j \in chosen
    <3> DEFINE new == NewRequest(db[j].attempt + 1, kind)
    <3>1. /\ requests'[j] = requests[j] \cup {new} /\ db'[j] = Requeue(db[j])
          /\ db[j].state \in Terminal /\ RequestKeyFree(j)
      BY <1>1, <2>2
    <3>2. db'[j].attempt = db[j].attempt /\ db'[j].state = "queued" /\ db[j].attempt \in Nat
      BY <1>3, <3>1 DEF Requeue, JobRow
    <3>3. new.attempt = db[j].attempt + 1 BY DEF NewRequest
    <3>4. \A q \in requests[j] : q.attempt \in Nat /\ q.attempt <= db[j].attempt
      BY <1>3, <3>1, <3>2 DEF FreshKeys, RequestRows, Terminal
    <3> HIDE DEF new
    <3>5. \A q \in requests'[j] : q.attempt <= db[j].attempt \/ q.attempt = db[j].attempt + 1
      BY <3>1, <3>2, <3>3, <3>4
    <3>6. \A p, q \in requests'[j] : p.attempt = q.attempt => p = q
      BY <3>1, <3>2, <3>3, <3>4 DEF FreshKeys
    <3> QED BY <3>2, <3>5, <3>6
  <2> QED BY <2>1, <2>2
<1> QED BY <1>4, <1>5

\* A lease that has lapsed under a running worker stays counted.
LEMMA HeldBefore == TypeInv /\ [Next]_vars /\ LeasesHold' => LeasesHold
<1> SUFFICES ASSUME TypeInv, [Next]_vars, ~LeasesHold PROVE ~LeasesHold'
  OBVIOUS
<1>1. faults["overrun"] \in Nat /\ faults["overrun"] # 0 BY DEF TypeInv, TypeOK, LeasesHold
<1>2. ASSUME NEW kind, Fault(kind) PROVE faults'["overrun"] # 0
  <2>1. faults' \in [{"crash", "exception", "overrun"} -> Nat] BY <1>2, FaultTyped
  <2>2. faults'["overrun"] >= faults["overrun"] BY <1>2, FaultTyped
  <2> QED BY <1>1, <2>1, <2>2
<1>3. CASE UNCHANGED faults BY <1>3 DEF LeasesHold
<1>4. CASE UNCHANGED vars BY <1>3, <1>4 DEF vars
<1>5. CASE Api BY <1>3, <1>5 DEF Api, RetryAnalysis, BuildQueue
<1>6. ASSUME NEW j \in Jobs, LapseLease(j) PROVE ~LeasesHold'
  BY <1>2, <1>3, <1>6 DEF LapseLease, LeasesHold
<1>7. ASSUME NEW w \in Workers, NEW j \in Jobs, Claim(w, j) PROVE UNCHANGED faults BY <1>7 DEF Claim
<1>8. ASSUME NEW w \in Workers, Choose(w) PROVE UNCHANGED faults
  BY <1>8 DEF Choose, OpenVerification, VerifySource, StartRegrouping, RefuseRegrouping, StartImport
<1>9. ASSUME NEW w \in Workers, FullRun(w) PROVE UNCHANGED faults
  BY <1>9 DEF FullRun, BeginIngest, CommitBatch, FinishIngest, EnterGraph, BuildAndEnter, Score, SkipScoring,
              FinishScoring, EnterAnalytics, Analyze, AnalyticsFails, ReportCoverage, EnterGrouping, CloseRow,
              ReuseRow, OpenRow
<1>10. ASSUME NEW w \in Workers, GroupingRun(w) PROVE UNCHANGED faults
  BY <1>10 DEF GroupingRun, StartGrouping, LoseLease, PublishGroups, CompleteImport, PublishAndComplete,
               RegroupAndComplete
<1>11. ASSUME NEW w \in Workers, Handler(w) PROVE UNCHANGED faults
  BY <1>11 DEF Handler, DuplicateKey, Abandon, RetryOnce, FailJob
<1>12. ASSUME NEW w \in Workers, RenewLease(w) PROVE UNCHANGED faults BY <1>12 DEF RenewLease
<1>13. ASSUME NEW w \in Workers, Crash(w) \/ \E kind \in Failing : Raise(w, kind) PROVE ~LeasesHold'
  BY <1>2, <1>13 DEF Crash, Raise, LeasesHold
<1> QED BY <1>3, <1>4, <1>5, <1>6, <1>7, <1>8, <1>9, <1>10, <1>11, <1>12, <1>13 DEF Next, Work

LEMMA NextKeeps ==
    TypeInv /\ LeaseInv /\ FreshKeys /\ [Next]_vars /\ LeasesHold /\ LeasesHold' => LeaseInv' /\ FreshKeys'
<1> SUFFICES ASSUME TypeInv, LeaseInv, FreshKeys, [Next]_vars, LeasesHold, LeasesHold'
             PROVE  LeaseInv' /\ FreshKeys'
  OBVIOUS
<1>1. TypeInv' BY NextTyped
<1>2. CASE UNCHANGED vars BY <1>2 DEF vars, dbVars, LeaseInv, Holds, FreshKeys
<1>3. CASE Api BY <1>3, ApiKeeps
<1>4. CASE \E j \in Jobs : LapseLease(j) BY <1>4, LeaseTimeKeeps
<1>5. ASSUME NEW w \in Workers, NEW j \in Jobs, Claim(w, j) PROVE LeaseInv' /\ FreshKeys'
  BY <1>5, ClaimKeeps
<1>6. ASSUME NEW w \in Workers, RenewLease(w) PROVE LeaseInv' /\ FreshKeys' BY <1>6, LeaseTimeKeeps
<1>7. ASSUME NEW w \in Workers, Work(w) \/ Crash(w) \/ \E kind \in Failing : Raise(w, kind)
      PROVE  LeaseInv' /\ FreshKeys'
  BY <1>1, <1>7, WorkSteps, WorkerKeepsLeases, WorkerKeepsKeys
<1> QED BY <1>2, <1>3, <1>4, <1>5, <1>6, <1>7 DEF Next

HeldInv == TypeInv /\ (LeasesHold => LeaseInv /\ FreshKeys)

LEMMA InitKeeps == Init => LeaseInv /\ FreshKeys
BY DEF Init, LeaseInv, Holds, FreshKeys, Idle

LEMMA HeldInductive == Spec => []HeldInv
<1>1. Init => HeldInv BY InitTyped, InitKeeps DEF HeldInv
<1>2. HeldInv /\ [Next]_vars => HeldInv' BY NextTyped, HeldBefore, NextKeeps DEF HeldInv
<1> QED BY <1>1, <1>2, PTL DEF Spec

\* Until a lease lapses under a running worker, the lease keeps two workers off
\* one job: process_one never runs twice for the same import.
THEOREM LeaseExcludes == Spec => []OneWorkerPerJob
<1>1. HeldInv => OneWorkerPerJob
  <2> SUFFICES ASSUME TypeInv, LeaseInv, NEW v \in Workers, NEW w \in Workers,
                      v # w, wk[v].job = wk[w].job
               PROVE  wk[v].phase = "idle"
    BY DEF OneWorkerPerJob, HeldInv
  <2>1. wk[v].phase # "idle" => wk[w].phase # "idle" BY DEF TypeInv, TypeOK
  <2> QED BY <2>1 DEF LeaseInv, Holds
<1> QED BY <1>1, HeldInductive, PTL

\* Until then a request never meets the primary key of an earlier one, so a
\* settled import can always be asked about again.
THEOREM RequestKeys == Spec => []RequestKeysFresh
<1>1. HeldInv => RequestKeysFresh BY DEF HeldInv, RequestKeysFresh
<1> QED BY <1>1, HeldInductive, PTL

-----------------------------------------------------------------------------
(* What a job owes its stage rows, requests and outcomes, and what the     *)
(* worker that runs it knows of them, until a lease lapses under a worker. *)

\* The order a run reaches the stages in; group-only recovery reaches the last
\* one directly.
Order(s) ==
    CASE s = "source_verification" -> 1 [] s = "ingesting" -> 2 [] s = "graph_building" -> 3
      [] s = "findings" -> 4 [] s = "ml_scoring" -> 5 [] s = "analytics" -> 6
      [] s = "coverage" -> 7 [] OTHER -> 8

\* How far a worker with local state t has come in this attempt.
Reached(t) ==
    CASE t.phase = "claimed" -> 0 [] t.phase = "decide" -> 1
      [] t.phase \in {"open", "close"} -> Order(t.at) - 1 [] OTHER -> Order(t.at)

Unmet(R, kind) == {q \in R : q.kind = kind /\ ~q.fulfilled}

\* A worker would take group-only recovery: GroupOnlyPending, of any attempt.
GroupIsLatest(R) ==
    \E q \in R : /\ q.kind = "group" /\ ~q.fulfilled
                 /\ \A p \in R : ~p.fulfilled => p.attempt <= q.attempt

Built == {"graph_building", "findings", "analytics", "investigation_grouping"}
Stamped == {"analytics", "investigation_grouping"}
Middle == RequiredStages \ {"source_verification", "investigation_grouping"}

\* Rows and stamps carry no attempt of the future, and a good outcome has its
\* output behind it.
StageInv(j) ==
    /\ \A s \in Stages : rows[j][s].attempt <= db[j].attempt
    /\ \A s \in Stamped : product[j][s] <= db[j].attempt
    /\ db[j].state \in Leased => db[j].attempt > 0
    /\ \A s \in Built : Succeeded(j, s) => product[j][s] > 0
    /\ Succeeded(j, "ingesting") => checkpoint[j] = Batches

\* Fulfilled requests are answered; where group-only recovery comes next, the
\* stages it passes over are done with.
RequestInv(j) ==
    /\ \A q \in requests[j] : q.fulfilled =>
           /\ q.kind = "refresh" => product[j]["analytics"] >= q.attempt
           /\ q.kind = "group" => product[j]["investigation_grouping"] >= q.attempt
    /\ GroupIsLatest(requests[j]) \/ db[j].state = "completed" =>
           Unmet(requests[j], "refresh") = {} \/ ~Succeeded(j, "analytics")
    /\ db[j].state \in Active /\ GroupIsLatest(requests[j]) =>
           \A s \in Middle : rows[j][s].status # "running"

SettledInv(j) ==
    /\ db[j].state \in Active => db[j].error = "none"
    /\ db[j].state \in Terminal =>
           ~db[j].live /\ \A s \in RequiredStages : rows[j][s].status # "running"
    /\ db[j].state = "completed" =>
           /\ snapshot[j] = "complete" /\ db[j].error = "none"
           /\ db[j].owner = Nobody
           /\ product[j]["investigation_grouping"] > 0 => ~ungrouped[j]
           /\ Unmet(requests[j], "group") = {}

JobInv(j) == StageInv(j) /\ RequestInv(j) /\ SettledInv(j)

Running(w) == wk[w].phase \notin Failing \cup {"idle"}

\* Each phase belongs to some of the stages.
AtInv(t) ==
    /\ t.phase \in {"open", "close"} =>
           t.at \in {"graph_building", "findings", "ml_scoring", "analytics", "coverage",
                     "investigation_grouping"}
    /\ t.phase = "begin" => t.at = "ingesting"
    /\ t.phase = "work" => t.at \in Stages \cup {"regrouping"}
    /\ t.phase \in {"claimed", "decide"} => t.at \in {"none", "source_verification"}
    /\ t.phase \in {"scored", "unscored"} => t.at = "ml_scoring"
    /\ t.phase = "leave" => t.at \in {"ml_scoring", "analytics", "coverage"}
    /\ t.phase = "grouping" => t.at \in {"investigation_grouping", "regrouping"}
    /\ t.phase = "complete" => t.at = "investigation_grouping"
    /\ t.phase \in {"claimed", "decide", "open", "leave", "complete"} => t.row = NoRow
    /\ t.phase = "work" /\ t.at \in {"source_verification", "regrouping"} => t.row # NoRow
    /\ t.phase = "work" /\ t.at = "analytics" /\ t.refreshing => t.row # NoRow
    /\ t.phase = "close" => t.row # NoRow /\ t.row.stage \in {"graph_building", "findings"}
    /\ t.row # NoRow =>
           /\ t.row.stage \in Stages /\ t.row.attempt = t.mem.attempt
           /\ t.phase # "close" =>
                  t.row.stage = IF t.at = "regrouping" THEN "investigation_grouping" ELSE t.at

\* The worker's copy of the job is exact; no stage ahead of it has a row of this
\* attempt, none behind it but its own is still running, and its own is its own.
RowInv(t, j) ==
    /\ t.mem = Columns(db[j])
    /\ \A s \in Stages : Order(s) > Reached(t) => rows[j][s].attempt < t.mem.attempt
    /\ \A s \in RequiredStages : Order(s) <= Reached(t) /\ s # t.row.stage => rows[j][s].status # "running"
    /\ t.row # NoRow => rows[j][t.row.stage].attempt = t.row.attempt
    /\ t.phase = "close" => product[j][t.row.stage] > 0
    /\ t.at = "ingesting" /\ t.row # NoRow => t.pos = checkpoint[j]

\* Before, and after, the analytics stage of a full run.
Before(t) ==
    \/ t.at \in {"ingesting", "graph_building", "findings", "ml_scoring"}
    \/ t.at = "analytics" /\ t.phase # "leave"
Past(t) ==
    \/ t.phase = "leave" /\ t.at = "analytics"
    \/ t.at \in {"coverage", "investigation_grouping"}

\* A full run that has yet to refresh knows every refresh that is asked for.
RunInv(t, j) ==
    /\ Before(t) =>
           /\ ~GroupIsLatest(requests[j])
           /\ \A q \in Unmet(requests[j], "refresh") : q.attempt \in t.wanted
           /\ t.wanted # {} => t.refreshing
    /\ Past(t) \/ t.at = "regrouping" =>
           Unmet(requests[j], "refresh") = {} \/ ~Succeeded(j, "analytics")
    /\ t.at = "regrouping" => snapshot[j] = "complete"
    /\ t.phase = "complete" => ~ungrouped[j] /\ Unmet(requests[j], "group") = {}
    /\ \A a \in t.wanted : a <= t.mem.attempt

WorkerInv(t, j) == AtInv(t) /\ RowInv(t, j) /\ RunInv(t, j)

RunsInv ==
    /\ \A j \in Jobs : JobInv(j)
    /\ \A w \in Workers : Running(w) => WorkerInv(wk[w], wk[w].job)

LEMMA StageNamesDistinct ==
    /\ RequiredStages \subseteq Stages /\ "coverage" \in Stages /\ "coverage" \notin RequiredStages
    /\ Built \subseteq RequiredStages /\ Stamped \subseteq Built /\ Middle \subseteq RequiredStages
    /\ {"source_verification", "ingesting", "graph_building", "findings", "ml_scoring", "analytics",
        "investigation_grouping"} \subseteq Stages
    /\ "none" \notin Stages /\ "regrouping" \notin Stages
  BY DEF RequiredStages, Stages, Built, Stamped, Middle

LEMMA StageOrder ==
    /\ Order("source_verification") = 1 /\ Order("ingesting") = 2 /\ Order("graph_building") = 3
    /\ Order("findings") = 4 /\ Order("ml_scoring") = 5 /\ Order("analytics") = 6
    /\ Order("coverage") = 7 /\ Order("investigation_grouping") = 8 /\ Order("regrouping") = 8
    /\ \A s : Order(s) \in 1..8
    /\ \A s, x \in Stages : Order(s) = Order(x) => s = x
<1>1. /\ Order("source_verification") = 1 /\ Order("ingesting") = 2 /\ Order("graph_building") = 3
      /\ Order("findings") = 4 /\ Order("ml_scoring") = 5 /\ Order("analytics") = 6
      /\ Order("coverage") = 7 /\ Order("investigation_grouping") = 8 /\ Order("regrouping") = 8
  BY DEF Order
<1>2. Stages = {"source_verification", "ingesting", "graph_building", "findings", "ml_scoring",
                "analytics", "coverage", "investigation_grouping"}
  BY DEF Stages, RequiredStages
<1>3. \A s : Order(s) \in 1..8 BY DEF Order
<1> QED BY <1>1, <1>2, <1>3

LEMMA ReachedTyped == \A t : Reached(t) \in Nat
  BY StageOrder DEF Reached

\* What the type invariant says of a busy worker and of its job.
LEMMA Basics ==
    ASSUME TypeInv, NEW w \in Workers, wk[w].phase # "idle"
    PROVE  /\ wk \in [Workers -> Local] /\ wk[w] \in Local /\ wk[w].job \in Jobs
           /\ wk[w].mem \in MemRow /\ wk[w].mem.attempt \in Nat
           /\ db \in [Jobs -> JobRow] /\ db[wk[w].job] \in JobRow
           /\ rows \in [Jobs -> [Stages -> StageRows]]
  BY BusyHasJob DEF TypeInv, TypeOK, Local, MemRow

LEMMA JobTypes ==
    ASSUME TypeInv, NEW j \in Jobs
    PROVE  /\ db[j] \in JobRow /\ db[j].attempt \in Nat /\ db[j].state \in States
           /\ \A s \in Stages : /\ rows[j][s] \in StageRows
                                /\ rows[j][s].attempt \in Nat /\ rows[j][s].status \in Statuses
                                /\ product[j][s] \in Nat
           /\ \A q \in requests[j] : q \in RequestRows
           /\ \A q \in requests[j] : q.attempt \in Nat
<1>1. db[j] \in JobRow /\ rows[j] \in [Stages -> StageRows] /\ product[j] \in [Stages -> Nat]
      /\ requests[j] \in SUBSET RequestRows
  BY DEF TypeInv, TypeOK
<1> QED BY <1>1 DEF JobRow, StageRows, RequestRows

\* The worker's commit of its copy, when the copy is exact, writes the copy.
LEMMA Saved ==
    ASSUME TypeInv, NEW w \in Workers, wk[w].phase # "idle", NEW j \in Jobs, wk[w].job = j,
           wk[w].mem = Columns(db[j]), NEW new \in MemRow, new.attempt = wk[w].mem.attempt,
           NEW alive, SaveJob(w, new, alive)
    PROVE  /\ db'[j].state = new.state /\ db'[j].stage = new.stage /\ db'[j].owner = new.owner
           /\ db'[j].attempt = db[j].attempt /\ db'[j].error = db[j].error /\ db'[j].live = alive
           /\ Columns(db'[j]) = new
           /\ \A i \in Jobs \ {j} : db'[i] = db[i]
<1>1. db \in [Jobs -> JobRow] /\ db[j] \in JobRow BY DEF TypeInv, TypeOK
<1> DEFINE m == Merge(db[j], wk[w].mem, new)
<1>2. /\ db'[j] = [m EXCEPT !.live = alive]
      /\ \A i \in Jobs \ {j} : db'[i] = db[i]
  BY <1>1 DEF SaveJob
<1>3. /\ wk[w].mem.state = db[j].state /\ wk[w].mem.stage = db[j].stage
      /\ wk[w].mem.owner = db[j].owner /\ wk[w].mem.attempt = db[j].attempt
  BY DEF Columns
<1>4. /\ m.state = new.state /\ m.stage = new.stage /\ m.owner = new.owner
      /\ m.attempt = new.attempt /\ m.error = db[j].error
      /\ m = [db[j] EXCEPT !.state = m.state, !.stage = m.stage, !.owner = m.owner, !.attempt = m.attempt]
  BY <1>1, <1>3 DEF Merge, JobRow
<1>5. DOMAIN m = DOMAIN db[j] BY <1>4
<1> HIDE DEF m
<1>6. /\ db'[j].state = m.state /\ db'[j].stage = m.stage /\ db'[j].owner = m.owner
      /\ db'[j].attempt = m.attempt /\ db'[j].error = m.error /\ db'[j].live = alive
  BY <1>1, <1>2, <1>5 DEF JobRow
<1>7. new = [state |-> new.state, stage |-> new.stage, owner |-> new.owner, attempt |-> new.attempt]
  BY DEF MemRow
<1>8. Columns(db'[j]) = new
  BY <1>4, <1>6, <1>7 DEF Columns
<1> QED BY <1>2, <1>3, <1>4, <1>6, <1>8

\* A new row, when the stage has none of this attempt.
LEMMA Opened ==
    ASSUME TypeInv, NEW w \in Workers, wk[w].phase # "idle", NEW j \in Jobs, wk[w].job = j,
           NEW s \in Stages, rows[j][s].attempt < wk[w].mem.attempt, OpenedRow(w, s)
    PROVE  /\ \A x \in Stages \ {s} : rows'[j][x] = rows[j][x]
           /\ rows'[j][s].attempt = wk[w].mem.attempt /\ rows'[j][s].status = "running"
           /\ \A i \in Jobs \ {j} : rows'[i] = rows[i]
<1>1. rows \in [Jobs -> [Stages -> StageRows]] /\ rows[j] \in [Stages -> StageRows]
  BY DEF TypeInv, TypeOK
<1>2. WithRow(j, s, wk[w].mem.attempt)
        = [rows[j] EXCEPT ![s] = [attempt |-> wk[w].mem.attempt, status |-> "running"]]
  BY DEF WithRow
<1> QED BY <1>1, <1>2 DEF OpenedRow

\* The end of the row a worker holds, if it holds one.
LEMMA Closed ==
    ASSUME TypeInv, NEW w \in Workers, wk[w].phase # "idle", NEW j \in Jobs, wk[w].job = j,
           wk[w].row # NoRow => /\ wk[w].row.stage \in Stages
                                /\ rows[j][wk[w].row.stage].attempt = wk[w].row.attempt,
           NEW status \in Statuses, ClosedRow(w, status)
    PROVE  /\ \A x \in Stages : x # wk[w].row.stage => rows'[j][x] = rows[j][x]
           /\ \A x \in Stages : rows'[j][x].attempt = rows[j][x].attempt
           /\ wk[w].row # NoRow => rows'[j][wk[w].row.stage].status = status
           /\ wk[w].row = NoRow => rows'[j] = rows[j]
           /\ \A i \in Jobs \ {j} : rows'[i] = rows[i]
<1>1. /\ rows \in [Jobs -> [Stages -> StageRows]] /\ rows[j] \in [Stages -> StageRows]
      /\ \A x \in Stages : rows[j][x] \in StageRows
  BY DEF TypeInv, TypeOK
<1> DEFINE row == wk[w].row
           F == Finished(j, row, status)
<1>2. rows'[j] = F /\ \A i \in Jobs \ {j} : rows'[i] = rows[i]
  BY <1>1 DEF ClosedRow
<1>3. \A x \in Stages : F[x] = IF x = row.stage /\ rows[j][x].attempt = row.attempt
                               THEN [rows[j][x] EXCEPT !.status = status] ELSE rows[j][x]
  BY DEF Finished
<1>4. \A x \in Stages : /\ [rows[j][x] EXCEPT !.status = status].attempt = rows[j][x].attempt
                        /\ [rows[j][x] EXCEPT !.status = status].status = status
  BY <1>1 DEF StageRows
<1>5. ASSUME row = NoRow PROVE F = rows[j]
  <2>1. "none" \notin Stages /\ row.stage = "none" BY <1>5, StageNamesDistinct DEF NoRow
  <2>2. \A x \in Stages : F[x] = rows[j][x] BY <1>3, <2>1
  <2>3. F = [x \in Stages |-> F[x]] BY DEF Finished
  <2> HIDE DEF F
  <2>4. F = [x \in Stages |-> rows[j][x]] BY <2>2, <2>3
  <2> QED BY <1>1, <2>4
<1>6. \A x \in Stages : x # row.stage => F[x] = rows[j][x] BY <1>3
<1>7. \A x \in Stages : F[x].attempt = rows[j][x].attempt BY <1>3, <1>4
<1>8. row # NoRow => F[row.stage].status = status BY <1>3, <1>4
<1> HIDE DEF F
<1> QED BY <1>2, <1>5, <1>6, <1>7, <1>8

LEMMA StoredOutput ==
    ASSUME TypeInv, NEW w \in Workers, wk[w].phase # "idle", NEW j \in Jobs, wk[w].job = j,
           NEW s \in Stages, NEW rebuilt \in BOOLEAN, Stored(w, s, rebuilt)
    PROVE  /\ \A x \in Stages \ {s} : product'[j][x] = product[j][x]
           /\ product'[j][s] = IF ~rebuilt THEN product[j][s]
                               ELSE IF s \in Stamped THEN wk[w].mem.attempt ELSE 1
           /\ \A i \in Jobs \ {j} : product'[i] = product[i]
<1>1. product \in [Jobs -> [Stages -> Nat]] /\ product[j] \in [Stages -> Nat] BY DEF TypeInv, TypeOK
<1> DEFINE stamp == IF s \in Stamped THEN wk[w].mem.attempt ELSE 1
<1>2. product' = [product EXCEPT ![j][s] = IF rebuilt THEN stamp ELSE @] BY DEF Stored, Stamped
<1> HIDE DEF stamp
<1>3. /\ \A x \in Stages \ {s} : product'[j][x] = product[j][x]
      /\ product'[j][s] = IF rebuilt THEN stamp ELSE product[j][s]
      /\ \A i \in Jobs \ {j} : product'[i] = product[i]
  BY <1>1, <1>2
<1> QED BY <1>3 DEF stamp

\* A step of worker w touches job j and its own local state only.
Frame(w, j) ==
    /\ \A i \in Jobs \ {j} :
           /\ db'[i] = db[i] /\ rows'[i] = rows[i] /\ requests'[i] = requests[i]
           /\ product'[i] = product[i] /\ snapshot'[i] = snapshot[i]
           /\ checkpoint'[i] = checkpoint[i] /\ ungrouped'[i] = ungrouped[i]
    /\ \A v \in Workers \ {w} : wk'[v] = wk[v]

LEMMA JobKept ==
    ASSUME NEW i \in Jobs, JobInv(i),
           db'[i] = db[i], rows'[i] = rows[i], requests'[i] = requests[i],
           product'[i] = product[i], snapshot'[i] = snapshot[i],
           checkpoint'[i] = checkpoint[i], ungrouped'[i] = ungrouped[i]
    PROVE  JobInv(i)'
<1>1. \A s : Succeeded(i, s)' <=> Succeeded(i, s) BY DEF Succeeded
<1>2. StageInv(i)' BY <1>1 DEF JobInv, StageInv
<1>3. RequestInv(i)' BY <1>1 DEF JobInv, RequestInv
<1>4. SettledInv(i)' BY DEF JobInv, SettledInv
<1> QED BY <1>2, <1>3, <1>4 DEF JobInv

LEMMA WorkerKept ==
    ASSUME NEW v \in Workers, NEW i \in Jobs, wk[v].job = i, WorkerInv(wk[v], i), wk'[v] = wk[v],
           Columns(db'[i]) = Columns(db[i]), rows'[i] = rows[i], requests'[i] = requests[i],
           product'[i] = product[i], snapshot'[i] = snapshot[i],
           checkpoint'[i] = checkpoint[i], ungrouped'[i] = ungrouped[i]
    PROVE  WorkerInv(wk[v], i)'
<1>1. Succeeded(i, "analytics")' <=> Succeeded(i, "analytics") BY DEF Succeeded
<1>2. RowInv(wk[v], i)' BY DEF WorkerInv, RowInv
<1>3. RunInv(wk[v], i)' BY <1>1 DEF WorkerInv, RunInv
<1> QED BY <1>2, <1>3 DEF WorkerInv

\* It is enough to look at the worker and the job of the step.
LEMMA StepKeeps ==
    ASSUME TypeInv, LeaseInv, RunsInv, NEW w \in Workers, NEW j \in Jobs, Frame(w, j),
           \A v \in Workers \ {w} : wk[v].phase # "idle" => wk[v].job # j,
           JobInv(j)', wk'[w].phase \in Failing \cup {"idle"} \/ (wk'[w].job = j /\ WorkerInv(wk[w], j)')
    PROVE  RunsInv'
<1>1. ASSUME NEW i \in Jobs PROVE JobInv(i)'
  <2>1. CASE i = j BY <2>1
  <2>2. CASE i # j BY <2>2, JobKept DEF Frame, RunsInv
  <2> QED BY <2>1, <2>2
<1>2. ASSUME NEW v \in Workers, Running(v)' PROVE WorkerInv(wk[v], wk[v].job)'
  <2>1. CASE v = w BY <1>2, <2>1 DEF Running
  <2>2. CASE v # w
    <3>1. wk'[v] = wk[v] BY <2>2 DEF Frame
    <3>2. Running(v) /\ wk[v].phase # "idle" BY <1>2, <3>1 DEF Running
    <3>3. wk[v].job \in Jobs BY <3>2, BusyHasJob
    <3>4. PICK i \in Jobs : wk[v].job = i BY <3>3
    <3>5. i # j BY <2>2, <3>2, <3>4
    <3>6. WorkerInv(wk[v], i) BY <3>2, <3>4 DEF RunsInv
    <3>7. WorkerInv(wk[v], i)' BY <3>1, <3>4, <3>5, <3>6, WorkerKept DEF Frame
    <3> QED BY <3>1, <3>4, <3>7
  <2> QED BY <2>1, <2>2
<1> QED BY <1>1, <1>2 DEF RunsInv

\* What a step of a running worker may start from.
Works(w, j) ==
    /\ wk[w].job = j /\ db[j].owner = w /\ db[j].state \in Leased /\ db[j].live
    /\ JobInv(j) /\ WorkerInv(wk[w], j)
    /\ \A q \in requests[j] : q.attempt <= wk[w].mem.attempt

LEMMA Start ==
    ASSUME TypeInv, LeaseInv, FreshKeys, RunsInv, NEW w \in Workers, wk[w].phase \notin Failing \cup {"idle"}
    PROVE  \E j \in Jobs : Works(w, j)
<1>1. PICK j \in Jobs : wk[w].job = j BY BusyHasJob
<1>2. Holds(w) BY DEF LeaseInv
<1>3. db[j].owner = w /\ db[j].state \in Leased /\ db[j].live BY <1>1, <1>2 DEF Holds
<1>4. WorkerInv(wk[w], j) /\ JobInv(j) BY <1>1 DEF RunsInv, Running
<1>5. db[j].state # "queued" BY <1>3 DEF Leased
<1>6. \A q \in requests[j] : q.attempt <= db[j].attempt BY <1>5 DEF FreshKeys
<1>7. wk[w].mem.attempt = db[j].attempt BY <1>4 DEF WorkerInv, RowInv, Columns
<1> QED BY <1>1, <1>3, <1>4, <1>6, <1>7 DEF Works

LEMMA Alone ==
    ASSUME LeaseInv, NEW w \in Workers, wk[w].phase # "idle"
    PROVE  \A v \in Workers \ {w} : wk[v].phase # "idle" => wk[v].job # wk[w].job
  BY DEF LeaseInv, Holds

\* A worker that stops leaves the job as it is.
LEMMA StopKeeps ==
    ASSUME TypeInv, LeaseInv, RunsInv, NEW w \in Workers, wk[w].phase # "idle", NEW r,
           UNCHANGED dbVars, wk' = [wk EXCEPT ![w] = r], r.phase \in Failing \cup {"idle"}
    PROVE  RunsInv'
<1>1. PICK j \in Jobs : wk[w].job = j BY BusyHasJob
<1>2. Frame(w, j) /\ wk'[w] = r BY Basics DEF Frame, dbVars
<1>3. JobInv(j)' BY JobKept DEF RunsInv, dbVars
<1> QED BY <1>1, <1>2, <1>3, Alone, StepKeeps

\* While the job is leased, its outcome owes nothing yet.
LEMMA LeasedSettled ==
    ASSUME NEW j \in Jobs, SettledInv(j), db[j].state \in Leased, db'[j].state \in Leased,
           db'[j].error = db[j].error
    PROVE  SettledInv(j)'
  BY DEF SettledInv, Leased, Active, Terminal

LEMMA StopsKeep ==
    ASSUME TypeInv, LeaseInv, RunsInv, NEW w \in Workers,
           \/ RefuseRegrouping(w) \/ DuplicateKey(w) \/ LoseLease(w) \/ Abandon(w) \/ Crash(w)
           \/ \E kind \in Failing : Raise(w, kind)
    PROVE  RunsInv'
<1>1. UNCHANGED dbVars /\ wk[w].phase # "idle"
  BY DEF RefuseRegrouping, DuplicateKey, KeyTaken, In, LoseLease, Abandon, Crash, Raise, Failing
<1>2. \/ wk' = [wk EXCEPT ![w] = Idle]
      \/ \E kind \in Failing : wk' = [wk EXCEPT ![w] = Raised(w, kind)]
  BY DEF RefuseRegrouping, DuplicateKey, LoseLease, Abandon, Crash, Raise, Failing
<1>3. CASE wk' = [wk EXCEPT ![w] = Idle] BY <1>1, <1>3, IdleFacts, StopKeeps
<1>4. ASSUME NEW kind \in Failing, wk' = [wk EXCEPT ![w] = Raised(w, kind)] PROVE RunsInv'
  BY <1>1, <1>4, RaisedTyped, StopKeeps
<1> QED BY <1>2, <1>3, <1>4

\* What the end of a row leaves behind the worker.
LEMMA ClosedRows ==
    ASSUME TypeInv, NEW w \in Workers, NEW j \in Jobs, wk[w].phase # "idle", Works(w, j),
           NEW status \in {"ok", "failed"}, ClosedRow(w, status)
    PROVE  /\ \A x \in Stages : rows'[j][x].attempt = rows[j][x].attempt
           /\ \A x \in Stages : x # wk[w].row.stage => rows'[j][x] = rows[j][x]
           /\ \A x \in RequiredStages : Order(x) <= Reached(wk[w]) => rows'[j][x].status # "running"
           /\ \A x \in Stages : rows'[j][x].status = "running" => rows[j][x].status = "running"
           /\ wk[w].row # NoRow => rows'[j][wk[w].row.stage].status = status
           /\ wk[w].row = NoRow => rows'[j] = rows[j]
           /\ \A i \in Jobs \ {j} : rows'[i] = rows[i]
<1>1. wk[w].row # NoRow => /\ wk[w].row.stage \in Stages
                           /\ rows[j][wk[w].row.stage].attempt = wk[w].row.attempt
  BY DEF Works, WorkerInv, AtInv, RowInv
<1>2. status \in Statuses BY DEF Statuses
<1>3. /\ \A x \in Stages : x # wk[w].row.stage => rows'[j][x] = rows[j][x]
      /\ \A x \in Stages : rows'[j][x].attempt = rows[j][x].attempt
      /\ wk[w].row # NoRow => rows'[j][wk[w].row.stage].status = status
      /\ wk[w].row = NoRow => rows'[j] = rows[j]
      /\ \A i \in Jobs \ {j} : rows'[i] = rows[i]
  BY <1>1, <1>2, Closed DEF Works
<1>4. \A x \in RequiredStages : Order(x) <= Reached(wk[w]) /\ x # wk[w].row.stage => rows[j][x].status # "running"
  BY DEF Works, WorkerInv, RowInv
<1>5. wk[w].row = NoRow => wk[w].row.stage \notin Stages BY StageNamesDistinct DEF NoRow
<1>6. \A x \in Stages : rows'[j][x].status = "running" => rows[j][x].status = "running"
  BY <1>1, <1>3
<1>7. \A x \in RequiredStages : Order(x) <= Reached(wk[w]) => rows'[j][x].status # "running"
  BY <1>1, <1>3, <1>4, <1>5, StageNamesDistinct
<1> QED BY <1>3, <1>6, <1>7

\* A job whose stage rows alone change, by the end of one of them.
LEMMA ClosingKeepsJob ==
    ASSUME TypeInv, NEW w \in Workers, NEW j \in Jobs, wk[w].phase # "idle", Works(w, j),
           NEW status \in {"ok", "failed"}, ClosedRow(w, status),
           status = "ok" /\ wk[w].row # NoRow =>
               /\ wk[w].row.stage \in Built => product[j][wk[w].row.stage] > 0
               /\ wk[w].row.stage = "ingesting" => checkpoint[j] = Batches
               /\ wk[w].row.stage # "analytics",
           db' = db, requests' = requests, product' = product,
           snapshot' = snapshot, checkpoint' = checkpoint, ungrouped' = ungrouped
    PROVE  JobInv(j)'
<1>1. /\ \A x \in Stages : rows'[j][x].attempt = rows[j][x].attempt
      /\ \A x \in Stages : x # wk[w].row.stage => rows'[j][x] = rows[j][x]
      /\ \A x \in Stages : rows'[j][x].status = "running" => rows[j][x].status = "running"
      /\ wk[w].row # NoRow => rows'[j][wk[w].row.stage].status = status
      /\ wk[w].row = NoRow => rows'[j] = rows[j]
  BY ClosedRows
<1>2. /\ \A s \in Built : rows'[j][s].status = "ok" => product[j][s] > 0
      /\ rows'[j]["ingesting"].status = "ok" => checkpoint[j] = Batches
      /\ rows'[j]["analytics"].status = "ok" => rows[j]["analytics"].status = "ok"
  BY <1>1, StageNamesDistinct DEF Works, JobInv, StageInv, Succeeded
<1>3. StageInv(j)' BY <1>1, <1>2 DEF Works, JobInv, StageInv, Succeeded
<1>4. RequestInv(j)'
  BY <1>1, <1>2, StageNamesDistinct DEF Works, JobInv, RequestInv, Succeeded
<1>5. SettledInv(j)' BY LeasedSettled DEF Works, JobInv
<1> QED BY <1>3, <1>4, <1>5 DEF JobInv

\* The same worker, further on, when it has ended the row it held.
LEMMA ClosingKeepsRows ==
    ASSUME TypeInv, NEW w \in Workers, NEW j \in Jobs, wk[w].phase # "idle", Works(w, j),
           NEW status \in {"ok", "failed"}, ClosedRow(w, status),
           wk'[w].mem = Columns(db'[j]), db'[j].attempt = db[j].attempt,
           wk'[w].row = NoRow, wk'[w].phase # "close", Reached(wk'[w]) = Reached(wk[w])
    PROVE  RowInv(wk[w], j)'
<1>1. /\ \A x \in Stages : rows'[j][x].attempt = rows[j][x].attempt
      /\ \A x \in RequiredStages : Order(x) <= Reached(wk[w]) => rows'[j][x].status # "running"
  BY ClosedRows
<1>2. wk'[w].mem.attempt = wk[w].mem.attempt BY DEF Works, WorkerInv, RowInv, Columns
<1>3. \A x \in Stages : Order(x) > Reached(wk[w]) => rows'[j][x].attempt < wk'[w].mem.attempt
  BY <1>1, <1>2 DEF Works, WorkerInv, RowInv
<1> QED BY <1>1, <1>3 DEF RowInv

\* A step that ends a row and changes nothing else in the database.
LEMMA ClosingKeeps ==
    ASSUME TypeInv, LeaseInv, RunsInv, NEW w \in Workers, NEW j \in Jobs, wk[w].phase # "idle", Works(w, j),
           NEW status \in {"ok", "failed"}, ClosedRow(w, status),
           status = "ok" /\ wk[w].row # NoRow =>
               /\ wk[w].row.stage \in Built => product[j][wk[w].row.stage] > 0
               /\ wk[w].row.stage = "ingesting" => checkpoint[j] = Batches
               /\ wk[w].row.stage # "analytics",
           db' = db, requests' = requests, product' = product,
           snapshot' = snapshot, checkpoint' = checkpoint, ungrouped' = ungrouped,
           NEW p \in Phases, wk' = [wk EXCEPT ![w] = [wk[w] EXCEPT !.phase = p, !.row = NoRow]],
           AtInv(wk'[w]), p \notin {"close", "complete"}, Reached(wk'[w]) = Reached(wk[w]),
           Before(wk'[w]) => Before(wk[w]), Past(wk'[w]) => Past(wk[w])
    PROVE  RunsInv'
<1>1. /\ wk'[w].phase = p /\ wk'[w].at = wk[w].at /\ wk'[w].job = j /\ wk'[w].mem = wk[w].mem
      /\ wk'[w].row = NoRow /\ wk'[w].wanted = wk[w].wanted /\ wk'[w].refreshing = wk[w].refreshing
      /\ \A v \in Workers \ {w} : wk'[v] = wk[v]
  BY Basics DEF Local, Works
<1>2. \A i \in Jobs \ {j} : rows'[i] = rows[i] BY ClosedRows
<1>3. Frame(w, j) BY <1>1, <1>2 DEF Frame
<1>4. JobInv(j)' BY ClosingKeepsJob
<1>5. RowInv(wk[w], j)'
  <2>1. wk'[w].mem = Columns(db'[j]) BY <1>1 DEF Works, WorkerInv, RowInv
  <2> QED BY <1>1, <2>1, ClosingKeepsRows
<1>6. RunInv(wk[w], j)'
  <2>1. rows'[j]["analytics"].status = "ok" => rows[j]["analytics"].status = "ok"
    BY ClosedRows, StageNamesDistinct
  <2>2. Succeeded(j, "analytics")' => Succeeded(j, "analytics") BY <2>1 DEF Succeeded
  <2> QED BY <1>1, <2>2 DEF Works, WorkerInv, RunInv
<1>7. WorkerInv(wk[w], j)' BY <1>5, <1>6 DEF WorkerInv
<1>8. \A v \in Workers \ {w} : wk[v].phase # "idle" => wk[v].job # j BY Alone DEF Works
<1> QED BY <1>1, <1>3, <1>4, <1>7, <1>8, StepKeeps

LEMMA CloseRowKeeps ==
    ASSUME TypeInv, LeaseInv, FreshKeys, RunsInv, NEW w \in Workers, CloseRow(w) PROVE RunsInv'
<1>1. PICK j \in Jobs : Works(w, j) BY Start DEF CloseRow, Failing
<1>2. wk[w].phase = "close" /\ ClosedRow(w, "ok") /\ "open" \in Phases BY DEF CloseRow, Phases
<1>3. wk' = [wk EXCEPT ![w] = [wk[w] EXCEPT !.phase = "open", !.row = NoRow]] BY DEF CloseRow
<1>4. wk'[w].phase = "open" /\ wk'[w].at = wk[w].at /\ wk'[w].row = NoRow
  BY <1>2, <1>3, Basics DEF Local
<1>5. wk[w].row.stage \in {"graph_building", "findings"} /\ product[j][wk[w].row.stage] > 0
  BY <1>1, <1>2 DEF Works, WorkerInv, AtInv, RowInv
<1>6. AtInv(wk'[w]) BY <1>1, <1>2, <1>4 DEF Works, WorkerInv, AtInv
<1>7. Reached(wk'[w]) = Reached(wk[w]) BY <1>2, <1>4 DEF Reached
<1>8. (Before(wk'[w]) => Before(wk[w])) /\ (Past(wk'[w]) => Past(wk[w])) BY <1>2, <1>4 DEF Before, Past
<1> QED BY <1>1, <1>2, <1>3, <1>5, <1>6, <1>7, <1>8, ClosingKeeps DEF CloseRow

LEMMA VerifySourceKeeps ==
    ASSUME TypeInv, LeaseInv, FreshKeys, RunsInv, NEW w \in Workers, VerifySource(w) PROVE RunsInv'
<1>1. PICK j \in Jobs : Works(w, j) BY Start DEF VerifySource, Failing, In
<1>2. /\ wk[w].phase = "work" /\ wk[w].at = "source_verification"
      /\ ClosedRow(w, "ok") /\ "decide" \in Phases
  BY DEF VerifySource, In, Phases
<1>3. wk' = [wk EXCEPT ![w] = [wk[w] EXCEPT !.phase = "decide", !.row = NoRow]] BY DEF VerifySource
<1>4. wk'[w].phase = "decide" /\ wk'[w].at = wk[w].at /\ wk'[w].row = NoRow
  BY <1>2, <1>3, Basics DEF Local
<1>5. wk[w].row # NoRow => wk[w].row.stage = "source_verification"
  BY <1>1, <1>2 DEF Works, WorkerInv, AtInv
<1>6. AtInv(wk'[w]) BY <1>2, <1>4 DEF AtInv
<1>7. Reached(wk'[w]) = Reached(wk[w]) BY <1>2, <1>4, StageOrder DEF Reached
<1>8. (Before(wk'[w]) => Before(wk[w])) /\ (Past(wk'[w]) => Past(wk[w])) BY <1>2, <1>4 DEF Before, Past
<1> QED BY <1>1, <1>2, <1>3, <1>5, <1>6, <1>7, <1>8, ClosingKeeps DEF VerifySource, Built

LEMMA FinishIngestKeeps ==
    ASSUME TypeInv, LeaseInv, FreshKeys, RunsInv, NEW w \in Workers, FinishIngest(w) PROVE RunsInv'
<1>1. PICK j \in Jobs : Works(w, j) BY Start DEF FinishIngest, Failing, In
<1>2. /\ wk[w].phase = "work" /\ wk[w].at = "ingesting" /\ wk[w].row # NoRow /\ wk[w].pos = Batches
      /\ ClosedRow(w, "ok") /\ "work" \in Phases
  BY DEF FinishIngest, In, Phases
<1>3. wk' = [wk EXCEPT ![w] = [wk[w] EXCEPT !.phase = "work", !.row = NoRow]]
  BY <1>2, Basics DEF FinishIngest, Local
<1>4. wk'[w].phase = "work" /\ wk'[w].at = "ingesting" /\ wk'[w].row = NoRow
  BY <1>2, <1>3, Basics DEF Local
<1>5. wk[w].row.stage = "ingesting" /\ checkpoint[j] = Batches
  BY <1>1, <1>2 DEF Works, WorkerInv, AtInv, RowInv
<1>6. AtInv(wk'[w]) BY <1>4, StageNamesDistinct DEF AtInv
<1>7. Reached(wk'[w]) = Reached(wk[w]) BY <1>2, <1>4 DEF Reached
<1>8. (Before(wk'[w]) => Before(wk[w])) /\ (Past(wk'[w]) => Past(wk[w])) BY <1>2, <1>4 DEF Before, Past
<1> QED BY <1>1, <1>2, <1>3, <1>5, <1>6, <1>7, <1>8, ClosingKeeps DEF FinishIngest, Built

LEMMA FinishScoringKeeps ==
    ASSUME TypeInv, LeaseInv, FreshKeys, RunsInv, NEW w \in Workers, FinishScoring(w) PROVE RunsInv'
<1>1. PICK j \in Jobs : Works(w, j) BY Start DEF FinishScoring, Failing
<1>2. /\ wk[w].phase \in {"scored", "unscored"} /\ "leave" \in Phases
      /\ \E status \in {"ok", "failed"} : ClosedRow(w, status)
  BY DEF FinishScoring, Phases
<1>3. wk' = [wk EXCEPT ![w] = [wk[w] EXCEPT !.phase = "leave", !.row = NoRow]] BY DEF FinishScoring
<1>4. wk'[w].phase = "leave" /\ wk'[w].at = wk[w].at /\ wk'[w].row = NoRow
  BY <1>2, <1>3, Basics DEF Local
<1>5. wk[w].at = "ml_scoring" /\ (wk[w].row # NoRow => wk[w].row.stage = "ml_scoring")
  BY <1>1, <1>2 DEF Works, WorkerInv, AtInv
<1>6. AtInv(wk'[w]) BY <1>4, <1>5 DEF AtInv
<1>7. Reached(wk'[w]) = Reached(wk[w]) BY <1>2, <1>4 DEF Reached
<1>8. (Before(wk'[w]) => Before(wk[w])) /\ (Past(wk'[w]) => Past(wk[w])) BY <1>2, <1>4, <1>5 DEF Before, Past
<1> QED BY <1>1, <1>2, <1>3, <1>5, <1>6, <1>7, <1>8, ClosingKeeps DEF FinishScoring, Built

LEMMA ReportCoverageKeeps ==
    ASSUME TypeInv, LeaseInv, FreshKeys, RunsInv, NEW w \in Workers, ReportCoverage(w) PROVE RunsInv'
<1>1. PICK j \in Jobs : Works(w, j) BY Start DEF ReportCoverage, Failing, In
<1>2. /\ wk[w].phase = "work" /\ wk[w].at = "coverage" /\ "leave" \in Phases
      /\ \E status \in {"ok", "failed"} : ClosedRow(w, status)
  BY DEF ReportCoverage, Phases, In
<1>3. wk' = [wk EXCEPT ![w] = [wk[w] EXCEPT !.phase = "leave", !.row = NoRow]] BY DEF ReportCoverage
<1>4. wk'[w].phase = "leave" /\ wk'[w].at = wk[w].at /\ wk'[w].row = NoRow
  BY <1>2, <1>3, Basics DEF Local
<1>5. wk[w].row # NoRow => wk[w].row.stage = "coverage"
  BY <1>1, <1>2 DEF Works, WorkerInv, AtInv
<1>6. AtInv(wk'[w]) BY <1>2, <1>4 DEF AtInv
<1>7. Reached(wk'[w]) = Reached(wk[w]) BY <1>2, <1>4 DEF Reached
<1>8. (Before(wk'[w]) => Before(wk[w])) /\ (Past(wk'[w]) => Past(wk[w])) BY <1>2, <1>4 DEF Before, Past
<1> QED BY <1>1, <1>2, <1>3, <1>5, <1>6, <1>7, <1>8, ClosingKeeps DEF ReportCoverage, Built

\* A step that opens the row of stage s for the attempt, and keeps the lease.
LEMMA OpeningKeeps ==
    ASSUME TypeInv, LeaseInv, RunsInv, NEW w \in Workers, NEW j \in Jobs, wk[w].phase # "idle", Works(w, j),
           wk[w].row = NoRow, NEW s \in Stages, Order(s) > Reached(wk[w]), OpenedRow(w, s),
           s \in Middle => ~GroupIsLatest(requests[j]),
           \A x \in RequiredStages :
               Reached(wk[w]) < Order(x) /\ Order(x) < Order(s) => rows[j][x].status # "running",
           db'[j].state \in Leased, db'[j].attempt = db[j].attempt, db'[j].error = db[j].error,
           \A i \in Jobs \ {j} : db'[i] = db[i],
           requests' = requests, product' = product,
           snapshot' = snapshot, checkpoint' = checkpoint, ungrouped' = ungrouped,
           \A v \in Workers \ {w} : wk'[v] = wk[v],
           wk'[w].job = j, wk'[w].mem = Columns(db'[j]), wk'[w].phase # "close",
           wk'[w].row = [stage |-> s, attempt |-> wk[w].mem.attempt],
           wk'[w].at = "ingesting" => wk'[w].pos = checkpoint[j],
           Reached(wk'[w]) = Order(s), AtInv(wk'[w]), RunInv(wk[w], j)'
    PROVE  RunsInv'
<1>1. /\ wk[w].mem.attempt = db[j].attempt /\ wk'[w].mem.attempt = db[j].attempt
      /\ db[j].attempt \in Nat
  BY JobTypes DEF Works, WorkerInv, RowInv, Columns
<1>2. rows[j][s].attempt < wk[w].mem.attempt BY DEF Works, WorkerInv, RowInv
<1>3. /\ \A x \in Stages \ {s} : rows'[j][x] = rows[j][x]
      /\ rows'[j][s].attempt = wk[w].mem.attempt /\ rows'[j][s].status = "running"
      /\ \A i \in Jobs \ {j} : rows'[i] = rows[i]
  BY <1>2, Opened DEF Works
<1>4. Frame(w, j) BY <1>3 DEF Frame
<1>5. StageInv(j)' BY <1>1, <1>3, StageNamesDistinct DEF Works, JobInv, StageInv, Succeeded
<1>6. RequestInv(j)'
  <2>1. Succeeded(j, "analytics")' => Succeeded(j, "analytics")
    BY <1>3, StageNamesDistinct DEF Succeeded
  <2>2. db[j].state \in Active /\ db'[j].state # "completed" BY DEF Works, Active, Leased
  <2> QED BY <1>3, <2>1, <2>2, StageNamesDistinct DEF Works, JobInv, RequestInv
<1>7. SettledInv(j)' BY LeasedSettled DEF Works, JobInv
<1>8. RowInv(wk[w], j)'
  <2>1. \A x \in Stages : Order(x) > Order(s) => rows'[j][x].attempt < wk'[w].mem.attempt
    <3>1. \A x \in Stages : Order(x) > Order(s) => Order(x) > Reached(wk[w]) /\ x # s
      <4>1. Reached(wk[w]) \in Nat BY ReachedTyped
      <4> QED BY <4>1, StageOrder
    <3> QED BY <1>1, <1>3, <3>1 DEF Works, WorkerInv, RowInv
  <2>2. \A x \in RequiredStages : Order(x) <= Order(s) /\ x # s => rows'[j][x].status # "running"
    <3> SUFFICES ASSUME NEW x \in RequiredStages, Order(x) <= Order(s), x # s
                 PROVE  rows[j][x].status # "running"
      BY <1>3, StageNamesDistinct
    <3>1. Reached(wk[w]) \in Nat BY ReachedTyped
    <3>2. x \in Stages /\ Order(x) < Order(s) BY StageOrder, StageNamesDistinct
    <3>3. CASE Order(x) > Reached(wk[w]) BY <3>2, <3>3
    <3>4. CASE Order(x) <= Reached(wk[w])
      BY <3>2, <3>4, StageNamesDistinct DEF Works, WorkerInv, RowInv, NoRow
    <3> QED BY <3>1, <3>2, <3>3, <3>4, StageOrder
  <2> QED BY <1>1, <1>3, <2>1, <2>2 DEF RowInv
<1>9. WorkerInv(wk[w], j)' BY <1>8 DEF WorkerInv
<1>10. \A v \in Workers \ {w} : wk[v].phase # "idle" => wk[v].job # j BY Alone DEF Works
<1> QED BY <1>4, <1>5, <1>6, <1>7, <1>9, <1>10, StepKeeps DEF JobInv


LEMMA OpenRowKeeps ==
    ASSUME TypeInv, LeaseInv, FreshKeys, RunsInv, NEW w \in Workers, OpenRow(w) PROVE RunsInv'
<1>1. PICK j \in Jobs : Works(w, j) BY Start DEF OpenRow, Failing
<1>2. wk[w].phase = "open" /\ wk[w].row = NoRow BY <1>1 DEF OpenRow, Works, WorkerInv, AtInv
<1>3. PICK s \in Stages : /\ wk[w].at = s
                          /\ s \in {"graph_building", "findings", "ml_scoring", "analytics", "coverage",
                                    "investigation_grouping"}
  BY <1>1, <1>2, StageNamesDistinct DEF Works, WorkerInv, AtInv
<1>4. /\ wk'[w].phase = "work" /\ wk'[w].at = s /\ wk'[w].job = j /\ wk'[w].mem = wk[w].mem
      /\ wk'[w].row = [stage |-> s, attempt |-> wk[w].mem.attempt]
      /\ wk'[w].wanted = wk[w].wanted /\ wk'[w].refreshing = wk[w].refreshing
      /\ \A v \in Workers \ {w} : wk'[v] = wk[v]
  BY <1>1, <1>2, <1>3, Basics DEF OpenRow, Local, Works
<1>5. /\ db' = db /\ requests' = requests /\ product' = product
      /\ snapshot' = snapshot /\ checkpoint' = checkpoint /\ ungrouped' = ungrouped
      /\ OpenedRow(w, s)
  BY <1>3 DEF OpenRow
<1>6. Reached(wk[w]) = Order(s) - 1 /\ Reached(wk'[w]) = Order(s) BY <1>2, <1>3, <1>4 DEF Reached
<1>7. /\ Order(s) > Reached(wk[w])
      /\ \A x : ~(Reached(wk[w]) < Order(x) /\ Order(x) < Order(s))
  BY <1>6, StageOrder
<1>8. s \in Middle => ~GroupIsLatest(requests[j])
  BY <1>1, <1>2, <1>3 DEF Works, WorkerInv, RunInv, Before, Middle, RequiredStages
<1>9. wk'[w].mem = Columns(db'[j]) BY <1>1, <1>4, <1>5 DEF Works, WorkerInv, RowInv
<1>10. AtInv(wk'[w]) BY <1>1, <1>2, <1>3, <1>4 DEF Works, WorkerInv, AtInv, NoRow
<1>11. RunInv(wk[w], j)'
  <2>1. rows'[j]["analytics"] = rows[j]["analytics"] \/ s = "analytics"
    <3>1. rows[j][s].attempt < wk[w].mem.attempt BY <1>1, <1>7 DEF Works, WorkerInv, RowInv
    <3> QED BY <1>1, <1>2, <1>5, <3>1, Opened, StageNamesDistinct DEF Works
  <2> QED BY <1>1, <1>2, <1>3, <1>4, <1>5, <2>1 DEF Works, WorkerInv, RunInv, Before, Past, Succeeded
<1>12. wk'[w].at # "ingesting" /\ wk'[w].phase # "close" BY <1>3, <1>4
<1>13. db[j].state \in Leased BY <1>1 DEF Works
<1> QED BY <1>1, <1>2, <1>4, <1>5, <1>6, <1>7, <1>8, <1>9, <1>10, <1>11, <1>12, <1>13, OpeningKeeps

LEMMA OpenVerificationKeeps ==
    ASSUME TypeInv, LeaseInv, FreshKeys, RunsInv, NEW w \in Workers, OpenVerification(w) PROVE RunsInv'
<1> DEFINE s == "source_verification"
<1>1. PICK j \in Jobs : Works(w, j) BY Start DEF OpenVerification, Failing
<1>2. wk[w].phase = "claimed" /\ wk[w].row = NoRow BY <1>1 DEF OpenVerification, Works, WorkerInv, AtInv
<1>3. s \in Stages /\ s \notin Middle BY StageNamesDistinct DEF Middle
<1>4. /\ wk'[w].phase = "work" /\ wk'[w].at = s /\ wk'[w].job = j /\ wk'[w].mem = wk[w].mem
      /\ wk'[w].row = [stage |-> s, attempt |-> wk[w].mem.attempt]
      /\ wk'[w].wanted = wk[w].wanted /\ wk'[w].refreshing = wk[w].refreshing
      /\ \A v \in Workers \ {w} : wk'[v] = wk[v]
  BY <1>1, <1>2, <1>3, Basics DEF OpenVerification, Local, Works
<1>5. /\ db' = db /\ requests' = requests /\ product' = product
      /\ snapshot' = snapshot /\ checkpoint' = checkpoint /\ ungrouped' = ungrouped
      /\ OpenedRow(w, s)
  BY DEF OpenVerification
<1>6. Reached(wk[w]) = 0 /\ Reached(wk'[w]) = Order(s) /\ Order(s) = 1
  BY <1>2, <1>4, StageOrder DEF Reached
<1>7. /\ Order(s) > Reached(wk[w])
      /\ \A x : ~(Reached(wk[w]) < Order(x) /\ Order(x) < Order(s))
  BY <1>6, StageOrder
<1>8. wk'[w].mem = Columns(db'[j]) BY <1>1, <1>4, <1>5 DEF Works, WorkerInv, RowInv
<1>9. AtInv(wk'[w]) BY <1>3, <1>4 DEF AtInv, NoRow
<1>10. RunInv(wk[w], j)'
  BY <1>1, <1>4 DEF Works, WorkerInv, RunInv, Before, Past
<1>11. db[j].state \in Leased /\ wk'[w].at # "ingesting" /\ wk'[w].phase # "close"
  BY <1>1, <1>4 DEF Works
<1> HIDE DEF s
<1> QED BY <1>1, <1>2, <1>3, <1>4, <1>5, <1>6, <1>7, <1>8, <1>9, <1>10, <1>11, OpeningKeeps

\* With every request in reach of the attempt, what the worker decides from the
\* pending requests is what the requests say.
LEMMA PendingIsUnmet ==
    ASSUME TypeInv, NEW j \in Jobs, NEW a \in Nat, \A q \in requests[j] : q.attempt <= a
    PROVE  /\ GroupOnlyPending(j, a) <=> GroupIsLatest(requests[j])
           /\ \A q \in Unmet(requests[j], "refresh") :
                  q \in {p \in Pending(j, a) : p.kind = "refresh"}
<1>1. Pending(j, a) = {q \in requests[j] : ~q.fulfilled} BY DEF Pending
<1> QED BY <1>1 DEF GroupOnlyPending, GroupIsLatest, Unmet

LEMMA StartRegroupingKeeps ==
    ASSUME TypeInv, LeaseInv, FreshKeys, RunsInv, NEW w \in Workers, StartRegrouping(w) PROVE RunsInv'
<1> DEFINE s == "investigation_grouping"
           new == [wk[w].mem EXCEPT !.stage = "investigation_grouping"]
<1>1. PICK j \in Jobs : Works(w, j) BY Start DEF StartRegrouping, Failing
<1>2. wk[w].phase = "decide" /\ wk[w].row = NoRow BY <1>1 DEF StartRegrouping, Works, WorkerInv, AtInv
<1>3. s \in Stages /\ s \notin Middle BY StageNamesDistinct DEF Middle
<1>4. /\ wk'[w].phase = "work" /\ wk'[w].at = "regrouping" /\ wk'[w].job = j /\ wk'[w].mem = new
      /\ wk'[w].row = [stage |-> s, attempt |-> wk[w].mem.attempt]
      /\ wk'[w].wanted = wk[w].wanted /\ wk'[w].refreshing = wk[w].refreshing
      /\ \A v \in Workers \ {w} : wk'[v] = wk[v]
  <2> DEFINE held == [stage |-> s, attempt |-> wk[w].mem.attempt]
             r == [wk[w] EXCEPT !.mem = new, !.phase = "work", !.at = "regrouping", !.row = held]
  <2>1. wk' = [wk EXCEPT ![w] = r] BY DEF StartRegrouping
  <2>2. wk[w] \in Local /\ wk \in [Workers -> Local] BY <1>2, Basics
  <2>3. wk[w].job = j BY <1>1 DEF Works
  <2> HIDE DEF new, held
  <2>4. /\ r.phase = "work" /\ r.at = "regrouping" /\ r.job = wk[w].job /\ r.mem = new /\ r.row = held
        /\ r.wanted = wk[w].wanted /\ r.refreshing = wk[w].refreshing
    BY <2>2 DEF Local
  <2> HIDE DEF r
  <2>5. wk'[w] = r /\ \A v \in Workers \ {w} : wk'[v] = wk[v] BY <2>1, <2>2
  <2> QED BY <2>3, <2>4, <2>5 DEF held
<1>5. /\ requests' = requests /\ product' = product /\ SaveJob(w, new, db[j].live)
      /\ snapshot' = snapshot /\ checkpoint' = checkpoint /\ ungrouped' = ungrouped
      /\ OpenedRow(w, s) /\ GroupingReady(j) /\ GroupOnlyPending(j, wk[w].mem.attempt)
  BY <1>1 DEF StartRegrouping, Works
<1>6. /\ wk[w].mem = Columns(db[j]) /\ wk[w].mem \in MemRow /\ wk[w].mem.attempt \in Nat
      /\ new \in MemRow /\ new.attempt = wk[w].mem.attempt /\ new.state = db[j].state
      /\ wk[w].mem.attempt = db[j].attempt
  BY <1>1, <1>2, Basics DEF Works, WorkerInv, RowInv, Columns, MemRow, StageNames, Stages, RequiredStages
<1> HIDE DEF new
<1>7. /\ db'[j].state = db[j].state /\ db'[j].attempt = db[j].attempt /\ db'[j].error = db[j].error
      /\ Columns(db'[j]) = new /\ \A i \in Jobs \ {j} : db'[i] = db[i]
  BY <1>1, <1>2, <1>5, <1>6, Saved DEF Works
<1>8. Reached(wk[w]) = 1 /\ Reached(wk'[w]) = Order(s) /\ Order(s) = 8
  BY <1>2, <1>4, StageOrder DEF Reached
<1>9. GroupIsLatest(requests[j]) BY <1>1, <1>5, <1>6, PendingIsUnmet DEF Works
<1>10. \A x \in RequiredStages : 1 < Order(x) /\ Order(x) < Order(s) => rows[j][x].status # "running"
  <2>1. \A x \in RequiredStages : 1 < Order(x) /\ Order(x) < Order(s) => x \in Middle
    BY <1>8, StageOrder DEF Middle
  <2> QED BY <1>1, <1>9, <2>1 DEF Works, JobInv, RequestInv, Active
<1>11. AtInv(wk'[w]) BY <1>3, <1>4, <1>6 DEF AtInv, NoRow
<1>12. RunInv(wk[w], j)'
  <2>1. rows'[j]["analytics"] = rows[j]["analytics"]
    <3>1. rows[j][s].attempt < wk[w].mem.attempt BY <1>1, <1>3, <1>8 DEF Works, WorkerInv, RowInv
    <3> QED BY <1>1, <1>2, <1>3, <1>5, <3>1, Opened, StageNamesDistinct DEF Works
  <2>2. Unmet(requests[j], "refresh") = {} \/ ~Succeeded(j, "analytics")
    BY <1>1, <1>9 DEF Works, JobInv, RequestInv
  <2> QED BY <1>1, <1>4, <1>5, <1>6, <2>1, <2>2
      DEF Works, WorkerInv, RunInv, Before, Past, Succeeded, GroupingReady
<1>13. db[j].state \in Leased /\ wk'[w].at # "ingesting" /\ wk'[w].phase # "close"
  BY <1>1, <1>4 DEF Works
<1> HIDE DEF s
<1> QED BY <1>1, <1>2, <1>3, <1>4, <1>5, <1>6, <1>7, <1>8, <1>10, <1>11, <1>12, <1>13, OpeningKeeps

\* A step that leaves the stage rows and the requests alone, and keeps the lease.
LEMMA MovingKeeps ==
    ASSUME TypeInv, LeaseInv, RunsInv, NEW w \in Workers, NEW j \in Jobs, wk[w].phase # "idle", Works(w, j),
           rows' = rows, requests' = requests,
           db'[j].state \in Leased, db'[j].attempt = db[j].attempt, db'[j].error = db[j].error,
           \A i \in Jobs \ {j} : /\ db'[i] = db[i] /\ product'[i] = product[i] /\ snapshot'[i] = snapshot[i]
                                 /\ checkpoint'[i] = checkpoint[i] /\ ungrouped'[i] = ungrouped[i],
           \A x \in Stages : product'[j][x] = product[j][x] \/ (x \notin Stamped /\ product'[j][x] > 0),
           Succeeded(j, "ingesting") => checkpoint'[j] = checkpoint[j],
           \A v \in Workers \ {w} : wk'[v] = wk[v],
           wk'[w].job = j, wk'[w].mem = Columns(db'[j]), wk'[w].row = wk[w].row,
           Reached(wk'[w]) >= Reached(wk[w]),
           \A x \in RequiredStages :
               Reached(wk[w]) < Order(x) /\ Order(x) <= Reached(wk'[w]) => rows[j][x].status # "running",
           wk'[w].phase = "close" => product'[j][wk[w].row.stage] > 0,
           wk'[w].at = "ingesting" /\ wk[w].row # NoRow => wk'[w].pos = checkpoint'[j],
           AtInv(wk'[w]), RunInv(wk[w], j)'
    PROVE  RunsInv'
<1>1. wk[w].mem.attempt = db[j].attempt /\ wk'[w].mem.attempt = db[j].attempt
  BY DEF Works, WorkerInv, RowInv, Columns
<1>2. Frame(w, j) BY DEF Frame
<1>3. StageInv(j)' BY StageNamesDistinct DEF Works, JobInv, StageInv, Succeeded
<1>4. RequestInv(j)'
  <2>1. db[j].state \in Active /\ db'[j].state # "completed" BY DEF Works, Active, Leased
  <2>2. \A x \in Stamped : product'[j][x] = product[j][x] BY StageNamesDistinct
  <2>3. product'[j]["analytics"] = product[j]["analytics"]
        /\ product'[j]["investigation_grouping"] = product[j]["investigation_grouping"]
    BY <2>2 DEF Stamped
  <2> QED BY <2>1, <2>3 DEF Works, JobInv, RequestInv, Succeeded
<1>5. SettledInv(j)' BY LeasedSettled DEF Works, JobInv
<1>6. RowInv(wk[w], j)'
  <2>1. Reached(wk[w]) \in Nat /\ Reached(wk'[w]) \in Nat BY ReachedTyped
  <2>2. \A x \in Stages : Order(x) > Reached(wk'[w]) => rows[j][x].attempt < wk[w].mem.attempt
    BY <2>1, StageOrder DEF Works, WorkerInv, RowInv
  <2>3. \A x \in RequiredStages : Order(x) <= Reached(wk'[w]) /\ x # wk[w].row.stage => rows[j][x].status # "running"
    BY <2>1, StageOrder DEF Works, WorkerInv, RowInv
  <2>4. wk[w].row # NoRow => rows[j][wk[w].row.stage].attempt = wk[w].row.attempt
    BY DEF Works, WorkerInv, RowInv
  <2> QED BY <1>1, <2>2, <2>3, <2>4 DEF RowInv
<1>7. WorkerInv(wk[w], j)' BY <1>6 DEF WorkerInv
<1>8. \A v \in Workers \ {w} : wk[v].phase # "idle" => wk[v].job # j BY Alone DEF Works
<1> QED BY <1>2, <1>3, <1>4, <1>5, <1>7, <1>8, StepKeeps DEF JobInv

\* The same, when the job row stays as it is too.
LEMMA WaitingKeeps ==
    ASSUME TypeInv, LeaseInv, RunsInv, NEW w \in Workers, NEW j \in Jobs, wk[w].phase # "idle", Works(w, j),
           UNCHANGED dbVars,
           NEW p \in Phases, wk' = [wk EXCEPT ![w] = [wk[w] EXCEPT !.phase = p]],
           Reached(wk'[w]) = Reached(wk[w]), p \notin {"close", "complete"}, AtInv(wk'[w]),
           Before(wk'[w]) => Before(wk[w]), Past(wk'[w]) => Past(wk[w])
    PROVE  RunsInv'
<1>1. /\ wk'[w].phase = p /\ wk'[w].at = wk[w].at /\ wk'[w].job = j /\ wk'[w].mem = wk[w].mem
      /\ wk'[w].row = wk[w].row /\ wk'[w].pos = wk[w].pos
      /\ wk'[w].wanted = wk[w].wanted /\ wk'[w].refreshing = wk[w].refreshing
      /\ \A v \in Workers \ {w} : wk'[v] = wk[v]
  BY Basics DEF Local, Works
<1>2. RunInv(wk[w], j)' BY <1>1 DEF Works, WorkerInv, RunInv, dbVars, Succeeded
<1>3. /\ wk'[w].mem = Columns(db'[j]) /\ db'[j].state \in Leased
      /\ (wk'[w].at = "ingesting" /\ wk[w].row # NoRow => wk'[w].pos = checkpoint'[j])
  BY <1>1 DEF Works, WorkerInv, RowInv, dbVars
<1>4. /\ Reached(wk'[w]) >= Reached(wk[w])
      /\ \A x : ~(Reached(wk[w]) < Order(x) /\ Order(x) <= Reached(wk'[w]))
  BY ReachedTyped, StageOrder
<1> QED BY <1>1, <1>2, <1>3, <1>4, MovingKeeps DEF dbVars

LEMMA ReuseRowKeeps ==
    ASSUME TypeInv, LeaseInv, FreshKeys, RunsInv, NEW w \in Workers, ReuseRow(w) PROVE RunsInv'
<1>1. PICK j \in Jobs : Works(w, j) BY Start DEF ReuseRow, Failing
<1>2. /\ wk[w].phase = "open" /\ Reuses(w, wk[w].at) /\ UNCHANGED dbVars /\ "work" \in Phases
      /\ wk' = [wk EXCEPT ![w] = [wk[w] EXCEPT !.phase = "work"]]
  BY DEF ReuseRow, Phases
<1>3. wk'[w].phase = "work" /\ wk'[w].at = wk[w].at /\ wk'[w].row = wk[w].row
      /\ wk'[w].refreshing = wk[w].refreshing /\ wk'[w].mem = wk[w].mem
      /\ wk'[w].wanted = wk[w].wanted /\ wk'[w].job = j
      /\ \A v \in Workers \ {w} : wk'[v] = wk[v]
  BY <1>1, <1>2, Basics DEF Local, Works
<1>4. PICK s \in Stages : /\ wk[w].at = s
                          /\ s \in {"graph_building", "findings", "ml_scoring", "analytics", "coverage",
                                    "investigation_grouping"}
  BY <1>1, <1>2, StageNamesDistinct DEF Works, WorkerInv, AtInv
<1>5. Reached(wk[w]) = Order(s) - 1 /\ Reached(wk'[w]) = Order(s) BY <1>2, <1>3, <1>4 DEF Reached
<1>6. AtInv(wk'[w]) BY <1>1, <1>2, <1>3, <1>4 DEF Works, WorkerInv, AtInv, Reuses
<1>7. RunInv(wk[w], j)'
  BY <1>1, <1>2, <1>3, <1>4 DEF Works, WorkerInv, RunInv, dbVars, Succeeded, Before, Past
<1>8. \A x \in RequiredStages : Reached(wk[w]) < Order(x) /\ Order(x) <= Reached(wk'[w])
          => rows[j][x].status # "running"
  <2>1. rows[j][s].status = "ok" BY <1>1, <1>2, <1>4 DEF Reuses, Succeeded, Works
  <2>2. \A x \in RequiredStages : Reached(wk[w]) < Order(x) /\ Order(x) <= Reached(wk'[w]) => x = s
    BY <1>5, StageOrder, StageNamesDistinct
  <2> QED BY <2>1, <2>2
<1>9. Reached(wk'[w]) >= Reached(wk[w]) BY <1>5, StageOrder
<1>10. wk'[w].mem = Columns(db'[j]) /\ db'[j].state \in Leased /\ wk'[w].at # "ingesting"
  BY <1>1, <1>2, <1>3, <1>4 DEF Works, WorkerInv, RowInv, dbVars
<1> QED BY <1>1, <1>2, <1>3, <1>6, <1>7, <1>8, <1>9, <1>10, MovingKeeps DEF dbVars

LEMMA StartImportKeeps ==
    ASSUME TypeInv, LeaseInv, FreshKeys, RunsInv, NEW w \in Workers, StartImport(w) PROVE RunsInv'
<1>1. PICK j \in Jobs : Works(w, j) BY Start DEF StartImport, Failing
<1>2. wk[w].phase = "decide" /\ wk[w].row = NoRow BY <1>1 DEF StartImport, Works, WorkerInv, AtInv
<1> DEFINE a == wk[w].mem.attempt
           wanted == {q.attempt : q \in {p \in Pending(j, a) : p.kind = "refresh"}}
           ref == IF Succeeded(j, "ingesting") THEN NoRow ELSE [stage |-> "ingesting", attempt |-> a]
<1>3. PICK geoip \in BOOLEAN :
          wk' = [wk EXCEPT ![w].phase = "begin", ![w].at = "ingesting",
                           ![w].pos = checkpoint[j], ![w].wanted = wanted,
                           ![w].refreshing = wanted # {} \/ geoip, ![w].row = ref]
  BY <1>1 DEF StartImport, Works
<1>4. \A x \in wanted : x <= a BY <1>1 DEF Pending, Works
<1>5. a \in Nat BY <1>2, Basics
<1>6. ~GroupIsLatest(requests[j]) BY <1>1, <1>5, PendingIsUnmet DEF StartImport, Works
<1>7. \A q \in Unmet(requests[j], "refresh") : q.attempt \in wanted BY <1>1, <1>5, PendingIsUnmet DEF Works
<1>8. /\ db' = db /\ requests' = requests /\ product' = product
      /\ snapshot' = snapshot /\ checkpoint' = checkpoint /\ ungrouped' = ungrouped
      /\ IF Succeeded(j, "ingesting") THEN rows' = rows ELSE OpenedRow(w, "ingesting")
  BY <1>1 DEF StartImport, Works
<1> HIDE DEF wanted, ref
<1>9. /\ wk'[w].phase = "begin" /\ wk'[w].at = "ingesting" /\ wk'[w].job = j /\ wk'[w].mem = wk[w].mem
      /\ wk'[w].row = ref /\ wk'[w].pos = checkpoint[j]
      /\ wk'[w].wanted = wanted /\ wk'[w].refreshing = (wanted # {} \/ geoip)
      /\ \A v \in Workers \ {w} : wk'[v] = wk[v]
  <2> DEFINE b == wanted # {} \/ geoip
             r == [wk[w] EXCEPT !.phase = "begin", !.at = "ingesting", !.pos = checkpoint[j],
                                !.wanted = wanted, !.refreshing = b, !.row = ref]
  <2>1. wk' = [wk EXCEPT ![w] = r] BY <1>3
  <2>2. wk[w] \in Local /\ wk \in [Workers -> Local] BY <1>2, Basics
  <2> HIDE DEF b
  <2>3. /\ r.phase = "begin" /\ r.at = "ingesting" /\ r.job = wk[w].job /\ r.mem = wk[w].mem
        /\ r.row = ref /\ r.pos = checkpoint[j] /\ r.wanted = wanted /\ r.refreshing = b
    BY <2>2 DEF Local
  <2> HIDE DEF r
  <2>4. wk'[w] = r /\ \A v \in Workers \ {w} : wk'[v] = wk[v] BY <2>1, <2>2
  <2> QED BY <1>1, <2>3, <2>4 DEF Works, b
<1>10. wk'[w].mem = Columns(db'[j]) /\ db'[j].state \in Leased BY <1>1, <1>8, <1>9 DEF Works, WorkerInv, RowInv
<1>11. AtInv(wk'[w]) BY <1>9, StageNamesDistinct DEF AtInv, ref, NoRow
<1>12. RunInv(wk[w], j)' BY <1>4, <1>6, <1>7, <1>8, <1>9 DEF RunInv, Before, Past
<1>13. Reached(wk[w]) = 1 /\ Reached(wk'[w]) = Order("ingesting") /\ Order("ingesting") = 2
  BY <1>2, <1>9, StageOrder DEF Reached
<1>14. CASE Succeeded(j, "ingesting")
  <2>1. ref = NoRow BY <1>14 DEF ref
  <2>2. \A x \in RequiredStages : Reached(wk[w]) < Order(x) /\ Order(x) <= Reached(wk'[w]) => x = "ingesting"
    BY <1>13, StageOrder, StageNamesDistinct
  <2>3. rows[j]["ingesting"].status = "ok" BY <1>14 DEF Succeeded
  <2>4. \A x \in RequiredStages :
            Reached(wk[w]) < Order(x) /\ Order(x) <= Reached(wk'[w]) => rows[j][x].status # "running"
    BY <2>2, <2>3
  <2>5. Reached(wk'[w]) >= Reached(wk[w]) BY <1>13
  <2>6. wk'[w].row = wk[w].row /\ wk'[w].phase # "close" BY <1>2, <1>9, <2>1
  <2> QED BY <1>1, <1>2, <1>8, <1>9, <1>10, <1>11, <1>12, <1>14, <2>4, <2>5, <2>6, MovingKeeps
<1>15. CASE ~Succeeded(j, "ingesting")
  <2>1. /\ wk'[w].row = [stage |-> "ingesting", attempt |-> wk[w].mem.attempt]
        /\ OpenedRow(w, "ingesting") /\ "ingesting" \in Stages
    BY <1>8, <1>9, <1>15, StageNamesDistinct DEF ref
  <2>2. /\ Order("ingesting") > Reached(wk[w])
        /\ \A x : ~(Reached(wk[w]) < Order(x) /\ Order(x) < Order("ingesting"))
    BY <1>13, StageOrder
  <2>3. wk'[w].phase # "close" BY <1>9
  <2> QED BY <1>1, <1>2, <1>6, <1>8, <1>9, <1>10, <1>11, <1>12, <1>13, <2>1, <2>2, <2>3, OpeningKeeps
<1> QED BY <1>14, <1>15

LEMMA Entered ==
    ASSUME TypeInv, NEW w \in Workers, NEW j \in Jobs, wk[w].phase # "idle", Works(w, j),
           NEW s \in Stages, Enter(w, s)
    PROVE  /\ wk'[w].at = s /\ wk'[w].phase = (IF wk[w].row = NoRow THEN "open" ELSE "close")
           /\ wk'[w].job = j /\ wk'[w].row = wk[w].row /\ wk'[w].wanted = wk[w].wanted
           /\ wk'[w].refreshing = wk[w].refreshing /\ wk'[w].mem = Columns(db'[j])
           /\ wk'[w].mem.attempt = wk[w].mem.attempt
           /\ \A v \in Workers \ {w} : wk'[v] = wk[v]
           /\ db'[j].state = db[j].state /\ db'[j].attempt = db[j].attempt /\ db'[j].error = db[j].error
           /\ \A i \in Jobs \ {j} : db'[i] = db[i]
<1> DEFINE new == [wk[w].mem EXCEPT !.stage = s]
           p == IF wk[w].row = NoRow THEN "open" ELSE "close"
           r == [wk[w] EXCEPT !.mem = new, !.at = s, !.phase = p]
<1>1. SaveJob(w, new, TRUE) /\ wk' = [wk EXCEPT ![w] = r] BY DEF Enter
<1>2. wk[w] \in Local /\ wk[w].mem \in MemRow /\ wk \in [Workers -> Local] BY Basics
<1>3. wk[w].mem = Columns(db[j]) BY DEF Works, WorkerInv, RowInv
<1>4. /\ new \in MemRow /\ new.attempt = wk[w].mem.attempt /\ new.state = db[j].state
  BY <1>2, <1>3 DEF MemRow, StageNames, Columns
<1> HIDE DEF new, p
<1>5. /\ db'[j].state = new.state /\ db'[j].attempt = db[j].attempt /\ db'[j].error = db[j].error
      /\ Columns(db'[j]) = new /\ \A i \in Jobs \ {j} : db'[i] = db[i]
  <2>1. wk[w].job = j BY DEF Works
  <2> QED BY <1>1, <1>3, <1>4, <2>1, Saved
<1>6. /\ r.at = s /\ r.phase = p /\ r.job = wk[w].job /\ r.row = wk[w].row /\ r.wanted = wk[w].wanted
      /\ r.refreshing = wk[w].refreshing /\ r.mem = new
  BY <1>2 DEF Local
<1> HIDE DEF r
<1>7. wk'[w] = r /\ \A v \in Workers \ {w} : wk'[v] = wk[v] BY <1>1, <1>2
<1> QED BY <1>4, <1>5, <1>6, <1>7 DEF Works, p

\* A step to the next stage, with what it stores of the stage before.
LEMMA EnterKeeps ==
    ASSUME TypeInv, LeaseInv, RunsInv, NEW w \in Workers, NEW j \in Jobs, wk[w].phase # "idle", Works(w, j),
           NEW s \in {"graph_building", "findings", "ml_scoring", "analytics", "investigation_grouping"},
           Enter(w, s), rows' = rows, requests' = requests, checkpoint' = checkpoint,
           \A i \in Jobs \ {j} : product'[i] = product[i] /\ snapshot'[i] = snapshot[i] /\ ungrouped'[i] = ungrouped[i],
           \A x \in Stages : product'[j][x] = product[j][x] \/ (x \notin Stamped /\ product'[j][x] > 0),
           wk[w].row = NoRow \/ (/\ wk[w].row.stage \in {"graph_building", "findings"}
                                 /\ product'[j][wk[w].row.stage] > 0),
           Reached(wk[w]) <= Order(s) - 1,
           \A x \in RequiredStages : ~(Reached(wk[w]) < Order(x) /\ Order(x) < Order(s)),
           s # "investigation_grouping" => Before(wk[w]),
           s = "investigation_grouping" => Past(wk[w])
    PROVE  RunsInv'
<1>1. s \in Stages BY StageNamesDistinct
<1>2. /\ wk'[w].at = s /\ wk'[w].phase = (IF wk[w].row = NoRow THEN "open" ELSE "close")
      /\ wk'[w].job = j /\ wk'[w].row = wk[w].row /\ wk'[w].wanted = wk[w].wanted
      /\ wk'[w].refreshing = wk[w].refreshing /\ wk'[w].mem = Columns(db'[j])
      /\ wk'[w].mem.attempt = wk[w].mem.attempt
      /\ \A v \in Workers \ {w} : wk'[v] = wk[v]
      /\ db'[j].state = db[j].state /\ db'[j].attempt = db[j].attempt /\ db'[j].error = db[j].error
      /\ \A i \in Jobs \ {j} : db'[i] = db[i]
  BY <1>1, Entered
<1>3. Reached(wk'[w]) = Order(s) - 1 /\ wk'[w].at # "ingesting" BY <1>2 DEF Reached
<1>4. wk[w].row # NoRow => wk[w].row.stage \in Stages /\ wk[w].row.attempt = wk[w].mem.attempt
  BY DEF Works, WorkerInv, AtInv
<1>5. AtInv(wk'[w]) BY <1>2, <1>4 DEF AtInv
<1>6. RunInv(wk[w], j)'
  <2>1. (Before(wk'[w]) <=> s # "investigation_grouping") /\ (Past(wk'[w]) <=> s = "investigation_grouping")
    BY <1>2 DEF Before, Past
  <2>2. wk'[w].phase # "complete" /\ wk'[w].at # "regrouping" BY <1>2
  <2> QED BY <1>2, <2>1, <2>2 DEF Works, WorkerInv, RunInv, Succeeded
<1>7. db'[j].state \in Leased BY <1>2 DEF Works
<1>8. \A x \in RequiredStages : ~(Reached(wk[w]) < Order(x) /\ Order(x) <= Reached(wk'[w]))
  BY <1>3, StageOrder, ReachedTyped
<1>9. wk'[w].phase = "close" => product'[j][wk[w].row.stage] > 0 BY <1>2
<1>10. Reached(wk'[w]) >= Reached(wk[w]) BY <1>3, StageOrder, ReachedTyped
<1> QED BY <1>2, <1>3, <1>5, <1>6, <1>7, <1>8, <1>9, <1>10, MovingKeeps

LEMMA EnterGraphKeeps ==
    ASSUME TypeInv, LeaseInv, FreshKeys, RunsInv, NEW w \in Workers, EnterGraph(w) PROVE RunsInv'
<1>1. PICK j \in Jobs : Works(w, j) BY Start DEF EnterGraph, Failing, In
<1>2. wk[w].phase = "work" /\ wk[w].at = "ingesting" /\ wk[w].row = NoRow BY DEF EnterGraph, In
<1>3. /\ Reached(wk[w]) <= Order("graph_building") - 1 /\ Before(wk[w])
      /\ \A x \in RequiredStages : ~(Reached(wk[w]) < Order(x) /\ Order(x) < Order("graph_building"))
  BY <1>2, StageOrder DEF Reached, Before
<1>4. \A i \in Jobs \ {j} : snapshot'[i] = snapshot[i] BY <1>1 DEF EnterGraph, Works, TypeInv, TypeOK
<1> QED BY <1>1, <1>2, <1>3, <1>4, EnterKeeps DEF EnterGraph

LEMMA EnterAnalyticsKeeps ==
    ASSUME TypeInv, LeaseInv, FreshKeys, RunsInv, NEW w \in Workers, EnterAnalytics(w) PROVE RunsInv'
<1>1. PICK j \in Jobs : Works(w, j) BY Start DEF EnterAnalytics, Failing, In
<1>2. wk[w].phase = "leave" /\ wk[w].at = "ml_scoring" BY DEF EnterAnalytics, In
<1>3. wk[w].row = NoRow BY <1>1, <1>2 DEF Works, WorkerInv, AtInv
<1>4. /\ Reached(wk[w]) <= Order("analytics") - 1 /\ Before(wk[w])
      /\ \A x \in RequiredStages : ~(Reached(wk[w]) < Order(x) /\ Order(x) < Order("analytics"))
  BY <1>2, StageOrder DEF Reached, Before
<1> QED BY <1>1, <1>2, <1>3, <1>4, EnterKeeps DEF EnterAnalytics

LEMMA EnterGroupingKeeps ==
    ASSUME TypeInv, LeaseInv, FreshKeys, RunsInv, NEW w \in Workers, EnterGrouping(w) PROVE RunsInv'
<1>1. PICK j \in Jobs : Works(w, j) BY Start DEF EnterGrouping, Failing, In
<1>2. wk[w].phase = "leave" /\ wk[w].at \in {"analytics", "coverage"} BY DEF EnterGrouping
<1>3. wk[w].row = NoRow BY <1>1, <1>2 DEF Works, WorkerInv, AtInv
<1>4. Reached(wk[w]) \in {6, 7} /\ Order("investigation_grouping") = 8 /\ Past(wk[w])
  BY <1>2, StageOrder DEF Reached, Past
<1>5. \A x \in RequiredStages : ~(6 < Order(x) /\ Order(x) < 8)
  <2>1. \A x \in RequiredStages : Order(x) # 7 BY StageOrder, StageNamesDistinct
  <2> QED BY <2>1, StageOrder
<1>6. \A x \in RequiredStages : ~(Reached(wk[w]) < Order(x) /\ Order(x) < 8)
  BY <1>4, <1>5, StageOrder
<1> QED BY <1>1, <1>2, <1>3, <1>4, <1>6, EnterKeeps DEF EnterGrouping

LEMMA BuildAndEnterKeeps ==
    ASSUME TypeInv, LeaseInv, FreshKeys, RunsInv, NEW w \in Workers,
           \/ BuildAndEnter(w, "graph_building", "findings")
           \/ BuildAndEnter(w, "findings", "ml_scoring")
    PROVE  RunsInv'
<1>1. PICK s \in {"graph_building", "findings"}, next \in {"findings", "ml_scoring"} :
          BuildAndEnter(w, s, next) /\ Order(next) = Order(s) + 1
  BY StageOrder
<1>2. wk[w].phase = "work" /\ wk[w].at = s BY <1>1 DEF BuildAndEnter, In
<1>3. PICK j \in Jobs : Works(w, j) BY <1>2, Start DEF Failing
<1>4. s \in Stages /\ s \notin Stamped BY StageNamesDistinct DEF Stamped
<1>5. PICK rebuilt \in BOOLEAN : Stored(w, s, rebuilt) /\ (~rebuilt => product[j][s] # 0)
  <2>1. CASE product[j][s] = 0
    <3>1. Stored(w, s, TRUE) BY <1>1, <1>3, <2>1 DEF BuildAndEnter, Works, Stored
    <3> QED BY <3>1
  <2>2. CASE product[j][s] # 0
    <3>1. Stored(w, s, FALSE) BY <1>1, <1>3, <2>2 DEF BuildAndEnter, Works, Stored
    <3> QED BY <2>2, <3>1
  <2> QED BY <2>1, <2>2
<1>6. product[j][s] \in Nat /\ wk[w].job = j /\ wk[w].phase # "idle"
  BY <1>2, <1>3, <1>4, JobTypes DEF Works
<1>7. /\ \A x \in Stages \ {s} : product'[j][x] = product[j][x]
      /\ product'[j][s] = IF ~rebuilt THEN product[j][s]
                          ELSE IF s \in Stamped THEN wk[w].mem.attempt ELSE 1
      /\ \A i \in Jobs \ {j} : product'[i] = product[i]
  BY <1>4, <1>5, <1>6, StoredOutput
<1>8. product'[j][s] > 0
  BY <1>4, <1>5, <1>6, <1>7
<1>9. \A i \in Jobs \ {j} : ungrouped'[i] = ungrouped[i]
  BY <1>1, <1>3 DEF BuildAndEnter, NewFindings, Works, TypeInv, TypeOK
<1>10. wk[w].row = NoRow \/ wk[w].row.stage = s
  BY <1>2, <1>3 DEF Works, WorkerInv, AtInv
<1>11. /\ Reached(wk[w]) <= Order(next) - 1 /\ Before(wk[w])
       /\ \A x \in RequiredStages : ~(Reached(wk[w]) < Order(x) /\ Order(x) < Order(next))
  <2>1. Reached(wk[w]) = Order(s) /\ Before(wk[w]) BY <1>2 DEF Reached, Before
  <2> QED BY <1>1, <2>1, StageOrder
<1>12. /\ Enter(w, next) /\ rows' = rows /\ requests' = requests
       /\ checkpoint' = checkpoint /\ snapshot' = snapshot
  BY <1>1 DEF BuildAndEnter
<1>13. \A x \in Stages : product'[j][x] = product[j][x] \/ (x \notin Stamped /\ product'[j][x] > 0)
  BY <1>4, <1>7, <1>8
<1>14. wk[w].row = NoRow \/ (/\ wk[w].row.stage \in {"graph_building", "findings"}
                             /\ product'[j][wk[w].row.stage] > 0)
  BY <1>8, <1>10
<1> QED BY <1>2, <1>3, <1>7, <1>9, <1>11, <1>12, <1>13, <1>14, EnterKeeps

LEMMA ScoreKeeps ==
    ASSUME TypeInv, LeaseInv, FreshKeys, RunsInv, NEW w \in Workers, Score(w) PROVE RunsInv'
<1> DEFINE s == "ml_scoring"
<1>1. PICK j \in Jobs : Works(w, j) BY Start DEF Score, Failing, In
<1>2. wk[w].phase = "work" /\ wk[w].at = s /\ wk[w].job = j /\ s \in Stages /\ s \notin Stamped
  BY <1>1, StageNamesDistinct DEF Score, In, Works, Stamped
<1>3. PICK rebuilt \in BOOLEAN : Stored(w, s, rebuilt)
  <2>1. CASE product[j][s] = 0
    <3>1. Stored(w, s, TRUE) BY <1>1, <2>1 DEF Score, Works, Stored
    <3> QED BY <3>1
  <2>2. CASE product[j][s] # 0
    <3>1. Stored(w, s, FALSE) BY <1>1, <2>2 DEF Score, Works, Stored
    <3> QED BY <3>1
  <2> QED BY <2>1, <2>2
<1>4. /\ \A x \in Stages \ {s} : product'[j][x] = product[j][x]
      /\ product'[j][s] = IF ~rebuilt THEN product[j][s]
                          ELSE IF s \in Stamped THEN wk[w].mem.attempt ELSE 1
      /\ \A i \in Jobs \ {j} : product'[i] = product[i]
  BY <1>2, <1>3, StoredOutput
<1>5. \A x \in Stages : product'[j][x] = product[j][x] \/ (x \notin Stamped /\ product'[j][x] > 0)
  BY <1>2, <1>4
<1>6. /\ wk'[w] = [wk[w] EXCEPT !.phase = "scored"] /\ \A v \in Workers \ {w} : wk'[v] = wk[v]
      /\ wk[w] \in Local
  BY <1>2, Basics DEF Score
<1>7. /\ wk'[w].phase = "scored" /\ wk'[w].at = s /\ wk'[w].job = j /\ wk'[w].mem = wk[w].mem
      /\ wk'[w].row = wk[w].row /\ wk'[w].wanted = wk[w].wanted /\ wk'[w].refreshing = wk[w].refreshing
  BY <1>2, <1>6 DEF Local
<1>8. /\ db' = db /\ rows' = rows /\ requests' = requests /\ snapshot' = snapshot /\ checkpoint' = checkpoint
      /\ \A i \in Jobs \ {j} : ungrouped'[i] = ungrouped[i]
  BY <1>1 DEF Score, NewFindings, Works, TypeInv, TypeOK
<1>9. Reached(wk'[w]) = Reached(wk[w]) BY <1>2, <1>7 DEF Reached
<1>10. /\ Reached(wk'[w]) >= Reached(wk[w])
       /\ \A x : ~(Reached(wk[w]) < Order(x) /\ Order(x) <= Reached(wk'[w]))
  BY <1>9, ReachedTyped, StageOrder
<1>11. AtInv(wk'[w]) BY <1>1, <1>2, <1>7 DEF Works, WorkerInv, AtInv
<1>12. RunInv(wk[w], j)'
  BY <1>1, <1>2, <1>7, <1>8 DEF Works, WorkerInv, RunInv, Before, Past
<1>13. wk'[w].mem = Columns(db'[j]) /\ db'[j].state \in Leased BY <1>1, <1>7, <1>8 DEF Works, WorkerInv, RowInv
<1> HIDE DEF s
<1>14. wk'[w].phase # "close" /\ wk'[w].at # "ingesting" /\ wk[w].phase # "idle" BY <1>2, <1>7 DEF s
<1> QED BY <1>1, <1>2, <1>4, <1>5, <1>6, <1>7, <1>8, <1>10, <1>11, <1>12, <1>13, <1>14, MovingKeeps

LEMMA SkipScoringKeeps ==
    ASSUME TypeInv, LeaseInv, FreshKeys, RunsInv, NEW w \in Workers, SkipScoring(w) PROVE RunsInv'
<1>1. PICK j \in Jobs : Works(w, j) BY Start DEF SkipScoring, Failing, In
<1>2. wk[w].phase = "work" /\ wk[w].at = "ml_scoring" /\ UNCHANGED dbVars /\ "unscored" \in Phases
  BY DEF SkipScoring, In, Phases
<1>3. wk[w].mem = Columns(db[wk[w].job]) BY <1>1 DEF Works, WorkerInv, RowInv
<1>4. wk' = [wk EXCEPT ![w] = [wk[w] EXCEPT !.phase = "unscored"]]
  <2>1. wk' = [wk EXCEPT ![w] = [wk[w] EXCEPT !.phase = "unscored", !.mem = wk[w].mem]]
    BY <1>3 DEF SkipScoring
  <2>2. [wk[w] EXCEPT !.phase = "unscored", !.mem = wk[w].mem] = [wk[w] EXCEPT !.phase = "unscored"]
    BY <1>2, Basics DEF Local
  <2> QED BY <2>1, <2>2
<1>5. wk'[w].phase = "unscored" /\ wk'[w].at = "ml_scoring" /\ wk'[w].row = wk[w].row /\ wk'[w].mem = wk[w].mem
  BY <1>2, <1>4, Basics DEF Local
<1>6. AtInv(wk'[w]) BY <1>1, <1>2, <1>5 DEF Works, WorkerInv, AtInv
<1>7. Reached(wk'[w]) = Reached(wk[w]) BY <1>2, <1>5 DEF Reached
<1>8. (Before(wk'[w]) => Before(wk[w])) /\ (Past(wk'[w]) => Past(wk[w])) BY <1>2, <1>5 DEF Before, Past
<1> QED BY <1>1, <1>2, <1>4, <1>6, <1>7, <1>8, WaitingKeeps

LEMMA StartGroupingKeeps ==
    ASSUME TypeInv, LeaseInv, FreshKeys, RunsInv, NEW w \in Workers, StartGrouping(w) PROVE RunsInv'
<1>1. PICK j \in Jobs : Works(w, j) BY Start DEF StartGrouping, Failing, In
<1>2. wk[w].phase = "work" /\ wk[w].at \in {"investigation_grouping", "regrouping"} /\ "grouping" \in Phases
  BY DEF StartGrouping, Grouping, Phases
<1>3. db' = db
  <2>1. db \in [Jobs -> JobRow] /\ db[j] \in JobRow /\ db[j].live BY <1>1 DEF Works, TypeInv, TypeOK
  <2> QED BY <1>1, <2>1 DEF StartGrouping, Works, JobRow
<1>4. UNCHANGED dbVars BY <1>3 DEF StartGrouping, dbVars
<1>5. wk' = [wk EXCEPT ![w] = [wk[w] EXCEPT !.phase = "grouping"]] BY DEF StartGrouping
<1>6. wk'[w].phase = "grouping" /\ wk'[w].at = wk[w].at /\ wk'[w].row = wk[w].row /\ wk'[w].mem = wk[w].mem
  BY <1>2, <1>5, Basics DEF Local
<1>7. AtInv(wk'[w]) BY <1>1, <1>2, <1>6 DEF Works, WorkerInv, AtInv
<1>8. Reached(wk'[w]) = Reached(wk[w]) BY <1>2, <1>6 DEF Reached
<1>9. (Before(wk'[w]) => Before(wk[w])) /\ (Past(wk'[w]) => Past(wk[w])) BY <1>2, <1>6 DEF Before, Past
<1> QED BY <1>1, <1>2, <1>4, <1>5, <1>7, <1>8, <1>9, WaitingKeeps

LEMMA BeginIngestKeeps ==
    ASSUME TypeInv, LeaseInv, FreshKeys, RunsInv, NEW w \in Workers, BeginIngest(w) PROVE RunsInv'
<1> DEFINE new == [wk[w].mem EXCEPT !.state = "running", !.stage = "ingesting"]
           r == [wk[w] EXCEPT !.mem = new, !.phase = "work"]
<1>1. PICK j \in Jobs : Works(w, j) BY Start DEF BeginIngest, Failing
<1>2. /\ wk[w].phase = "begin" /\ SaveJob(w, new, db[j].live) /\ wk' = [wk EXCEPT ![w] = r]
      /\ rows' = rows /\ requests' = requests /\ product' = product
      /\ snapshot' = snapshot /\ checkpoint' = checkpoint /\ ungrouped' = ungrouped
  BY <1>1 DEF BeginIngest, Works
<1>3. wk[w].at = "ingesting" /\ wk[w].mem = Columns(db[j]) BY <1>1, <1>2 DEF Works, WorkerInv, AtInv, RowInv
<1>4. wk[w].mem \in MemRow /\ wk[w] \in Local /\ wk \in [Workers -> Local] BY <1>2, Basics
<1>5. new \in MemRow /\ new.attempt = wk[w].mem.attempt /\ new.state = "running"
  BY <1>4 DEF MemRow, States, Active, Leased, StageNames, Stages, RequiredStages
<1> HIDE DEF new
<1>6. /\ db'[j].state = new.state /\ db'[j].attempt = db[j].attempt /\ db'[j].error = db[j].error
      /\ Columns(db'[j]) = new /\ \A i \in Jobs \ {j} : db'[i] = db[i]
  BY <1>1, <1>2, <1>3, <1>5, Saved DEF Works
<1>7. /\ r.phase = "work" /\ r.at = wk[w].at /\ r.job = wk[w].job /\ r.mem = new /\ r.row = wk[w].row
      /\ r.wanted = wk[w].wanted /\ r.refreshing = wk[w].refreshing /\ r.pos = wk[w].pos
  BY <1>4 DEF Local
<1> HIDE DEF r
<1>8. wk'[w] = r /\ \A v \in Workers \ {w} : wk'[v] = wk[v] BY <1>2, <1>4
<1>9. AtInv(wk'[w]) BY <1>1, <1>2, <1>3, <1>5, <1>7, <1>8, StageNamesDistinct DEF Works, WorkerInv, AtInv
<1>10. RunInv(wk[w], j)' BY <1>1, <1>2, <1>3, <1>5, <1>7, <1>8 DEF Works, WorkerInv, RunInv, Before, Past
<1>11. Reached(wk'[w]) = Reached(wk[w]) BY <1>2, <1>3, <1>7, <1>8 DEF Reached
<1>12. /\ Reached(wk'[w]) >= Reached(wk[w])
       /\ \A x : ~(Reached(wk[w]) < Order(x) /\ Order(x) <= Reached(wk'[w]))
  BY <1>11, ReachedTyped, StageOrder
<1>13. /\ db'[j].state \in Leased /\ wk'[w].phase # "close" /\ wk[w].phase # "idle"
       /\ (wk[w].row # NoRow => wk'[w].pos = checkpoint'[j])
       /\ wk'[w].job = j /\ wk'[w].mem = Columns(db'[j]) /\ wk'[w].row = wk[w].row
  BY <1>1, <1>2, <1>3, <1>5, <1>6, <1>7, <1>8 DEF Leased, Works, WorkerInv, RowInv
<1> QED BY <1>1, <1>2, <1>6, <1>8, <1>9, <1>10, <1>12, <1>13, MovingKeeps

LEMMA CommitBatchKeeps ==
    ASSUME TypeInv, LeaseInv, FreshKeys, RunsInv, NEW w \in Workers, CommitBatch(w) PROVE RunsInv'
<1>1. PICK j \in Jobs : Works(w, j) BY Start DEF CommitBatch, Failing, In
<1> DEFINE new == [wk[w].mem EXCEPT !.state = "checkpointed", !.stage = "ingesting"]
           p == wk[w].pos + 1
           r == [wk[w] EXCEPT !.mem = new, !.pos = p]
<1>2. wk[w].mem \in MemRow /\ wk[w] \in Local /\ wk \in [Workers -> Local]
  BY Basics DEF CommitBatch, In
<1>3. /\ wk[w].phase = "work" /\ wk[w].at = "ingesting" /\ wk[w].row # NoRow /\ wk[w].pos < Batches
      /\ SaveJob(w, new, TRUE) /\ wk' = [wk EXCEPT ![w] = r]
      /\ rows' = rows /\ requests' = requests /\ product' = product /\ ungrouped' = ungrouped
      /\ checkpoint[j] = wk[w].pos
  BY <1>1, <1>2 DEF CommitBatch, In, Works, Local
<1>4. /\ checkpoint'[j] = p /\ \A i \in Jobs \ {j} : checkpoint'[i] = checkpoint[i] /\ snapshot'[i] = snapshot[i]
  BY <1>1 DEF CommitBatch, Works, TypeInv, TypeOK
<1>5. wk[w].mem = Columns(db[j]) BY <1>1 DEF Works, WorkerInv, RowInv
<1>6. new \in MemRow /\ new.attempt = wk[w].mem.attempt /\ new.state = "checkpointed"
  BY <1>2 DEF MemRow, States, Active, Leased, StageNames, Stages, RequiredStages
<1> HIDE DEF new, p
<1>7. /\ db'[j].state = new.state /\ db'[j].attempt = db[j].attempt /\ db'[j].error = db[j].error
      /\ Columns(db'[j]) = new /\ \A i \in Jobs \ {j} : db'[i] = db[i]
  <2>1. wk[w].job = j BY <1>1 DEF Works
  <2>2. wk[w].phase # "idle" BY <1>3
  <2> QED BY <1>3, <1>5, <1>6, <2>1, <2>2, Saved
<1>8. /\ r.phase = wk[w].phase /\ r.at = wk[w].at /\ r.job = wk[w].job /\ r.mem = new /\ r.row = wk[w].row
      /\ r.wanted = wk[w].wanted /\ r.refreshing = wk[w].refreshing /\ r.pos = p
  BY <1>2 DEF Local
<1> HIDE DEF r
<1>9. wk'[w] = r /\ \A v \in Workers \ {w} : wk'[v] = wk[v] BY <1>2, <1>3
<1>10. AtInv(wk'[w]) BY <1>1, <1>3, <1>6, <1>8, <1>9 DEF Works, WorkerInv, AtInv
<1>11. RunInv(wk[w], j)' BY <1>1, <1>3, <1>6, <1>8, <1>9 DEF Works, WorkerInv, RunInv, Before, Past
<1>12. Reached(wk'[w]) = Reached(wk[w]) BY <1>3, <1>8, <1>9 DEF Reached
<1>13. /\ Reached(wk'[w]) >= Reached(wk[w])
       /\ \A x : ~(Reached(wk[w]) < Order(x) /\ Order(x) <= Reached(wk'[w]))
  BY <1>12, ReachedTyped, StageOrder
<1>14. ~Succeeded(j, "ingesting")
  BY <1>1, <1>3, BatchesAssumption DEF Works, JobInv, StageInv
<1>15. /\ db'[j].state \in Leased /\ wk'[w].phase # "close" /\ wk[w].phase # "idle"
       /\ wk'[w].pos = checkpoint'[j]
       /\ wk'[w].job = j /\ wk'[w].mem = Columns(db'[j]) /\ wk'[w].row = wk[w].row
  BY <1>1, <1>3, <1>4, <1>6, <1>7, <1>8, <1>9 DEF Leased, Works
<1> QED BY <1>1, <1>3, <1>4, <1>7, <1>9, <1>10, <1>11, <1>13, <1>14, <1>15, MovingKeeps

\* A lease that lapses or is renewed says nothing about the run.
LEMMA LeaseTimeKeepsRuns ==
    ASSUME TypeInv, LeaseInv, RunsInv,
           (\E j \in Jobs : LapseLease(j)) \/ (\E w \in Workers : RenewLease(w))
    PROVE  RunsInv'
<1>1. PICK j \in Jobs : \/ db' = [db EXCEPT ![j].live = FALSE]
                        \/ db' = [db EXCEPT ![j].live = TRUE] /\ db[j].state \in Leased
  <2>1. ASSUME NEW w \in Workers, RenewLease(w)
        PROVE  wk[w].job \in Jobs /\ db' = [db EXCEPT ![wk[w].job].live = TRUE] /\ db[wk[w].job].state \in Leased
    BY <2>1, BusyHasJob DEF RenewLease, StillMine
  <2>2. ASSUME NEW i \in Jobs, LapseLease(i) PROVE db' = [db EXCEPT ![i].live = FALSE]
    BY <2>2 DEF LapseLease
  <2> QED BY <2>1, <2>2
<1>2. /\ wk' = wk /\ rows' = rows /\ requests' = requests /\ product' = product
      /\ snapshot' = snapshot /\ checkpoint' = checkpoint /\ ungrouped' = ungrouped
  BY DEF LapseLease, RenewLease
<1>3. \A i \in Jobs : db[i] \in JobRow BY DEF TypeInv, TypeOK
<1>4. ASSUME NEW i \in Jobs
      PROVE  /\ db'[i].state = db[i].state /\ db'[i].stage = db[i].stage /\ db'[i].owner = db[i].owner
             /\ db'[i].attempt = db[i].attempt /\ db'[i].error = db[i].error
             /\ db'[i].live => db[i].live \/ db[i].state \in Leased
  <2>1. CASE i # j BY <1>1, <1>3, <2>1 DEF TypeInv, TypeOK
  <2>2. CASE i = j /\ db' = [db EXCEPT ![j].live = FALSE] BY <1>3, <2>2 DEF JobRow, TypeInv, TypeOK
  <2>3. CASE i = j /\ db' = [db EXCEPT ![j].live = TRUE] /\ db[j].state \in Leased
    BY <1>3, <2>3 DEF JobRow, TypeInv, TypeOK
  <2> QED BY <1>1, <2>1, <2>2, <2>3
<1>5. ASSUME NEW i \in Jobs PROVE JobInv(i)'
  <2>1. JobInv(i) BY DEF RunsInv
  <2>2. StageInv(i)' BY <1>2, <1>4, <2>1 DEF JobInv, StageInv, Succeeded
  <2>3. RequestInv(i)' BY <1>2, <1>4, <2>1 DEF JobInv, RequestInv, Succeeded
  <2>4. SettledInv(i)' BY <1>2, <1>4, <2>1 DEF JobInv, SettledInv, Leased, Terminal
  <2> QED BY <2>2, <2>3, <2>4 DEF JobInv
<1>6. ASSUME NEW v \in Workers, Running(v)' PROVE WorkerInv(wk[v], wk[v].job)'
  <2>1. Running(v) BY <1>2, <1>6 DEF Running
  <2>2. PICK i \in Jobs : wk[v].job = i BY <2>1, BusyHasJob DEF Running
  <2>3. WorkerInv(wk[v], i) BY <2>1, <2>2 DEF RunsInv
  <2>4. Columns(db'[i]) = Columns(db[i]) BY <1>4 DEF Columns
  <2>5. WorkerInv(wk[v], i)' BY <1>2, <2>2, <2>3, <2>4, WorkerKept
  <2> QED BY <1>2, <2>2, <2>5
<1> QED BY <1>5, <1>6 DEF RunsInv

\* What the end of the analytics stage leaves of the requests and the outputs.
LEMMA AnalyzeKeeps ==
    ASSUME TypeInv, LeaseInv, FreshKeys, RunsInv, NEW w \in Workers, Analyze(w) PROVE RunsInv'
<1>1. PICK j \in Jobs : Works(w, j) BY Start DEF Analyze, Failing, In
<1> DEFINE a == wk[w].mem.attempt
           r == [wk[w] EXCEPT !.phase = "open", !.at = "coverage", !.row = NoRow]
<1>2. wk[w].phase = "work" /\ wk[w].at = "analytics" /\ wk[w].job = j /\ wk[w].phase # "idle"
  BY <1>1 DEF Analyze, In, Works
<1>3. /\ a \in Nat /\ a = db[j].attempt /\ a > 0 /\ wk[w].mem = Columns(db[j]) /\ wk[w] \in Local
      /\ wk \in [Workers -> Local]
  BY <1>1, <1>2, Basics DEF Works, WorkerInv, RowInv, Columns, JobInv, StageInv
<1>4. /\ db' = db /\ snapshot' = snapshot /\ checkpoint' = checkpoint
      /\ ClosedRow(w, "ok") /\ requests' = [requests EXCEPT ![j] = FulfilRefresh(j, wk[w].wanted)]
      /\ wk' = [wk EXCEPT ![w] = r] /\ NewFindings(w, Recomputes(w))
  BY <1>2 DEF Analyze
<1>5. r \in Local /\ r.phase = "open" /\ r.at = "coverage" /\ r.row = NoRow /\ r.job = wk[w].job /\ r.mem = wk[w].mem
      /\ r.wanted = wk[w].wanted /\ r.refreshing = wk[w].refreshing
  BY <1>3, StageNamesDistinct DEF Local, Phases, NoRow, HeldRow
<1> HIDE DEF r
<1>6. wk'[w] = r /\ \A v \in Workers \ {w} : wk'[v] = wk[v] BY <1>3, <1>4
<1>7. PICK rebuilt \in BOOLEAN : /\ Stored(w, "analytics", rebuilt)
                                 /\ wk[w].refreshing => rebuilt
                                 /\ ~rebuilt => product[j]["analytics"] # 0
  <2>1. CASE Recomputes(w)
    <3>1. Stored(w, "analytics", TRUE) BY <2>1 DEF Analyze, Stored
    <3> QED BY <3>1
  <2>2. CASE ~Recomputes(w)
    <3>1. Stored(w, "analytics", FALSE) BY <2>2 DEF Analyze, Stored
    <3> QED BY <1>2, <2>2, <3>1 DEF Recomputes
  <2> QED BY <2>1, <2>2
<1>8. /\ \A x \in Stages \ {"analytics"} : product'[j][x] = product[j][x]
      /\ product'[j]["analytics"] = IF ~rebuilt THEN product[j]["analytics"] ELSE a
      /\ \A i \in Jobs \ {j} : product'[i] = product[i]
  <2>1. "analytics" \in Stages /\ "analytics" \in Stamped BY StageNamesDistinct DEF Stamped
  <2>2. wk[w].job = j /\ wk[w].phase # "idle" BY <1>2
  <2> QED BY <1>2, <1>7, <2>1, <2>2, StoredOutput
<1>9. /\ \A x \in Stages : rows[j][x].attempt \in Nat /\ product[j][x] \in Nat
      /\ \A q \in requests[j] : q \in RequestRows /\ q.attempt \in Nat
  BY JobTypes
<1>10. /\ product'[j]["analytics"] > 0 /\ product'[j]["analytics"] >= product[j]["analytics"]
       /\ product'[j]["analytics"] <= a
       /\ wk[w].refreshing => product'[j]["analytics"] = a
  <2>1. product[j]["analytics"] <= a /\ product[j]["analytics"] \in Nat
    BY <1>1, <1>3, <1>9, StageNamesDistinct DEF Works, JobInv, StageInv, Stamped
  <2> QED BY <1>3, <1>7, <1>8, <2>1
<1>11. /\ \A x \in Stages : rows'[j][x].attempt = rows[j][x].attempt
       /\ \A x \in Stages : x # "analytics" => rows'[j][x] = rows[j][x]
       /\ \A x \in RequiredStages : Order(x) <= Reached(wk[w]) => rows'[j][x].status # "running"
       /\ \A x \in Stages : rows'[j][x].status = "running" => rows[j][x].status = "running"
       /\ \A i \in Jobs \ {j} : rows'[i] = rows[i]
  <2>1. wk[w].row # NoRow => wk[w].row.stage = "analytics" BY <1>1, <1>2 DEF Works, WorkerInv, AtInv
  <2> QED BY <1>1, <1>2, <1>4, <2>1, ClosedRows
<1>12. Reached(wk[w]) = 6 /\ Reached(wk'[w]) = 6 BY <1>2, <1>5, <1>6, StageOrder DEF Reached
<1>13. /\ requests'[j] = FulfilRefresh(j, wk[w].wanted)
       /\ \A i \in Jobs \ {j} : requests'[i] = requests[i] /\ ungrouped'[i] = ungrouped[i]
  BY <1>2, <1>4 DEF NewFindings, TypeInv, TypeOK
<1>14. \A q \in requests'[j] :
           \/ q \in requests[j]
           \/ \E p \in requests[j] : /\ p.kind = "refresh" /\ p.attempt \in wk[w].wanted
                                     /\ q.kind = "refresh" /\ q.attempt = p.attempt /\ q.fulfilled
  <2>1. \A p \in RequestRows : /\ [p EXCEPT !.fulfilled = TRUE].kind = p.kind
                               /\ [p EXCEPT !.fulfilled = TRUE].attempt = p.attempt
                               /\ [p EXCEPT !.fulfilled = TRUE].fulfilled
    BY DEF RequestRows
  <2> SUFFICES ASSUME NEW q \in requests'[j]
                PROVE  \/ q \in requests[j]
                       \/ \E p \in requests[j] : /\ p.kind = "refresh" /\ p.attempt \in wk[w].wanted
                                                 /\ q.kind = "refresh" /\ q.attempt = p.attempt /\ q.fulfilled
    OBVIOUS
  <2>2. PICK p \in requests[j] :
            q = IF p.kind = "refresh" /\ p.attempt \in wk[w].wanted THEN [p EXCEPT !.fulfilled = TRUE] ELSE p
    BY <1>13 DEF FulfilRefresh
  <2>3. CASE p.kind = "refresh" /\ p.attempt \in wk[w].wanted
    <3>1. p \in RequestRows BY <1>9
    <3> QED BY <2>1, <2>2, <2>3, <3>1
  <2>4. CASE ~(p.kind = "refresh" /\ p.attempt \in wk[w].wanted) BY <2>2, <2>4
  <2> QED BY <2>3, <2>4
<1>15. Unmet(requests'[j], "refresh") = {}
  <2> SUFFICES ASSUME NEW q \in requests'[j], q.kind = "refresh", ~q.fulfilled PROVE FALSE
    BY DEF Unmet
  <2>1. q \in requests[j] /\ q \in RequestRows BY <1>9, <1>14
  <2>2. q.attempt \in wk[w].wanted
    BY <1>1, <1>2, <2>1 DEF Works, WorkerInv, RunInv, Before, Unmet
  <2>3. PICK p \in requests[j] :
            q = IF p.kind = "refresh" /\ p.attempt \in wk[w].wanted THEN [p EXCEPT !.fulfilled = TRUE] ELSE p
    BY <1>13 DEF FulfilRefresh
  <2>4. CASE p.kind = "refresh" /\ p.attempt \in wk[w].wanted
    <3>1. p \in RequestRows BY <1>9
    <3> QED BY <2>3, <2>4, <3>1 DEF RequestRows
  <2>5. CASE ~(p.kind = "refresh" /\ p.attempt \in wk[w].wanted) BY <2>2, <2>3, <2>5
  <2> QED BY <2>4, <2>5
<1>16. StageInv(j)'
  <2>1. /\ \A x \in Stamped : product'[j][x] <= db'[j].attempt
        /\ \A x \in Built : rows'[j][x].status = "ok" => product'[j][x] > 0
    BY <1>1, <1>3, <1>4, <1>8, <1>10, <1>11, StageNamesDistinct
       DEF Works, JobInv, StageInv, Succeeded
  <2>2. rows'[j]["ingesting"] = rows[j]["ingesting"] BY <1>11, StageNamesDistinct
  <2> QED BY <1>1, <1>4, <1>11, <2>1, <2>2, StageNamesDistinct DEF Works, JobInv, StageInv, Succeeded
<1>17. RequestInv(j)'
  <2>1. ASSUME NEW q \in requests'[j], q.fulfilled
        PROVE  /\ q.kind = "refresh" => product'[j]["analytics"] >= q.attempt
               /\ q.kind = "group" => product'[j]["investigation_grouping"] >= q.attempt
    <3>1. product'[j]["investigation_grouping"] = product[j]["investigation_grouping"]
      BY <1>8, StageNamesDistinct
    <3>2. CASE q \in requests[j]
      <4>1. product[j]["analytics"] \in Nat /\ product'[j]["analytics"] \in Nat /\ q.attempt \in Nat
        BY <1>3, <1>8, <1>9, <3>2, StageNamesDistinct
      <4>2. q.kind = "refresh" => product[j]["analytics"] >= q.attempt
        BY <1>1, <2>1, <3>2 DEF Works, JobInv, RequestInv
      <4>3. q.kind = "group" => product[j]["investigation_grouping"] >= q.attempt
        BY <1>1, <2>1, <3>2 DEF Works, JobInv, RequestInv
      <4> QED BY <1>10, <3>1, <4>1, <4>2, <4>3
    <3>3. CASE q \notin requests[j]
      <4>1. q.kind = "refresh" /\ q.attempt \in wk[w].wanted BY <1>14, <3>3
      <4>2. wk[w].refreshing /\ q.attempt <= a
        BY <1>1, <1>2, <4>1 DEF Works, WorkerInv, RunInv, Before
      <4> QED BY <1>10, <4>1, <4>2
    <3> QED BY <3>2, <3>3
  <2>2. \A x \in Middle : rows'[j][x].status # "running"
    BY <1>11, <1>12, StageOrder, StageNamesDistinct DEF Middle, RequiredStages
  <2> QED BY <1>15, <2>1, <2>2 DEF RequestInv
<1>18. SettledInv(j)' BY <1>1, <1>4, LeasedSettled DEF Works, JobInv
<1>19. AtInv(wk'[w]) BY <1>5, <1>6 DEF AtInv
<1>20. RowInv(wk[w], j)'
  <2>1. wk'[w].mem = Columns(db'[j]) /\ db'[j].attempt = db[j].attempt /\ wk'[w].phase # "close"
    BY <1>3, <1>4, <1>5, <1>6
  <2> QED BY <1>1, <1>2, <1>4, <1>5, <1>6, <1>12, <2>1, ClosingKeepsRows
<1>21. RunInv(wk[w], j)'
  BY <1>1, <1>5, <1>6, <1>15 DEF Works, WorkerInv, RunInv, Before, Past
<1>22. Frame(w, j) BY <1>4, <1>6, <1>8, <1>11, <1>13 DEF Frame
<1>23. JobInv(j)' BY <1>16, <1>17, <1>18 DEF JobInv
<1>24. WorkerInv(wk[w], j)' BY <1>19, <1>20, <1>21 DEF WorkerInv
<1>25. \A v \in Workers \ {w} : wk[v].phase # "idle" => wk[v].job # j BY <1>1, <1>2, Alone
<1>26. wk'[w].job = j BY <1>2, <1>5, <1>6
<1> QED BY <1>22, <1>23, <1>24, <1>25, <1>26, StepKeeps

LEMMA AnalyticsFailsKeeps ==
    ASSUME TypeInv, LeaseInv, FreshKeys, RunsInv, NEW w \in Workers, AnalyticsFails(w) PROVE RunsInv'
<1>1. PICK j \in Jobs : Works(w, j) BY Start DEF AnalyticsFails, Failing, In
<1> DEFINE r == [wk[w] EXCEPT !.phase = "leave", !.row = NoRow, !.mem = Columns(db[j])]
<1>2. /\ wk[w].phase = "work" /\ wk[w].at = "analytics" /\ wk[w].job = j /\ wk[w].phase # "idle"
      /\ ClosedRow(w, "failed") /\ wk' = [wk EXCEPT ![w] = r]
      /\ db' = db /\ requests' = requests /\ product' = product
      /\ snapshot' = snapshot /\ checkpoint' = checkpoint /\ ungrouped' = ungrouped
  BY <1>1 DEF AnalyticsFails, In, Works
<1>3. wk[w].mem = Columns(db[j]) BY <1>1 DEF Works, WorkerInv, RowInv
<1>4. wk[w] \in Local /\ wk \in [Workers -> Local] BY <1>2, Basics
<1>5. r.phase = "leave" /\ r.at = "analytics" /\ r.row = NoRow /\ r.job = j /\ r.mem = wk[w].mem
      /\ r.wanted = wk[w].wanted /\ r.refreshing = wk[w].refreshing
  BY <1>2, <1>3, <1>4 DEF Local
<1> HIDE DEF r
<1>6. wk'[w] = r /\ \A v \in Workers \ {w} : wk'[v] = wk[v] BY <1>2, <1>4
<1>7. /\ wk[w].row # NoRow => wk[w].row.stage = "analytics" /\ rows'[j]["analytics"].status = "failed"
      /\ wk[w].row = NoRow => rows'[j] = rows[j]
      /\ \A i \in Jobs \ {j} : rows'[i] = rows[i]
  <2>1. wk[w].row # NoRow => wk[w].row.stage = "analytics" BY <1>1, <1>2 DEF Works, WorkerInv, AtInv
  <2> QED BY <1>1, <1>2, <2>1, ClosedRows
<1>8. JobInv(j)' BY <1>1, <1>2, ClosingKeepsJob
<1>9. Reached(wk'[w]) = Reached(wk[w]) BY <1>2, <1>5, <1>6 DEF Reached
<1>10. RowInv(wk[w], j)'
  <2>1. wk'[w].mem = Columns(db'[j]) /\ wk'[w].phase # "close" /\ wk'[w].row = NoRow BY <1>2, <1>3, <1>5, <1>6
  <2> QED BY <1>1, <1>2, <1>9, <2>1, ClosingKeepsRows
<1>11. AtInv(wk'[w]) BY <1>5, <1>6 DEF AtInv
<1>12. Unmet(requests[j], "refresh") = {} \/ ~Succeeded(j, "analytics")'
  <2>1. CASE wk[w].row # NoRow BY <1>7, <2>1 DEF Succeeded
  <2>2. CASE wk[w].row = NoRow
    <3>1. ~wk[w].refreshing BY <1>1, <1>2, <2>2 DEF Works, WorkerInv, AtInv
    <3>2. wk[w].wanted = {} BY <1>1, <1>2, <3>1 DEF Works, WorkerInv, RunInv, Before
    <3> QED BY <1>1, <1>2, <3>2 DEF Works, WorkerInv, RunInv, Before
  <2> QED BY <2>1, <2>2
<1>13. RunInv(wk[w], j)'
  BY <1>1, <1>2, <1>5, <1>6, <1>12 DEF Works, WorkerInv, RunInv, Before, Past
<1>14. Frame(w, j) BY <1>2, <1>6, <1>7 DEF Frame
<1>15. WorkerInv(wk[w], j)' BY <1>10, <1>11, <1>13 DEF WorkerInv
<1>16. \A v \in Workers \ {w} : wk[v].phase # "idle" => wk[v].job # j BY <1>1, <1>2, Alone
<1>17. wk'[w].job = j BY <1>5, <1>6
<1> QED BY <1>8, <1>14, <1>15, <1>16, <1>17, StepKeeps

\* The groups a worker publishes answer every group-only request in reach.
LEMMA PublishedGroups ==
    ASSUME TypeInv, NEW w \in Workers, NEW j \in Jobs, Works(w, j), wk[w].phase = "grouping", Published(w)
    PROVE  /\ Unmet(requests'[j], "group") = {}
           /\ Unmet(requests'[j], "refresh") = {} \/ ~Succeeded(j, "analytics")'
           /\ \A q \in requests'[j] : q.fulfilled =>
                  /\ q.kind = "refresh" => product'[j]["analytics"] >= q.attempt
                  /\ q.kind = "group" => product'[j]["investigation_grouping"] >= q.attempt
           /\ \A x \in Stamped : product'[j][x] <= db[j].attempt
           /\ \A x \in Built : Succeeded(j, x)' => product'[j][x] > 0
           /\ Succeeded(j, "ingesting")' => checkpoint[j] = Batches
           /\ \A x \in Stages : rows'[j][x].attempt = rows[j][x].attempt
           /\ \A x \in RequiredStages : rows'[j][x].status # "running"
           /\ ungrouped'[j] = FALSE
           /\ \A i \in Jobs \ {j} : /\ rows'[i] = rows[i] /\ requests'[i] = requests[i]
                                    /\ product'[i] = product[i] /\ ungrouped'[i] = ungrouped[i]
<1> DEFINE a == wk[w].mem.attempt
           G == "investigation_grouping"
<1>1. wk[w].job = j /\ wk[w].phase # "idle" /\ wk[w].at \in {"investigation_grouping", "regrouping"}
  BY DEF Works, WorkerInv, AtInv
<1>2. /\ Stored(w, G, TRUE) /\ ClosedRow(w, "ok") /\ ungrouped' = [ungrouped EXCEPT ![j] = FALSE]
      /\ requests' = [requests EXCEPT ![j] = FulfilGrouping(j, a)]
  BY <1>1 DEF Published
<1>3. /\ \A x \in Stages \ {G} : product'[j][x] = product[j][x]
      /\ product'[j][G] = a /\ \A i \in Jobs \ {j} : product'[i] = product[i]
  <2>1. G \in Stages /\ G \in Stamped BY StageNamesDistinct DEF Stamped
  <2> HIDE DEF G
  <2>2. TRUE \in BOOLEAN OBVIOUS
  <2> QED BY <1>1, <1>2, <2>1, <2>2, StoredOutput
<1>4. /\ \A x \in Stages : rows[j][x].attempt \in Nat /\ product[j][x] \in Nat
      /\ \A q \in requests[j] : q \in RequestRows /\ q.attempt \in Nat
  BY JobTypes
<1>5. a = db[j].attempt /\ a > 0 BY DEF Works, WorkerInv, RowInv, Columns, JobInv, StageInv
<1>6. Reached(wk[w]) = 8 BY <1>1, StageOrder DEF Reached
<1>7. wk[w].row # NoRow => wk[w].row.stage = G BY <1>1 DEF Works, WorkerInv, AtInv
<1>8. /\ \A x \in Stages : rows'[j][x].attempt = rows[j][x].attempt
      /\ \A x \in Stages \ {G} : rows'[j][x] = rows[j][x]
      /\ \A x \in RequiredStages : Order(x) <= Reached(wk[w]) => rows'[j][x].status # "running"
      /\ \A i \in Jobs \ {j} : rows'[i] = rows[i]
  BY <1>1, <1>2, <1>7, ClosedRows
<1>9. \A x \in RequiredStages : rows'[j][x].status # "running" BY <1>6, <1>8, StageOrder
<1>10. Succeeded(j, "analytics")' <=> Succeeded(j, "analytics") BY <1>8, StageNamesDistinct DEF Succeeded
<1>11. Unmet(requests[j], "refresh") = {} \/ ~Succeeded(j, "analytics")
  BY <1>1 DEF Works, WorkerInv, RunInv, Past
<1>12. requests'[j] = FulfilGrouping(j, a)
       /\ \A i \in Jobs \ {j} : requests'[i] = requests[i] /\ ungrouped'[i] = ungrouped[i]
  BY <1>2 DEF TypeInv, TypeOK
<1>13. ungrouped'[j] = FALSE BY <1>2 DEF TypeInv, TypeOK
<1>14. ASSUME NEW q \in requests'[j]
       PROVE  \/ q \in requests[j] /\ q.kind # "group"
              \/ q.kind = "group" /\ q.fulfilled /\ q.attempt <= a
  <2>1. PICK p \in requests[j] :
            q = IF p.kind = "group" /\ p.attempt <= a THEN [p EXCEPT !.fulfilled = TRUE] ELSE p
    BY <1>12 DEF FulfilGrouping
  <2>2. p \in RequestRows /\ p.attempt <= a BY <1>4 DEF Works
  <2>3. CASE p.kind = "group" BY <2>1, <2>2, <2>3 DEF RequestRows
  <2>4. CASE p.kind # "group" BY <2>1, <2>4
  <2> QED BY <2>3, <2>4
<1>15. Unmet(requests'[j], "group") = {} BY <1>14 DEF Unmet
<1>16. Unmet(requests'[j], "refresh") = {} \/ ~Succeeded(j, "analytics")'
  BY <1>10, <1>11, <1>14 DEF Unmet
<1>17. ASSUME NEW q \in requests'[j], q.fulfilled
       PROVE  /\ q.kind = "refresh" => product'[j]["analytics"] >= q.attempt
              /\ q.kind = "group" => product'[j]["investigation_grouping"] >= q.attempt
  <2>1. product'[j]["analytics"] = product[j]["analytics"] BY <1>3, StageNamesDistinct
  <2>2. CASE q.kind = "group"
    <3>1. q.attempt <= a BY <1>14, <2>2
    <3>2. q.attempt \in Nat
      <4>1. PICK p \in requests[j] :
                q = IF p.kind = "group" /\ p.attempt <= a THEN [p EXCEPT !.fulfilled = TRUE] ELSE p
        BY <1>12 DEF FulfilGrouping
      <4> QED BY <1>4, <4>1 DEF RequestRows
    <3> QED BY <1>1, <1>3, <2>2, <3>1, <3>2, Basics
  <2>3. CASE q.kind # "group"
    <3>1. q \in requests[j] BY <1>14, <2>3
    <3> QED BY <1>17, <2>1, <2>3, <3>1 DEF Works, JobInv, RequestInv
  <2> QED BY <2>2, <2>3
<1>18. \A x \in Stamped : product'[j][x] <= db[j].attempt
  BY <1>1, <1>3, <1>5, Basics, StageNamesDistinct DEF Works, JobInv, StageInv
<1>19. \A x \in Built : Succeeded(j, x)' => product'[j][x] > 0
  BY <1>3, <1>5, <1>8, StageNamesDistinct DEF Works, JobInv, StageInv, Succeeded
<1>20. Succeeded(j, "ingesting")' => checkpoint[j] = Batches
  BY <1>8, StageNamesDistinct DEF Works, JobInv, StageInv, Succeeded
<1> QED BY <1>3, <1>8, <1>9, <1>12, <1>13, <1>15, <1>16, <1>17, <1>18, <1>19, <1>20

LEMMA PublishGroupsKeeps ==
    ASSUME TypeInv, LeaseInv, FreshKeys, RunsInv, NEW w \in Workers, PublishGroups(w) PROVE RunsInv'
<1>1. PICK j \in Jobs : Works(w, j) BY Start DEF PublishGroups, Failing, In
<1> DEFINE r == [wk[w] EXCEPT !.phase = "complete", !.row = NoRow]
<1>2. /\ wk[w].phase = "grouping" /\ wk[w].at = "investigation_grouping" /\ wk[w].job = j /\ wk[w].phase # "idle"
      /\ Published(w) /\ wk' = [wk EXCEPT ![w] = r] /\ db' = db /\ snapshot' = snapshot
      /\ checkpoint' = checkpoint
  BY <1>1 DEF PublishGroups, In, Works
<1>3. wk[w] \in Local /\ wk \in [Workers -> Local] BY <1>2, Basics
<1>4. r.phase = "complete" /\ r.at = "investigation_grouping" /\ r.row = NoRow /\ r.job = j /\ r.mem = wk[w].mem
      /\ r.wanted = wk[w].wanted
  BY <1>2, <1>3 DEF Local
<1> HIDE DEF r
<1>5. wk'[w] = r /\ \A v \in Workers \ {w} : wk'[v] = wk[v] BY <1>2, <1>3
<1>6. /\ Unmet(requests'[j], "group") = {}
      /\ Unmet(requests'[j], "refresh") = {} \/ ~Succeeded(j, "analytics")'
      /\ \A q \in requests'[j] : q.fulfilled =>
             /\ q.kind = "refresh" => product'[j]["analytics"] >= q.attempt
             /\ q.kind = "group" => product'[j]["investigation_grouping"] >= q.attempt
      /\ \A x \in Stamped : product'[j][x] <= db[j].attempt
      /\ \A x \in Built : Succeeded(j, x)' => product'[j][x] > 0
      /\ Succeeded(j, "ingesting")' => checkpoint[j] = Batches
      /\ \A x \in Stages : rows'[j][x].attempt = rows[j][x].attempt
      /\ \A x \in RequiredStages : rows'[j][x].status # "running"
      /\ ungrouped'[j] = FALSE
      /\ \A i \in Jobs \ {j} : /\ rows'[i] = rows[i] /\ requests'[i] = requests[i]
                               /\ product'[i] = product[i] /\ ungrouped'[i] = ungrouped[i]
  BY <1>1, <1>2, PublishedGroups
<1>7. StageInv(j)' BY <1>1, <1>2, <1>6 DEF Works, JobInv, StageInv
<1>8. RequestInv(j)' BY <1>6, StageNamesDistinct DEF RequestInv
<1>9. SettledInv(j)' BY <1>1, <1>2, LeasedSettled DEF Works, JobInv
<1>10. Reached(wk[w]) = 8 /\ Reached(wk'[w]) = 8 BY <1>2, <1>4, <1>5, StageOrder DEF Reached
<1>11. RowInv(wk[w], j)'
  <2>1. wk'[w].mem = Columns(db'[j]) BY <1>1, <1>2, <1>4, <1>5 DEF Works, WorkerInv, RowInv
  <2>2. \A x : ~(Order(x) > 8) BY StageOrder
  <2>3. wk'[w].phase # "close" /\ wk'[w].row = NoRow BY <1>4, <1>5
  <2> QED BY <1>6, <1>10, <2>1, <2>2, <2>3 DEF RowInv
<1>12. AtInv(wk'[w]) BY <1>4, <1>5 DEF AtInv
<1>13. RunInv(wk[w], j)' BY <1>1, <1>4, <1>5, <1>6 DEF Works, WorkerInv, RunInv, Before, Past
<1>14. Frame(w, j) BY <1>2, <1>5, <1>6 DEF Frame
<1>15. WorkerInv(wk[w], j)' /\ JobInv(j)' BY <1>7, <1>8, <1>9, <1>11, <1>12, <1>13 DEF WorkerInv, JobInv
<1>16. \A v \in Workers \ {w} : wk[v].phase # "idle" => wk[v].job # j BY <1>1, <1>2, Alone
<1>17. wk'[w].job = j BY <1>4, <1>5
<1> QED BY <1>14, <1>15, <1>16, <1>17, StepKeeps

\* The commit that completes the job.
LEMMA Completed ==
    ASSUME TypeInv, NEW w \in Workers, NEW j \in Jobs, wk[w].phase # "idle", Works(w, j), CompletedJob(w)
    PROVE  /\ db'[j].state = "completed" /\ db'[j].owner = Nobody /\ db'[j].live = FALSE
           /\ db'[j].attempt = db[j].attempt /\ db'[j].error = db[j].error
           /\ \A i \in Jobs \ {j} : db'[i] = db[i]
<1> DEFINE new == [wk[w].mem EXCEPT !.state = "completed", !.stage = "ingested", !.owner = Nobody]
<1>1. wk[w].mem = Columns(db[j]) /\ wk[w].mem \in MemRow /\ SaveJob(w, new, FALSE)
  BY Basics DEF Works, WorkerInv, RowInv, CompletedJob
<1>2. new \in MemRow /\ new.attempt = wk[w].mem.attempt /\ new.state = "completed" /\ new.owner = Nobody
  BY <1>1 DEF MemRow, States, Terminal, StageNames
<1> HIDE DEF new
<1>3. wk[w].job = j BY DEF Works
<1>4. PICK alive : alive = FALSE /\ SaveJob(w, new, alive) BY <1>1
<1>5. /\ db'[j].state = new.state /\ db'[j].owner = new.owner /\ db'[j].live = alive
      /\ db'[j].attempt = db[j].attempt /\ db'[j].error = db[j].error
      /\ \A i \in Jobs \ {j} : db'[i] = db[i]
  BY <1>1, <1>2, <1>3, <1>4, Saved
<1> QED BY <1>2, <1>4, <1>5

\* A completion keeps everything when what it completes is whole.
LEMMA CompletionKeeps ==
    ASSUME TypeInv, LeaseInv, RunsInv, NEW w \in Workers, NEW j \in Jobs, wk[w].phase # "idle", Works(w, j),
           CompletedJob(w), wk' = [wk EXCEPT ![w] = Idle],
           Unmet(requests'[j], "group") = {},
           Unmet(requests'[j], "refresh") = {} \/ ~Succeeded(j, "analytics")',
           \A q \in requests'[j] : q.fulfilled =>
               /\ q.kind = "refresh" => product'[j]["analytics"] >= q.attempt
               /\ q.kind = "group" => product'[j]["investigation_grouping"] >= q.attempt,
           \A x \in Stamped : product'[j][x] <= db[j].attempt,
           \A x \in Built : Succeeded(j, x)' => product'[j][x] > 0,
           Succeeded(j, "ingesting")' => checkpoint'[j] = Batches,
           \A x \in Stages : rows'[j][x].attempt = rows[j][x].attempt,
           \A x \in RequiredStages : rows'[j][x].status # "running",
           ~ungrouped'[j], snapshot'[j] = "complete",
           \A i \in Jobs \ {j} : /\ rows'[i] = rows[i] /\ requests'[i] = requests[i]
                                 /\ product'[i] = product[i] /\ ungrouped'[i] = ungrouped[i]
                                 /\ snapshot'[i] = snapshot[i] /\ checkpoint'[i] = checkpoint[i]
    PROVE  RunsInv'
<1>1. /\ db'[j].state = "completed" /\ db'[j].owner = Nobody /\ db'[j].live = FALSE
      /\ db'[j].attempt = db[j].attempt /\ db'[j].error = db[j].error
      /\ \A i \in Jobs \ {j} : db'[i] = db[i]
  BY Completed
<1>2. wk'[w].phase = "idle" /\ \A v \in Workers \ {w} : wk'[v] = wk[v] BY Basics, IdleFacts
<1>3. db[j].error = "none" BY DEF Works, JobInv, SettledInv, Active
<1>4. StageInv(j)' BY <1>1 DEF Works, JobInv, StageInv, Leased
<1>5. RequestInv(j)' BY <1>1 DEF RequestInv, Active, Leased
<1>6. SettledInv(j)' BY <1>1, <1>3 DEF SettledInv, Active, Leased
<1>7. Frame(w, j) BY <1>1, <1>2 DEF Frame
<1>8. JobInv(j)' BY <1>4, <1>5, <1>6 DEF JobInv
<1>9. \A v \in Workers \ {w} : wk[v].phase # "idle" => wk[v].job # j BY Alone DEF Works
<1> QED BY <1>2, <1>7, <1>8, <1>9, StepKeeps

LEMMA CompleteImportKeeps ==
    ASSUME TypeInv, LeaseInv, FreshKeys, RunsInv, NEW w \in Workers, CompleteImport(w) PROVE RunsInv'
<1>1. PICK j \in Jobs : Works(w, j) BY Start DEF CompleteImport, Failing
<1>2. /\ wk[w].phase = "complete" /\ wk[w].job = j /\ wk[w].phase # "idle" /\ CompletedJob(w)
      /\ wk' = [wk EXCEPT ![w] = Idle] /\ rows' = rows /\ requests' = requests /\ product' = product
      /\ checkpoint' = checkpoint /\ ungrouped' = ungrouped
  BY <1>1 DEF CompleteImport, Works
<1>3. snapshot'[j] = "complete" /\ \A i \in Jobs \ {j} : snapshot'[i] = snapshot[i]
  BY <1>1 DEF CompleteImport, Works, TypeInv, TypeOK
<1>4. wk[w].at = "investigation_grouping" /\ wk[w].row = NoRow BY <1>1, <1>2 DEF Works, WorkerInv, AtInv
<1>5. \A x \in RequiredStages : rows[j][x].status # "running"
  <2>1. Reached(wk[w]) = 8 BY <1>2, <1>4, StageOrder DEF Reached
  <2>2. \A x \in RequiredStages : Order(x) <= 8 /\ x # wk[w].row.stage
    BY <1>4, StageOrder, StageNamesDistinct DEF NoRow
  <2> QED BY <1>1, <2>1, <2>2 DEF Works, WorkerInv, RowInv
<1>6. /\ ~ungrouped[j] /\ Unmet(requests[j], "group") = {}
      /\ Unmet(requests[j], "refresh") = {} \/ ~Succeeded(j, "analytics")
  BY <1>1, <1>2, <1>4 DEF Works, WorkerInv, RunInv, Past
<1>7. \A x : Succeeded(j, x)' <=> Succeeded(j, x) BY <1>2 DEF Succeeded
<1>8. StageInv(j) /\ RequestInv(j) BY <1>1 DEF Works, JobInv
<1>9. /\ \A x \in Stamped : product[j][x] <= db[j].attempt
      /\ \A x \in Built : Succeeded(j, x) => product[j][x] > 0
      /\ Succeeded(j, "ingesting") => checkpoint[j] = Batches
  BY <1>8 DEF StageInv
<1>10. \A q \in requests[j] : q.fulfilled =>
           /\ q.kind = "refresh" => product[j]["analytics"] >= q.attempt
           /\ q.kind = "group" => product[j]["investigation_grouping"] >= q.attempt
  BY <1>8 DEF RequestInv
<1> QED BY <1>1, <1>2, <1>3, <1>5, <1>6, <1>7, <1>9, <1>10, CompletionKeeps

\* The same commit when it publishes the groups as well.
LEMMA PublishAndCompleteKeeps ==
    ASSUME TypeInv, LeaseInv, FreshKeys, RunsInv, NEW w \in Workers,
           PublishAndComplete(w) \/ RegroupAndComplete(w)
    PROVE  RunsInv'
<1>1. PICK j \in Jobs : Works(w, j) BY Start DEF PublishAndComplete, RegroupAndComplete, Failing, In
<1>2. /\ wk[w].phase = "grouping" /\ wk[w].job = j /\ wk[w].phase # "idle" /\ CompletedJob(w) /\ Published(w)
      /\ wk' = [wk EXCEPT ![w] = Idle] /\ checkpoint' = checkpoint
  BY <1>1 DEF PublishAndComplete, RegroupAndComplete, In, Works
<1>3. snapshot'[j] = "complete" /\ \A i \in Jobs \ {j} : snapshot'[i] = snapshot[i]
  <2>1. CASE PublishAndComplete(w) BY <1>1, <2>1 DEF PublishAndComplete, Works, TypeInv, TypeOK
  <2>2. CASE RegroupAndComplete(w)
    BY <1>1, <2>2 DEF RegroupAndComplete, In, Works, WorkerInv, RunInv
  <2> QED BY <2>1, <2>2
<1>4. /\ Unmet(requests'[j], "group") = {}
      /\ Unmet(requests'[j], "refresh") = {} \/ ~Succeeded(j, "analytics")'
      /\ \A q \in requests'[j] : q.fulfilled =>
             /\ q.kind = "refresh" => product'[j]["analytics"] >= q.attempt
             /\ q.kind = "group" => product'[j]["investigation_grouping"] >= q.attempt
      /\ \A x \in Stamped : product'[j][x] <= db[j].attempt
      /\ \A x \in Built : Succeeded(j, x)' => product'[j][x] > 0
      /\ Succeeded(j, "ingesting")' => checkpoint[j] = Batches
      /\ \A x \in Stages : rows'[j][x].attempt = rows[j][x].attempt
      /\ \A x \in RequiredStages : rows'[j][x].status # "running"
      /\ ungrouped'[j] = FALSE
      /\ \A i \in Jobs \ {j} : /\ rows'[i] = rows[i] /\ requests'[i] = requests[i]
                               /\ product'[i] = product[i] /\ ungrouped'[i] = ungrouped[i]
  BY <1>1, <1>2, PublishedGroups
<1> QED BY <1>1, <1>2, <1>3, <1>4, CompletionKeeps


\* No claim, retry or failure looks at a stage again: the rows of the attempt
\* that ended become outcomes, and nothing else of the job changes.
FailedRows(j) ==
    /\ \A x \in Stages : rows'[j][x].attempt = rows[j][x].attempt
    /\ \A x \in Stages : rows'[j][x].status = "ok" <=> rows[j][x].status = "ok"
    /\ \A x \in Stages : rows'[j][x].status # "running"

LEMMA RowsFail ==
    ASSUME TypeInv, NEW j \in Jobs, rows' = [rows EXCEPT ![j] = FailRunning(j)]
    PROVE  FailedRows(j) /\ \A i \in Jobs \ {j} : rows'[i] = rows[i]
<1>1. rows \in [Jobs -> [Stages -> StageRows]] BY DEF TypeInv, TypeOK
<1>2. rows'[j] = FailRunning(j) /\ \A i \in Jobs \ {j} : rows'[i] = rows[i] BY <1>1
<1>3. ASSUME NEW x \in Stages
      PROVE  /\ rows'[j][x].attempt = rows[j][x].attempt
             /\ rows'[j][x].status = "ok" <=> rows[j][x].status = "ok"
             /\ rows'[j][x].status # "running"
  <2>1. rows[j][x] \in StageRows BY <1>1
  <2>2. rows'[j][x] = IF rows[j][x].status = "running" THEN [rows[j][x] EXCEPT !.status = "failed"]
                      ELSE rows[j][x]
    BY <1>2 DEF FailRunning
  <2> QED BY <2>1, <2>2 DEF StageRows
<1> QED BY <1>2, <1>3 DEF FailedRows

\* A worker that begins an attempt, of a claimed job or on its own retry.
LEMMA Begun ==
    ASSUME TypeInv, NEW w \in Workers, NEW j \in Jobs, JobInv(j), NEW again \in BOOLEAN,
           wk' = [wk EXCEPT ![w] = Holding(j, Columns(db'[j]), again)], wk \in [Workers -> Local],
           db'[j].attempt = db[j].attempt + 1,
           \A x \in Stages : rows'[j][x].attempt = rows[j][x].attempt
    PROVE  wk'[w].job = j /\ WorkerInv(wk[w], j)'
<1> DEFINE r == Holding(j, Columns(db'[j]), again)
<1>1. /\ r.phase = "claimed" /\ r.at = "none" /\ r.job = j /\ r.mem = Columns(db'[j]) /\ r.row = NoRow
      /\ r.wanted = {}
  BY DEF Holding, Idle
<1> HIDE DEF r
<1>2. wk'[w] = r /\ wk'[w].job = j BY <1>1 DEF r
<1>3. Reached(wk'[w]) = 0 BY <1>1, <1>2 DEF Reached
<1>4. \A x \in Stages : rows'[j][x].attempt < db'[j].attempt
  <2>1. \A x \in Stages : rows[j][x].attempt \in Nat /\ rows[j][x].attempt <= db[j].attempt
    BY JobTypes DEF JobInv, StageInv
  <2>2. db[j].attempt \in Nat BY JobTypes
  <2> QED BY <2>1, <2>2
<1>5. AtInv(wk'[w]) BY <1>1, <1>2 DEF AtInv, NoRow
<1>6. RowInv(wk[w], j)'
  <2>1. wk'[w].mem.attempt = db'[j].attempt BY <1>1, <1>2 DEF Columns
  <2>2. \A x : ~(Order(x) <= 0) BY StageOrder
  <2> QED BY <1>1, <1>2, <1>3, <1>4, <2>1, <2>2 DEF RowInv
<1>7. RunInv(wk[w], j)' BY <1>1, <1>2 DEF RunInv, Before, Past
<1> QED BY <1>2, <1>5, <1>6, <1>7 DEF WorkerInv

LEMMA RetryOnceKeeps ==
    ASSUME TypeInv, LeaseInv, FreshKeys, RunsInv, NEW w \in Workers, RetryOnce(w) PROVE RunsInv'
<1>1. PICK j \in Jobs : wk[w].job = j BY BusyHasJob DEF RetryOnce, MayRetry
<1>2. /\ wk[w].phase # "idle" /\ db' = [db EXCEPT ![j] = Retried(db[j])]
      /\ rows' = [rows EXCEPT ![j] = FailRunning(j)]
      /\ wk' = [wk EXCEPT ![w] = Holding(j, Columns(Retried(db[j])), TRUE)]
      /\ UNCHANGED <<requests, product, snapshot, checkpoint, ungrouped>>
  BY <1>1 DEF RetryOnce, MayRetry
<1>3. db \in [Jobs -> JobRow] /\ db[j] \in JobRow /\ wk \in [Workers -> Local] BY DEF TypeInv, TypeOK
<1>4. db'[j] = Retried(db[j]) /\ \A i \in Jobs \ {j} : db'[i] = db[i] BY <1>2, <1>3
<1>5. /\ db'[j].state = "running" /\ db'[j].attempt = db[j].attempt + 1 /\ db'[j].error = "none"
      /\ db[j].attempt \in Nat
  BY <1>3, <1>4 DEF Retried, JobRow
<1>6. FailedRows(j) /\ \A i \in Jobs \ {j} : rows'[i] = rows[i] BY <1>2, RowsFail
<1>7. JobInv(j) BY DEF RunsInv
<1>8. \A x \in Stages : Succeeded(j, x)' <=> Succeeded(j, x) BY <1>6 DEF FailedRows, Succeeded
<1>9. /\ \A x \in Stages : rows[j][x].attempt \in Nat /\ product[j][x] \in Nat
      /\ Holds(w)
  BY JobTypes DEF LeaseInv
<1>10. StageInv(j)'
  <2>1. \A x \in Stages : rows'[j][x].attempt <= db'[j].attempt
    BY <1>5, <1>6, <1>7, <1>9 DEF JobInv, StageInv, FailedRows
  <2>2. \A x \in Stamped : product'[j][x] <= db'[j].attempt
    BY <1>2, <1>5, <1>7, <1>9, StageNamesDistinct DEF JobInv, StageInv
  <2>3. db'[j].attempt > 0 BY <1>5
  <2> QED BY <1>2, <1>7, <1>8, <2>1, <2>2, <2>3, StageNamesDistinct DEF JobInv, StageInv
<1>11. RequestInv(j)'
  <2>1. \A s \in Middle : rows'[j][s].status # "running" BY <1>6, StageNamesDistinct DEF FailedRows
  <2> QED BY <1>2, <1>5, <1>7, <1>8, <2>1, StageNamesDistinct DEF JobInv, RequestInv
<1>12. SettledInv(j)' BY <1>5 DEF SettledInv, Terminal
<1>13. wk'[w].job = j /\ WorkerInv(wk[w], j)'
  <2>1. \A x \in Stages : rows'[j][x].attempt = rows[j][x].attempt BY <1>6 DEF FailedRows
  <2> QED BY <1>2, <1>3, <1>4, <1>5, <1>7, <2>1, Begun
<1>14. Frame(w, j) BY <1>2, <1>3, <1>4, <1>6 DEF Frame
<1>15. \A v \in Workers \ {w} : wk[v].phase # "idle" => wk[v].job # j BY <1>1, <1>2, Alone
<1>16. JobInv(j)' BY <1>10, <1>11, <1>12 DEF JobInv
<1> QED BY <1>13, <1>14, <1>15, <1>16, StepKeeps

LEMMA FailJobKeeps ==
    ASSUME TypeInv, LeaseInv, FreshKeys, RunsInv, NEW w \in Workers, FailJob(w) PROVE RunsInv'
<1>1. PICK j \in Jobs : wk[w].job = j BY BusyHasJob DEF FailJob, Failing
<1> DEFINE code == IF db[j].stage = "source_verification" THEN "SOURCE_VERIFICATION_FAILED"
                   ELSE "ANALYSIS_STAGE_FAILED"
           d == [db[j] EXCEPT !.state = "failed", !.stage = "failed",
                              !.owner = Nobody, !.live = FALSE, !.error = code]
<1>2. /\ wk[w].phase # "idle" /\ db' = [db EXCEPT ![j] = d]
      /\ rows' = [rows EXCEPT ![j] = FailRunning(j)] /\ wk' = [wk EXCEPT ![w] = Idle]
      /\ UNCHANGED <<requests, product, snapshot, checkpoint, ungrouped>>
  BY <1>1 DEF FailJob, Failing
<1>3. db \in [Jobs -> JobRow] /\ db[j] \in JobRow /\ wk \in [Workers -> Local] BY DEF TypeInv, TypeOK
<1>4. d.state = "failed" /\ d.attempt = db[j].attempt /\ d.live = FALSE BY <1>3 DEF JobRow
<1> HIDE DEF d
<1>5. /\ db'[j].state = "failed" /\ db'[j].attempt = db[j].attempt /\ db'[j].live = FALSE
      /\ \A i \in Jobs \ {j} : db'[i] = db[i]
  BY <1>2, <1>3, <1>4
<1>6. FailedRows(j) /\ \A i \in Jobs \ {j} : rows'[i] = rows[i] BY <1>2, RowsFail
<1>7. JobInv(j) BY DEF RunsInv
<1>8. \A x \in Stages : Succeeded(j, x)' <=> Succeeded(j, x) BY <1>6 DEF FailedRows, Succeeded
<1>9. StageInv(j)' BY <1>2, <1>5, <1>6, <1>7, <1>8, StageNamesDistinct DEF JobInv, StageInv, FailedRows, Leased
<1>10. RequestInv(j)'
  BY <1>2, <1>5, <1>7, <1>8, StageNamesDistinct DEF JobInv, RequestInv, Active, Leased
<1>11. SettledInv(j)' BY <1>5, <1>6, StageNamesDistinct DEF SettledInv, Active, Leased, FailedRows
<1>12. wk'[w].phase = "idle" /\ Frame(w, j) BY <1>2, <1>3, <1>5, <1>6, IdleFacts DEF Frame
<1>13. \A v \in Workers \ {w} : wk[v].phase # "idle" => wk[v].job # j BY <1>1, <1>2, Alone
<1>14. JobInv(j)' BY <1>9, <1>10, <1>11 DEF JobInv
<1> QED BY <1>12, <1>13, <1>14, StepKeeps

LEMMA ClaimKeepsRuns ==
    ASSUME TypeInv, LeaseInv, FreshKeys, RunsInv, NEW w \in Workers, NEW j \in Jobs, Claim(w, j) PROVE RunsInv'
<1>1. /\ wk[w].phase = "idle" /\ db' = [db EXCEPT ![j] = Taken(db[j], w)]
      /\ wk' = [wk EXCEPT ![w] = Holding(j, Columns(Taken(db[j], w)), FALSE)]
      /\ UNCHANGED <<rows, requests, product, snapshot, checkpoint, ungrouped>>
      /\ Claimable(j)
  BY DEF Claim
<1>2. db \in [Jobs -> JobRow] /\ db[j] \in JobRow /\ wk \in [Workers -> Local] BY DEF TypeInv, TypeOK
<1>3. db'[j] = Taken(db[j], w) /\ \A i \in Jobs \ {j} : db'[i] = db[i] BY <1>1, <1>2
<1>4. /\ db'[j].state = "running" /\ db'[j].attempt = db[j].attempt + 1 /\ db'[j].error = db[j].error
      /\ db[j].attempt \in Nat
  BY <1>2, <1>3 DEF Taken, JobRow
<1>5. JobInv(j) BY DEF RunsInv
<1>6. \A x : Succeeded(j, x)' <=> Succeeded(j, x) BY <1>1 DEF Succeeded
<1>7. \A x \in Stages : rows[j][x].attempt \in Nat /\ product[j][x] \in Nat BY JobTypes
<1>8. db[j].state \in Active BY <1>1 DEF Claimable, Active
<1>9. StageInv(j)'
  <2>1. \A x \in Stages : rows'[j][x].attempt <= db'[j].attempt BY <1>1, <1>4, <1>5, <1>7 DEF JobInv, StageInv
  <2>2. \A x \in Stamped : product'[j][x] <= db'[j].attempt
    BY <1>1, <1>4, <1>5, <1>7, StageNamesDistinct DEF JobInv, StageInv
  <2>3. db'[j].attempt > 0 BY <1>4
  <2> QED BY <1>1, <1>5, <1>6, <2>1, <2>2, <2>3 DEF JobInv, StageInv
<1>10. RequestInv(j)' BY <1>1, <1>4, <1>5, <1>6, <1>8 DEF JobInv, RequestInv
<1>11. SettledInv(j)' BY <1>4, <1>5, <1>8 DEF JobInv, SettledInv, Terminal
<1>12. wk'[w].job = j /\ WorkerInv(wk[w], j)' BY <1>1, <1>2, <1>3, <1>4, <1>5, Begun
<1>13. Frame(w, j) BY <1>1, <1>2, <1>3 DEF Frame
<1>14. ASSUME NEW v \in Workers \ {w}, wk[v].phase # "idle" PROVE wk[v].job # j
  BY <1>1, <1>14 DEF Claimable, LeaseInv, Holds, Leased
<1>15. JobInv(j)' BY <1>9, <1>10, <1>11 DEF JobInv
<1> QED BY <1>12, <1>13, <1>14, <1>15, StepKeeps

\* The API reopens settled jobs, and a new request is the latest of its job.
LEMMA Asked ==
    ASSUME TypeInv, FreshKeys, RunsInv, NEW j \in Jobs, db[j].state \in Terminal, NEW kind,
           kind \in {"plain", "refresh", "group"},
           requests'[j] = requests[j] \cup {NewRequest(db[j].attempt + 1, kind)},
           db'[j] = Requeue(db[j]), rows' = rows, product' = product, checkpoint' = checkpoint,
           kind = "group" => db[j].state = "completed" \/ GroupIsLatest(requests[j])
    PROVE  JobInv(j)'
<1> DEFINE new == NewRequest(db[j].attempt + 1, kind)
<1>1. db[j] \in JobRow /\ db[j].attempt \in Nat BY JobTypes
<1>2. db'[j].state = "queued" /\ db'[j].error = "none" /\ db'[j].attempt = db[j].attempt
  BY <1>1 DEF Requeue, JobRow
<1>3. new.attempt = db[j].attempt + 1 /\ new.kind = kind /\ new.fulfilled = FALSE BY DEF NewRequest
<1>4. requests'[j] = requests[j] \cup {new} OBVIOUS
<1> HIDE DEF new
<1>5. JobInv(j) BY DEF RunsInv
<1>6. \A x : Succeeded(j, x)' <=> Succeeded(j, x) BY DEF Succeeded
<1>7. StageInv(j)' BY <1>2, <1>5, <1>6 DEF JobInv, StageInv, Leased
<1>8. \A q \in requests[j] : q.attempt \in Nat /\ q.attempt < new.attempt
  <2>1. db[j].state # "queued" BY DEF Terminal
  <2>2. \A q \in requests[j] : q.attempt \in Nat BY JobTypes
  <2>3. \A q \in requests[j] : q.attempt <= db[j].attempt BY <2>1 DEF FreshKeys
  <2> QED BY <1>1, <1>3, <2>2, <2>3
<1>9. GroupIsLatest(requests'[j]) => kind = "group"
  <2> SUFFICES ASSUME NEW q \in requests'[j], q.kind = "group",
                      \A p \in requests'[j] : ~p.fulfilled => p.attempt <= q.attempt
               PROVE  kind = "group"
    BY DEF GroupIsLatest
  <2>1. new.attempt <= q.attempt BY <1>3, <1>4
  <2>2. CASE q = new BY <1>3, <2>2
  <2>3. CASE q \in requests[j]
    <3>1. q.attempt < new.attempt /\ q.attempt \in Nat /\ new.attempt \in Nat BY <1>1, <1>3, <1>8, <2>3
    <3> QED BY <2>1, <3>1
  <2> QED BY <1>4, <2>2, <2>3
<1>10. kind = "group" => /\ Unmet(requests'[j], "refresh") = Unmet(requests[j], "refresh")
                         /\ Unmet(requests[j], "refresh") = {} \/ ~Succeeded(j, "analytics")
  BY <1>3, <1>4, <1>5 DEF Unmet, JobInv, RequestInv
<1>11. \A s \in Middle : rows[j][s].status # "running"
  BY <1>5, StageNamesDistinct DEF JobInv, SettledInv
<1>12. RequestInv(j)'
  <2>1. ASSUME NEW q \in requests'[j], q.fulfilled
        PROVE  /\ q.kind = "refresh" => product'[j]["analytics"] >= q.attempt
               /\ q.kind = "group" => product'[j]["investigation_grouping"] >= q.attempt
    <3>1. q \in requests[j] BY <1>3, <1>4, <2>1
    <3> QED BY <1>5, <2>1, <3>1 DEF JobInv, RequestInv
  <2>2. GroupIsLatest(requests'[j]) \/ db'[j].state = "completed" =>
            Unmet(requests'[j], "refresh") = {} \/ ~Succeeded(j, "analytics")'
    BY <1>2, <1>6, <1>9, <1>10
  <2> QED BY <1>11, <2>1, <2>2 DEF RequestInv
<1>13. SettledInv(j)' BY <1>2 DEF SettledInv, Terminal
<1> QED BY <1>7, <1>12, <1>13 DEF JobInv

\* A group-only request that comes next is the latest of all.
LEMMA GroupPendingIsLatest ==
    ASSUME FreshKeys, TypeInv, NEW j \in Jobs, db[j].state # "queued", GroupOnlyPending(j, db[j].attempt)
    PROVE  GroupIsLatest(requests[j])
<1>1. \A q \in requests[j] : q.attempt <= db[j].attempt BY DEF FreshKeys
<1> QED BY <1>1 DEF GroupOnlyPending, Pending, GroupIsLatest

LEMMA ApiKeepsRuns ==
    ASSUME TypeInv, LeaseInv, FreshKeys, RunsInv, Api PROVE RunsInv'
<1>1. UNCHANGED <<rows, product, snapshot, checkpoint, ungrouped, wk>>
  BY DEF Api, RetryAnalysis, BuildQueue
<1>2. PICK chosen \in SUBSET Jobs, kind \in {"plain", "refresh", "group"} :
          /\ \A j \in chosen : /\ db[j].state \in Terminal
                               /\ kind = "group" => db[j].state = "completed" \/ GroupIsLatest(requests[j])
          /\ \A j \in Jobs : /\ requests'[j] = IF j \in chosen
                                 THEN requests[j] \cup {NewRequest(db[j].attempt + 1, kind)}
                                 ELSE requests[j]
                             /\ db'[j] = IF j \in chosen THEN Requeue(db[j]) ELSE db[j]
  <2>1. ASSUME NEW j \in Jobs, NEW kind \in {"plain", "refresh"}, RetryAnalysis(j, kind)
        PROVE  /\ db[j].state \in Terminal
               /\ \A i \in Jobs : /\ requests'[i] = IF i \in {j}
                                      THEN requests[i] \cup {NewRequest(db[i].attempt + 1, kind)}
                                      ELSE requests[i]
                                  /\ db'[i] = IF i \in {j} THEN Requeue(db[i]) ELSE db[i]
    BY <2>1 DEF RetryAnalysis, TypeInv, TypeOK
  <2>2. ASSUME BuildQueue
        PROVE  LET chosen == {j \in Jobs : Regroupable(j)}
               IN  \A j \in Jobs : /\ requests'[j] = IF j \in chosen
                                       THEN requests[j] \cup {NewRequest(db[j].attempt + 1, "group")}
                                       ELSE requests[j]
                                   /\ db'[j] = IF j \in chosen THEN Requeue(db[j]) ELSE db[j]
    BY <2>2 DEF BuildQueue
  <2>3. ASSUME NEW j \in Jobs, Regroupable(j)
        PROVE  db[j].state \in Terminal /\ (db[j].state = "completed" \/ GroupIsLatest(requests[j]))
    BY <2>3, GroupPendingIsLatest DEF Regroupable, Terminal
  <2>4. CASE BuildQueue
    <3>1. {j \in Jobs : Regroupable(j)} \in SUBSET Jobs OBVIOUS
    <3> QED BY <2>2, <2>3, <2>4, <3>1
  <2>5. CASE \E j \in Jobs, kind \in {"plain", "refresh"} : RetryAnalysis(j, kind)
    <3>1. PICK j \in Jobs, kind \in {"plain", "refresh"} : RetryAnalysis(j, kind) BY <2>5
    <3>2. {j} \in SUBSET Jobs /\ (\A i \in {j} : i = j) /\ kind \in {"plain", "refresh", "group"}
          /\ kind # "group"
      BY <3>1
    <3> WITNESS {j} \in SUBSET Jobs, kind \in {"plain", "refresh", "group"}
    <3> QED BY <2>1, <3>1, <3>2
  <2> QED BY <2>4, <2>5 DEF Api
<1>3. ASSUME NEW j \in Jobs PROVE JobInv(j)'
  <2>1. CASE j \in chosen BY <1>1, <1>2, <2>1, Asked
  <2>2. CASE j \notin chosen
    <3>1. JobInv(j) BY DEF RunsInv
    <3> QED BY <1>1, <1>2, <2>2, <3>1, JobKept
  <2> QED BY <2>1, <2>2
<1>4. ASSUME NEW v \in Workers, Running(v)' PROVE WorkerInv(wk[v], wk[v].job)'
  <2>1. wk'[v] = wk[v] /\ Running(v) /\ wk[v].phase # "idle" BY <1>1, <1>4 DEF Running
  <2>2. PICK i \in Jobs : wk[v].job = i BY <2>1, BusyHasJob
  <2>3. Holds(v) /\ WorkerInv(wk[v], i) BY <2>1, <2>2 DEF LeaseInv, RunsInv
  <2>4. i \notin chosen BY <1>2, <2>1, <2>2, <2>3 DEF Holds, Leased, Terminal
  <2>5. db'[i] = db[i] /\ requests'[i] = requests[i] BY <1>2, <2>4
  <2>6. WorkerInv(wk[v], i)' BY <1>1, <2>1, <2>2, <2>3, <2>5, WorkerKept
  <2> QED BY <2>1, <2>2, <2>6
<1> QED BY <1>3, <1>4 DEF RunsInv

LEMMA InitRuns == Init => RunsInv
<1> SUFFICES ASSUME Init PROVE RunsInv OBVIOUS
<1>1. PICK old \in SUBSET Jobs :
        /\ db = [j \in Jobs |-> IF j \in old THEN Legacy ELSE Fresh]
        /\ rows = [j \in Jobs |-> [s \in Stages |-> [attempt |-> 0, status |-> "none"]]]
        /\ requests = [j \in Jobs |-> {}]
        /\ product = [j \in Jobs |-> [s \in Stages |->
               IF j \in old /\ s \in {"graph_building", "findings", "ml_scoring", "analytics"}
               THEN 1 ELSE 0]]
        /\ snapshot = [j \in Jobs |-> IF j \in old THEN "complete" ELSE "none"]
        /\ wk = [w \in Workers |-> Idle]
  BY DEF Init
<1>2. \A w \in Workers : ~Running(w) BY <1>1, IdleFacts DEF Running
<1>3. ASSUME NEW j \in Jobs PROVE JobInv(j)
  <2>1. \A s \in Stages : rows[j][s].attempt = 0 /\ rows[j][s].status = "none" BY <1>1
  <2>2. requests[j] = {} BY <1>1
  <2>3. \A s \in Stages : ~Succeeded(j, s) BY <2>1 DEF Succeeded
  <2>4. \/ db[j].state = "completed" /\ db[j].attempt = 1 /\ snapshot[j] = "complete" /\ j \in old
        \/ db[j].state = "queued" /\ db[j].attempt = 0 /\ j \notin old
    BY <1>1 DEF Legacy, Fresh
  <2>5. db[j].error = "none" /\ db[j].owner = Nobody /\ db[j].live = FALSE
    BY <1>1 DEF Legacy, Fresh
  <2>6. product[j]["investigation_grouping"] = 0 /\ product[j]["analytics"] \in {0, 1}
        /\ (j \notin old => product[j]["analytics"] = 0)
    BY <1>1, StageNamesDistinct
  <2>7. StageInv(j)
    BY <2>1, <2>3, <2>4, <2>6, StageNamesDistinct DEF StageInv, Stamped, Leased
  <2>8. RequestInv(j) BY <2>1, <2>2, StageNamesDistinct DEF RequestInv, Unmet
  <2>9. SettledInv(j) BY <2>1, <2>2, <2>4, <2>5, <2>6, StageNamesDistinct DEF SettledInv, Unmet
  <2> QED BY <2>7, <2>8, <2>9 DEF JobInv
<1> QED BY <1>2, <1>3 DEF RunsInv

\* Every step keeps it, as long as no lease lapses under a running worker.
LEMMA RunsKeep ==
    TypeInv /\ LeaseInv /\ FreshKeys /\ RunsInv /\ [Next]_vars /\ LeasesHold /\ LeasesHold' => RunsInv'
<1> SUFFICES ASSUME TypeInv, LeaseInv, FreshKeys, RunsInv, [Next]_vars, LeasesHold, LeasesHold'
             PROVE  RunsInv'
  OBVIOUS
<1>1. CASE UNCHANGED vars
  <2>1. UNCHANGED dbVars /\ UNCHANGED wk BY <1>1 DEF vars
  <2>2. \A j \in Jobs : JobInv(j)' BY <2>1, JobKept DEF dbVars, RunsInv
  <2>3. ASSUME NEW v \in Workers, Running(v)' PROVE WorkerInv(wk[v], wk[v].job)'
    <3>1. Running(v) BY <2>1, <2>3 DEF Running
    <3>2. PICK i \in Jobs : wk[v].job = i BY <3>1, BusyHasJob DEF Running
    <3>3. WorkerInv(wk[v], i) BY <3>1, <3>2 DEF RunsInv
    <3>4. WorkerInv(wk[v], i)' BY <2>1, <3>2, <3>3, WorkerKept DEF dbVars
    <3> QED BY <2>1, <3>2, <3>4
  <2> QED BY <2>2, <2>3 DEF RunsInv
<1>2. CASE Api BY <1>2, ApiKeepsRuns
<1>3. CASE \E j \in Jobs : LapseLease(j) BY <1>3, LeaseTimeKeepsRuns
<1>4. ASSUME NEW w \in Workers, NEW j \in Jobs, Claim(w, j) PROVE RunsInv' BY <1>4, ClaimKeepsRuns
<1>5. ASSUME NEW w \in Workers, Choose(w) PROVE RunsInv'
  BY <1>5, OpenVerificationKeeps, VerifySourceKeeps, StartRegroupingKeeps, StopsKeep, StartImportKeeps DEF Choose
<1>6. ASSUME NEW w \in Workers, FullRun(w) PROVE RunsInv'
  <2>1. CASE BeginIngest(w) \/ CommitBatch(w) \/ FinishIngest(w) \/ EnterGraph(w)
    BY <2>1, BeginIngestKeeps, CommitBatchKeeps, FinishIngestKeeps, EnterGraphKeeps
  <2>2. CASE BuildAndEnter(w, "graph_building", "findings") \/ BuildAndEnter(w, "findings", "ml_scoring")
    BY <2>2, BuildAndEnterKeeps
  <2>3. CASE Score(w) \/ SkipScoring(w) \/ FinishScoring(w) \/ EnterAnalytics(w)
    BY <2>3, ScoreKeeps, SkipScoringKeeps, FinishScoringKeeps, EnterAnalyticsKeeps
  <2>4. CASE Analyze(w) \/ AnalyticsFails(w) \/ ReportCoverage(w) \/ EnterGrouping(w)
    BY <2>4, AnalyzeKeeps, AnalyticsFailsKeeps, ReportCoverageKeeps, EnterGroupingKeeps
  <2>5. CASE CloseRow(w) \/ ReuseRow(w) \/ OpenRow(w) BY <2>5, CloseRowKeeps, ReuseRowKeeps, OpenRowKeeps
  <2> QED BY <1>6, <2>1, <2>2, <2>3, <2>4, <2>5 DEF FullRun
<1>7. ASSUME NEW w \in Workers, GroupingRun(w) PROVE RunsInv'
  BY <1>7, StartGroupingKeeps, StopsKeep, PublishGroupsKeeps, CompleteImportKeeps, PublishAndCompleteKeeps
     DEF GroupingRun
<1>8. ASSUME NEW w \in Workers, Handler(w) PROVE RunsInv'
  BY <1>8, StopsKeep, RetryOnceKeeps, FailJobKeeps DEF Handler
<1>9. ASSUME NEW w \in Workers, RenewLease(w) PROVE RunsInv' BY <1>9, LeaseTimeKeepsRuns
<1>10. ASSUME NEW w \in Workers, Crash(w) \/ \E kind \in Failing : Raise(w, kind) PROVE RunsInv'
  BY <1>10, StopsKeep
<1> QED BY <1>1, <1>2, <1>3, <1>4, <1>5, <1>6, <1>7, <1>8, <1>9, <1>10 DEF Next, Work

WholeInv == HeldInv /\ (LeasesHold => RunsInv)

LEMMA WholeInductive == Spec => []WholeInv
<1>1. Init => WholeInv BY InitTyped, InitKeeps, InitRuns DEF WholeInv, HeldInv
<1>2. WholeInv /\ [Next]_vars => WholeInv'
  BY NextTyped, HeldBefore, NextKeeps, RunsKeep DEF WholeInv, HeldInv
<1> QED BY <1>1, <1>2, PTL DEF Spec

\* Until a lease lapses under a running worker, a stage that a later attempt
\* skips has its output, and an attempt that runs a stage finds its key free:
\* what StageTracker.start relies on when it keeps a row or adds one.
THEOREM OutcomesBacked == Spec => [](LeasesHold => OutcomesAreBacked)
<1>1. WholeInv => (LeasesHold => OutcomesAreBacked)
  <2> SUFFICES ASSUME TypeInv, LeaseInv, FreshKeys, RunsInv PROVE OutcomesAreBacked
    BY DEF WholeInv, HeldInv
  <2>1. ASSUME NEW w \in Workers, wk[w].phase \in {"claimed", "open"}
        PROVE  /\ wk[w].phase = "claimed" => KeyFree(wk[w].job, "source_verification", wk[w].mem.attempt)
               /\ wk[w].phase = "open" => KeyFree(wk[w].job, wk[w].at, wk[w].mem.attempt)
    <3>1. PICK j \in Jobs : Works(w, j) BY <2>1, Start DEF Failing
    <3> DEFINE s == IF wk[w].phase = "claimed" THEN "source_verification" ELSE wk[w].at
    <3>2. s \in Stages BY <2>1, StageNamesDistinct DEF TypeInv, AtStage
    <3>3. Order(s) > Reached(wk[w]) BY <2>1, StageOrder DEF Reached
    <3>4. rows[j][s].attempt < wk[w].mem.attempt BY <3>1, <3>2, <3>3 DEF Works, WorkerInv, RowInv
    <3>5. rows[j][s].attempt \in Nat /\ wk[w].mem.attempt \in Nat BY <2>1, <3>2, JobTypes, Basics
    <3>6. rows[j][s].attempt # wk[w].mem.attempt BY <3>4, <3>5
    <3> QED BY <3>1, <3>6 DEF Works, KeyFree
  <2>2. StageKeysFresh BY <2>1 DEF StageKeysFresh
  <2>3. \A j \in Jobs : StageInv(j) BY DEF RunsInv, JobInv
  <2> QED BY <2>2, <2>3 DEF OutcomesAreBacked, StageInv, Built
<1> QED BY <1>1, WholeInductive, PTL

\* Until then a completed job is finished in every table, and a request that is
\* marked fulfilled was answered at its own attempt or a later one.
THEOREM CompletionSettles == Spec => [](LeasesHold => CompletedIsSettled)
<1>1. WholeInv => (LeasesHold => CompletedIsSettled)
  <2> SUFFICES ASSUME TypeInv, FreshKeys, RunsInv PROVE CompletedIsSettled
    BY DEF WholeInv, HeldInv
  <2>1. \A j \in Jobs : StageInv(j) /\ RequestInv(j) /\ SettledInv(j) BY DEF RunsInv, JobInv
  <2>2. FulfilledMeansDone BY <2>1 DEF FulfilledMeansDone, RequestInv
  <2>3. ASSUME NEW j \in Jobs, db[j].state = "completed"
        PROVE  /\ snapshot[j] = "complete" /\ db[j].error = "none"
               /\ db[j].owner = Nobody /\ ~db[j].live
               /\ \A s \in RequiredStages : rows[j][s].status # "running"
               /\ product[j]["investigation_grouping"] > 0 => ~ungrouped[j]
               /\ \A q \in requests[j] : ~q.fulfilled =>
                      \/ q.kind = "plain"
                      \/ q.kind = "refresh" /\ ~Succeeded(j, "analytics")
    <3>1. ASSUME NEW q \in requests[j], ~q.fulfilled
          PROVE  q.kind = "plain" \/ (q.kind = "refresh" /\ ~Succeeded(j, "analytics"))
      <4>1. q.kind \in {"plain", "refresh", "group"} BY JobTypes DEF RequestRows
      <4>2. q.kind # "group" BY <2>1, <2>3, <3>1 DEF SettledInv, Unmet
      <4>3. q.kind = "refresh" => ~Succeeded(j, "analytics") BY <2>1, <2>3, <3>1 DEF RequestInv, Unmet
      <4> QED BY <4>1, <4>2, <4>3
    <3> QED BY <2>1, <2>3, <3>1 DEF SettledInv, Terminal
  <2> QED BY <2>2, <2>3 DEF CompletedIsSettled
<1> QED BY <1>1, WholeInductive, PTL

-----------------------------------------------------------------------------
(* What each step does to the jobs and the requests, as a client sees it.  *)

Status(j) ==
    CASE db[j].state = "queued" -> "waiting"
      [] db[j].state \in Leased -> "working"
      [] OTHER -> db[j].state

Owed(j) ==
    {[kind |-> q.kind, no |-> q.attempt] : q \in {r \in requests[j] : ~r.fulfilled /\ r.kind # "plain"}}

OthersKept(j) == \A i \in Jobs \ {j} : db'[i] = db[i] /\ requests'[i] = requests[i]

\* A worker's commit on a job it has leased.
Turn(j) ==
    /\ db[j].state \in Leased /\ OthersKept(j)
    /\ \/ db'[j].state \in Leased /\ Owed(j)' \subseteq Owed(j)
       \/ db'[j].state = "completed" /\ Owed(j)' \subseteq {d \in Owed(j) : d.kind # "group"}
       \/ db'[j].state = "failed" /\ Owed(j)' = Owed(j)

\* A claim, or time that passes for an active job.
Taking(j) ==
    /\ db[j].state \in Active /\ OthersKept(j) /\ requests'[j] = requests[j]
    /\ db'[j].state = "running" \/ db'[j].state = db[j].state

Asking(chosen, kind) ==
    /\ chosen # {}
    /\ \A j \in chosen : db[j].state \in Terminal
    /\ \A j \in Jobs : /\ requests'[j] = IF j \in chosen
                           THEN requests[j] \cup {NewRequest(db[j].attempt + 1, kind)} ELSE requests[j]
                       /\ db'[j] = IF j \in chosen THEN Requeue(db[j]) ELSE db[j]

LEMMA OwedKept == ASSUME NEW j \in Jobs, requests'[j] = requests[j] PROVE Owed(j)' = Owed(j)
  BY DEF Owed

\* Requests that are fulfilled leave what is owed, and no other does.
LEMMA OwedShrinks ==
    ASSUME TypeInv, NEW j \in Jobs, NEW x,
           requests'[j] = FulfilGrouping(j, x) \/ requests'[j] = FulfilRefresh(j, x)
    PROVE  Owed(j)' \subseteq Owed(j)
<1> SUFFICES ASSUME NEW q \in requests'[j], ~q.fulfilled PROVE q \in requests[j]
  BY DEF Owed
<1>1. PICK p \in requests[j] : q = p \/ q = [p EXCEPT !.fulfilled = TRUE]
  BY DEF FulfilGrouping, FulfilRefresh
<1>2. p \in RequestRows BY JobTypes
<1> QED BY <1>1, <1>2 DEF RequestRows

LEMMA SaveTurn ==
    ASSUME TypeInv, NEW w \in Workers, NEW j \in Jobs, wk[w].phase # "idle", Works(w, j),
           NEW new \in MemRow, new.attempt = wk[w].mem.attempt, new.state \in Leased, NEW alive,
           SaveJob(w, new, alive), requests' = requests
    PROVE  Turn(j)
<1>1. wk[w].job = j /\ wk[w].mem = Columns(db[j]) /\ db[j].state \in Leased BY DEF Works, WorkerInv, RowInv
<1>2. db'[j].state = new.state /\ \A i \in Jobs \ {j} : db'[i] = db[i] BY <1>1, Saved
<1>3. Owed(j)' = Owed(j) BY OwedKept
<1> QED BY <1>1, <1>2, <1>3 DEF Turn, OthersKept

LEMMA EnterTurn ==
    ASSUME TypeInv, NEW w \in Workers, NEW j \in Jobs, wk[w].phase # "idle", Works(w, j),
           NEW s \in Stages, Enter(w, s), requests' = requests
    PROVE  Turn(j)
<1>1. PICK new : new = [wk[w].mem EXCEPT !.stage = s] /\ SaveJob(w, new, TRUE) BY DEF Enter
<1>2. PICK alive : alive = TRUE /\ SaveJob(w, new, alive) BY <1>1
<1>3. /\ wk[w].mem \in MemRow /\ wk[w].mem.state = db[j].state /\ db[j].state \in Leased
  BY Basics DEF Works, WorkerInv, RowInv, Columns
<1>4. new \in MemRow /\ new.attempt = wk[w].mem.attempt /\ new.state \in Leased
  BY <1>1, <1>3 DEF MemRow, StageNames
<1> QED BY <1>2, <1>4, SaveTurn

LEMMA CompletionTurn ==
    ASSUME TypeInv, NEW w \in Workers, NEW j \in Jobs, wk[w].phase # "idle", Works(w, j), CompletedJob(w),
           Unmet(requests'[j], "group") = {}, Owed(j)' \subseteq Owed(j),
           \A i \in Jobs \ {j} : requests'[i] = requests[i]
    PROVE  Turn(j)
<1>1. db'[j].state = "completed" /\ \A i \in Jobs \ {j} : db'[i] = db[i] BY Completed
<1>2. \A d \in Owed(j)' : d.kind # "group" BY DEF Owed, Unmet
<1>3. db[j].state \in Leased BY DEF Works
<1> QED BY <1>1, <1>2, <1>3 DEF Turn, OthersKept

LEMMA RunTurn ==
    ASSUME TypeInv, LeaseInv, FreshKeys, RunsInv, NEW w \in Workers, FullRun(w) \/ StartRegrouping(w)
    PROVE  UNCHANGED <<db, requests>> \/ \E j \in Jobs : Turn(j)
<1>1. CASE \/ FinishIngest(w) \/ Score(w) \/ SkipScoring(w) \/ FinishScoring(w) \/ AnalyticsFails(w)
           \/ ReportCoverage(w) \/ CloseRow(w) \/ ReuseRow(w) \/ OpenRow(w)
  BY <1>1 DEF FinishIngest, Score, SkipScoring, FinishScoring, AnalyticsFails, ReportCoverage, CloseRow,
              ReuseRow, OpenRow, dbVars
<1>2. CASE \/ EnterGraph(w) \/ EnterAnalytics(w) \/ EnterGrouping(w)
           \/ BuildAndEnter(w, "graph_building", "findings") \/ BuildAndEnter(w, "findings", "ml_scoring")
  <2>1. PICK s \in Stages : Enter(w, s)
    BY <1>2, StageNamesDistinct DEF EnterGraph, EnterAnalytics, EnterGrouping, BuildAndEnter
  <2>2. requests' = requests /\ wk[w].phase \notin Failing \cup {"idle"}
    BY <1>2 DEF EnterGraph, EnterAnalytics, EnterGrouping, BuildAndEnter, In, Failing
  <2>3. PICK j \in Jobs : Works(w, j) BY <2>2, Start
  <2> QED BY <2>1, <2>2, <2>3, EnterTurn
<1>3. CASE BeginIngest(w) \/ CommitBatch(w) \/ StartRegrouping(w)
  <2>1. wk[w].phase \notin Failing \cup {"idle"} /\ requests' = requests
    BY <1>3 DEF BeginIngest, CommitBatch, StartRegrouping, In, Failing
  <2>2. PICK j \in Jobs : Works(w, j) BY <2>1, Start
  <2>3. wk[w].mem \in MemRow /\ wk[w].mem.state \in Leased
    BY <2>1, <2>2, Basics DEF Works, WorkerInv, RowInv, Columns
  <2>4. PICK new, alive : /\ SaveJob(w, new, alive)
                          /\ \/ new = [wk[w].mem EXCEPT !.state = "running", !.stage = "ingesting"]
                             \/ new = [wk[w].mem EXCEPT !.state = "checkpointed", !.stage = "ingesting"]
                             \/ new = [wk[w].mem EXCEPT !.stage = "investigation_grouping"]
    BY <1>3 DEF BeginIngest, CommitBatch, StartRegrouping
  <2>5. new \in MemRow /\ new.attempt = wk[w].mem.attempt /\ new.state \in Leased
    BY <2>3, <2>4 DEF MemRow, Leased, States, Active, StageNames, Stages, RequiredStages
  <2> QED BY <2>1, <2>2, <2>4, <2>5, SaveTurn
<1>4. CASE Analyze(w)
  <2>1. PICK j \in Jobs : Works(w, j) BY <1>4, Start DEF Analyze, In, Failing
  <2>2. db' = db /\ requests' = [requests EXCEPT ![j] = FulfilRefresh(j, wk[w].wanted)] /\ db[j].state \in Leased
    BY <1>4, <2>1 DEF Analyze, Works
  <2>3. requests'[j] = FulfilRefresh(j, wk[w].wanted) /\ \A i \in Jobs \ {j} : requests'[i] = requests[i]
    BY <2>2 DEF TypeInv, TypeOK
  <2>4. Owed(j)' \subseteq Owed(j) BY <2>3, OwedShrinks
  <2> QED BY <2>2, <2>3, <2>4 DEF Turn, OthersKept
<1> QED BY <1>1, <1>2, <1>3, <1>4 DEF FullRun

LEMMA GroupingTurn ==
    ASSUME TypeInv, LeaseInv, FreshKeys, RunsInv, NEW w \in Workers, GroupingRun(w)
    PROVE  UNCHANGED <<db, requests>> \/ \E j \in Jobs : Turn(j)
<1>1. CASE LoseLease(w) BY <1>1 DEF LoseLease, dbVars
<1>2. CASE StartGrouping(w)
  <2>1. PICK j \in Jobs : Works(w, j) BY <1>2, Start DEF StartGrouping, Failing
  <2>2. db' = [db EXCEPT ![j].live = @ \/ SideChannel] /\ requests' = requests
    BY <1>2, <2>1 DEF StartGrouping, Works
  <2>3. db \in [Jobs -> JobRow] /\ db[j] \in JobRow BY DEF TypeInv, TypeOK
  <2>4. db'[j].state = db[j].state /\ \A i \in Jobs \ {j} : db'[i] = db[i] BY <2>2, <2>3 DEF JobRow
  <2>5. Owed(j)' = Owed(j) BY <2>2, OwedKept
  <2> QED BY <2>1, <2>2, <2>4, <2>5 DEF Turn, OthersKept, Works
<1>3. CASE CompleteImport(w)
  <2>1. PICK j \in Jobs : Works(w, j) BY <1>3, Start DEF CompleteImport, Failing
  <2>2. wk[w].phase = "complete" /\ wk[w].phase # "idle" /\ CompletedJob(w) /\ requests' = requests
    BY <1>3 DEF CompleteImport
  <2>3. Unmet(requests[j], "group") = {} BY <2>1, <2>2 DEF Works, WorkerInv, RunInv
  <2>4. Owed(j)' = Owed(j) BY <2>2, OwedKept
  <2> QED BY <2>1, <2>2, <2>3, <2>4, CompletionTurn
<1>4. CASE PublishGroups(w) \/ PublishAndComplete(w) \/ RegroupAndComplete(w)
  <2>1. wk[w].phase = "grouping" /\ wk[w].phase \notin Failing \cup {"idle"} /\ Published(w)
        /\ (db' = db \/ CompletedJob(w))
    BY <1>4 DEF PublishGroups, PublishAndComplete, RegroupAndComplete, In, Failing
  <2>2. PICK j \in Jobs : Works(w, j) BY <2>1, Start
  <2>3. Unmet(requests'[j], "group") = {} /\ \A i \in Jobs \ {j} : requests'[i] = requests[i]
    BY <2>1, <2>2, PublishedGroups
  <2>4. requests' = [requests EXCEPT ![j] = FulfilGrouping(j, wk[w].mem.attempt)]
    BY <2>1, <2>2 DEF Published, Works
  <2>5. requests'[j] = FulfilGrouping(j, wk[w].mem.attempt) BY <2>4 DEF TypeInv, TypeOK
  <2>6. Owed(j)' \subseteq Owed(j) BY <2>5, OwedShrinks
  <2>7. CASE db' = db BY <2>2, <2>3, <2>6, <2>7 DEF Turn, OthersKept, Works
  <2>8. CASE CompletedJob(w) BY <2>1, <2>2, <2>3, <2>6, <2>8, CompletionTurn
  <2> QED BY <2>1, <2>7, <2>8
<1> QED BY <1>1, <1>2, <1>3, <1>4 DEF GroupingRun

LEMMA HandlerTurn ==
    ASSUME TypeInv, NEW w \in Workers, Handler(w)
    PROVE  UNCHANGED <<db, requests>> \/ \E j \in Jobs : Turn(j)
<1>1. CASE DuplicateKey(w) \/ Abandon(w) BY <1>1 DEF DuplicateKey, Abandon, dbVars
<1>2. CASE RetryOnce(w) \/ FailJob(w)
  <2>1. PICK j \in Jobs : wk[w].job = j BY <1>2, BusyHasJob DEF RetryOnce, MayRetry, FailJob, Failing
  <2>2. db[j].state \in Leased /\ requests' = requests BY <1>2, <2>1 DEF RetryOnce, FailJob, Owned
  <2>3. db \in [Jobs -> JobRow] /\ db[j] \in JobRow BY DEF TypeInv, TypeOK
  <2>4. CASE RetryOnce(w)
    <3>1. db' = [db EXCEPT ![j] = Retried(db[j])] BY <2>1, <2>4 DEF RetryOnce
    <3>2. db'[j].state = "running" /\ \A i \in Jobs \ {j} : db'[i] = db[i] BY <2>3, <3>1 DEF Retried, JobRow
    <3> QED BY <2>2, <3>2, OwedKept DEF Turn, OthersKept, Leased
  <2>5. CASE FailJob(w)
    <3> DEFINE d == [db[j] EXCEPT
                       !.state = "failed", !.stage = "failed", !.owner = Nobody, !.live = FALSE,
                       !.error = IF db[j].stage = "source_verification" THEN "SOURCE_VERIFICATION_FAILED"
                                 ELSE "ANALYSIS_STAGE_FAILED"]
    <3>1. db' = [db EXCEPT ![j] = d] BY <2>1, <2>5 DEF FailJob
    <3>2. d.state = "failed" BY <2>3 DEF JobRow
    <3> HIDE DEF d
    <3>3. db'[j].state = "failed" /\ \A i \in Jobs \ {j} : db'[i] = db[i] BY <2>3, <3>1, <3>2
    <3> QED BY <2>2, <3>3, OwedKept DEF Turn, OthersKept
  <2> QED BY <1>2, <2>4, <2>5
<1> QED BY <1>1, <1>2 DEF Handler

LEMMA ApiAsks ==
    ASSUME TypeInv, Api
    PROVE  \E chosen \in SUBSET Jobs, kind \in {"plain", "refresh", "group"} : Asking(chosen, kind)
<1>1. ASSUME NEW j \in Jobs, NEW kind \in {"plain", "refresh"}, RetryAnalysis(j, kind)
      PROVE  Asking({j}, kind)
  BY <1>1 DEF RetryAnalysis, Asking, TypeInv, TypeOK
<1>2. ASSUME BuildQueue PROVE Asking({j \in Jobs : Regroupable(j)}, "group")
  BY <1>2 DEF BuildQueue, Asking, Regroupable, Terminal
<1>3. CASE BuildQueue
  <2>1. {j \in Jobs : Regroupable(j)} \in SUBSET Jobs OBVIOUS
  <2> QED BY <1>2, <1>3, <2>1
<1>4. CASE \E j \in Jobs, kind \in {"plain", "refresh"} : RetryAnalysis(j, kind)
  <2>1. PICK j \in Jobs, kind \in {"plain", "refresh"} : RetryAnalysis(j, kind) BY <1>4
  <2>2. {j} \in SUBSET Jobs /\ kind \in {"plain", "refresh", "group"} BY <2>1
  <2> QED BY <1>1, <2>1, <2>2
<1> QED BY <1>3, <1>4 DEF Api

\* All a client can see of a step.
LEMMA ClientSteps ==
    ASSUME TypeInv, LeaseInv, FreshKeys, RunsInv, [Next]_vars
    PROVE  \/ UNCHANGED <<db, requests>>
           \/ \E j \in Jobs : Turn(j) \/ Taking(j)
           \/ \E chosen \in SUBSET Jobs, kind \in {"plain", "refresh", "group"} : Asking(chosen, kind)
<1>1. CASE UNCHANGED vars BY <1>1 DEF vars, dbVars
<1>2. CASE Api BY <1>2, ApiAsks
<1>3. \A i \in Jobs : db[i] \in JobRow /\ db \in [Jobs -> JobRow] BY DEF TypeInv, TypeOK
<1>4. ASSUME NEW j \in Jobs, LapseLease(j) PROVE Taking(j)
  <2>1. db' = [db EXCEPT ![j].live = FALSE] /\ requests' = requests /\ db[j].live BY <1>4 DEF LapseLease
  <2>2. db'[j].state = db[j].state /\ \A i \in Jobs \ {j} : db'[i] = db[i] BY <1>3, <2>1 DEF JobRow
  <2>3. db[j].state \notin Terminal BY <2>1 DEF RunsInv, JobInv, SettledInv
  <2>4. db[j].state \in Active BY <1>3, <2>3 DEF JobRow, States
  <2> QED BY <2>1, <2>2, <2>4 DEF Taking, OthersKept
<1>5. ASSUME NEW w \in Workers, NEW j \in Jobs, Claim(w, j) PROVE Taking(j)
  <2>1. db' = [db EXCEPT ![j] = Taken(db[j], w)] /\ requests' = requests /\ Claimable(j) BY <1>5 DEF Claim
  <2>2. db'[j].state = "running" /\ \A i \in Jobs \ {j} : db'[i] = db[i] BY <1>3, <2>1 DEF JobRow, Taken
  <2> QED BY <2>1, <2>2 DEF Taking, OthersKept, Claimable, Active
<1>6. ASSUME NEW w \in Workers, RenewLease(w) PROVE Taking(wk[w].job) /\ wk[w].job \in Jobs
  <2>1. PICK j \in Jobs : wk[w].job = j BY <1>6, BusyHasJob DEF RenewLease
  <2>2. db' = [db EXCEPT ![j].live = TRUE] /\ requests' = requests /\ db[j].state \in Leased
    BY <1>6, <2>1 DEF RenewLease, StillMine
  <2>3. db'[j].state = db[j].state /\ \A i \in Jobs \ {j} : db'[i] = db[i] BY <1>3, <2>2 DEF JobRow
  <2> QED BY <2>1, <2>2, <2>3 DEF Taking, OthersKept, Active
<1>7. ASSUME NEW w \in Workers, Choose(w)
      PROVE  UNCHANGED <<db, requests>> \/ \E j \in Jobs : Turn(j)
  BY <1>7, RunTurn DEF Choose, OpenVerification, VerifySource, RefuseRegrouping, StartImport, dbVars
<1>8. ASSUME NEW w \in Workers, Crash(w) \/ \E kind \in Failing : Raise(w, kind)
      PROVE  UNCHANGED <<db, requests>>
  BY <1>8 DEF Crash, Raise, dbVars
<1> QED BY <1>1, <1>2, <1>4, <1>5, <1>6, <1>7, <1>8, RunTurn, GroupingTurn, HandlerTurn DEF Next, Work

\* Until a lease lapses under a running worker, a settled job changes only when
\* the API reopens it, and the request that reopened it is there.
THEOREM SettledStays == Spec /\ []LeasesHold => SettledStaysSettled
<1> DEFINE Stays == \A j \in Jobs : db[j].state \in Terminal =>
                        \/ db'[j] = db[j]
                        \/ /\ db'[j].state = "queued"
                           /\ \E q \in requests'[j] : q.attempt = db[j].attempt + 1 /\ ~q.fulfilled
<1>1. WholeInv /\ LeasesHold /\ [Next]_vars => Stays
  <2> SUFFICES ASSUME TypeInv, LeaseInv, FreshKeys, RunsInv, [Next]_vars,
                      NEW j \in Jobs, db[j].state \in Terminal
               PROVE  \/ db'[j] = db[j]
                      \/ /\ db'[j].state = "queued"
                         /\ \E q \in requests'[j] : q.attempt = db[j].attempt + 1 /\ ~q.fulfilled
    BY DEF WholeInv, HeldInv
  <2>1. CASE UNCHANGED <<db, requests>> BY <2>1
  <2>2. ASSUME NEW i \in Jobs, Turn(i) \/ Taking(i) PROVE db'[j] = db[j]
    <3>1. db[i].state \in Active /\ OthersKept(i) BY <2>2 DEF Turn, Taking, Active
    <3>2. i # j BY <3>1 DEF Active, Leased, Terminal
    <3> QED BY <3>1, <3>2 DEF OthersKept
  <2>3. ASSUME NEW chosen \in SUBSET Jobs, NEW kind \in {"plain", "refresh", "group"}, Asking(chosen, kind),
               j \in chosen
        PROVE  /\ db'[j].state = "queued"
               /\ \E q \in requests'[j] : q.attempt = db[j].attempt + 1 /\ ~q.fulfilled
    <3>1. db[j] \in JobRow BY JobTypes
    <3>2. db'[j] = Requeue(db[j]) /\ NewRequest(db[j].attempt + 1, kind) \in requests'[j] BY <2>3 DEF Asking
    <3> QED BY <3>1, <3>2 DEF Requeue, NewRequest, JobRow
  <2>4. ASSUME NEW chosen \in SUBSET Jobs, NEW kind \in {"plain", "refresh", "group"}, Asking(chosen, kind),
               j \notin chosen
        PROVE  db'[j] = db[j]
    BY <2>4 DEF Asking
  <2> QED BY <2>1, <2>2, <2>3, <2>4, ClientSteps
<1>2. SettledStaysSettled <=> [][Stays]_vars BY DEF SettledStaysSettled
<1> HIDE DEF Stays
<1> QED BY <1>1, <1>2, WholeInductive, PTL DEF Spec

\* The promise's view of a state.
LEMMA PromiseView ==
    /\ Promise!promiseVars = <<[j \in Jobs |-> Status(j)], [j \in Jobs |-> Owed(j)]>>
    /\ Promise!promiseVars' = <<[j \in Jobs |-> Status(j)'], [j \in Jobs |-> Owed(j)']>>
  BY DEF Promise!promiseVars, Status, Owed

\* A step of one import in the client's view.
LEMMA PromiseStep ==
    ASSUME NEW j \in Jobs,
           \A i \in Jobs \ {j} : Status(i)' = Status(i) /\ Owed(i)' = Owed(i),
           \/ Status(j)' = Status(j) /\ Owed(j)' = Owed(j)
           \/ Status(j) = "waiting" /\ Status(j)' = "working" /\ Owed(j)' = Owed(j)
           \/ Status(j) = "working" /\ Status(j)' = "working" /\ Owed(j)' \subseteq Owed(j)
           \/ /\ Status(j) = "working" /\ Status(j)' = "completed"
              /\ Owed(j)' \subseteq {d \in Owed(j) : d.kind # "group"}
           \/ Status(j) = "working" /\ Status(j)' = "failed" /\ Owed(j)' = Owed(j)
    PROVE  [Promise!PromiseNext]_(Promise!promiseVars)
<1> DEFINE S == [i \in Jobs |-> Status(i)]
           O == [i \in Jobs |-> Owed(i)]
<1>1. S' = [S EXCEPT ![j] = Status(j)'] /\ O' = [O EXCEPT ![j] = Owed(j)'] OBVIOUS
<1>2. S[j] = Status(j) /\ O[j] = Owed(j) OBVIOUS
<1>3. /\ Status(j)' = Status(j) => S' = S
      /\ Owed(j)' = Owed(j) => O' = O
  OBVIOUS
<1>4. /\ Promise!promiseVars = <<S, O>> /\ Promise!promiseVars' = <<S', O'>>
      /\ Promise!Take(j) <=> (S[j] = "waiting" /\ S' = [S EXCEPT ![j] = "working"] /\ O' = O)
      /\ Promise!Honour(j) <=>
             (S[j] = "working" /\ (\E left \in SUBSET O[j] : O' = [O EXCEPT ![j] = left]) /\ S' = S)
      /\ Promise!Complete(j) <=>
             (/\ S[j] = "working" /\ S' = [S EXCEPT ![j] = "completed"]
              /\ \E left \in SUBSET {d \in O[j] : d.kind # "group"} : O' = [O EXCEPT ![j] = left])
      /\ Promise!Fail(j) <=> (S[j] = "working" /\ S' = [S EXCEPT ![j] = "failed"] /\ O' = O)
  BY DEF Promise!promiseVars, Promise!Take, Promise!Honour, Promise!Complete, Promise!Fail, Status, Owed
<1> HIDE DEF S, O
<1>5. Promise!Take(j) \/ Promise!Honour(j) \/ Promise!Complete(j) \/ Promise!Fail(j) => Promise!PromiseNext
  BY DEF Promise!PromiseNext
<1>6. CASE Status(j)' = Status(j) /\ Owed(j)' = Owed(j) BY <1>3, <1>4, <1>6
<1>7. CASE Status(j) = "waiting" /\ Status(j)' = "working" /\ Owed(j)' = Owed(j)
  BY <1>1, <1>2, <1>3, <1>4, <1>5, <1>7
<1>8. CASE Status(j) = "working" /\ Status(j)' = "working" /\ Owed(j)' \subseteq Owed(j)
  BY <1>1, <1>2, <1>3, <1>4, <1>5, <1>8
<1>9. CASE /\ Status(j) = "working" /\ Status(j)' = "completed"
           /\ Owed(j)' \subseteq {d \in Owed(j) : d.kind # "group"}
  BY <1>1, <1>2, <1>4, <1>5, <1>9
<1>10. CASE Status(j) = "working" /\ Status(j)' = "failed" /\ Owed(j)' = Owed(j)
  BY <1>1, <1>2, <1>3, <1>4, <1>5, <1>10
<1> QED BY <1>6, <1>7, <1>8, <1>9, <1>10

LEMMA PromiseAsked ==
    ASSUME TypeInv, NEW chosen \in SUBSET Jobs, NEW kind \in {"plain", "refresh", "group"}, Asking(chosen, kind)
    PROVE  Promise!PromiseNext
<1> DEFINE S == [i \in Jobs |-> Status(i)]
           O == [i \in Jobs |-> Owed(i)]
<1>1. Promise!Ask <=>
          \E asked \in SUBSET Jobs :
              /\ asked # {}
              /\ \A i \in asked : S[i] \in {"completed", "failed"}
              /\ S' = [i \in Jobs |-> IF i \in asked THEN "waiting" ELSE S[i]]
              /\ DOMAIN O' = Jobs
              /\ \A i \in Jobs :
                     /\ O[i] \subseteq O'[i]
                     /\ i \notin asked => O'[i] = O[i]
                     /\ \A d, e \in O'[i] \ O[i] : d = e /\ d.kind \in {"refresh", "group"}
  BY DEF Promise!Ask, Promise!Settled, Status, Owed
<1>2. DOMAIN O' = Jobs /\ \A i \in Jobs : S[i] = Status(i) /\ O[i] = Owed(i) /\ O'[i] = Owed(i)'
  OBVIOUS
<1>3. ASSUME NEW i \in Jobs, i \notin chosen PROVE Status(i)' = Status(i) /\ Owed(i)' = Owed(i)
  <2>1. db'[i] = db[i] /\ requests'[i] = requests[i] BY <1>3 DEF Asking
  <2> QED BY <2>1 DEF Status, Owed
<1>4. ASSUME NEW i \in chosen
      PROVE  /\ Status(i) \in {"completed", "failed"} /\ Status(i)' = "waiting"
             /\ Owed(i) \subseteq Owed(i)'
             /\ \A d, e \in Owed(i)' \ Owed(i) : d = e /\ d.kind \in {"refresh", "group"}
  <2> DEFINE new == NewRequest(db[i].attempt + 1, kind)
  <2>1. i \in Jobs /\ db[i] \in JobRow BY JobTypes
  <2>2. /\ db[i].state \in Terminal /\ db'[i] = Requeue(db[i])
        /\ requests'[i] = requests[i] \cup {new}
    BY <1>4, <2>1 DEF Asking
  <2>3. db'[i].state = "queued" BY <2>1, <2>2 DEF Requeue, JobRow
  <2>4. new.kind = kind BY DEF NewRequest
  <2> HIDE DEF new
  <2>5. Status(i) \in {"completed", "failed"} /\ Status(i)' = "waiting"
    BY <2>2, <2>3 DEF Status, Terminal, Leased
  <2>6. Owed(i) \subseteq Owed(i)' BY <2>2 DEF Owed
  <2>7. \A d \in Owed(i)' \ Owed(i) : d = [kind |-> new.kind, no |-> new.attempt] /\ new.kind # "plain"
    BY <2>2 DEF Owed
  <2>8. \A d \in Owed(i)' \ Owed(i) : d.kind \in {"refresh", "group"} BY <2>4, <2>7
  <2> QED BY <2>5, <2>6, <2>7, <2>8
<1>5. S' = [i \in Jobs |-> IF i \in chosen THEN "waiting" ELSE S[i]] BY <1>2, <1>3, <1>4
<1> HIDE DEF S, O
<1>6. \A i \in Jobs :
          /\ O[i] \subseteq O'[i]
          /\ i \notin chosen => O'[i] = O[i]
          /\ \A d, e \in O'[i] \ O[i] : d = e /\ d.kind \in {"refresh", "group"}
  BY <1>2, <1>3, <1>4
<1>7. chosen # {} /\ \A i \in chosen : S[i] \in {"completed", "failed"} BY <1>2, <1>4 DEF Asking
<1>8. Promise!Ask BY <1>1, <1>2, <1>5, <1>6, <1>7
<1> QED BY <1>8 DEF Promise!PromiseNext

\* Until a lease lapses under a running worker, the API, the workers and the
\* lease keep the promise made to clients: no import is settled unless it was
\* taken, none is reopened without a request, and no intent is dropped by a
\* crash, a retry or a reclaim.
THEOREM PromiseIsKept == Spec /\ []LeasesHold => PromiseKept
<1>1. Init => Promise!PromiseInit
  <2> SUFFICES ASSUME Init PROVE Promise!PromiseInit OBVIOUS
  <2>1. Promise!PromiseInit <=>
            /\ [i \in Jobs |-> Status(i)] \in [Jobs -> {"waiting", "completed"}]
            /\ [i \in Jobs |-> Owed(i)] = [i \in Jobs |-> {}]
    BY DEF Promise!PromiseInit, Status, Owed
  <2>2. \A j \in Jobs : requests[j] = {} /\ db[j].state \in {"queued", "completed"}
    BY DEF Init, Fresh, Legacy
  <2>3. \A j \in Jobs : Owed(j) = {} BY <2>2 DEF Owed
  <2>4. \A j \in Jobs : Status(j) \in {"waiting", "completed"} BY <2>2 DEF Status, Leased
  <2> QED BY <2>1, <2>3, <2>4
<1>2. WholeInv /\ LeasesHold /\ [Next]_vars => [Promise!PromiseNext]_(Promise!promiseVars)
  <2> SUFFICES ASSUME TypeInv, LeaseInv, FreshKeys, RunsInv, [Next]_vars
               PROVE  [Promise!PromiseNext]_(Promise!promiseVars)
    BY DEF WholeInv, HeldInv
  <2>1. CASE UNCHANGED <<db, requests>>
    <3>1. \A j \in Jobs : Status(j)' = Status(j) /\ Owed(j)' = Owed(j) BY <2>1 DEF Status, Owed
    <3> QED BY <3>1, PromiseView
  <2>2. ASSUME NEW j \in Jobs, OthersKept(j)
        PROVE  \A i \in Jobs \ {j} : Status(i)' = Status(i) /\ Owed(i)' = Owed(i)
    BY <2>2 DEF OthersKept, Status, Owed
  <2>3. ASSUME NEW j \in Jobs, Turn(j) PROVE [Promise!PromiseNext]_(Promise!promiseVars)
    <3>1. Status(j) = "working" BY <2>3 DEF Turn, Status, Leased
    <3>2. CASE db'[j].state \in Leased /\ Owed(j)' \subseteq Owed(j)
      <4>1. Status(j)' = "working" BY <3>2 DEF Status, Leased
      <4> QED BY <2>2, <2>3, <3>1, <3>2, <4>1, PromiseStep DEF Turn
    <3>3. CASE db'[j].state = "completed" /\ Owed(j)' \subseteq {d \in Owed(j) : d.kind # "group"}
      <4>1. Status(j)' = "completed" BY <3>3 DEF Status, Leased
      <4> QED BY <2>2, <2>3, <3>1, <3>3, <4>1, PromiseStep DEF Turn
    <3>4. CASE db'[j].state = "failed" /\ Owed(j)' = Owed(j)
      <4>1. Status(j)' = "failed" BY <3>4 DEF Status, Leased
      <4> QED BY <2>2, <2>3, <3>1, <3>4, <4>1, PromiseStep DEF Turn
    <3> QED BY <2>3, <3>2, <3>3, <3>4 DEF Turn
  <2>4. ASSUME NEW j \in Jobs, Taking(j) PROVE [Promise!PromiseNext]_(Promise!promiseVars)
    <3>1. Owed(j)' = Owed(j) BY <2>4, OwedKept DEF Taking
    <3>2. Status(j) \in {"waiting", "working"} BY <2>4 DEF Taking, Status, Active
    <3>3. Status(j)' = Status(j) \/ Status(j)' = "working" BY <2>4 DEF Taking, Status, Leased
    <3> QED BY <2>2, <2>4, <3>1, <3>2, <3>3, PromiseStep DEF Taking
  <2>5. ASSUME NEW chosen \in SUBSET Jobs, NEW kind \in {"plain", "refresh", "group"}, Asking(chosen, kind)
        PROVE  Promise!PromiseNext
    BY <2>5, PromiseAsked
  <2> QED BY <2>1, <2>3, <2>4, <2>5, ClientSteps
<1> QED BY <1>1, <1>2, WholeInductive, PTL DEF Spec, PromiseKept, Promise!PromiseSpec

-----------------------------------------------------------------------------
(* The attempt counter, whatever lapses: a stale worker included.          *)

\* No stage row and no worker's copy is ahead of the counter.
CountInv ==
    /\ \A j \in Jobs, s \in Stages : rows[j][s].attempt <= db[j].attempt
    /\ \A w \in Workers : wk[w].phase # "idle" => wk[w].mem.attempt <= db[wk[w].job].attempt

CounterKept == \A i \in Jobs : db'[i].attempt = db[i].attempt
RowsCounted == \A i \in Jobs, s \in Stages : rows'[i][s].attempt <= db[i].attempt
CopyCounted(w) ==
    /\ \A v \in Workers \ {w} : wk'[v] = wk[v]
    /\ wk'[w].phase # "idle" =>
           wk'[w].job = wk[w].job /\ wk'[w].mem.attempt <= db[wk[w].job].attempt

LEMMA CountedSave ==
    ASSUME TypeInv, NEW w \in Workers, wk[w].phase # "idle", NEW new, NEW alive,
           SaveJob(w, new, alive), new.attempt = wk[w].mem.attempt
    PROVE  CounterKept
<1>1. PICK j \in Jobs : wk[w].job = j BY BusyHasJob
<1>2. db \in [Jobs -> JobRow] /\ db[j] \in JobRow BY DEF TypeInv, TypeOK
<1> DEFINE m == Merge(db[j], wk[w].mem, new)
<1>3. m.attempt = db[j].attempt /\ DOMAIN m = DOMAIN db[j] BY <1>2 DEF Merge, JobRow
<1>4. db' = [db EXCEPT ![j] = [m EXCEPT !.live = alive]] BY <1>1 DEF SaveJob
<1> HIDE DEF m
<1>5. [m EXCEPT !.live = alive].attempt = m.attempt BY <1>2, <1>3 DEF JobRow
<1> QED BY <1>2, <1>3, <1>4, <1>5 DEF CounterKept

LEMMA CountedRows ==
    ASSUME TypeInv, CountInv, NEW w \in Workers, wk[w].phase # "idle",
           \/ rows' = rows
           \/ \E s \in Stages : OpenedRow(w, s)
           \/ \E status \in {"ok", "failed"} : ClosedRow(w, status)
           \/ rows' = [rows EXCEPT ![wk[w].job] = FailRunning(wk[w].job)]
    PROVE  RowsCounted
<1>1. PICK j \in Jobs : wk[w].job = j BY BusyHasJob
<1>2. rows \in [Jobs -> [Stages -> StageRows]] /\ rows[j] \in [Stages -> StageRows]
  BY DEF TypeInv, TypeOK
<1>3. wk[w].mem.attempt <= db[j].attempt BY <1>1 DEF CountInv
<1>4. CASE rows' = rows BY <1>4 DEF CountInv, RowsCounted
<1>5. CASE \E s \in Stages : OpenedRow(w, s)
  <2>1. PICK s \in Stages : rows' = [rows EXCEPT ![j] = WithRow(j, s, wk[w].mem.attempt)]
    BY <1>1, <1>5 DEF OpenedRow
  <2>2. \A x \in Stages : \/ WithRow(j, s, wk[w].mem.attempt)[x] = rows[j][x]
                          \/ WithRow(j, s, wk[w].mem.attempt)[x].attempt = wk[w].mem.attempt
    BY <1>2 DEF WithRow
  <2> QED BY <1>2, <1>3, <2>1, <2>2 DEF CountInv, RowsCounted
<1>6. CASE \/ \E status \in {"ok", "failed"} : ClosedRow(w, status)
           \/ rows' = [rows EXCEPT ![wk[w].job] = FailRunning(wk[w].job)]
  <2>1. PICK f : /\ rows' = [rows EXCEPT ![j] = f]
                 /\ (\E status : f = Finished(j, wk[w].row, status)) \/ f = FailRunning(j)
    BY <1>1, <1>6 DEF ClosedRow
  <2>2. ASSUME NEW x \in Stages PROVE f[x].attempt = rows[j][x].attempt
    <3>1. rows[j][x] \in StageRows BY <1>2
    <3>2. \A y : [rows[j][x] EXCEPT !.status = y].attempt = rows[j][x].attempt BY <3>1 DEF StageRows
    <3>3. CASE f = FailRunning(j)
      <4>1. f[x] = rows[j][x] \/ f[x] = [rows[j][x] EXCEPT !.status = "failed"] BY <3>3 DEF FailRunning
      <4> QED BY <3>2, <4>1
    <3>4. ASSUME NEW status, f = Finished(j, wk[w].row, status) PROVE f[x].attempt = rows[j][x].attempt
      <4>1. f[x] = rows[j][x] \/ f[x] = [rows[j][x] EXCEPT !.status = status] BY <3>4 DEF Finished
      <4> QED BY <3>2, <4>1
    <3> QED BY <2>1, <3>3, <3>4
  <2> QED BY <1>2, <2>1, <2>2 DEF CountInv, RowsCounted
<1> QED BY <1>4, <1>5, <1>6

LEMMA CountedStep ==
    ASSUME TypeInv, CountInv, NEW w \in Workers, wk[w].phase # "idle",
           CounterKept, RowsCounted, CopyCounted(w)
    PROVE  CountInv'
<1>1. \A v \in Workers : wk[v].phase # "idle" => wk[v].job \in Jobs BY BusyHasJob
<1>2. \A j \in Jobs, s \in Stages : rows'[j][s].attempt <= db'[j].attempt BY DEF CounterKept, RowsCounted
<1>3. \A v \in Workers : wk'[v].phase # "idle" => wk'[v].mem.attempt <= db'[wk'[v].job].attempt
  BY <1>1 DEF CounterKept, CopyCounted, CountInv
<1> QED BY <1>2, <1>3 DEF CountInv

\* A worker that leaves its copy alone, replaces it by the row itself, or gives
\* up.
LEMMA CountedCopy ==
    ASSUME TypeInv, CountInv, NEW w \in Workers, wk[w].phase # "idle",
           \A v \in Workers \ {w} : wk'[v] = wk[v],
           \/ wk'[w].phase = "idle"
           \/ /\ wk'[w].job = wk[w].job
              /\ \/ wk'[w].mem.attempt = wk[w].mem.attempt \/ wk'[w].mem = Columns(db[wk[w].job])
                 \/ wk'[w].mem.attempt = 0
    PROVE  CopyCounted(w)
<1>1. PICK j \in Jobs : wk[w].job = j BY BusyHasJob
<1>2. db[j].attempt \in Nat BY JobTypes
<1>3. wk'[w].mem = Columns(db[j]) => wk'[w].mem.attempt = db[j].attempt BY DEF Columns
<1> QED BY <1>1, <1>2, <1>3 DEF CopyCounted, CountInv

\* What the steps do to a worker's own state, and that they count nothing up.
LEMMA QuietCount ==
    ASSUME TypeInv, CountInv, NEW w \in Workers,
           \/ CloseRow(w) \/ ReuseRow(w) \/ OpenRow(w) \/ OpenVerification(w) \/ VerifySource(w)
           \/ StartImport(w) \/ FinishIngest(w) \/ Score(w) \/ FinishScoring(w) \/ Analyze(w)
           \/ ReportCoverage(w) \/ StartGrouping(w) \/ PublishGroups(w)
    PROVE  CountInv' /\ CounterKept
<1>1. wk[w].phase # "idle"
  BY DEF CloseRow, ReuseRow, OpenRow, OpenVerification, VerifySource, StartImport, FinishIngest, Score,
         FinishScoring, Analyze, ReportCoverage, StartGrouping, PublishGroups, In
<1>2. PICK j \in Jobs : wk[w].job = j BY <1>1, BusyHasJob
<1>3. db \in [Jobs -> JobRow] /\ db[j] \in JobRow /\ wk \in [Workers -> Local] /\ wk[w] \in Local
  BY DEF TypeInv, TypeOK
<1>4. CounterKept
  <2>1. CASE StartGrouping(w)
    <3>1. db' = [db EXCEPT ![j].live = @ \/ SideChannel] BY <1>2, <2>1 DEF StartGrouping
    <3> QED BY <1>3, <3>1 DEF JobRow, CounterKept
  <2>2. CASE ~StartGrouping(w)
    <3>1. db' = db
      BY <2>2 DEF CloseRow, ReuseRow, OpenRow, OpenVerification, VerifySource, StartImport, FinishIngest,
                  Score, FinishScoring, Analyze, ReportCoverage, PublishGroups, dbVars
    <3> QED BY <3>1 DEF CounterKept
  <2> QED BY <2>1, <2>2
<1>5. RowsCounted
  <2>1. wk[w].phase = "open" => wk[w].at \in Stages BY DEF TypeInv, AtStage
  <2>2. \/ rows' = rows
        \/ \E s \in Stages : OpenedRow(w, s)
        \/ \E status \in {"ok", "failed"} : ClosedRow(w, status)
    BY <2>1, StageNamesDistinct
       DEF CloseRow, ReuseRow, OpenRow, OpenVerification, VerifySource, StartImport, FinishIngest,
           Score, FinishScoring, Analyze, ReportCoverage, StartGrouping, PublishGroups, Published, dbVars
  <2> QED BY <1>1, <2>2, CountedRows
<1>6. /\ wk'[w].job = wk[w].job /\ wk'[w].mem = wk[w].mem
      /\ \A v \in Workers \ {w} : wk'[v] = wk[v]
  <2>1. CASE CloseRow(w) BY <1>3, <2>1 DEF CloseRow, Local
  <2>2. CASE VerifySource(w) BY <1>3, <2>2 DEF VerifySource, Local
  <2>3. CASE FinishIngest(w) BY <1>3, <2>3 DEF FinishIngest, Local
  <2>4. CASE FinishScoring(w) BY <1>3, <2>4 DEF FinishScoring, Local
  <2>5. CASE ReportCoverage(w) BY <1>3, <2>5 DEF ReportCoverage, Local
  <2>6. CASE ReuseRow(w) BY <1>3, <2>6 DEF ReuseRow, Local
  <2>7. CASE Score(w) BY <1>3, <2>7 DEF Score, Local
  <2>8. CASE StartGrouping(w) BY <1>3, <2>8 DEF StartGrouping, Local
  <2>9. CASE OpenRow(w) BY <1>3, <2>9 DEF OpenRow, Local
  <2>10. CASE PublishGroups(w) BY <1>3, <2>10 DEF PublishGroups, Local
  <2>11. CASE OpenVerification(w) BY <1>3, <2>11 DEF OpenVerification, Local
  <2>12. CASE Analyze(w) BY <1>3, <2>12 DEF Analyze, Local
  <2>13. CASE StartImport(w)
    <3> DEFINE wanted == {q.attempt : q \in {p \in Pending(j, wk[w].mem.attempt) : p.kind = "refresh"}}
               ref == IF Succeeded(j, "ingesting") THEN NoRow
                      ELSE [stage |-> "ingesting", attempt |-> wk[w].mem.attempt]
    <3>1. PICK geoip \in BOOLEAN :
              wk' = [wk EXCEPT ![w].phase = "begin", ![w].at = "ingesting",
                               ![w].pos = checkpoint[j], ![w].wanted = wanted,
                               ![w].refreshing = wanted # {} \/ geoip, ![w].row = ref]
      BY <1>2, <2>13 DEF StartImport
    <3> HIDE DEF wanted, ref
    <3> QED BY <1>3, <3>1 DEF Local
  <2> QED BY <2>1, <2>2, <2>3, <2>4, <2>5, <2>6, <2>7, <2>8, <2>9, <2>10, <2>11, <2>12, <2>13
<1>7. CopyCounted(w) BY <1>1, <1>6, CountedCopy
<1> QED BY <1>1, <1>4, <1>5, <1>7, CountedStep

LEMMA SavingCount ==
    ASSUME TypeInv, CountInv, NEW w \in Workers,
           \/ StartRegrouping(w) \/ BeginIngest(w) \/ CommitBatch(w) \/ EnterGraph(w) \/ EnterAnalytics(w)
           \/ EnterGrouping(w)
           \/ BuildAndEnter(w, "graph_building", "findings") \/ BuildAndEnter(w, "findings", "ml_scoring")
    PROVE  CountInv' /\ CounterKept
<1>1. wk[w].phase # "idle"
  BY DEF StartRegrouping, BeginIngest, CommitBatch, EnterGraph, EnterAnalytics, EnterGrouping, BuildAndEnter, In
<1>2. wk \in [Workers -> Local] /\ wk[w] \in Local /\ wk[w].mem \in MemRow BY <1>1, Basics
<1>3. PICK new, alive : /\ SaveJob(w, new, alive) /\ wk'[w].mem = new /\ wk'[w].job = wk[w].job
                        /\ new.attempt = wk[w].mem.attempt
                        /\ \A v \in Workers \ {w} : wk'[v] = wk[v]
  <2>1. CASE StartRegrouping(w)
    <3> DEFINE new == [wk[w].mem EXCEPT !.stage = "investigation_grouping"]
    <3>1. SaveJob(w, new, db[wk[w].job].live) BY <2>1 DEF StartRegrouping
    <3>2. new.attempt = wk[w].mem.attempt BY <1>2 DEF MemRow
    <3>3. wk'[w].mem = new /\ wk'[w].job = wk[w].job /\ \A v \in Workers \ {w} : wk'[v] = wk[v]
      BY <1>2, <2>1 DEF StartRegrouping, Local
    <3> HIDE DEF new
    <3> QED BY <3>1, <3>2, <3>3
  <2>2. CASE BeginIngest(w)
    <3> DEFINE new == [wk[w].mem EXCEPT !.state = "running", !.stage = "ingesting"]
    <3>1. SaveJob(w, new, db[wk[w].job].live) BY <2>2 DEF BeginIngest
    <3>2. new.attempt = wk[w].mem.attempt BY <1>2 DEF MemRow
    <3>3. wk'[w].mem = new /\ wk'[w].job = wk[w].job /\ \A v \in Workers \ {w} : wk'[v] = wk[v]
      BY <1>2, <2>2 DEF BeginIngest, Local
    <3> HIDE DEF new
    <3> QED BY <3>1, <3>2, <3>3
  <2>3. CASE CommitBatch(w)
    <3> DEFINE new == [wk[w].mem EXCEPT !.state = "checkpointed", !.stage = "ingesting"]
    <3>1. SaveJob(w, new, TRUE) BY <2>3 DEF CommitBatch
    <3>2. new.attempt = wk[w].mem.attempt BY <1>2 DEF MemRow
    <3>3. wk'[w].mem = new /\ wk'[w].job = wk[w].job /\ \A v \in Workers \ {w} : wk'[v] = wk[v]
      BY <1>2, <2>3 DEF CommitBatch, Local
    <3> HIDE DEF new
    <3> QED BY <3>1, <3>2, <3>3
  <2>4. ASSUME NEW s, Enter(w, s)
        PROVE  \E new, alive : /\ SaveJob(w, new, alive) /\ wk'[w].mem = new /\ wk'[w].job = wk[w].job
                               /\ new.attempt = wk[w].mem.attempt
                               /\ \A v \in Workers \ {w} : wk'[v] = wk[v]
    <3> DEFINE new == [wk[w].mem EXCEPT !.stage = s]
    <3>1. SaveJob(w, new, TRUE) BY <2>4 DEF Enter
    <3>2. new.attempt = wk[w].mem.attempt BY <1>2 DEF MemRow
    <3>3. wk'[w].mem = new /\ wk'[w].job = wk[w].job /\ \A v \in Workers \ {w} : wk'[v] = wk[v]
      BY <1>2, <2>4 DEF Enter, Local
    <3> HIDE DEF new
    <3> QED BY <3>1, <3>2, <3>3
  <2>5. CASE ~(StartRegrouping(w) \/ BeginIngest(w) \/ CommitBatch(w))
    <3>1. \E s : Enter(w, s) BY <2>5 DEF EnterGraph, EnterAnalytics, EnterGrouping, BuildAndEnter
    <3> QED BY <2>4, <3>1
  <2> QED BY <2>1, <2>2, <2>3, <2>5
<1>4. CounterKept BY <1>1, <1>3, CountedSave
<1>5. RowsCounted
  <2>1. rows' = rows \/ OpenedRow(w, "investigation_grouping")
    BY DEF StartRegrouping, BeginIngest, CommitBatch, EnterGraph, EnterAnalytics, EnterGrouping, BuildAndEnter
  <2> QED BY <1>1, <2>1, CountedRows, StageNamesDistinct
<1>6. CopyCounted(w) BY <1>1, <1>3, CountedCopy
<1> QED BY <1>1, <1>4, <1>5, <1>6, CountedStep

\* A worker that reads its job again, unwinds, dies or finishes.
LEMMA LeavingCount ==
    ASSUME TypeInv, CountInv, NEW w \in Workers,
           \/ SkipScoring(w) \/ AnalyticsFails(w) \/ RefuseRegrouping(w) \/ LoseLease(w) \/ DuplicateKey(w)
           \/ Abandon(w) \/ Crash(w) \/ CompleteImport(w) \/ PublishAndComplete(w) \/ RegroupAndComplete(w)
           \/ FailJob(w) \/ \E kind \in Failing : Raise(w, kind)
    PROVE  CountInv' /\ CounterKept
<1>1. wk[w].phase # "idle"
  BY DEF SkipScoring, AnalyticsFails, RefuseRegrouping, LoseLease, DuplicateKey, KeyTaken, Abandon, Crash,
         CompleteImport, PublishAndComplete, RegroupAndComplete, FailJob, Raise, In, Failing
<1>2. PICK j \in Jobs : wk[w].job = j BY <1>1, BusyHasJob
<1>3. wk \in [Workers -> Local] /\ wk[w] \in Local /\ wk[w].mem \in MemRow BY <1>1, Basics
<1>4. db \in [Jobs -> JobRow] /\ db[j] \in JobRow BY DEF TypeInv, TypeOK
<1>5. CounterKept
  <2>1. ASSUME CompletedJob(w) PROVE CounterKept
    <3> DEFINE new == [wk[w].mem EXCEPT !.state = "completed", !.stage = "ingested", !.owner = Nobody]
    <3>1. SaveJob(w, new, FALSE) BY <2>1 DEF CompletedJob
    <3>2. new.attempt = wk[w].mem.attempt BY <1>3 DEF MemRow
    <3> HIDE DEF new
    <3> QED BY <1>1, <3>1, <3>2, CountedSave
  <2>2. ASSUME FailJob(w) PROVE CounterKept
    <3> DEFINE d == [db[j] EXCEPT
                       !.state = "failed", !.stage = "failed", !.owner = Nobody, !.live = FALSE,
                       !.error = IF db[j].stage = "source_verification" THEN "SOURCE_VERIFICATION_FAILED"
                                 ELSE "ANALYSIS_STAGE_FAILED"]
    <3>1. db' = [db EXCEPT ![j] = d] BY <1>2, <2>2 DEF FailJob
    <3>2. d.attempt = db[j].attempt BY <1>4 DEF JobRow
    <3> HIDE DEF d
    <3> QED BY <1>4, <3>1, <3>2 DEF CounterKept
  <2>3. db' = db \/ CompletedJob(w) \/ FailJob(w)
    BY DEF SkipScoring, AnalyticsFails, RefuseRegrouping, LoseLease, DuplicateKey, Abandon, Crash,
           CompleteImport, PublishAndComplete, RegroupAndComplete, Raise, dbVars
  <2> QED BY <2>1, <2>2, <2>3 DEF CounterKept
<1>6. RowsCounted
  <2>1. \/ rows' = rows
        \/ \E status \in {"ok", "failed"} : ClosedRow(w, status)
        \/ rows' = [rows EXCEPT ![wk[w].job] = FailRunning(wk[w].job)]
    BY DEF SkipScoring, AnalyticsFails, RefuseRegrouping, LoseLease, DuplicateKey, Abandon, Crash,
           CompleteImport, PublishAndComplete, RegroupAndComplete, FailJob, Raise, Published, dbVars
  <2> QED BY <1>1, <2>1, CountedRows
<1>7. CopyCounted(w)
  <2>1. CASE SkipScoring(w)
    <3>1. PICK mem : /\ mem \in {wk[w].mem, Columns(db[j])}
                     /\ wk' = [wk EXCEPT ![w].phase = "unscored", ![w].mem = mem]
      BY <1>2, <2>1 DEF SkipScoring
    <3>2. wk'[w].job = wk[w].job /\ wk'[w].mem = mem /\ \A v \in Workers \ {w} : wk'[v] = wk[v]
      BY <1>3, <3>1 DEF Local
    <3> QED BY <1>1, <1>2, <3>1, <3>2, CountedCopy
  <2>2. CASE AnalyticsFails(w)
    <3>1. /\ wk'[w].job = wk[w].job /\ wk'[w].mem = Columns(db[wk[w].job])
          /\ \A v \in Workers \ {w} : wk'[v] = wk[v]
      BY <1>3, <2>2 DEF AnalyticsFails, Local
    <3> QED BY <1>1, <3>1, CountedCopy
  <2>3. CASE ~(SkipScoring(w) \/ AnalyticsFails(w))
    <3>1. PICK r : wk' = [wk EXCEPT ![w] = r] /\ (r = Idle \/ \E kind : r = Raised(w, kind))
      BY <2>3 DEF RefuseRegrouping, LoseLease, DuplicateKey, Abandon, Crash, CompleteImport,
                  PublishAndComplete, RegroupAndComplete, FailJob, Raise
    <3>2. wk'[w] = r /\ \A v \in Workers \ {w} : wk'[v] = wk[v] BY <1>3, <3>1
    <3>3. \A kind : Raised(w, kind).job = wk[w].job /\ Raised(w, kind).mem.attempt = 0
      <4>1. Idle \in Local /\ Idle.mem.attempt = 0 BY IdleTyped DEF Idle
      <4> QED BY <4>1 DEF Raised, Local
    <3>4. r.phase = "idle" \/ (r.job = wk[w].job /\ r.mem.attempt = 0)
      BY <3>1, <3>3, IdleFacts
    <3> QED BY <1>1, <3>2, <3>4, CountedCopy
  <2> QED BY <2>1, <2>2, <2>3
<1> QED BY <1>1, <1>5, <1>6, <1>7, CountedStep

\* The two ways to begin an attempt count it.
LEMMA CountedBegin ==
    ASSUME TypeInv, CountInv, NEW w \in Workers, NEW j \in Jobs, NEW d, NEW again,
           db' = [db EXCEPT ![j] = d], d.attempt = db[j].attempt + 1,
           wk' = [wk EXCEPT ![w] = Holding(j, Columns(d), again)],
           \A i \in Jobs, s \in Stages : rows'[i][s].attempt = rows[i][s].attempt
    PROVE  /\ CountInv'
           /\ \A i \in Jobs : \/ db'[i].attempt = db[i].attempt
                              \/ /\ db'[i].attempt > db[i].attempt
                                 /\ \A s \in Stages : rows'[i][s].attempt < db'[i].attempt
<1>1. db'[j] = d /\ \A i \in Jobs \ {j} : db'[i] = db[i] BY DEF TypeInv, TypeOK
<1>2. \A i \in Jobs : db[i].attempt \in Nat /\ \A s \in Stages : rows[i][s].attempt \in Nat BY JobTypes
<1>3. /\ Holding(j, Columns(d), again).job = j
      /\ Holding(j, Columns(d), again).mem.attempt = d.attempt
  BY DEF Holding, Idle, Columns
<1>4. wk'[w] = Holding(j, Columns(d), again) /\ \A v \in Workers \ {w} : wk'[v] = wk[v]
  BY DEF TypeInv, TypeOK
<1>5. \A i \in Jobs, s \in Stages : rows[i][s].attempt <= db[i].attempt BY DEF CountInv
<1>6. ASSUME NEW v \in Workers, wk'[v].phase # "idle"
      PROVE  wk'[v].mem.attempt <= db'[wk'[v].job].attempt
  <2>1. CASE v = w BY <1>1, <1>2, <1>3, <1>4, <2>1
  <2>2. CASE v # w
    <3>1. wk'[v] = wk[v] BY <1>4, <2>2
    <3>2. PICK i \in Jobs : wk[v].job = i BY <1>6, <3>1, BusyHasJob
    <3>3. wk[v].mem.attempt <= db[i].attempt /\ wk[v].mem.attempt \in Nat
      BY <1>6, <3>1, <3>2, Basics DEF CountInv
    <3> QED BY <1>1, <1>2, <3>1, <3>2, <3>3
  <2> QED BY <2>1, <2>2
<1>7. \A i \in Jobs, s \in Stages : rows'[i][s].attempt <= db'[i].attempt BY <1>1, <1>2, <1>5
<1>8. CountInv' BY <1>6, <1>7 DEF CountInv
<1>9. \A i \in Jobs : \/ db'[i].attempt = db[i].attempt
                      \/ /\ db'[i].attempt > db[i].attempt
                         /\ \A s \in Stages : rows'[i][s].attempt < db'[i].attempt
  BY <1>1, <1>2, <1>5
<1> QED BY <1>8, <1>9

LEMMA NextCounts ==
    ASSUME TypeInv, CountInv, [Next]_vars
    PROVE  /\ CountInv'
           /\ \A j \in Jobs :
                 /\ db'[j].attempt >= db[j].attempt
                 /\ db'[j].attempt > db[j].attempt =>
                        \A s \in Stages : rows'[j][s].attempt < db'[j].attempt
<1> DEFINE Counts == \A j \in Jobs :
                         /\ db'[j].attempt >= db[j].attempt
                         /\ db'[j].attempt > db[j].attempt =>
                                \A s \in Stages : rows'[j][s].attempt < db'[j].attempt
<1> SUFFICES CountInv' /\ Counts OBVIOUS
<1>1. \A j \in Jobs : db[j] \in JobRow /\ db[j].attempt \in Nat /\ db'[j].attempt \in Nat
  <2>1. TypeInv' BY NextTyped
  <2>2. \A j \in Jobs : db'[j] \in JobRow BY <2>1 DEF TypeInv, TypeOK
  <2> QED BY <2>2, JobTypes DEF JobRow
<1>2. CounterKept => Counts BY <1>1 DEF CounterKept
<1>3. ASSUME wk' = wk, rows' = rows, CounterKept PROVE CountInv' /\ Counts
  <2>1. \A w \in Workers : wk[w].phase # "idle" => wk[w].job \in Jobs BY BusyHasJob
  <2> QED BY <1>2, <1>3, <2>1 DEF CountInv, CounterKept
<1>4. CASE UNCHANGED vars BY <1>3, <1>4 DEF vars, dbVars, CounterKept
<1>5. CASE Api
  <2>1. \A i \in Jobs : db'[i] = db[i] \/ db'[i] = Requeue(db[i])
    BY <1>5, ApiAsks DEF Asking
  <2>2. CounterKept BY <1>1, <2>1 DEF CounterKept, Requeue, JobRow
  <2> QED BY <1>3, <1>5, <2>2 DEF Api, RetryAnalysis, BuildQueue
<1>6. ASSUME NEW j \in Jobs, NEW b, db' = [db EXCEPT ![j].live = b] PROVE CounterKept
  BY <1>1, <1>6 DEF CounterKept, JobRow, TypeInv, TypeOK
<1>7. ASSUME NEW j \in Jobs, LapseLease(j) PROVE CountInv' /\ Counts
  <2>1. CounterKept BY <1>6, <1>7 DEF LapseLease
  <2> QED BY <1>3, <1>7, <2>1 DEF LapseLease
<1>8. ASSUME NEW w \in Workers, RenewLease(w) PROVE CountInv' /\ Counts
  <2>1. wk[w].job \in Jobs BY <1>8, BusyHasJob DEF RenewLease
  <2>2. CounterKept BY <1>6, <1>8, <2>1 DEF RenewLease
  <2> QED BY <1>3, <1>8, <2>2 DEF RenewLease
<1>9. ASSUME NEW w \in Workers, NEW j \in Jobs, Claim(w, j) PROVE CountInv' /\ Counts
  <2>1. Taken(db[j], w).attempt = db[j].attempt + 1 BY <1>1 DEF Taken, JobRow
  <2>2. PICK again : /\ db' = [db EXCEPT ![j] = Taken(db[j], w)] /\ rows' = rows
                     /\ wk' = [wk EXCEPT ![w] = Holding(j, Columns(Taken(db[j], w)), again)]
    BY <1>9 DEF Claim
  <2>3. PICK d : d = Taken(db[j], w) OBVIOUS
  <2>4. /\ CountInv'
        /\ \A i \in Jobs : \/ db'[i].attempt = db[i].attempt
                           \/ /\ db'[i].attempt > db[i].attempt
                              /\ \A s \in Stages : rows'[i][s].attempt < db'[i].attempt
    BY <2>1, <2>2, <2>3, CountedBegin
  <2> QED BY <1>1, <2>4
<1>10. ASSUME NEW w \in Workers, RetryOnce(w) PROVE CountInv' /\ Counts
  <2>1. PICK j \in Jobs : wk[w].job = j BY <1>10, BusyHasJob DEF RetryOnce, MayRetry
  <2>2. PICK d, again : /\ d = Retried(db[j]) /\ db' = [db EXCEPT ![j] = d]
                        /\ wk' = [wk EXCEPT ![w] = Holding(j, Columns(d), again)]
                        /\ rows' = [rows EXCEPT ![j] = FailRunning(j)]
    BY <1>10, <2>1 DEF RetryOnce
  <2>3. d.attempt = db[j].attempt + 1 BY <1>1, <2>2 DEF Retried, JobRow
  <2>4. \A i \in Jobs, s \in Stages : rows'[i][s].attempt = rows[i][s].attempt
    BY <2>2, RowsFail DEF FailedRows
  <2>5. /\ CountInv'
        /\ \A i \in Jobs : \/ db'[i].attempt = db[i].attempt
                           \/ /\ db'[i].attempt > db[i].attempt
                              /\ \A s \in Stages : rows'[i][s].attempt < db'[i].attempt
    BY <2>2, <2>3, <2>4, CountedBegin
  <2> QED BY <1>1, <2>5
<1>11. ASSUME NEW w \in Workers, Choose(w) \/ FullRun(w) \/ GroupingRun(w) \/ DuplicateKey(w) \/ Abandon(w)
                                 \/ FailJob(w) \/ Crash(w) \/ \E kind \in Failing : Raise(w, kind)
       PROVE  CountInv' /\ CounterKept
  BY <1>11, QuietCount, SavingCount, LeavingCount DEF Choose, FullRun, GroupingRun
<1> HIDE DEF Counts
<1>12. ASSUME NEW w \in Workers, Work(w) \/ Crash(w) \/ \E kind \in Failing : Raise(w, kind)
       PROVE  CountInv' /\ Counts
  <2>1. CASE RetryOnce(w) BY <1>10, <2>1
  <2>2. CASE ~RetryOnce(w) BY <1>2, <1>11, <1>12, <2>2 DEF Work, Handler
  <2> QED BY <2>1, <2>2
<1>13. CASE \E w \in Workers :
                 \/ \E j \in Jobs : Claim(w, j)
                 \/ Work(w)
                 \/ RenewLease(w)
                 \/ \E kind \in Failing : Raise(w, kind)
                 \/ Crash(w)
  BY <1>8, <1>9, <1>12, <1>13
<1> QED BY <1>4, <1>5, <1>7, <1>13 DEF Next

\* Whatever lapses, and whatever a stale worker commits, an attempt number is
\* never used again: the counter only grows, past every stage row there is.
THEOREM AttemptsGrow == Spec => AttemptsNeverGoBack
<1> DEFINE Grows == \A j \in Jobs :
                        /\ db'[j].attempt >= db[j].attempt
                        /\ db'[j].attempt > db[j].attempt =>
                               \A s \in Stages : rows'[j][s].attempt < db'[j].attempt
<1>1. Init => TypeInv /\ CountInv
  <2> SUFFICES ASSUME Init PROVE CountInv BY InitTyped
  <2>1. \A j \in Jobs, s \in Stages : rows[j][s].attempt = 0 BY DEF Init
  <2>2. \A w \in Workers : wk[w].phase = "idle" BY IdleFacts DEF Init
  <2>3. \A j \in Jobs : db[j].attempt \in Nat BY InitTyped, JobTypes
  <2> QED BY <2>1, <2>2, <2>3 DEF CountInv
<1>2. TypeInv /\ CountInv /\ [Next]_vars => TypeInv' /\ CountInv' /\ Grows BY NextTyped, NextCounts
<1>3. AttemptsNeverGoBack <=> [][Grows]_vars BY DEF AttemptsNeverGoBack
<1> HIDE DEF Grows
<1> QED BY <1>1, <1>2, <1>3, PTL DEF Spec

=============================================================================
