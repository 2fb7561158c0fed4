---------------------------- MODULE ScoringProofs ----------------------------
(* Theorems about Scoring, for any cases, candidates, calibrations, scores  *)
(* and number of attempts.                                                  *)
(*                                                                          *)
(* Findings of one key have one version, because the detectors share no     *)
(* rule and anomalies are written in one step while there are none; so the  *)
(* finding that pinning looks up by its key is as good as any, and the      *)
(* anomalies are the whole ranking of the one who wrote them.               *)
EXTENDS Scoring, SequenceTheorems, FiniteSetTheorems, WellFoundedInduction, TLAPS

Keys(S) == {r.key : r \in S}
Deterministic(S) == {r \in S : r.version = "deterministic-v1"}
NetworkKeys == UNION {DOMAIN Correlated[geo] : geo \in BOOLEAN}
PatternsWritten == Patterns \subseteq Keys(Deterministic(rows))

StepInv ==
    /\ job.state \in {"queued", "running", "completed"} /\ DOMAIN job = {"state", "attempt", "refresh"}
    /\ step.at \in {"idle", "findings", "scoring", "scored", "analytics", "analysed", "grouping"}
    /\ step.at # "idle" <=> job.state = "running"
    /\ step.at # "idle" => process \in Settings
    /\ stages \in Seq(Range(stages))
    /\ \/ stages # << >> \/ step.at \notin {"idle", "findings"} \/ finished \/ Deterministic(rows) # {}
       => PatternsWritten

\* Who wrote a finding shows in its key.
RowsInv ==
    /\ \A r \in rows :
           CASE r.version = "deterministic-v1" -> r.key \in Patterns \/ r.key[2] = SeedRule
             [] r.version = "network-correlation-v1" -> r.key \in NetworkKeys
             [] OTHER -> r.key[2] \in Rules
    /\ \A r, q \in Anomalies : r.version = q.version

\* What PinnedWhenSettled says of each finding, of any findings and pins.
Consistent(S, P) ==
    \A r \in S :
        /\ r.version = "deterministic-v1" /\ r.key[2] # SeedRule =>
               r.key \in DOMAIN P /\ P[r.key] = Confidence(r.by, r)
        /\ r.key \in DOMAIN P => P[r.key] = Confidence(P[r.key].by, r)

PinsInv ==
    /\ DOMAIN pins \subseteq Keys(rows)
    /\ \A key \in posted : key[2] = SeedRule
    /\ step.at = "grouping" \/ job.state = "completed" => Keys(rows) \subseteq DOMAIN pins \cup posted
    /\ Consistent(rows, pins)
    /\ Successes # {} => Keys(Anomalies) \subseteq DOMAIN pins

ScoringInv == StepInv /\ RowsInv /\ PinsInv

\* Findings of one key have one version.
OneVersion(S) == \A r, q \in S : r.key = q.key => r.version = q.version

-----------------------------------------------------------------------------
(* What pinning does.                                                       *)

LEMMA SameConfidence ==
    ASSUME NEW c, NEW r, NEW q, r.key = q.key, r.version = q.version
    PROVE  Confidence(c, r) = Confidence(c, q)
BY DEF Confidence, Method

LEMMA PinnedIs ==
    ASSUME NEW S, OneVersion(S), DOMAIN pins \subseteq Keys(S)
    PROVE  /\ DOMAIN Pinned(S) = Keys(S)
           /\ \A key \in DOMAIN pins : Pinned(S)[key] = pins[key]
           /\ \A r \in S : r.key \notin DOMAIN pins => Pinned(S)[r.key] = Confidence(process.calibration, r)
<1>1. \A key \in Keys(S) : FindingAt(S, key) \in S /\ FindingAt(S, key).key = key
  BY DEF FindingAt, Keys
<1>2. \A r \in S : Confidence(process.calibration, FindingAt(S, r.key)) = Confidence(process.calibration, r)
  <2> SUFFICES ASSUME NEW r \in S
               PROVE  Confidence(process.calibration, FindingAt(S, r.key))
                   = Confidence(process.calibration, r)
    OBVIOUS
  <2>1. FindingAt(S, r.key) \in S /\ FindingAt(S, r.key).key = r.key BY <1>1 DEF Keys
  <2>2. FindingAt(S, r.key).version = r.version BY <2>1 DEF OneVersion
  <2> QED BY <2>1, <2>2, SameConfidence
<1>3. /\ DOMAIN Pinned(S) = Keys(S)
      /\ \A key \in Keys(S) : Pinned(S)[key] = IF key \in DOMAIN pins THEN pins[key]
          ELSE Confidence(process.calibration, FindingAt(S, key))
  BY DEF Pinned, Keys
<1>4. \A r \in S : r.key \in Keys(S) BY DEF Keys
<1> QED BY <1>2, <1>3, <1>4

LEMMA KeysTellVersions == ASSUME RowsInv PROVE OneVersion(rows)
<1> SUFFICES ASSUME NEW r \in rows, NEW q \in rows, r.key = q.key PROVE r.version = q.version
  BY DEF OneVersion
<1>1. /\ Patterns \cap NetworkKeys = {} /\ SeedRule \notin Rules
      /\ \A k \in Patterns \cup NetworkKeys : k[2] \notin Rules \cup {SeedRule}
  BY KeysAssumption DEF NetworkKeys, SeedRule, Rules
<1>2. CASE r \in Anomalies /\ q \in Anomalies BY <1>2 DEF RowsInv
<1>3. CASE r \notin Anomalies \/ q \notin Anomalies BY <1>1, <1>3 DEF RowsInv, Anomalies, Fixed
<1> QED BY <1>2, <1>3

LEMMA ConsistentStays ==
    ASSUME case' = case
    PROVE  Consistent(rows, pins)' <=> Consistent(rows', pins')
BY DEF Consistent, Confidence, Method

LEMMA SettledFollows == ASSUME PinsInv PROVE PinnedWhenSettled
<1>1. ASSUME NEW r \in rows \ FromSeeds, r.version = "deterministic-v1"
      PROVE  r.key \in DOMAIN pins /\ pins[r.key] = Confidence(r.by, r)
  BY <1>1 DEF PinsInv, Consistent, FromSeeds
<1>2. ASSUME job.state = "completed", NEW r \in rows
      PROVE  r.key \in DOMAIN pins \/ (r \in FromSeeds /\ r.key \in posted)
  <2>1. r.key \in Keys(rows) BY DEF Keys
  <2> QED BY <1>2, <2>1 DEF PinsInv, FromSeeds
<1> QED BY <1>1, <1>2 DEF PinsInv, PinnedWhenSettled, Consistent, Keys

-----------------------------------------------------------------------------
(* Stages and findings grow.                                                *)

LEMMA AppendIsSeq ==
    ASSUME NEW s, s \in Seq(Range(s)), NEW e
    PROVE  LET t == Append(s, e)
           IN /\ t \in Seq(Range(t)) /\ t # << >>
              /\ DOMAIN t = DOMAIN s \cup {Len(s) + 1}
              /\ t[Len(s) + 1] = e /\ \A k \in DOMAIN s : t[k] = s[k]
<1> DEFINE t == Append(s, e)
<1> DEFINE S == Range(s) \cup {e}
<1>1. s \in Seq(S) /\ e \in S
  <2>1. Len(s) \in Nat /\ s \in [1 .. Len(s) -> Range(s)] BY SMT
  <2>2. s \in [1 .. Len(s) -> S] BY <2>1
  <2> QED BY <2>1, <2>2
<1> HIDE DEF S
<1>2. /\ Len(s) \in Nat /\ DOMAIN s = 1 .. Len(s) /\ t \in Seq(S) /\ Len(t) = Len(s) + 1
      /\ t[Len(s) + 1] = e /\ \A k \in DOMAIN s : t[k] = s[k]
  BY <1>1
<1>3. DOMAIN t = 1 .. Len(t) /\ Len(t) \in Nat BY <1>2
<1> HIDE DEF t
<1>4. t \in [1 .. Len(t) -> Range(t)]
  <2>1. t = [k \in 1 .. Len(t) |-> t[k]] BY <1>2
  <2>2. \A k \in 1 .. Len(t) : t[k] \in Range(t) BY <1>3 DEF Range
  <2> QED BY <2>1, <2>2
<1>5. t \in Seq(Range(t)) BY <1>3, <1>4, SeqDef
<1>6. t # << >> /\ DOMAIN t = DOMAIN s \cup {Len(s) + 1} BY <1>2, <1>3
<1> QED BY <1>2, <1>5, <1>6 DEF t

LEMMA ExceptIsSeq ==
    ASSUME NEW s, s \in Seq(Range(s)), NEW n, NEW e
    PROVE  LET t == [s EXCEPT ![n] = e]
           IN t \in Seq(Range(t)) /\ DOMAIN t = DOMAIN s
<1> DEFINE t == [s EXCEPT ![n] = e]
<1>1. Len(s) \in Nat /\ DOMAIN s = 1 .. Len(s) BY LenProperties
<1>2. DOMAIN t = 1 .. Len(s) BY <1>1
<1>3. t = [k \in 1 .. Len(s) |-> t[k]] BY <1>1
<1>4. \A k \in 1 .. Len(s) : t[k] \in Range(t) BY <1>2 DEF Range
<1> HIDE DEF t
<1>5. t \in [1 .. Len(s) -> Range(t)] BY <1>3, <1>4
<1>6. t \in Seq(Range(t)) BY <1>1, <1>5, SeqDef
<1> QED BY <1>1, <1>2, <1>6 DEF t

\* Findings of keys that are new, a review seed's or none of them final, leave
\* what is pinned true.
LEMMA AddedUnpinned ==
    ASSUME ScoringInv, case' = case, pins' = pins, rows \subseteq rows',
           \A r \in rows' : \/ r \in rows
                            \/ r.key \notin Keys(rows) /\ (r.version # "deterministic-v1" \/ r.key[2] = SeedRule),
           Successes' # {} => Successes # {} /\ Anomalies' = Anomalies,
           \A key \in posted' : key[2] = SeedRule,
           step'.at = "grouping" \/ job'.state = "completed" =>
               /\ step.at = "grouping" \/ job.state = "completed"
               /\ posted \subseteq posted' /\ \A r \in rows' : r \in rows \/ r.key \in posted'
    PROVE  PinsInv'
<1> USE DEF ScoringInv, PinsInv
<1>1. DOMAIN pins \subseteq Keys(rows') BY DEF Keys
<1>2. Consistent(rows', pins) BY DEF Consistent, Keys
<1>3. Consistent(rows, pins)' BY <1>2, ConsistentStays
<1>4. Successes' # {} => Keys(Anomalies') \subseteq DOMAIN pins OBVIOUS
<1>5. step'.at = "grouping" \/ job'.state = "completed" => Keys(rows') \subseteq DOMAIN pins \cup posted'
  BY DEF Keys
<1> QED BY <1>1, <1>3, <1>4, <1>5 DEF Keys

\* Everything is pinned, by the process at work what was not.
LEMMA AllPinned ==
    ASSUME ScoringInv, case' = case, posted' = posted, pins' = Pinned(rows'), rows \subseteq rows', OneVersion(rows'),
           \A r \in rows' : r \in rows \/ (r.key \notin Keys(rows) /\ r.by = process.calibration)
    PROVE  PinsInv' /\ \A key \in DOMAIN pins : key \in DOMAIN pins' /\ pins'[key] = pins[key]
<1> USE DEF ScoringInv, PinsInv
<1>1. DOMAIN pins \subseteq Keys(rows') BY DEF Keys
<1>2. /\ DOMAIN pins' = Keys(rows')
      /\ \A key \in DOMAIN pins : pins'[key] = pins[key]
      /\ \A r \in rows' : r.key \notin DOMAIN pins => pins'[r.key] = Confidence(process.calibration, r)
  BY <1>1, PinnedIs
<1>3. Consistent(rows', pins')
  <2> SUFFICES ASSUME NEW r \in rows'
               PROVE  /\ r.key \in DOMAIN pins'
                      /\ r.version = "deterministic-v1" /\ r.key[2] # SeedRule => pins'[r.key] = Confidence(r.by, r)
                      /\ pins'[r.key] = Confidence(pins'[r.key].by, r)
    BY DEF Consistent
  <2>1. r.key \in DOMAIN pins' BY <1>2 DEF Keys
  <2>2. CASE r.key \in DOMAIN pins
    <3>1. r \in rows BY <2>2
    <3> QED BY <1>2, <2>1, <2>2, <3>1 DEF Consistent
  <2>3. CASE r.key \notin DOMAIN pins
    <3>1. pins'[r.key] = Confidence(process.calibration, r) BY <1>2, <2>3
    <3>2. pins'[r.key].by = process.calibration BY <3>1 DEF Confidence
    <3>3. r.version = "deterministic-v1" /\ r.key[2] # SeedRule => r \notin rows BY <2>3 DEF Consistent
    <3> QED BY <2>1, <3>1, <3>2, <3>3
  <2> QED BY <2>2, <2>3
<1>4. Consistent(rows, pins)' BY <1>3, ConsistentStays
<1>5. Keys(Anomalies') \subseteq Keys(rows') BY DEF Keys, Anomalies
<1> QED BY <1>2, <1>4, <1>5 DEF Keys

-----------------------------------------------------------------------------
(* The steps.                                                               *)

Grows == rows \subseteq rows' /\ \A key \in DOMAIN pins : key \in DOMAIN pins' /\ pins'[key] = pins[key]

LEMMA ScoringInit == Init => ScoringInv
<1> SUFFICES ASSUME Init PROVE ScoringInv
  OBVIOUS
<1>1. << >> \in Seq(Range(<< >>)) OBVIOUS
<1>2. StepInv BY <1>1 DEF Init, StepInv, Idle, Deterministic
<1>3. RowsInv BY DEF Init, RowsInv, Anomalies
<1>4. PinsInv BY DEF Init, PinsInv, Consistent, Keys, Idle, Anomalies
<1> QED BY <1>2, <1>3, <1>4 DEF ScoringInv

LEMMA FindingsStep == ASSUME ScoringInv, Findings PROVE ScoringInv' /\ Grows
<1> USE DEF ScoringInv
<1> DEFINE new == {[key |-> k, version |-> "deterministic-v1", rank |-> 0, score |-> 0,
by |-> process.calibration] : k \in Patterns}
<1>1. \/ Deterministic(rows) # {} /\ rows' = rows
      \/ Deterministic(rows) = {} /\ rows' = rows \cup new
  BY DEF Findings, Deterministic
<1>2. \A r \in new : r.version = "deterministic-v1" /\ r.key \in Patterns /\ r.by = process.calibration
  OBVIOUS
<1>3. \A r \in rows' : r \in rows \/ (r \in new /\ Deterministic(rows) = {})
  BY <1>1
<1> HIDE DEF new
<1>4. rows \subseteq rows' /\ Anomalies' = Anomalies
  BY <1>1, <1>2, <1>3 DEF Anomalies, Fixed
<1>5. RowsInv'
  BY <1>2, <1>3, <1>4 DEF RowsInv
<1>6. PatternsWritten'
  <2>1. CASE rows' = rows /\ Deterministic(rows) # {}
    <3>1. PatternsWritten BY <2>1 DEF StepInv
    <3> QED BY <2>1, <3>1 DEF PatternsWritten, Deterministic
  <2>2. CASE Deterministic(rows) = {} /\ rows' = rows \cup new
    <3> SUFFICES ASSUME NEW k \in Patterns PROVE k \in Keys(Deterministic(rows'))
      BY DEF PatternsWritten, Deterministic
    <3> DEFINE r == [key |-> k, version |-> "deterministic-v1", rank |-> 0, score |-> 0,
    by |-> process.calibration]
    <3>1. r \in new /\ r.key = k BY DEF new
    <3> HIDE DEF r
    <3>2. r \in Deterministic(rows') BY <1>2, <2>2, <3>1 DEF Deterministic
    <3> QED BY <3>1, <3>2 DEF Keys
  <2> QED BY <1>1, <2>1, <2>2
<1>7. StepInv'
  <2>1. stages' \in Seq(Range(stages'))
    <3>1. stages \in Seq(Range(stages)) BY DEF StepInv
    <3> QED BY <3>1, AppendIsSeq DEF Findings
  <2>2. /\ job' = job /\ process' = process /\ step'.at = "scoring" /\ step.at = "findings"
    BY DEF Findings, At
  <2> QED BY <1>6, <2>1, <2>2 DEF StepInv
<1>8. Successes' # {} => Successes # {}
  <2>1. stages \in Seq(Range(stages)) BY DEF StepInv
  <2>2. CASE stages' = stages BY <2>2 DEF Successes
  <2>3. CASE stages' # stages
    <3> DEFINE row == [attempt |-> job.attempt, status |-> "running", release |-> Null, flagged |-> 0]
    <3>1. stages' = Append(stages, row) BY <2>3 DEF Findings
    <3>2. row.status \notin Success BY DEF Success
    <3> HIDE DEF row
    <3>3. /\ DOMAIN stages' = DOMAIN stages \cup {Len(stages) + 1} /\ stages'[Len(stages) + 1] = row
          /\ \A k \in DOMAIN stages : stages'[k] = stages[k]
      BY <2>1, <3>1, AppendIsSeq
    <3> QED BY <3>2, <3>3 DEF Successes
  <2> QED BY <2>2, <2>3
<1>9. CASE \E s \in Range(stages) : s.attempt < job.attempt
  <2>1. stages # << >> BY <1>9 DEF Range
  <2>2. rows' = rows
    <3>1. PatternsWritten BY <2>1 DEF StepInv
    <3>2. CASE Deterministic(rows) = {}
      <4>1. Patterns = {} BY <3>1, <3>2 DEF PatternsWritten, Keys
      <4>2. new = {} BY <4>1 DEF new
      <4> QED BY <1>1, <4>2
    <3>3. CASE Deterministic(rows) # {} BY <1>1, <3>3
    <3> QED BY <3>2, <3>3
  <2>3. /\ pins' = pins /\ case' = case /\ step'.at = "scoring" /\ job' = job /\ job.state # "completed"
        /\ posted' = posted
    BY <1>9 DEF Findings, At, StepInv
  <2>4. PinsInv' BY <1>4, <1>8, <2>2, <2>3, AddedUnpinned DEF PinsInv
  <2> QED BY <1>4, <1>5, <1>7, <2>3, <2>4 DEF Grows
<1>10. CASE ~(\E s \in Range(stages) : s.attempt < job.attempt)
  <2>1. pins' = Pinned(rows') /\ case' = case /\ posted' = posted BY <1>10 DEF Findings
  <2>2. OneVersion(rows')
    <3>1. OneVersion(rows)' BY <1>5, KeysTellVersions, PTL
    <3> QED BY <3>1 DEF OneVersion
  <2>3. ASSUME NEW r \in rows', r \notin rows PROVE r.key \notin Keys(rows) /\ r.by = process.calibration
    <3>1. r \in new /\ Deterministic(rows) = {} BY <1>3, <2>3
    <3>2. \A q \in rows : q.key \notin Patterns BY <3>1, KeysAssumption
                                                   DEF RowsInv, Deterministic, NetworkKeys
    <3> QED BY <1>2, <3>1, <3>2 DEF Keys
  <2>4. PinsInv' /\ \A key \in DOMAIN pins : key \in DOMAIN pins' /\ pins'[key] = pins[key]
    BY <1>4, <2>1, <2>2, <2>3, AllPinned
  <2> QED BY <1>4, <1>5, <1>7, <2>4 DEF Grows
<1> QED BY <1>9, <1>10

LEMMA MlScoringStep == ASSUME ScoringInv, MlScoring PROVE ScoringInv' /\ Grows
<1> USE DEF ScoringInv
<1> DEFINE new == rows' \ rows
<1>1. /\ rows \subseteq rows' /\ case' = case /\ pins' = pins /\ stages' = stages /\ job' = job
          /\ process' = process /\ finished' = finished /\ posted' = posted
      /\ step.at = "scoring" /\ step'.at = "scored" /\ job.state = "running"
  BY DEF MlScoring, At, StepInv
<1>2. process \in Settings BY <1>1 DEF StepInv
<1>3. new # {} => Anomalies = {} /\ Successes = {} /\ rows' = rows \cup Scored.rows
  BY DEF MlScoring, ScoreOrKeep, Kept, Result
<1>4. PICK release, rule : /\ rule \in Rules /\ release \notin Fixed
                           /\ \A r \in Scored.rows : r.version = release /\ r.key[2] = rule
  <2>1. ASSUME NEW release, NEW rule, NEW S
        PROVE  \A r \in Ranked(release, rule, S) : r.version = release /\ r.key[2] = rule
    BY DEF Ranked, TxKey
  <2>2. CASE ByCandidate
    <3>1. process.candidate \in Candidates BY <1>2, <2>2 DEF ByCandidate, Routed, Settings
    <3>2. Scored.rows \subseteq CandidateRows(process.candidate.release)
      BY <2>2 DEF Scored, ScoredBy, Written, Result
    <3>3. \A r \in CandidateRows(process.candidate.release) :
              r.version = process.candidate.release /\ r.key[2] = "candidate_pattern_triage"
      BY <2>1 DEF CandidateRows
    <3> QED BY <3>1, <3>2, <3>3, ReleasesAssumption DEF Rules
  <2>3. CASE ~ByCandidate
    <3>1. Scored.rows \subseteq StackRows BY <2>3 DEF Scored, ScoredBy, Written, Result
    <3>2. \A r \in StackRows : r.version = Stack /\ r.key[2] = "anomaly_stack_rank"
      BY <2>1 DEF StackRows
    <3>3. Stack \notin Fixed BY DEF Stack, Fixed
    <3> QED BY <3>1, <3>2, <3>3 DEF Rules
  <2> QED BY <2>2, <2>3
<1> HIDE DEF new
<1>5. \A r \in rows' : r \in rows \/ (r \in new /\ r.version = release /\ r.key[2] = rule)
  BY <1>3, <1>4 DEF new
<1>6. RowsInv'
  <2>1. \A r, q \in Anomalies' : r.version = q.version
    BY <1>3, <1>5 DEF RowsInv, Anomalies
  <2>2. ASSUME NEW r \in rows', r \notin rows
        PROVE  r.version \notin Fixed /\ r.key[2] \in Rules
    BY <1>4, <1>5, <2>2
  <2> QED BY <2>1, <2>2 DEF RowsInv, Fixed
<1>7. StepInv'
  <2>1. new # {} => Deterministic(rows') = Deterministic(rows)
    BY <1>1, <1>4, <1>5 DEF Deterministic, Fixed
  <2>2. PatternsWritten BY <1>1 DEF StepInv
  <2>3. PatternsWritten' BY <1>1, <2>2 DEF PatternsWritten, Deterministic, Keys
  <2> QED BY <1>1, <2>3 DEF StepInv
<1>8. PinsInv'
  <2>1. ASSUME NEW r \in rows', r \notin rows
        PROVE  r.key \notin Keys(rows) /\ r.version # "deterministic-v1"
    <3>1. r \in new /\ r.key[2] \in Rules /\ r.version \notin Fixed BY <1>4, <1>5, <2>1
    <3>2. \A q \in rows : q.key[2] \notin Rules
      BY <1>3, <3>1, KeysAssumption DEF RowsInv, NetworkKeys, Anomalies, Fixed, SeedRule, Rules
    <3> QED BY <3>1, <3>2 DEF Keys, Fixed
  <2>2. Successes' = Successes BY <1>1 DEF Successes
  <2>3. Successes # {} => Anomalies' = Anomalies BY <1>1, <1>3 DEF Anomalies, new
  <2> QED BY <1>1, <2>1, <2>2, <2>3, AddedUnpinned DEF PinsInv
<1> QED BY <1>1, <1>6, <1>7, <1>8 DEF Grows

\* Steps that leave findings, pins and outcomes alone.
LEMMA QuietStep ==
    ASSUME ScoringInv, UNCHANGED <<case, rows, pins, stages>>, StepInv', posted' \in {posted, {}},
           step'.at = "grouping" \/ job'.state = "completed" =>
               posted' = posted /\ (step.at = "grouping" \/ job.state = "completed")
    PROVE  ScoringInv' /\ Grows
<1>1. RowsInv' BY DEF ScoringInv, RowsInv, Anomalies
<1>2. Successes' = Successes /\ Anomalies' = Anomalies BY DEF Successes, Anomalies
<1>3. \A key \in posted' : key[2] = SeedRule BY DEF ScoringInv, PinsInv
<1>4. PinsInv' BY <1>2, <1>3, AddedUnpinned
<1> QED BY <1>1, <1>4 DEF ScoringInv, Grows

LEMMA OtherSteps ==
    ASSUME ScoringInv, (\E s \in Settings : Claim(s)) \/ MlFails \/ AnalyticsFails \/ Complete \/ Crash
                       \/ \E refresh \in BOOLEAN : Retry(refresh)
    PROVE  ScoringInv' /\ Grows
<1> USE DEF ScoringInv, StepInv, PatternsWritten, Deterministic
<1>1. ASSUME NEW s \in Settings, Claim(s) PROVE ScoringInv' /\ Grows
  <2>1. StepInv' BY <1>1 DEF Claim, At
  <2> QED BY <1>1, <2>1, QuietStep DEF Claim, At
<1>2. CASE MlFails
  <2>1. StepInv' BY <1>2 DEF MlFails, At
  <2> QED BY <1>2, <2>1, QuietStep DEF MlFails, At
<1>3. CASE AnalyticsFails
  <2>1. StepInv' BY <1>3 DEF AnalyticsFails, At
  <2> QED BY <1>3, <2>1, QuietStep DEF AnalyticsFails, At
<1>4. CASE Complete
  <2>1. StepInv' BY <1>4 DEF Complete, Idle
  <2> QED BY <1>4, <2>1, QuietStep DEF Complete, Idle
<1>5. CASE Crash
  <2>1. StepInv' BY <1>5 DEF Crash, Idle
  <2> QED BY <1>5, <2>1, QuietStep DEF Crash, Idle
<1>6. ASSUME NEW refresh \in BOOLEAN, Retry(refresh) PROVE ScoringInv' /\ Grows
  <2>0. PICK b : job' = [job EXCEPT !.state = "queued", !.refresh = b] BY <1>6, Zenon DEF Retry
  <2>1. StepInv' BY <1>6, <2>0 DEF Retry
  <2>2. step'.at # "grouping" BY <1>6 DEF Retry
  <2> QED BY <1>6, <2>1, <2>2, QuietStep DEF Retry
<1> QED BY <1>1, <1>2, <1>3, <1>4, <1>5, <1>6

LEMMA PinningSteps == ASSUME ScoringInv, MlDone \/ PinRest PROVE ScoringInv' /\ Grows
<1> USE DEF ScoringInv
<1>1. case' = case /\ rows' = rows /\ posted' = posted /\ pins' = Pinned(rows') BY DEF MlDone, PinRest
<1>2. OneVersion(rows') BY <1>1, KeysTellVersions
<1>3. PinsInv' /\ \A key \in DOMAIN pins : key \in DOMAIN pins' /\ pins'[key] = pins[key]
  BY <1>1, <1>2, AllPinned
<1>4. RowsInv' BY <1>1 DEF RowsInv, Anomalies
<1>5. StepInv'
  <2>1. stages' \in Seq(Range(stages'))
    <3>1. stages \in Seq(Range(stages)) BY DEF StepInv
    <3>2. CASE stages' = stages BY <3>1, <3>2
    <3>3. CASE stages' # stages
      <4>1. PICK e : stages' = [stages EXCEPT ![Len(stages)] = e] BY <3>3 DEF MlDone, PinRest
      <4> QED BY <3>1, <4>1, ExceptIsSeq
    <3> QED BY <3>2, <3>3
  <2>2. PatternsWritten BY DEF StepInv, MlDone, PinRest
  <2>3. PatternsWritten' BY <1>1, <2>2 DEF PatternsWritten, Deterministic
  <2> QED BY <2>1, <2>3 DEF StepInv, MlDone, PinRest, At
<1> QED BY <1>1, <1>3, <1>4, <1>5 DEF Grows

LEMMA AnalyticsStep == ASSUME ScoringInv, Analytics PROVE ScoringInv' /\ Grows
<1> USE DEF ScoringInv
<1>1. /\ case' = case /\ pins' = pins /\ stages' = stages /\ process' = process
      /\ step.at = "analytics" /\ step'.at = "analysed" /\ job'.state = "running"
          /\ DOMAIN job' = DOMAIN job
      /\ process \in Settings /\ finished' = finished /\ posted' = posted
  BY DEF Analytics, At, StepInv
<1>2. /\ rows \subseteq rows'
      /\ \A r \in rows' : r \in rows \/ (r.key \in NetworkKeys /\ r.key \notin Keys(rows)
          /\ r.version = "network-correlation-v1")
  <2>1. CASE rows' = rows BY <2>1
  <2>2. CASE rows' # rows
    <3>1. rows' = rows \cup NetworkRows(Correlated[process.geo]) BY <2>2 DEF Analytics
    <3>2. process.geo \in BOOLEAN BY <1>1 DEF Settings
    <3>3. \A r \in NetworkRows(Correlated[process.geo]) :
              /\ r.key \in DOMAIN Correlated[process.geo] /\ r.key \notin Keys(rows)
              /\ r.version = "network-correlation-v1"
      <4> SUFFICES ASSUME NEW r \in NetworkRows(Correlated[process.geo])
                   PROVE  /\ r.key \in DOMAIN Correlated[process.geo] /\ r.key \notin Keys(rows)
                          /\ r.version = "network-correlation-v1"
        OBVIOUS
      <4>1. PICK k \in DOMAIN Correlated[process.geo] \ {q.key : q \in rows} :
                \E c, s, n : r = [key |-> k, version |-> "network-correlation-v1", by |-> c, score |-> s,
                rank |-> n]
        BY Zenon DEF NetworkRows
      <4> QED BY <4>1 DEF Keys
    <3> QED BY <3>1, <3>2, <3>3 DEF NetworkKeys
  <2> QED BY <2>1, <2>2
<1>3. Anomalies' = Anomalies /\ Successes' = Successes /\ Deterministic(rows') = Deterministic(rows)
  BY <1>1, <1>2 DEF Anomalies, Fixed, Successes, Deterministic
<1>4. RowsInv' BY <1>2, <1>3 DEF RowsInv
<1>5. StepInv'
  <2>1. PatternsWritten' BY <1>1, <1>3 DEF StepInv, PatternsWritten, Deterministic
  <2> QED BY <1>1, <2>1 DEF StepInv
<1>6. PinsInv' BY <1>1, <1>2, <1>3, AddedUnpinned DEF PinsInv
<1> QED BY <1>1, <1>2, <1>4, <1>5, <1>6 DEF Grows

\* What a review seed adds.
LEMMA SeedsAdd ==
    ASSUME NEW reach, PostSeed(reach)
    PROVE  /\ rows \subseteq rows' /\ posted \subseteq posted' /\ finished
           /\ UNCHANGED <<case, process, job, step, pins, stages, finished>>
           /\ \A r \in rows' : \/ r \in rows
                               \/ /\ r.version = "deterministic-v1" /\ r.key[2] = SeedRule
                                  /\ r.key \notin Keys(rows) /\ r.key \in posted'
           /\ \A key \in posted' : key \in posted \/ key[2] = SeedRule
<1>1. \A key \in SeedKeys(reach) : key[2] = SeedRule /\ key \notin Keys(rows)
  BY DEF SeedKeys, Keys
<1>2. \A r \in SeedRows(reach) : r.version = "deterministic-v1" /\ r.key \in SeedKeys(reach)
  BY DEF SeedRows
<1>3. rows' = rows \cup SeedRows(reach) /\ posted' = posted \cup SeedKeys(reach)
  BY DEF PostSeed
<1> QED BY <1>1, <1>2, <1>3 DEF PostSeed

LEMMA SeedStep == ASSUME ScoringInv, NEW reach, PostSeed(reach) PROVE ScoringInv' /\ Grows
<1> USE DEF ScoringInv
<1>1. /\ rows \subseteq rows' /\ posted \subseteq posted' /\ finished
      /\ UNCHANGED <<case, process, job, step, pins, stages, finished>>
      /\ \A r \in rows' : \/ r \in rows
                          \/ /\ r.version = "deterministic-v1" /\ r.key[2] = SeedRule
                             /\ r.key \notin Keys(rows) /\ r.key \in posted'
      /\ \A key \in posted' : key \in posted \/ key[2] = SeedRule
  BY SeedsAdd
<1>2. Anomalies' = Anomalies /\ Successes' = Successes BY <1>1 DEF Anomalies, Fixed, Successes
<1>3. RowsInv' BY <1>1, <1>2 DEF RowsInv
<1>4. StepInv'
  <2>1. PatternsWritten BY <1>1 DEF StepInv
  <2>2. PatternsWritten' BY <1>1, <2>1 DEF PatternsWritten, Deterministic, Keys
  <2> QED BY <1>1, <2>2 DEF StepInv
<1>5. PinsInv' BY <1>1, <1>2, AddedUnpinned DEF PinsInv
<1> QED BY <1>1, <1>3, <1>4, <1>5 DEF Grows

LEMMA ScoringStep == ScoringInv /\ [Next]_vars => ScoringInv' /\ Grows
<1> SUFFICES ASSUME ScoringInv, [Next]_vars PROVE ScoringInv' /\ Grows
  OBVIOUS
<1>1. CASE UNCHANGED vars
  <2>1. UNCHANGED <<case, process, job, step, rows, pins, stages, finished, posted>> BY <1>1 DEF vars
  <2>2. StepInv' BY <2>1 DEF ScoringInv, StepInv, PatternsWritten, Deterministic
  <2>3. RowsInv' BY <2>1 DEF ScoringInv, RowsInv, Anomalies
  <2>4. PinsInv'
    <3>1. Consistent(rows, pins)' BY <2>1, ConsistentStays DEF ScoringInv, PinsInv
    <3>2. Successes' = Successes /\ Anomalies' = Anomalies BY <2>1 DEF Successes, Anomalies
    <3> QED BY <2>1, <3>1, <3>2 DEF ScoringInv, PinsInv
  <2> QED BY <2>1, <2>2, <2>3, <2>4 DEF ScoringInv, Grows
<1> QED
  BY <1>1, FindingsStep, MlScoringStep, OtherSteps, PinningSteps, AnalyticsStep, SeedStep DEF Next

(* Whatever crashes, fails or is configured anew between attempts: final    *)
(* findings of the import have their calibration from the process that      *)
(* wrote them, scored ones have one once the scoring is recorded, of a      *)
(* completed import all have one but those that review seeds have added     *)
(* since its last attempt began, and each reads as its calibration and      *)
(* version make it.                                                         *)
THEOREM SettledArePinned == Spec => []PinnedWhenSettled
<1>1. ScoringInv => PinnedWhenSettled BY SettledFollows DEF ScoringInv
<1> QED BY <1>1, ScoringInit, ScoringStep, PTL DEF Spec

(* No attempt removes or rewrites a finding, or pins it anew.               *)
THEOREM PinsAreForGood == Spec => ProvenanceIsKept
<1>1. Grows => rows \subseteq rows' /\ \A key \in DOMAIN pins : key \in DOMAIN pins'
          /\ pins'[key] = pins[key]
  BY DEF Grows
<1> QED BY <1>1, ScoringInit, ScoringStep, PTL DEF Spec, ProvenanceIsKept

-----------------------------------------------------------------------------
(* One scorer.                                                              *)

Scorers == {Stack} \cup {m.release : m \in Candidates}

\* Each scorer orders the transactions.
LEMMA BeforeIsTotal ==
    ASSUME NEW release \in Scorers, NEW t \in Transactions, NEW u \in Transactions
    PROVE  /\ ~Before(release, t, t)
           /\ t = u \/ Before(release, t, u) \/ Before(release, u, t)
           /\ \A v \in Transactions : Before(release, v, t)
               /\ Before(release, t, u) => Before(release, v, u)
<1>1. \A v \in Transactions : v \in Nat /\ Slot[v] \in Int /\ Score[release][v] \in Int
  BY ScoresAssumption DEF Scorers
<1>2. Slot[t] = Slot[u] => t = u
  BY ScoresAssumption
<1> QED BY <1>1, <1>2 DEF Before

Sooner(release, S, t) == {u \in S : Before(release, u, t)}

LEMMA RankCounts ==
    ASSUME NEW release \in Scorers, NEW S \in SUBSET Transactions, NEW t \in S
    PROVE  /\ IsFiniteSet(S) /\ Cardinality(S) \in Nat /\ Rank(release, S, t) \in 1 .. Cardinality(S)
           /\ \A u \in S : Before(release, t, u) => Rank(release, S, t) < Rank(release, S, u)
<1>1. IsFiniteSet(S) /\ Cardinality(S) \in Nat
  BY ScoresAssumption, FS_Subset, FS_CardinalityType
<1>2. ASSUME NEW u \in S
      PROVE  /\ IsFiniteSet(Sooner(release, S, u)) /\ Cardinality(Sooner(release, S, u)) \in Nat
             /\ Rank(release, S, u) = 1 + Cardinality(Sooner(release, S, u))
  BY <1>1, FS_Subset, FS_CardinalityType DEF Sooner, Rank
<1>3. Sooner(release, S, t) \in SUBSET S /\ Sooner(release, S, t) # S
  BY BeforeIsTotal DEF Sooner
<1>4. Cardinality(Sooner(release, S, t)) < Cardinality(S)
  BY <1>1, <1>2, <1>3, FS_Subset
<1>5. ASSUME NEW u \in S, Before(release, t, u) PROVE Rank(release, S, t) < Rank(release, S, u)
  <2>1. Sooner(release, S, t) \in SUBSET Sooner(release, S, u)
    BY <1>5, BeforeIsTotal DEF Sooner
  <2>2. t \in Sooner(release, S, u) /\ t \notin Sooner(release, S, t)
    BY <1>5, BeforeIsTotal DEF Sooner
  <2>3. Cardinality(Sooner(release, S, t)) < Cardinality(Sooner(release, S, u))
    BY <1>2, <2>1, <2>2, FS_Subset
  <2> QED BY <1>2, <2>3
<1> QED BY <1>1, <1>2, <1>4, <1>5

\* The ranks of any transactions are the numbers up to theirs.
LEMMA RanksAreNumbers ==
    ASSUME NEW release \in Scorers, NEW S \in SUBSET Transactions
    PROVE  /\ \A t, u \in S : Rank(release, S, t) = Rank(release, S, u) => t = u
           /\ {Rank(release, S, t) : t \in S} = 1 .. Cardinality(S)
<1> DEFINE n     == Cardinality(S)
           ranks == [t \in S |-> Rank(release, S, t)]
<1>1. IsFiniteSet(S) /\ n \in Nat
  BY ScoresAssumption, FS_Subset, FS_CardinalityType
<1>2. \A t \in S : ranks[t] = Rank(release, S, t) /\ ranks[t] \in 1 .. n
  BY RankCounts
<1>3. ASSUME NEW t \in S, NEW u \in S, Rank(release, S, t) = Rank(release, S, u) PROVE t = u
  <2>1. Before(release, t, u) => Rank(release, S, t) < Rank(release, S, u)
    BY RankCounts
  <2>2. Before(release, u, t) => Rank(release, S, u) < Rank(release, S, t)
    BY RankCounts
  <2>3. Rank(release, S, t) \in Nat
    BY <1>1, <1>2
  <2> QED BY <1>3, <2>1, <2>2, <2>3, BeforeIsTotal
<1>4. ranks \in Injection(S, 1 .. n)
  BY <1>2, <1>3 DEF Injection, IsInjective
<1> HIDE DEF n
<1>5. IsFiniteSet(1 .. n) /\ Cardinality(1 .. n) = n
  <2>1. 1 \in Int /\ n \in Int
    BY <1>1
  <2> QED BY <1>1, <2>1, FS_Interval
<1>6. ranks \in Surjection(S, 1 .. n)
  <2> HIDE DEF ranks
  <2> QED BY <1>1, <1>4, <1>5, FS_Injection DEF n
<1>7. {Rank(release, S, t) : t \in S} = 1 .. n
  BY <1>2, <1>6 DEF Surjection
<1> QED BY <1>3, <1>7 DEF n

\* The transactions S are the ones a scorer may flag: none is left out that it
\* puts before one of them.
Flags(release, S) ==
    /\ release \in Scorers /\ release \notin Fixed /\ S \in SUBSET Transactions
    /\ \A t \in S, u \in Transactions \ S : Before(release, t, u)
    /\ release = Stack => S = {t \in Transactions : Score[Stack][t] >= Threshold}

\* What WholeRanking says of the anomalies, of any findings.
Whole(A, release) ==
    LET ranked == {t \in Transactions : \E r \in A : r.key[1] = t}
    IN /\ {r.rank : r \in A} = 1 .. Cardinality(A)
       /\ Cardinality(ranked) = Cardinality(A)
       /\ \A t \in ranked, u \in Transactions \ ranked : Before(release, t, u)
       /\ release = Stack => ranked = {t \in Transactions : Score[Stack][t] >= Threshold}

\* What a scorer writes of the transactions it flags.
LEMMA RankedIsWhole ==
    ASSUME NEW release, NEW rule, NEW S, Flags(release, S)
    PROVE  Whole(Ranked(release, rule, S), release)
<1> DEFINE A == Ranked(release, rule, S)
           Row(t) == [key |-> TxKey(t, rule), version |-> release, rank |-> Rank(release, S, t),
                      score |-> Score[release][t], by |-> process.calibration]
           put == [t \in S |-> Row(t)]
           ranked == {t \in Transactions : \E r \in A : r.key[1] = t}
<1>1. A = {Row(t) : t \in S}
  BY DEF Ranked
<1>2. \A t \in S : Row(t).rank = Rank(release, S, t) /\ Row(t).key[1] = t
  BY DEF TxKey
<1> HIDE DEF Row, A
<1>3. S \in SUBSET Transactions /\ IsFiniteSet(S)
  BY ScoresAssumption, FS_Subset DEF Flags
<1>4. put \in Surjection(S, A) /\ put \in Injection(S, A)
  <2>1. \A t, u \in S : put[t] = put[u] => t = u
    BY <1>2
  <2> QED BY <1>1, <2>1 DEF Surjection, Injection, IsInjective
<1>5. Cardinality(A) = Cardinality(S)
  <2> HIDE DEF put
  <2> QED BY <1>3, <1>4, FS_Surjection
<1>6. ranked = S
  BY <1>1, <1>2, <1>3
<1>7. {r.rank : r \in A} = {Rank(release, S, t) : t \in S}
  BY <1>1, <1>2
<1>8. {r.rank : r \in A} = 1 .. Cardinality(A)
  BY <1>3, <1>5, <1>7, RanksAreNumbers DEF Flags
<1>9. Whole(A, release)
  <2>1. /\ Cardinality(ranked) = Cardinality(A)
        /\ \A t \in ranked, u \in Transactions \ ranked : Before(release, t, u)
        /\ release = Stack => ranked = {t \in Transactions : Score[Stack][t] >= Threshold}
    BY <1>5, <1>6 DEF Flags
  <2> QED BY <1>8, <2>1 DEF Whole
<1> QED BY <1>9 DEF A

\* Whoever scores flags such transactions.
LEMMA ScorerFlags ==
    ASSUME process \in Settings
    PROVE  \E release, rule, S : Flags(release, S) /\ Scored = ScoredBy(release, Ranked(release, rule, S))
<1>1. CASE ByCandidate
  <2> DEFINE S(release) == {t \in Transactions : Rank(release, Transactions, t) <= Capacity}
  <2>1. process.candidate \in Candidates
    BY <1>1 DEF ByCandidate, Routed, Settings
  <2>2. PICK release : release = process.candidate.release
    OBVIOUS
  <2>3. release \in Scorers /\ release \notin Fixed /\ release # Stack
    BY <2>1, <2>2, ReleasesAssumption DEF Scorers
  <2>4. Scored = ScoredBy(release, Ranked(release, "candidate_pattern_triage", S(release)))
    BY <1>1, <2>2 DEF Scored, CandidateRows
  <2>5. Capacity \in Int
    <3>1. Cardinality(Transactions) \in Nat
      BY ScoresAssumption, FS_CardinalityType
    <3>2. Ceil(Cardinality(Transactions)) \in Int
      BY <3>1, ScoresAssumption DEF Ceil
    <3> QED BY <3>2 DEF Capacity
  <2>6. ASSUME NEW t \in S(release), NEW u \in Transactions \ S(release) PROVE Before(release, t, u)
    <3>1. Transactions \in SUBSET Transactions /\ t \in Transactions /\ u \in Transactions
      OBVIOUS
    <3>2. /\ Rank(release, Transactions, t) \in 1 .. Cardinality(Transactions)
          /\ Rank(release, Transactions, u) \in 1 .. Cardinality(Transactions)
          /\ Before(release, u, t) => Rank(release, Transactions, u) < Rank(release, Transactions, t)
      BY <2>3, <3>1, RankCounts
    <3>3. Rank(release, Transactions, t) <= Capacity /\ ~(Rank(release, Transactions, u) <= Capacity)
      OBVIOUS
    <3>4. ~Before(release, u, t) /\ t # u
      BY <2>5, <3>2, <3>3
    <3> QED BY <2>3, <3>1, <3>4, BeforeIsTotal
  <2>7. Flags(release, S(release))
    BY <2>3, <2>6 DEF Flags
  <2> HIDE DEF S
  <2> QED BY <2>4, <2>7
<1>2. CASE ~ByCandidate
  <2> DEFINE S == {t \in Transactions : Score[Stack][t] >= Threshold}
  <2>1. Scored = ScoredBy(Stack, Ranked(Stack, "anomaly_stack_rank", S)) /\ Stack \in Scorers
            /\ Stack \notin Fixed
    BY <1>2 DEF Scored, StackRows, Scorers, Stack, Fixed
  <2>2. ASSUME NEW t \in S, NEW u \in Transactions \ S PROVE Before(Stack, t, u)
    BY ScoresAssumption DEF Before
  <2>3. Flags(Stack, S)
    BY <2>1, <2>2 DEF Flags
  <2> HIDE DEF S
  <2> QED BY <2>1, <2>3
<1> QED BY <1>1, <1>2

\* What is newly scored is nothing, or a whole ranking of one release.
LEMMA ScoredIsWhole ==
    ASSUME process \in Settings
    PROVE  /\ \A r \in Scored.rows : r.version = Scored.release /\ r.version \notin Fixed
           /\ Scored.rows # {} => Whole(Scored.rows, Scored.release)
<1>1. PICK release, rule, S : Flags(release, S) /\ Scored = ScoredBy(release, Ranked(release, rule, S))
  BY ScorerFlags
<1>2. Scored.release = release /\ (Scored.rows = Ranked(release, rule, S) \/ Scored.rows = {})
  BY <1>1 DEF ScoredBy, Written, Result
<1>3. \A r \in Ranked(release, rule, S) : r.version = release
  BY DEF Ranked
<1>4. Whole(Ranked(release, rule, S), release)
  BY <1>1, RankedIsWhole
<1> QED BY <1>1, <1>2, <1>3, <1>4 DEF Flags

-----------------------------------------------------------------------------
(* One release is named by the findings, by every success recorded, and by  *)
(* the result a process is about to record.                                 *)

Told ==
    IF step.at = "scored" /\ step.result.status \in Success /\ step.result.release # Null
    THEN {step.result.release} ELSE {}

Named == Releases \cup {stages[k].release : k \in Successes} \cup Told

MixInv ==
    /\ \A a, b \in Named : a = b
    /\ \A release \in Releases : Whole(Anomalies, release)

LEMMA NoMoreNamed ==
    ASSUME MixInv, Anomalies' = Anomalies, Named' \subseteq Named
    PROVE  MixInv'
<1>1. Releases' = Releases
  BY DEF Releases
<1>2. \A release : Whole(Anomalies, release)' <=> Whole(Anomalies, release)
  BY DEF Whole, Before
<1> QED BY <1>1, <1>2 DEF MixInv

\* Scoring outcomes stay, and nothing is told, where only other findings are
\* written.
LEMMA OthersWrite ==
    ASSUME MixInv, rows \subseteq rows', \A r \in rows' : r \in rows \/ r.version \in Fixed,
           {stages'[k].release : k \in Successes'} \subseteq Named, step'.at # "scored"
    PROVE  MixInv'
<1>1. Anomalies' = Anomalies
  BY DEF Anomalies
<1>2. Releases' = Releases /\ Told' = {}
  BY <1>1 DEF Releases, Told
<1>3. Named' = Releases' \cup {stages'[k].release : k \in Successes'} \cup Told'
  BY DEF Named
<1> HIDE DEF Named
<1>4. Releases \subseteq Named
  BY DEF Named
<1> QED BY <1>1, <1>2, <1>3, <1>4, NoMoreNamed

LEMMA LastNumber ==
    ASSUME NEW n \in Nat, NEW S, S \subseteq 1 .. n, S # {}
    PROVE  \E m \in S : \A k \in S : k <= m
<1> DEFINE R == OpToRel(<, Nat)
           T == {n - k : k \in S}
<1>1. IsWellFoundedOn(R, Nat)
  BY NatLessThanWellFounded
<1>2. \A x, y \in Nat : <<y, x>> \in R <=> y < x
  BY DEF OpToRel
<1> HIDE DEF R
<1>3. T \subseteq Nat /\ T # {}
  <2>1. \A k \in S : n - k \in Nat
    OBVIOUS
  <2> QED BY <2>1
<1> HIDE DEF T
<1>4. PICK least \in T : \A k \in T : <<k, least>> \notin R
  BY <1>1, <1>3, WFMin
<1>5. PICK m \in S : least = n - m
  BY <1>4 DEF T
<1>6. ASSUME NEW k \in S PROVE k <= m
  <2>1. n - k \in T /\ n - k \in Nat /\ n - m \in Nat
    BY DEF T
  <2>2. ~(n - k < n - m)
    BY <1>2, <1>4, <1>5, <2>1
  <2> QED BY <2>2
<1> QED BY <1>6

LEMMA LastSuccessIsOne ==
    ASSUME StepInv, Successes # {}
    PROVE  \E k \in Successes : LastSuccess = stages[k]
<1>1. Len(stages) \in Nat /\ DOMAIN stages = 1 .. Len(stages)
  BY DEF StepInv
<1>2. Successes \subseteq 1 .. Len(stages)
  BY <1>1 DEF Successes
<1>3. \E m \in Successes : \A k \in Successes : k <= m
  BY <1>1, <1>2, LastNumber
<1> QED BY <1>3 DEF LastSuccess

LEMMA MlScoringNeverMixes == ASSUME ScoringInv, MixInv, MlScoring PROVE MixInv'
<1> DEFINE result == IF process.ml THEN ScoreOrKeep ELSE Result("disabled", Null, 0)
<1>1. /\ rows' = rows \cup result.rows /\ stages' = stages /\ step'.at = "scored" /\ step'.result = result
      /\ step.at = "scoring" /\ process \in Settings
  BY DEF MlScoring, At, ScoringInv, StepInv
<1> DEFINE old == Releases \cup {stages[k].release : k \in Successes}
<1>2. Successes' = Successes /\ Told = {} /\ Named = old
  BY <1>1 DEF Successes, Told, Named
<1>3. Named' = Releases' \cup {stages[k].release : k \in Successes} \cup Told'
  BY <1>1, <1>2 DEF Named
<1>4. Told' \subseteq {result.release} /\ (result.status \notin Success => Told' = {})
  BY <1>1 DEF Told
<1>5. CASE result.rows = {} /\ (result.status \in Success => result.release \in old)
  <2>1. rows' = rows /\ Told' \subseteq old
    BY <1>1, <1>4, <1>5
  <2>2. Anomalies' = Anomalies
    BY <2>1 DEF Anomalies
  <2>3. Releases' = Releases
    BY <2>2 DEF Releases
  <2> QED BY <1>2, <1>3, <2>1, <2>2, <2>3, NoMoreNamed
<1>6. CASE result = Scored /\ Anomalies = {} /\ Successes = {}
  <2>1. /\ \A r \in result.rows : r.version = result.release /\ r.version \notin Fixed
        /\ result.rows # {} => Whole(result.rows, result.release)
    BY <1>1, <1>6, ScoredIsWhole
  <2> HIDE DEF result
  <2>2. Anomalies' = result.rows
    BY <1>1, <1>6, <2>1 DEF Anomalies
  <2>3. \A a \in Releases' : a = result.release /\ result.rows # {}
    BY <2>1, <2>2 DEF Releases
  <2>4. \A a \in Named' : a = result.release
    BY <1>3, <1>4, <1>6, <2>3
  <2>5. \A release \in Releases' : Whole(result.rows, release)
    BY <2>1, <2>3
  <2>6. \A release : Whole(Anomalies, release)' <=> Whole(Anomalies', release)
    BY DEF Whole, Before
  <2> QED BY <2>2, <2>4, <2>5, <2>6 DEF MixInv
<1> HIDE DEF old
<1>7. \/ result.rows = {} /\ (result.status \in Success => result.release \in old)
      \/ result = Scored /\ Anomalies = {} /\ Successes = {}
  <2>0. ASSUME NEW status, NEW release, NEW flagged
        PROVE  LET r == Result(status, release, flagged)
               IN r.rows = {} /\ r.status = status /\ r.release = release
    BY DEF Result
  <2>1. CASE ~process.ml
    <3>1. result = Result("disabled", Null, 0)
      BY <2>1
    <3> HIDE DEF result
    <3>2. result.rows = {} /\ result.status = "disabled"
      BY <2>0, <3>1
    <3> QED BY <3>2 DEF Success
  <2>2. CASE process.ml /\ Anomalies # {}
    <3>1. result = Kept((CHOOSE r \in Anomalies : TRUE).version, Cardinality(Anomalies))
      BY <2>2 DEF ScoreOrKeep
    <3>2. (CHOOSE r \in Anomalies : TRUE).version \in Releases
      BY <2>2 DEF Releases
    <3> HIDE DEF result
    <3>3. result.rows = {} /\ result.release = (CHOOSE r \in Anomalies : TRUE).version
      BY <2>0, <3>1 DEF Kept
    <3> QED BY <3>2, <3>3 DEF old
  <2>3. CASE process.ml /\ Anomalies = {} /\ Successes # {}
    <3>1. result = Kept(LastSuccess.release, 0)
      BY <2>3 DEF ScoreOrKeep
    <3>2. PICK k \in Successes : LastSuccess = stages[k]
      BY <2>3, LastSuccessIsOne DEF ScoringInv
    <3> HIDE DEF result
    <3>3. result.rows = {} /\ result.release = stages[k].release
      BY <2>0, <3>1, <3>2 DEF Kept
    <3> QED BY <3>3 DEF old
  <2>4. CASE process.ml /\ Anomalies = {} /\ Successes = {}
    BY <2>4 DEF ScoreOrKeep
  <2> QED BY <2>1, <2>2, <2>3, <2>4
<1> QED BY <1>5, <1>6, <1>7

\* A success that is recorded names what the process was told.
LEMMA MlDoneNeverMixes == ASSUME ScoringInv, MixInv, MlDone PROVE MixInv'
<1>1. rows' = rows /\ step.at = "scored" /\ step'.at = "analytics"
  BY DEF MlDone, At
<1>2. stages \in Seq(Range(stages))
  BY DEF ScoringInv, StepInv
<1>3. ASSUME NEW k \in Successes' PROVE stages'[k].release \in Named
  <2>1. CASE stages' = stages
    BY <2>1, <1>3 DEF Successes, Named
  <2>2. CASE stages' # stages
    <3> DEFINE row == [stages[Len(stages)] EXCEPT !.status = step.result.status,
    !.release = step.result.release,
                                                  !.flagged = step.result.flagged]
    <3>1. stages' = [stages EXCEPT ![Len(stages)] = row]
      BY <2>2 DEF MlDone
    <3> HIDE DEF row
    <3>2. k \in DOMAIN stages /\ stages'[k] = IF k = Len(stages) THEN row ELSE stages[k]
      BY <1>2, <1>3, <3>1 DEF Successes
    <3>3. CASE k # Len(stages)
      BY <1>3, <3>2, <3>3 DEF Successes, Named
    <3>4. CASE k = Len(stages)
      <4>1. stages'[k] = row /\ row.status \in Success /\ row.release # Null
        BY <1>3, <3>2, <3>4 DEF Successes
      <4>2. row.release = step.result.release /\ row.status = step.result.status
        BY DEF row
      <4>3. row.release \in Told
        BY <1>1, <4>1, <4>2 DEF Told
      <4> QED BY <4>1, <4>3 DEF Named
    <3> QED BY <3>3, <3>4
  <2> QED BY <2>1, <2>2
<1> QED BY <1>1, <1>3, OthersWrite

LEMMA FindingsNeverMix == ASSUME ScoringInv, MixInv, Findings PROVE MixInv'
<1>1. step'.at = "scoring" /\ stages \in Seq(Range(stages))
  BY DEF Findings, At, ScoringInv, StepInv
<1>2. rows \subseteq rows' /\ \A r \in rows' : r \in rows \/ r.version \in Fixed
  BY DEF Findings, Fixed
<1>3. ASSUME NEW k \in Successes' PROVE stages'[k].release \in Named
  <2>1. CASE stages' = stages
    BY <2>1, <1>3 DEF Successes, Named
  <2>2. CASE stages' # stages
    <3> DEFINE row == [attempt |-> job.attempt, status |-> "running", release |-> Null, flagged |-> 0]
    <3>1. stages' = Append(stages, row)
      BY <2>2 DEF Findings
    <3>2. row.status \notin Success
      BY DEF Success
    <3> HIDE DEF row
    <3>3. /\ DOMAIN stages' = DOMAIN stages \cup {Len(stages) + 1} /\ stages'[Len(stages) + 1] = row
          /\ \A i \in DOMAIN stages : stages'[i] = stages[i]
      BY <1>1, <3>1, AppendIsSeq
    <3> QED BY <1>3, <3>2, <3>3 DEF Successes, Named
  <2> QED BY <2>1, <2>2
<1> QED BY <1>1, <1>2, <1>3, OthersWrite

LEMMA NextNeverMixes == ScoringInv /\ MixInv /\ [Next]_vars => MixInv'
<1> SUFFICES ASSUME ScoringInv, MixInv, [Next]_vars PROVE MixInv'
  OBVIOUS
<1>1. CASE UNCHANGED vars
  <2>1. Anomalies' = Anomalies /\ Named' = Named
    BY <1>1 DEF vars, Anomalies, Named, Releases, Successes, Told
  <2> QED BY <2>1, NoMoreNamed
<1>2. CASE UNCHANGED <<rows, stages>> /\ step'.at # "scored"
  <2>1. {stages'[k].release : k \in Successes'} \subseteq Named
    BY <1>2 DEF Successes, Named
  <2> QED BY <1>2, <2>1, OthersWrite
<1>3. CASE Analytics
  <2>1. stages' = stages /\ step'.at = "analysed"
    BY <1>3 DEF Analytics, At
  <2>2. rows \subseteq rows' /\ \A r \in rows' : r \in rows \/ r.version \in Fixed
    <3>1. ASSUME NEW found, NEW r \in NetworkRows(found) PROVE r.version \in Fixed
      <4>1. \E k, c, s, n : r = [key |-> k, version |-> "network-correlation-v1", by |-> c, score |-> s,
      rank |-> n]
        BY Zenon DEF NetworkRows
      <4> QED BY <4>1 DEF Fixed
    <3>2. rows' = rows \/ rows' = rows \cup NetworkRows(Correlated[process.geo])
      BY <1>3 DEF Analytics
    <3> QED BY <3>1, <3>2
  <2>3. {stages'[k].release : k \in Successes'} \subseteq Named
    BY <2>1 DEF Successes, Named
  <2> QED BY <2>1, <2>2, <2>3, OthersWrite
<1>4. CASE MlFails
  <2>1. Told' = {} /\ UNCHANGED <<rows, stages>>
    BY <1>4 DEF MlFails, At, Told, Result, Success
  <2>2. Anomalies' = Anomalies /\ Named' \subseteq Named
    BY <2>1 DEF Anomalies, Named, Releases, Successes
  <2> QED BY <2>2, NoMoreNamed
<1>5. CASE \E settings \in Settings : Claim(settings)
  BY <1>2, <1>5 DEF Claim, At
<1>6. CASE \E refresh \in BOOLEAN : Retry(refresh)
  <2>1. UNCHANGED <<rows, stages, step>> /\ job.state = "completed"
    BY <1>6 DEF Retry
  <2>2. step.at = "idle"
    BY <2>1 DEF ScoringInv, StepInv
  <2> QED BY <1>2, <2>1, <2>2
<1>7. CASE AnalyticsFails \/ PinRest \/ Complete \/ Crash
  BY <1>2, <1>7 DEF AnalyticsFails, PinRest, Complete, Crash, At, Idle
<1>8. CASE \E reach \in Reaches : PostSeed(reach)
  <2>1. rows \subseteq rows' /\ UNCHANGED <<stages, step>> /\ \A r \in rows' : r \in rows \/ r.version \in Fixed
    BY <1>8, SeedsAdd DEF Fixed
  <2>2. Anomalies' = Anomalies BY <2>1 DEF Anomalies
  <2>3. Named' \subseteq Named BY <2>1, <2>2 DEF Named, Releases, Successes, Told
  <2> QED BY <2>2, <2>3, NoMoreNamed
<1> QED
  BY <1>1, <1>3, <1>4, <1>5, <1>6, <1>7, <1>8, MlScoringNeverMixes, MlDoneNeverMixes, FindingsNeverMix DEF Next

LEMMA MixNames == MixInv => ScorersNeverMix
<1> SUFFICES ASSUME MixInv PROVE ScorersNeverMix
  OBVIOUS
<1> DEFINE S == Releases \cup {stages[k].release : k \in Successes}
<1>1. \A a, b \in S : a = b
  BY DEF MixInv, Named
<1> HIDE DEF S
<1>2. S = {} \/ \E a : S = {a}
  BY <1>1
<1>3. Cardinality(S) <= 1
  <2>1. CASE S = {}
    BY <2>1, FS_EmptySet
  <2>2. ASSUME NEW a, S = {a} PROVE Cardinality(S) <= 1
    <3>1. Cardinality({a}) = 1
      BY FS_Singleton
    <3> QED BY <2>2, <3>1
  <2> QED BY <1>2, <2>1, <2>2
<1>4. \A release \in Releases : WholeRanking(release)
  BY DEF MixInv, Whole, WholeRanking
<1> QED BY <1>3, <1>4 DEF S, ScorersNeverMix

LEMMA MixInit == Init => MixInv
<1> SUFFICES ASSUME Init PROVE MixInv
  OBVIOUS
<1>1. Releases = {} /\ Successes = {} /\ Told = {}
  BY DEF Init, Releases, Anomalies, Successes, Told, Idle
<1> QED BY <1>1 DEF MixInv, Named

(* Over any attempts, crashes and settings, the anomaly findings are the    *)
(* whole ranking of one release, which every recorded success names: no     *)
(* retry mixes scorers or completes what another began.                     *)
THEOREM OneRelease == Spec => []ScorersNeverMix
<1>1. ScoringInv /\ [Next]_vars => ScoringInv'
  BY ScoringStep
<1> QED BY <1>1, MixNames, MixInit, NextNeverMixes, ScoringInit, PTL DEF Spec

-----------------------------------------------------------------------------
(* The queue's order: falling score, then id.                               *)
Stronger(release, t, u) ==
    \/ Score[release][t] > Score[release][u]
    \/ Score[release][t] = Score[release][u] /\ t < u

Ahead(release, S, t) == {u \in S : Stronger(release, u, t)}

LEMMA StrongerIsTotal ==
    ASSUME NEW release \in Scorers, NEW t \in Transactions, NEW u \in Transactions
    PROVE  /\ ~Stronger(release, t, t)
           /\ t = u \/ Stronger(release, t, u) \/ Stronger(release, u, t)
           /\ \A v \in Transactions :
                  Stronger(release, v, t) /\ Stronger(release, t, u) => Stronger(release, v, u)
<1>1. \A v \in Transactions : v \in Nat /\ Score[release][v] \in Int
  BY ScoresAssumption DEF Scorers
<1> QED BY <1>1 DEF Stronger

LEMMA AheadCounts ==
    ASSUME NEW release \in Scorers, NEW S \in SUBSET Transactions, NEW t \in S
    PROVE  /\ IsFiniteSet(Ahead(release, S, t)) /\ Cardinality(Ahead(release, S, t)) \in 0 .. Cardinality(S) - 1
           /\ \A u \in S : Stronger(release, t, u) =>
                  Cardinality(Ahead(release, S, t)) < Cardinality(Ahead(release, S, u))
<1>1. IsFiniteSet(S) /\ Cardinality(S) \in Nat
  BY ScoresAssumption, FS_Subset, FS_CardinalityType
<1>2. ASSUME NEW u \in S PROVE IsFiniteSet(Ahead(release, S, u)) /\ Cardinality(Ahead(release, S, u)) \in Nat
  BY <1>1, FS_Subset, FS_CardinalityType DEF Ahead
<1>3. Ahead(release, S, t) \in SUBSET S /\ Ahead(release, S, t) # S
  BY StrongerIsTotal DEF Ahead
<1>4. Cardinality(Ahead(release, S, t)) < Cardinality(S)
  BY <1>1, <1>2, <1>3, FS_Subset
<1>5. ASSUME NEW u \in S, Stronger(release, t, u)
      PROVE  Cardinality(Ahead(release, S, t)) < Cardinality(Ahead(release, S, u))
  <2>1. Ahead(release, S, t) \in SUBSET Ahead(release, S, u)
    BY <1>5, StrongerIsTotal DEF Ahead
  <2>2. t \in Ahead(release, S, u) /\ t \notin Ahead(release, S, t)
    BY <1>5, StrongerIsTotal DEF Ahead
  <2> QED BY <1>2, <2>1, <2>2, FS_Subset
<1> QED BY <1>1, <1>2, <1>4, <1>5

Place(release, S, i) == CHOOSE t \in S : Cardinality(Ahead(release, S, t)) = i - 1

LEMMA EveryPlaceIsTaken ==
    ASSUME NEW release \in Scorers, NEW S \in SUBSET Transactions, NEW i \in 1 .. Cardinality(S)
    PROVE  Place(release, S, i) \in S /\ Cardinality(Ahead(release, S, Place(release, S, i))) = i - 1
<1> DEFINE n == Cardinality(S)
           count == [t \in S |-> Cardinality(Ahead(release, S, t))]
<1>1. IsFiniteSet(S) /\ n \in Nat
  BY ScoresAssumption, FS_Subset, FS_CardinalityType
<1>2. \A t \in S : count[t] \in 0 .. n - 1
  BY AheadCounts
<1>3. ASSUME NEW t \in S, NEW u \in S, count[t] = count[u] PROVE t = u
  <2>1. Stronger(release, t, u) => count[t] < count[u]
    BY AheadCounts
  <2>2. Stronger(release, u, t) => count[u] < count[t]
    BY AheadCounts
  <2> HIDE DEF count, n
  <2>3. count[t] \in Int /\ count[u] \in Int
    BY <1>1, <1>2
  <2>4. ~Stronger(release, t, u) /\ ~Stronger(release, u, t)
    BY <1>3, <2>1, <2>2, <2>3
  <2> QED BY <2>4, StrongerIsTotal
<1>4. count \in Injection(S, 0 .. n - 1)
  BY <1>2, <1>3 DEF Injection, IsInjective
<1> HIDE DEF n
<1>5. IsFiniteSet(0 .. n - 1) /\ Cardinality(0 .. n - 1) = n
  <2>1. 0 \in Int /\ n - 1 \in Int
    BY <1>1
  <2>2. IsFiniteSet(0 .. n - 1) /\ Cardinality(0 .. n - 1) = IF 0 > n - 1 THEN 0 ELSE n - 1 - 0 + 1
    BY <2>1, FS_Interval
  <2> QED BY <1>1, <2>2
<1>6. count \in Surjection(S, 0 .. n - 1)
  <2> HIDE DEF count
  <2> QED BY <1>1, <1>4, <1>5, FS_Injection DEF n
<1>7. i - 1 \in 0 .. n - 1
  BY <1>1 DEF n
<1>8. PICK t \in S : count[t] = i - 1
  <2> HIDE DEF count
  <2> QED BY <1>6, <1>7 DEF Surjection
<1>9. Cardinality(Ahead(release, S, t)) = i - 1
  BY <1>8
<1> QED BY <1>9 DEF Place

\* The queue's order and the scorer's differ among equal scores only.
LEMMA PlacesAreAsStrong ==
    ASSUME NEW release \in Scorers, NEW S \in SUBSET Transactions, NEW t \in S, NEW u \in S,
           Rank(release, S, u) = 1 + Cardinality(Ahead(release, S, t))
    PROVE  Score[release][t] = Score[release][u]
<1> DEFINE ahead == Ahead(release, S, t)
           sooner == Sooner(release, S, u)
<1>1. IsFiniteSet(S) BY ScoresAssumption, FS_Subset
<1>2. IsFiniteSet(ahead) /\ IsFiniteSet(sooner) /\ Cardinality(ahead) \in Nat /\ Cardinality(sooner) \in Nat
  BY <1>1, FS_Subset, FS_CardinalityType DEF Ahead, Sooner
<1>3. Cardinality(sooner) = Cardinality(ahead)
  BY <1>2 DEF Rank, Sooner
<1>4. \A v \in Transactions : v \in Nat /\ Score[release][v] \in Int
  BY ScoresAssumption DEF Scorers
<1>5. t \notin ahead /\ u \notin sooner
  BY StrongerIsTotal, BeforeIsTotal DEF Ahead, Sooner
<1>6. CASE Score[release][t] > Score[release][u]
  <2>1. ahead \cup {t} \in SUBSET sooner
    BY <1>4, <1>6 DEF Ahead, Sooner, Stronger, Before
  <2> HIDE DEF ahead, sooner
  <2>2. Cardinality(ahead \cup {t}) = Cardinality(ahead) + 1
    BY <1>2, <1>5, FS_AddElement
  <2>3. Cardinality(ahead \cup {t}) <= Cardinality(sooner)
    BY <1>2, <2>1, FS_Subset
  <2> QED BY <1>2, <1>3, <2>2, <2>3
<1>7. CASE Score[release][u] > Score[release][t]
  <2>1. sooner \cup {u} \in SUBSET ahead
    BY <1>4, <1>7 DEF Ahead, Sooner, Stronger, Before
  <2> HIDE DEF ahead, sooner
  <2>2. Cardinality(sooner \cup {u}) = Cardinality(sooner) + 1
    BY <1>2, <1>5, FS_AddElement
  <2>3. Cardinality(sooner \cup {u}) <= Cardinality(ahead)
    BY <1>2, <2>1, FS_Subset
  <2> QED BY <1>2, <1>3, <2>2, <2>3
<1> QED BY <1>4, <1>6, <1>7

-----------------------------------------------------------------------------
(* The queue of a whole ranking.                                            *)
Row(release, rule, S, by, t) ==
    [key |-> TxKey(t, rule), version |-> release, rank |-> Rank(release, S, t),
     score |-> Score[release][t], by |-> by]
Ranking(release, rule, S, by) == {Row(release, rule, S, by, t) : t \in S}

Fewer(a, b) == IF a <= b THEN a ELSE b

LEMMA MinOfTwo == ASSUME NEW a \in Int, NEW b \in Int PROVE Min({a, b}) = Fewer(a, b)
BY DEF Min, Fewer

\* What the queue is made of.
QueueRows == {r \in rows : r.version = QueueScorer}

LEMMA QueueIs ==
    ASSUME NEW release \in Scorers, NEW rule, NEW S \in SUBSET Transactions, NEW by,
           QueueRows = Ranking(release, rule, S, by), NEW capacity \in Nat
    PROVE  Queue(capacity) = [i \in 1 .. Fewer(capacity, Cardinality(S)) |-> Place(release, S, i)]
<1> USE DEF QueueRows
<1> DEFINE scope == {r \in rows : r.version = QueueScorer}
           flagged == {r.key[1] : r \in scope}
           best(t) == CHOOSE score \in {r.score : r \in {q \in scope : q.key[1] = t}} :
                          \A r \in scope : r.key[1] = t => r.score <= score
           ahead(t) == {u \in flagged : best(u) > best(t) \/ (best(u) = best(t) /\ u < t)}
<1>1. Queue(capacity) = [i \in 1 .. Min({capacity, Cardinality(flagged)}) |->
                            CHOOSE t \in flagged : Cardinality(ahead(t)) = i - 1]
  BY DEF Queue
<1>2. \A t : Row(release, rule, S, by, t).key[1] = t /\ Row(release, rule, S, by, t).score = Score[release][t]
  BY DEF Row, TxKey
<1>3. scope = {Row(release, rule, S, by, t) : t \in S}
  BY DEF Ranking
<1> HIDE DEF scope
<1>4. flagged = S
  BY <1>2, <1>3
<1>6. \A t \in S : t \in Nat /\ Score[release][t] \in Int
  BY ScoresAssumption DEF Scorers
<1>7. ASSUME NEW t \in S PROVE best(t) = Score[release][t]
  <2>1. {r.score : r \in {q \in scope : q.key[1] = t}} = {Score[release][t]}
    BY <1>2, <1>3
  <2>2. \A r \in scope : r.key[1] = t => r.score <= Score[release][t]
    BY <1>2, <1>3, <1>6
  <2> QED BY <2>1, <2>2
<1> HIDE DEF best, flagged
<1>8. ASSUME NEW t \in S PROVE ahead(t) = Ahead(release, S, t)
  <2>1. ahead(t) = {u \in S : best(u) > best(t) \/ (best(u) = best(t) /\ u < t)}
    BY <1>4
  <2> HIDE DEF ahead
  <2> QED BY <1>7, <2>1 DEF Ahead, Stronger
<1> HIDE DEF ahead
<1>9. Min({capacity, Cardinality(S)}) = Fewer(capacity, Cardinality(S))
  <2>0. IsFiniteSet(S)
    BY ScoresAssumption, FS_Subset
  <2>1. capacity \in Int /\ Cardinality(S) \in Int
    BY <2>0, FS_CardinalityType
  <2> QED BY <2>1, MinOfTwo
<1>10. \A i : (CHOOSE t \in S : Cardinality(ahead(t)) = i - 1) = Place(release, S, i)
  BY <1>8 DEF Place
<1> QED BY <1>1, <1>4, <1>9, <1>10

PageOf(T, n, queue, page, offset, end) ==
    /\ page \in Seq(T) /\ Len(page) = IF offset < end THEN end - offset ELSE 0
    /\ \A i \in 1 .. Len(page) : offset + i \in 1 .. n /\ page[i] = queue[offset + i]

LEMMA PageIs ==
    ASSUME NEW T, NEW n \in Nat, NEW queue, queue = [i \in 1 .. n |-> queue[i]],
           \A i \in 1 .. n : queue[i] \in T,
           NEW limit \in Nat, NEW offset \in Nat
    PROVE  PageOf(T, n, queue, QueuePage(queue, limit, offset), offset, Fewer(offset + limit, n))
<1> DEFINE end == Fewer(offset + limit, n)
           page == SubSeq(queue, offset + 1, end)
<1>1. Len(queue) = n
  <2>1. queue \in Seq(T) OBVIOUS
  <2> QED BY <2>1
<1>2. end \in Int /\ end <= n /\ QueuePage(queue, limit, offset) = page
  <2>1. offset + limit \in Int /\ n \in Int OBVIOUS
  <2>2. Min({offset + limit, n}) = Fewer(offset + limit, n) BY <2>1, MinOfTwo
  <2>3. end \in Int /\ end <= n BY <2>1 DEF Fewer
  <2>4. QueuePage(queue, limit, offset) = SubSeq(queue, offset + 1, Min({offset + limit, Len(queue)}))
    BY DEF QueuePage
  <2> QED BY <1>1, <2>2, <2>3, <2>4
<1> HIDE DEF end
<1>3. \A i \in offset + 1 .. end : queue[i] \in T
  BY <1>2
<1>4. /\ page \in Seq(T) /\ Len(page) = IF offset + 1 <= end THEN end - (offset + 1) + 1 ELSE 0
      /\ \A i \in 1 .. end - (offset + 1) + 1 : page[i] = queue[offset + 1 + i - 1]
  <2>1. PICK m \in Int : m = offset + 1 OBVIOUS
  <2>2. end \in Int /\ \A i \in m .. end : queue[i] \in T BY <1>2, <1>3, <2>1
  <2>3. /\ SubSeq(queue, m, end) \in Seq(T)
        /\ Len(SubSeq(queue, m, end)) = IF m <= end THEN end - m + 1 ELSE 0
        /\ \A i \in 1 .. end - m + 1 : SubSeq(queue, m, end)[i] = queue[m + i - 1]
    <3> HIDE DEF end, page
    <3>1. PICK e \in Int : e = end BY <2>2
    <3>2. \A i \in m .. e : queue[i] \in T BY <2>2, <3>1
    <3>3. /\ SubSeq(queue, m, e) \in Seq(T)
          /\ Len(SubSeq(queue, m, e)) = IF m <= e THEN e - m + 1 ELSE 0
          /\ \A i \in 1 .. e - m + 1 : SubSeq(queue, m, e)[i] = queue[m + i - 1]
      BY ONLY <3>2, SubSeqProperties, m \in Int, e \in Int
    <3> QED BY <3>1, <3>3
  <2> QED BY <2>1, <2>3
<1> HIDE DEF page
<1>5. Len(page) = IF offset < end THEN end - offset ELSE 0
  BY <1>2, <1>4
<1>6. ASSUME NEW i \in 1 .. Len(page)
      PROVE  offset + i \in 1 .. n /\ offset + i <= end /\ page[i] = queue[offset + i]
  <2>1. i \in 1 .. end - (offset + 1) + 1 /\ offset < end BY <1>2, <1>5
  <2>2. page[i] = queue[offset + 1 + i - 1] BY <1>4, <2>1
  <2>3. offset + 1 + i - 1 = offset + i BY <2>1
  <2> QED BY <1>2, <2>1, <2>2, <2>3
<1> QED BY <1>2, <1>4, <1>5, <1>6 DEF end, PageOf

(* A page of it: its length, its places against the ranks, and the places  *)
(* of another page.                                                         *)
LEMMA PageIsShown ==
    ASSUME NEW release \in Scorers, NEW rule, NEW S \in SUBSET Transactions, NEW by,
           Anomalies = Ranking(release, rule, S, by),
           NEW capacity \in Nat, NEW limit \in Nat, NEW offset \in Nat, NEW later \in Nat,
           NEW queue, queue = [i \in 1 .. Fewer(capacity, Cardinality(S)) |-> Place(release, S, i)]
    PROVE  PageShows(queue, capacity, limit, offset, later)
<1> DEFINE n == Cardinality(S)
           l == Fewer(capacity, n)
           end == Fewer(offset + limit, l)
           page == QueuePage(queue, limit, offset)
           other == QueuePage(queue, limit, later)
           R == {r \in Anomalies : offset < r.rank /\ r.rank <= offset + limit /\ r.rank <= capacity}
           row(t) == Row(release, rule, S, by, t)
<1>1. release \in Scorers /\ S \in SUBSET Transactions /\ IsFiniteSet(S) /\ n \in Nat
  BY ScoresAssumption, FS_Subset, FS_CardinalityType
<1>2. /\ \A t, u \in S : Rank(release, S, t) = Rank(release, S, u) => t = u
      /\ {Rank(release, S, t) : t \in S} = 1 .. n
  BY <1>1, RanksAreNumbers
<1>3. Anomalies = {row(t) : t \in S} BY DEF Ranking
<1>4. \A t \in S : row(t).rank = Rank(release, S, t) /\ row(t).score = Score[release][t] /\ row(t).key[1] = t
  BY DEF Row, TxKey
<1>5. \A i \in 1 .. n : /\ Place(release, S, i) \in S
                        /\ Cardinality(Ahead(release, S, Place(release, S, i))) = i - 1
  BY <1>1, EveryPlaceIsTaken
<1> HIDE DEF n, row
<1>6. l \in Nat /\ l <= n /\ l <= capacity /\ (l = n \/ l = capacity) BY <1>1 DEF Fewer
<1>7. queue = [i \in 1 .. l |-> Place(release, S, i)] BY DEF n
<1> HIDE DEF l
<1>8. ASSUME NEW i \in 1 .. l PROVE i \in 1 .. n /\ queue[i] = Place(release, S, i) /\ queue[i] \in S
  <2>1. i \in 1 .. n BY <1>1, <1>6
  <2>2. queue[i] = Place(release, S, i) BY <1>7
  <2> QED BY <1>5, <2>1, <2>2
<1>9. queue = [i \in 1 .. l |-> queue[i]] BY <1>7
<1>10. PageOf(S, l, queue, page, offset, end)
  <2>1. \A i \in 1 .. l : queue[i] \in S BY <1>8
  <2> QED BY <1>6, <1>9, <2>1, PageIs
<1>11. PageOf(S, l, queue, other, later, Fewer(later + limit, l))
  <2>1. \A i \in 1 .. l : queue[i] \in S BY <1>8
  <2> QED BY <1>6, <1>9, <2>1, PageIs
<1>12. end \in Int /\ end <= l /\ end <= offset + limit /\ (end = l \/ end = offset + limit)
  BY <1>6 DEF Fewer
<1> HIDE DEF end, page, other
<1>13. DOMAIN page = 1 .. Len(page) /\ DOMAIN other = 1 .. Len(other) BY <1>10, <1>11 DEF PageOf
<1>14. Len(page) = Cardinality(R)
  <2> DEFINE ranks == [r \in R |-> r.rank]
             K == offset + 1 .. end
  <2>1. ASSUME NEW r \in R PROVE r.rank \in K
    <3>1. PICK t \in S : r = row(t) BY <1>3
    <3>2. r.rank \in 1 .. n BY <1>2, <1>4, <3>1
    <3>3. offset < r.rank /\ r.rank <= offset + limit /\ r.rank <= capacity OBVIOUS
    <3> QED BY <1>1, <1>6, <1>12, <3>2, <3>3
  <2>2. ASSUME NEW r \in R, NEW q \in R, r.rank = q.rank PROVE r = q
    <3>1. PICK t \in S : r = row(t) BY <1>3
    <3>2. PICK u \in S : q = row(u) BY <1>3
    <3>3. t = u BY <1>2, <1>4, <2>2, <3>1, <3>2
    <3> QED BY <3>1, <3>2, <3>3
  <2>3. ASSUME NEW k \in K PROVE \E r \in R : r.rank = k
    <3>1. k \in 1 .. n /\ offset < k /\ k <= offset + limit /\ k <= capacity BY <1>1, <1>6, <1>12
    <3>2. PICK t \in S : Rank(release, S, t) = k BY <1>2, <3>1
    <3>3. row(t) \in Anomalies /\ row(t).rank = k BY <1>3, <1>4, <3>2
    <3> QED BY <3>1, <3>3
  <2> HIDE DEF R, K
  <2>4. ranks \in Injection(R, K) BY <2>1, <2>2 DEF Injection, IsInjective
  <2>5. ranks \in Surjection(R, K) BY <2>1, <2>3 DEF Surjection
  <2>6. IsFiniteSet(K) /\ Cardinality(K) = IF offset + 1 > end THEN 0 ELSE end - (offset + 1) + 1
    <3>1. PICK m \in Int : m = offset + 1 OBVIOUS
    <3>2. IsFiniteSet(m .. end) /\ Cardinality(m .. end) = IF m > end THEN 0 ELSE end - m + 1
      BY <1>12, FS_Interval
    <3> QED BY <3>1, <3>2 DEF K
  <2> HIDE DEF ranks
  <2>7. Cardinality(R) = Cardinality(K) BY <2>4, <2>5, <2>6, FS_Injection
  <2> QED BY <1>10, <1>12, <2>6, <2>7 DEF PageOf
<1>15. ASSUME NEW i \in DOMAIN page
       PROVE  \E r, q \in Anomalies : r.rank = offset + i /\ q.key[1] = page[i] /\ q.score = r.score
  <2>1. PICK p : p = offset + i OBVIOUS
  <2>2. p \in 1 .. n /\ page[i] = Place(release, S, p) BY <1>8, <1>10, <1>13, <2>1 DEF PageOf
  <2>3. PICK t \in S : t = page[i] /\ Cardinality(Ahead(release, S, t)) = p - 1 BY <1>5, <2>2
  <2>4. PICK u \in S : Rank(release, S, u) = p BY <1>2, <2>2
  <2>5. Score[release][t] = Score[release][u]
    <3>1. Rank(release, S, u) = 1 + Cardinality(Ahead(release, S, t)) BY <2>2, <2>3, <2>4
    <3> QED BY <1>1, <3>1, PlacesAreAsStrong
  <2>6. row(u) \in Anomalies /\ row(t) \in Anomalies BY <1>3
  <2> QED BY <1>4, <2>1, <2>3, <2>4, <2>5, <2>6
<1>16. ASSUME NEW i \in DOMAIN page, NEW j \in DOMAIN other, page[i] = other[j] PROVE offset + i = later + j
  <2>1. PICK p : p = offset + i OBVIOUS
  <2>2. PICK q : q = later + j OBVIOUS
  <2>3. p \in 1 .. n /\ page[i] = Place(release, S, p) BY <1>8, <1>10, <1>13, <2>1 DEF PageOf
  <2>4. q \in 1 .. n /\ other[j] = Place(release, S, q) BY <1>8, <1>11, <1>13, <2>2 DEF PageOf
  <2>5. p - 1 = q - 1 BY <1>5, <1>16, <2>3, <2>4
  <2>6. p \in Int /\ q \in Int BY <2>3, <2>4
  <2> QED BY <2>1, <2>2, <2>5, <2>6
<1> QED BY <1>14, <1>15, <1>16 DEF PageShows, page, other

-----------------------------------------------------------------------------
(* The findings are always such a ranking, and every success names a scorer.*)
Shaped(A) == A = {} \/ \E release, rule, S, by : Flags(release, S) /\ A = Ranking(release, rule, S, by)

NamesScorer(outcome) == outcome.status \in Success => outcome.release \in Scorers

ShapeInv ==
    /\ Shaped(Anomalies)
    /\ \A k \in DOMAIN stages : NamesScorer(stages[k])
    /\ step.at = "scored" => NamesScorer(step.result)

LEMMA ScoredIsShaped ==
    ASSUME process \in Settings
    PROVE  Shaped(Scored.rows) /\ Scored.release \in Scorers /\ \A r \in Scored.rows : r.version \notin Fixed
<1>1. PICK release, rule, S : Flags(release, S) /\ Scored = ScoredBy(release, Ranked(release, rule, S))
  BY ScorerFlags
<1>2. Scored.release = release /\ (Scored.rows = Ranked(release, rule, S) \/ Scored.rows = {})
  BY <1>1 DEF ScoredBy, Written, Result
<1>3. Ranked(release, rule, S) = Ranking(release, rule, S, process.calibration)
  BY Zenon DEF Ranked, Ranking, Row
<1>4. \A r \in Ranked(release, rule, S) : r.version = release
  BY DEF Ranked
<1> QED BY <1>1, <1>2, <1>3, <1>4 DEF Shaped, Flags

LEMMA AnomaliesNameScorers == ASSUME ShapeInv, NEW r \in Anomalies PROVE r.version \in Scorers
<1>1. PICK release, rule, S, by : Flags(release, S) /\ Anomalies = Ranking(release, rule, S, by)
  BY DEF ShapeInv, Shaped
<1> QED BY <1>1 DEF Flags, Ranking, Row

LEMMA MlScoringKeepsShape == ASSUME ScoringInv, ShapeInv, MlScoring PROVE ShapeInv'
<1> DEFINE result == IF process.ml THEN ScoreOrKeep ELSE Result("disabled", Null, 0)
<1>1. /\ rows' = rows \cup result.rows /\ stages' = stages /\ step'.at = "scored" /\ step'.result = result
      /\ process \in Settings
  BY DEF MlScoring, At, ScoringInv, StepInv
<1>2. ASSUME NEW status, NEW release, NEW flagged
      PROVE  LET r == Result(status, release, flagged)
             IN r.rows = {} /\ r.status = status /\ r.release = release
  BY DEF Result
<1>3. CASE result.rows = {} /\ NamesScorer(result)
  <2>1. Anomalies' = Anomalies BY <1>1, <1>3 DEF Anomalies
  <2> QED BY <1>1, <1>3, <2>1 DEF ShapeInv
<1>4. CASE result = Scored /\ Anomalies = {}
  <2>1. Shaped(Scored.rows) /\ Scored.release \in Scorers /\ \A r \in Scored.rows : r.version \notin Fixed
    BY <1>1, ScoredIsShaped
  <2>2. Anomalies' = Scored.rows BY <1>1, <1>4, <2>1 DEF Anomalies
  <2>3. NamesScorer(result) BY <1>4, <2>1 DEF NamesScorer
  <2> HIDE DEF result
  <2> QED BY <1>1, <2>1, <2>2, <2>3 DEF ShapeInv
<1>5. CASE ~process.ml
  <2>1. result = Result("disabled", Null, 0) BY <1>5
  <2> HIDE DEF result
  <2>2. result.rows = {} /\ result.status = "disabled" BY <1>2, <2>1
  <2> QED BY <1>3, <2>2 DEF NamesScorer, Success
<1>6. CASE process.ml /\ Anomalies # {}
  <2> DEFINE version == (CHOOSE r \in Anomalies : TRUE).version
  <2>1. result = Kept(version, Cardinality(Anomalies)) BY <1>6 DEF ScoreOrKeep
  <2>2. version \in Scorers BY <1>6, AnomaliesNameScorers
  <2> HIDE DEF result, version
  <2>3. result.rows = {} /\ result.release = version BY <1>2, <2>1 DEF Kept
  <2> QED BY <1>3, <2>2, <2>3 DEF NamesScorer
<1>7. CASE process.ml /\ Anomalies = {} /\ Successes # {}
  <2>1. result = Kept(LastSuccess.release, 0) BY <1>7 DEF ScoreOrKeep
  <2>2. PICK k \in Successes : LastSuccess = stages[k] BY <1>7, LastSuccessIsOne DEF ScoringInv
  <2>3. stages[k].release \in Scorers BY <2>2 DEF ShapeInv, NamesScorer, Successes
  <2> HIDE DEF result
  <2>4. result.rows = {} /\ result.release = stages[k].release BY <1>2, <2>1, <2>2 DEF Kept
  <2> QED BY <1>3, <2>3, <2>4 DEF NamesScorer
<1>8. CASE process.ml /\ Anomalies = {} /\ Successes = {}
  BY <1>4, <1>8 DEF ScoreOrKeep
<1> QED BY <1>5, <1>6, <1>7, <1>8

LEMMA MlDoneKeepsShape == ASSUME ScoringInv, ShapeInv, MlDone PROVE ShapeInv'
<1>1. rows' = rows /\ step.at = "scored" /\ step'.at = "analytics"
  BY DEF MlDone, At
<1>2. stages \in Seq(Range(stages))
  BY DEF ScoringInv, StepInv
<1>3. ASSUME NEW k \in DOMAIN stages' PROVE NamesScorer(stages'[k])
  <2>1. CASE stages' = stages
    BY <2>1, <1>3 DEF ShapeInv
  <2>2. CASE stages' # stages
    <3> DEFINE row == [stages[Len(stages)] EXCEPT !.status = step.result.status,
                                                  !.release = step.result.release,
                                                  !.flagged = step.result.flagged]
    <3>1. stages' = [stages EXCEPT ![Len(stages)] = row]
      BY <2>2 DEF MlDone
    <3>2. NamesScorer(row)
      BY <1>1 DEF ShapeInv, NamesScorer
    <3> HIDE DEF row
    <3>3. k \in DOMAIN stages /\ stages'[k] = IF k = Len(stages) THEN row ELSE stages[k]
      BY <1>2, <1>3, <3>1
    <3> QED BY <3>2, <3>3 DEF ShapeInv
  <2> QED BY <2>1, <2>2
<1>4. Anomalies' = Anomalies
  BY <1>1 DEF Anomalies
<1> QED BY <1>1, <1>3, <1>4 DEF ShapeInv

LEMMA NextKeepsShape == ScoringInv /\ ShapeInv /\ [Next]_vars => ShapeInv'
<1> SUFFICES ASSUME ScoringInv, ShapeInv, [Next]_vars PROVE ShapeInv'
  OBVIOUS
<1>1. ASSUME \A r \in rows' : r \in rows \/ r.version \in Fixed, rows \subseteq rows', stages' = stages,
             step'.at = "scored" => NamesScorer(step.result)'
      PROVE  ShapeInv'
  <2>1. Anomalies' = Anomalies BY <1>1 DEF Anomalies
  <2> QED BY <1>1, <2>1 DEF ShapeInv
<1>2. CASE UNCHANGED vars
  BY <1>1, <1>2 DEF vars, ShapeInv
<1>3. CASE UNCHANGED <<rows, stages>> /\ step'.at # "scored"
  BY <1>1, <1>3
<1>4. CASE Analytics
  <2>1. stages' = stages /\ step'.at = "analysed"
    BY <1>4 DEF Analytics, At
  <2>2. ASSUME NEW found, NEW r \in NetworkRows(found) PROVE r.version \in Fixed
    <3>1. \E k, c, s, n :
             r = [key |-> k, version |-> "network-correlation-v1", by |-> c, score |-> s, rank |-> n]
      BY Zenon DEF NetworkRows
    <3> QED BY <3>1 DEF Fixed
  <2>3. rows' = rows \/ rows' = rows \cup NetworkRows(Correlated[process.geo])
    BY <1>4 DEF Analytics
  <2> QED BY <1>1, <2>1, <2>2, <2>3
<1>5. CASE Findings
  <2>1. step'.at = "scoring" /\ stages \in Seq(Range(stages))
    BY <1>5 DEF Findings, At, ScoringInv, StepInv
  <2>2. rows \subseteq rows' /\ \A r \in rows' : r \in rows \/ r.version \in Fixed
    BY <1>5 DEF Findings, Fixed
  <2>3. Anomalies' = Anomalies
    BY <2>2 DEF Anomalies
  <2>4. ASSUME NEW k \in DOMAIN stages' PROVE NamesScorer(stages'[k])
    <3>1. CASE stages' = stages
      BY <2>4, <3>1 DEF ShapeInv
    <3>2. CASE stages' # stages
      <4> DEFINE row == [attempt |-> job.attempt, status |-> "running", release |-> Null, flagged |-> 0]
      <4>1. stages' = Append(stages, row)
        BY <1>5, <3>2 DEF Findings
      <4>2. NamesScorer(row)
        BY DEF NamesScorer, Success
      <4> HIDE DEF row
      <4>3. /\ DOMAIN stages' = DOMAIN stages \cup {Len(stages) + 1} /\ stages'[Len(stages) + 1] = row
            /\ \A i \in DOMAIN stages : stages'[i] = stages[i]
        BY <2>1, <4>1, AppendIsSeq
      <4> QED BY <2>4, <4>2, <4>3 DEF ShapeInv
    <3> QED BY <3>1, <3>2
  <2> QED BY <2>1, <2>3, <2>4 DEF ShapeInv
<1>6. CASE MlFails
  <2>1. step'.result.status = "failed" /\ UNCHANGED <<rows, stages>>
    BY <1>6 DEF MlFails, At, Result
  <2> QED BY <1>1, <2>1 DEF NamesScorer, Success
<1>7. CASE \E settings \in Settings : Claim(settings)
  BY <1>3, <1>7 DEF Claim, At
<1>8. CASE \E refresh \in BOOLEAN : Retry(refresh)
  BY <1>1, <1>8 DEF Retry, ShapeInv
<1>9. CASE AnalyticsFails \/ PinRest \/ Complete \/ Crash
  BY <1>3, <1>9 DEF AnalyticsFails, PinRest, Complete, Crash, At, Idle
<1>10. CASE \E reach \in Reaches : PostSeed(reach)
  <2>1. rows \subseteq rows' /\ UNCHANGED <<stages, step>> /\ \A r \in rows' : r \in rows \/ r.version \in Fixed
    BY <1>10, SeedsAdd DEF Fixed
  <2> QED BY <1>1, <2>1 DEF ShapeInv
<1> QED
  BY <1>2, <1>4, <1>5, <1>6, <1>7, <1>8, <1>9, <1>10, MlScoringKeepsShape, MlDoneKeepsShape DEF Next

LEMMA QueueIsShown == ASSUME StepInv, MixInv, ShapeInv PROVE QueueShowsItsRows
<1> SUFFICES ASSUME stages # << >>, Last(stages).status \in Success
             PROVE  /\ {r \in rows : r.version = QueueScorer} = Anomalies
                    /\ LET places == 0 .. Cardinality(Transactions) + 1
                       IN \A capacity \in {QueueCapacity(k, Budget) : k \in places \cup {Null}} :
                              LET queue == Queue(capacity)
                              IN \A limit \in places \ {0}, offset, later \in places :
                                     PageShows(queue, capacity, limit, offset, later)
  BY DEF QueueShowsItsRows
<1> DEFINE last == Len(stages)
           N == Cardinality(Transactions)
<1>1. last \in DOMAIN stages /\ Last(stages) = stages[last]
  BY DEF StepInv, Last
<1> HIDE DEF last
<1>2. stages[last].release \in Scorers /\ stages[last].release # Null /\ stages[last].release \notin Fixed
  BY <1>1, ReleasesAssumption DEF ShapeInv, NamesScorer, Scorers, Stack, Fixed
<1>3. last \in Successes
  BY <1>1, <1>2 DEF Successes
<1>4. QueueScorer = stages[last].release
  BY <1>1, <1>2 DEF QueueScorer
<1>5. {r \in rows : r.version = QueueScorer} = Anomalies
  <2>1. \A r \in Anomalies : r.version = QueueScorer
    BY <1>3, <1>4 DEF MixInv, Named, Releases
  <2> QED BY <1>2, <1>4, <2>1 DEF Anomalies
<1>6. N \in Nat
  BY ScoresAssumption, FS_CardinalityType
<1>7. ASSUME NEW k \in (0 .. N + 1) \cup {Null} PROVE QueueCapacity(k, Budget) \in Nat
  <2>1. N * Budget \in Nat /\ (N * Budget) \div 100 \in Nat /\ 0 * Budget = 0
    <3>1. PICK m : m = N * Budget OBVIOUS
    <3>2. m \in Nat BY <1>6, <3>1, ScoresAssumption
    <3>3. m \div 100 \in Nat BY <3>2
    <3> QED BY <3>1, <3>2, <3>3, ScoresAssumption
  <2> HIDE DEF N
  <2>2. k # Null => k \in Nat BY <1>6
  <2>3. QueueCapacity(k, Budget) = IF k # Null THEN k ELSE (N * Budget) \div 100
    BY <1>1, <1>2 DEF QueueCapacity, N
  <2> QED BY <2>1, <2>2, <2>3
<1>8. PICK release, rule, S, by : /\ release \in Scorers /\ S \in SUBSET Transactions
                                 /\ Anomalies = Ranking(release, rule, S, by)
  <2>1. CASE Anomalies = {}
    <3>1. \A rule, by : Ranking(Stack, rule, {}, by) = {} BY DEF Ranking
    <3> QED BY <2>1, <3>1 DEF Scorers
  <2>2. CASE Anomalies # {}
    <3>1. PICK release, rule, S, by : Flags(release, S) /\ Anomalies = Ranking(release, rule, S, by)
      BY Zenon, <2>2 DEF ShapeInv, Shaped
    <3> QED BY Zenon, <3>1 DEF Flags
  <2> QED BY <2>1, <2>2
<1>9. ASSUME NEW capacity \in Nat, NEW limit \in 0 .. N + 1, NEW offset \in 0 .. N + 1, NEW later \in 0 .. N + 1
      PROVE  PageShows(Queue(capacity), capacity, limit, offset, later)
  <2>1. Queue(capacity) = [i \in 1 .. Fewer(capacity, Cardinality(S)) |-> Place(release, S, i)]
    <3>1. release \in Scorers /\ S \in SUBSET Transactions BY <1>8
    <3>2. QueueRows = Ranking(release, rule, S, by) BY <1>5, <1>8 DEF QueueRows
    <3> QED BY <3>1, <3>2, QueueIs
  <2> QED BY <1>6, <1>8, <2>1, PageIsShown
<1> HIDE DEF N
<1> QED BY <1>5, <1>7, <1>9 DEF N

(* The scorers never mix, and after a success the queue is made of all the  *)
(* findings of the one: for every capacity, page size and offset its pages  *)
(* (operations' review_queue) list as many flagged transactions as have a   *)
(* rank there, each as strong as the finding ranked at its place, and none  *)
(* at another place of another page.                                        *)
THEOREM ScorersAndQueue == Spec => []OneScorer
<1>1. Init => ShapeInv
  BY DEF Init, ShapeInv, Shaped, Anomalies, Idle
<1>2. ScoringInv /\ [Next]_vars => ScoringInv'
  BY ScoringStep
<1>3. ScoringInv /\ MixInv /\ ShapeInv => OneScorer
  BY MixNames, QueueIsShown DEF ScoringInv, OneScorer
<1> QED BY <1>1, <1>2, <1>3, MixInit, NextKeepsShape, NextNeverMixes, ScoringInit, PTL DEF Spec

=============================================================================
