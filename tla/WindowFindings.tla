--------------------------- MODULE WindowFindings ---------------------------
(* Address-window features, the rules that read them, and the ranked review *)
(* queue of one snapshot (findings/deterministic.py), over any subset of    *)
(* addresses: the in-memory pass takes all of them, the bounded executor    *)
(* (bounded.py) one hash partition at a time.  A window key is              *)
(* <<address, width, start>>; a dictionary whose order matters is a         *)
(* sequence of [key, val] in insertion order.                               *)
EXTENDS Peeling

CONSTANTS Hour,          \* the middle window, also the longest rapid delay
          CollectionMin, \* source transactions of concentrated_collection (3)
          HubMin,        \* of emerging_hub (4)
          RapidMin       \* of rapid_redistribution (3)

Widths == <<Quarter, Hour, Day>>
WindowKey(address, width, time) == <<address, width, WindowStart(time, width)>>

Has(dict, key) == \E i \in DOMAIN dict : dict[i].key = key
Lookup(dict, key, default) ==
    IF Has(dict, key) THEN dict[CHOOSE i \in DOMAIN dict : dict[i].key = key].val ELSE default

(* dict[key].append(item), the key entered at the end when it is new. *)
AppendAt(dict, key, item) ==
    IF Has(dict, key)
    THEN [i \in DOMAIN dict |-> IF dict[i].key = key THEN [dict[i] EXCEPT !.val = Append(@, item)] ELSE dict[i]]
    ELSE Append(dict, [key |-> key, val |-> <<item>>])

AppendInWindows(dict, address, time, item) ==
    FoldLeft(LAMBDA d, width : AppendAt(d, WindowKey(address, width, time), item), dict, Widths)

-----------------------------------------------------------------------------
(* Received outputs and rapid spends by window.                             *)

OutputEvents(F, addresses) ==
    LET placed == SelectSeq(F.outs, LAMBDA o : o.to \in addresses /\ TimeOf(F, o.tx) # Null)
    IN FoldLeft(LAMBDA d, o : AppendInWindows(d, o.to, TimeOf(F, o.tx), o), << >>, placed)

IsRapid(F, addresses, in) ==
    /\ in.prev # Null
    /\ in.prev \in Outpoints(F)
    /\ LockOf(F, in.prev) \in addresses
    /\ TimeOf(F, in.tx) # Null /\ TimeOf(F, in.prev[1]) # Null
    /\ TimeOf(F, in.tx) - TimeOf(F, in.prev[1]) \in 0 .. Hour

RapidEvents(F, addresses) ==
    LET rapid == SelectSeq(F.ins, LAMBDA in : IsRapid(F, addresses, in))
    IN FoldLeft(LAMBDA d, in : AppendInWindows(d, LockOf(F, in.prev), TimeOf(F, in.tx), in), << >>, rapid)

(* What a detector signal adds to its windows: the output it keys on (an    *)
(* output fact once per window) and itself.                                 *)
AddOutput(events, key, out) ==
    IF \E i \in DOMAIN Lookup(events, key, << >>) : Lookup(events, key, << >>)[i] = out THEN events
    ELSE AppendAt(events, key, out)

AddWindowSignal(acc, c) ==
    [events |-> FoldLeft(LAMBDA d, w : AddOutput(d, WindowKey(c.to, w, c.time), c.out), acc.events, Widths),
     signals |-> AppendInWindows(acc.signals, c.to, c.time, c.signal)]

(* Contributions of the peeling signals, then of the coinjoin signals; an   *)
(* unaddressed output or a transaction without a time contributes nothing.  *)
OutOf(F, point) == F.outs[CHOOSE i \in DOMAIN F.outs : Outpoint(F.outs[i]) = point]

Contribution(F, signal, tx, out) == [to |-> out.to, time |-> TimeOf(F, tx), out |-> out, signal |-> signal]
Lands(c) == c.to # Null /\ c.time # Null

PeelingContribution(F, signal) == Contribution(F, signal, signal.txs[1], OutOf(F, signal.start))
PeelingContributions(F, signals) ==
    SelectSeq([k \in DOMAIN signals |-> PeelingContribution(F, signals[k])], Lands)

CoinjoinContributions(F, signals) ==
    LET of(signal) == SelectSeq(F.outs, LAMBDA o : o.tx = signal.tx)
    IN SelectSeq(FlattenSeq([k \in DOMAIN signals |->
                    [j \in DOMAIN of(signals[k]) |-> Contribution(F, signals[k], signals[k].tx, of(signals[k])[j])]]),
                 Lands)

-----------------------------------------------------------------------------
(* Feature vectors.                                                         *)

SourceTxs(outs) == {outs[i].tx : i \in DOMAIN outs}
ValueOf(outs) == MapThenSumSet(LAMBDA i : outs[i].amount, DOMAIN outs)

History(index, gap, count, value) == [prior |-> index, gap |-> gap, count |-> count, value |-> value]

(* In memory: running totals over an address's earlier windows.             *)
StartsOf(events, address, width) ==
    Sorted({events[i].key[3] : i \in {j \in DOMAIN events : events[j].key[1] = address /\ events[j].key[2] = width}}, <)

HistoryFeatures(events, key) ==
    LET starts == StartsOf(events, key[1], key[2])
        step(acc, start) ==
            LET outs == Lookup(events, <<key[1], key[2], start>>, << >>)
            IN [count |-> acc.count + Cardinality(SourceTxs(outs)), value |-> acc.value + ValueOf(outs)]
        index == CHOOSE i \in DOMAIN starts : starts[i] = key[3]
        running == FoldLeft(step, [count |-> 0, value |-> 0], SubSeq(starts, 1, index - 1))
    IN History(index - 1, IF index = 1 THEN Null ELSE key[3] - starts[index - 1], running.count, running.value)

(* Bounded: memberships (UNION drops an output listed twice in a window),   *)
(* grouped, then window functions over the earlier rows of the group.       *)
Memberships(F, addresses, contributions) ==
    UNION {{[key |-> WindowKey(F.outs[i].to, w, TimeOf(F, F.outs[i].tx)), out |-> F.outs[i]] :
                i \in {j \in DOMAIN F.outs : F.outs[j].to \in addresses /\ TimeOf(F, F.outs[j].tx) # Null}}
           : w \in Range(Widths)}
    \cup UNION {{[key |-> WindowKey(contributions[k].to, w, contributions[k].time), out |-> contributions[k].out] :
                    k \in DOMAIN contributions} : w \in Range(Widths)}

AddressHistorySql(rows, key) ==
    LET outsAt(k) == {r.out : r \in {q \in rows : q.key = k}}
        keys == {r.key : r \in rows}
        earlier == {k \in keys : k[1] = key[1] /\ k[2] = key[2] /\ k[3] < key[3]}
    IN History(Cardinality(earlier), IF earlier = {} THEN Null ELSE key[3] - Max({k[3] : k \in earlier}),
               MapThenSumSet(LAMBDA k : Cardinality({o.tx : o \in outsAt(k)}), earlier),
               MapThenSumSet(LAMBDA k : MapThenSumSet(LAMBDA o : o.amount, outsAt(k)), earlier))

(* The strongest signal per detector family, the later one on a tie.        *)
NoSignal == [score |-> 0, detail |-> Null]
MergeSignals(signals, kind) ==
    FoldLeft(LAMBDA best, s : IF s.kind = kind /\ s.score >= best.score
                              THEN [score |-> s.score, detail |-> IF kind = "peeling_chain_candidate" THEN s.hops ELSE s.equal]
                              ELSE best,
             NoSignal, signals)

WindowFeatures(F, outs, rapid, signals, history) ==
    LET spending == {rapid[i].tx : i \in DOMAIN rapid}
    IN [in_event_count |-> Cardinality(SourceTxs(outs)), received_output_count |-> Len(outs),
        received_total |-> ValueOf(outs), out_event_count |-> Cardinality(spending),
        outgoing_output_count |-> Cardinality({i \in DOMAIN F.outs : F.outs[i].tx \in spending}),
        resolved_spend_edge_delta |-> Len(rapid),
        node_delta |-> 1 + Cardinality(SourceTxs(outs) \cup spending) + Cardinality({Outpoint(outs[i]) : i \in DOMAIN outs}),
        peeling |-> MergeSignals(signals, "peeling_chain_candidate"),
        coinjoin |-> MergeSignals(signals, "coinjoin_like_structure"),
        history |-> history]

-----------------------------------------------------------------------------
(* Rules.  Scores are in 1200ths so that they compare with the detectors'.  *)

Points(n) == 1200 * Min({100, n})

Candidate(rule, key, score, evidence, feature) ==
    [entity |-> <<"address", key[1]>>, rule |-> rule, start |-> key[3], width |-> key[2],
     score |-> score, evidence |-> evidence, windows |-> {<<key[2], key[3]>>}, feature |-> feature]

CountRules(key, outs, feature) ==
    LET n == Cardinality(SourceTxs(outs))
    IN (IF n >= CollectionMin
        THEN <<Candidate("concentrated_collection", key, Points(25 + 15 * n), SourceTxs(outs), feature)>> ELSE << >>)
       \o (IF n >= HubMin
           THEN <<Candidate("emerging_hub", key, Points(20 + 10 * n), SourceTxs(outs), feature)>> ELSE << >>)

RapidRule(F, key, inbound, rapid) ==
    IF Cardinality(SourceTxs(inbound)) < RapidMin THEN << >>
    ELSE <<Candidate("rapid_redistribution", key, Points(45 + 10 * Len(rapid)),
                     UNION {{rapid[i].tx, rapid[i].prev[1]} : i \in DOMAIN rapid},
                     WindowFeatures(F, inbound, rapid, << >>, Null))>>

(* One finding per address, rule and day: the strongest window, then the    *)
(* most evidence, then the narrowest, then the one met first; the others'   *)
(* evidence is kept on it.                                                  *)
DayOf(c) == <<c.entity, c.rule, WindowStart(c.start, Day)>>

Better(cands, i, j) ==
    \/ cands[i].score > cands[j].score
    \/ /\ cands[i].score = cands[j].score
       /\ \/ Cardinality(cands[i].evidence) > Cardinality(cands[j].evidence)
          \/ /\ Cardinality(cands[i].evidence) = Cardinality(cands[j].evidence)
             /\ cands[i].width < cands[j].width \/ (cands[i].width = cands[j].width /\ i < j)

GroupWindowCandidates(cands) ==
    LET groups == {{i \in DOMAIN cands : DayOf(cands[i]) = d} : d \in {DayOf(cands[i]) : i \in DOMAIN cands}}
        merged(g) ==
            LET best == CHOOSE i \in g : \A j \in g \ {i} : Better(cands, i, j)
            IN [cands[best] EXCEPT !.evidence = UNION {cands[i].evidence : i \in g},
                                   !.windows = UNION {cands[i].windows : i \in g}]
        order == Sorted(groups, LAMBDA g, h : Min(g) < Min(h))
    IN [k \in DOMAIN order |-> merged(order[k])]

(* address_window_pass: every feature row of these addresses, the features  *)
(* the detectors need, and the grouped candidates.                          *)
AddressWindowPass(F, events, rapid, signals, needed, histories) ==
    LET feature(i) == WindowFeatures(F, events[i].val, Lookup(rapid, events[i].key, << >>),
                                     Lookup(signals, events[i].key, << >>), histories[i])
        rows == [i \in DOMAIN events |-> [key |-> events[i].key, val |-> feature(i)]]
        counted == FlattenSeq([i \in DOMAIN events |-> CountRules(events[i].key, events[i].val, rows[i].val)])
        spent == FlattenSeq([i \in DOMAIN rapid |-> RapidRule(F, rapid[i].key, Lookup(events, rapid[i].key, << >>), rapid[i].val)])
    IN [features |-> rows, kept |-> {r \in Range(rows) : r.key \in needed},
        candidates |-> GroupWindowCandidates(counted \o spent)]

-----------------------------------------------------------------------------
(* Detector findings borrow the feature vector of their window.             *)

(* (The key of an unaddressed origin names no window: it borrows nothing.)  *)
PeelingDetectorKey(F, pattern) ==
    IF TimeOf(F, pattern.tx) = Null \/ pattern.entity[1] = "out" THEN Null
    ELSE WindowKey(pattern.entity[2], Quarter, TimeOf(F, pattern.tx))

CoinjoinDetectorKey(F, signal) ==
    LET addressed == {i \in OutputsOfTx(F, signal.tx) : F.outs[i].to # Null}
    IN IF TimeOf(F, signal.tx) = Null \/ addressed = {} THEN Null
       ELSE WindowKey(F.outs[Min(addressed)].to, Quarter, TimeOf(F, signal.tx))

DetectorKey(F, signal) ==
    IF signal.kind = "peeling_chain_candidate" THEN PeelingDetectorKey(F, signal) ELSE CoinjoinDetectorKey(F, signal)

DetectorCandidate(F, signal, kept) ==
    LET key == DetectorKey(F, signal)
        time == TimeOf(F, signal.tx)
        \* a signal without a time is filed under the epoch
        start == IF key # Null THEN key[3] ELSE IF time # Null THEN WindowStart(time, Quarter) ELSE 0
        borrowed == {r.val : r \in {k \in kept : k.key = key}}
    IN [entity |-> signal.entity, rule |-> signal.kind, start |-> start, width |-> Quarter,
        score |-> signal.score, evidence |-> signal.txs, windows |-> {<<Quarter, start>>},
        feature |-> IF borrowed = {} THEN Null ELSE CHOOSE f \in borrowed : TRUE]

-----------------------------------------------------------------------------
(* De-duplication and ranking, over the candidates in construction order.   *)

\* Mutant: rules of one entity and window are one finding.
FindingKeyOfWindow(c) == <<c.entity, c.start, c.start + c.width>>
FindingKey(c) == <<c.entity, c.start, c.start + c.width, c.rule>>

RuleOrder == <<"coinjoin_like_structure", "concentrated_collection", "emerging_hub",
               "peeling_chain_candidate", "rapid_redistribution">>
EntityOrder == <<"address", "out", "tx">>
PlaceIn(order, x) == CHOOSE i \in DOMAIN order : order[i] = x

EntityLess(a, b) ==
    \/ PlaceIn(EntityOrder, a[1]) < PlaceIn(EntityOrder, b[1])
    \/ a[1] = b[1] /\ IF a[1] = "out" THEN OutpointLess(a[2], b[2]) ELSE a[2] < b[2]

(* ORDER BY score DESC, rule, entity, then the position of the key. *)
RanksBefore(c, first, d, firstD) ==
    \/ c.score > d.score
    \/ c.score = d.score /\ PlaceIn(RuleOrder, c.rule) < PlaceIn(RuleOrder, d.rule)
    \/ c.score = d.score /\ c.rule = d.rule /\ EntityLess(c.entity, d.entity)
    \/ c.score = d.score /\ c.rule = d.rule /\ c.entity = d.entity /\ first < firstD

(* In memory: a dictionary keeps the strongest candidate of a key at the    *)
(* place the key was first entered; a stable sort ranks the values.         *)
DedupeAndRank(cands) ==
    LET enter(dict, c) ==
            IF ~Has(dict, FindingKey(c)) THEN Append(dict, [key |-> FindingKey(c), val |-> c])
            ELSE [i \in DOMAIN dict |-> IF dict[i].key = FindingKey(c) /\ c.score > dict[i].val.score
                                        THEN [dict[i] EXCEPT !.val = c] ELSE dict[i]]
        dict == FoldLeft(enter, << >>, cands)
        order == Sorted(DOMAIN dict, LAMBDA i, j : RanksBefore(dict[i].val, i, dict[j].val, j))
    IN [k \in DOMAIN order |-> dict[order[k]].val]

(* Bounded: positions instead of insertion, row_number() instead of a dict. *)
RankSql(cand) ==
    LET same(c) == {d \in cand : FindingKey(d.row) = FindingKey(c.row)}
        firstPos(c) == Min({d.pos : d \in same(c)})
        picked == {c \in cand : \A d \in same(c) \ {c} :
                       c.row.score > d.row.score \/ (c.row.score = d.row.score /\ c.pos < d.pos)}
        order == Sorted(picked, LAMBDA c, d : RanksBefore(c.row, firstPos(c), d.row, firstPos(d)))
    IN [k \in DOMAIN order |-> order[k].row]
=============================================================================
