------------------------------ MODULE Peeling ------------------------------
(* Peeling-chain candidates: walks along verified spends to a strictly      *)
(* smaller, later-spent output, and the patterns overlapping walks merge    *)
(* into.  Twice, as the program has it: the in-memory detector              *)
(* (motifs/deterministic.py) and the bounded executor's SQL rounds          *)
(* (bounded.py _peeling_sql), with the clusters that let signals be built   *)
(* one chunk at a time.  A hop is [at, tx, next]: the outpoint spent, the   *)
(* spending transaction and the continuation outpoint, or Null.             *)
EXTENDS Facts, FiniteSetsExt

CONSTANTS MaxHops,     \* hops one walk takes at most (8 in the program)
          MinLength,   \* hops a walk needs to be emitted (3)
          Quarter,     \* time units of the narrowest window (15 minutes)
          Day          \* time units of a day

ASSUME PeelingAssumption ==
    /\ MaxHops \in Nat \ {0} /\ MinLength \in Nat \ {0}
    /\ Quarter \in Nat \ {0} /\ Day \in Nat \ {0}

OutpointLess(p, q) == p[1] < q[1] \/ (p[1] = q[1] /\ p[2] < q[2])

(* datetime // seconds * seconds *)
WindowStart(time, width) == (time \div width) * width

(* resolved_spenders: an outpoint two transactions claim has no spender. *)
ClaimsOn(F, point) == {F.ins[i].tx : i \in {j \in DOMAIN F.ins : F.ins[j].prev = point}}
Spenders(F) ==
    [point \in {p \in Outpoints(F) : Cardinality(ClaimsOn(F, p)) = 1} |->
        CHOOSE tx \in ClaimsOn(F, point) : TRUE]

SpentOutputsOf(F, spent, tx) == {p \in DOMAIN spent : p[1] = tx}

(* The first of "by falling amount, then vout" that is strictly smaller. *)
Continuation(F, smaller) ==
    IF smaller = {} THEN Null
    ELSE LET top == Max({AmountOf(F, p) : p \in smaller})
         IN <<(CHOOSE p \in smaller : TRUE)[1],
              Min({p[2] : p \in {q \in smaller : AmountOf(F, q) = top}})>>

Hops(F) ==
    LET spent == Spenders(F)
    IN [point \in DOMAIN spent |->
           [at |-> point, tx |-> spent[point],
            next |-> Continuation(F, {p \in SpentOutputsOf(F, spent, spent[point]) :
                                          AmountOf(F, p) < AmountOf(F, point)})]]

TxsOf(hops) == [i \in DOMAIN hops |-> hops[i].tx]

-----------------------------------------------------------------------------
(* In memory: one walk per spent outpoint, in order; a walk over the same   *)
(* transactions as an earlier one is not emitted again.                     *)

WalksWithin(F) ==
    LET hop == Hops(F)
        walk[n \in 0 .. MaxHops] ==
            [p \in DOMAIN hop |->
                IF n = 0 THEN << >>
                ELSE IF hop[p].next = Null THEN <<hop[p]>>
                ELSE <<hop[p]>> \o walk[n - 1][hop[p].next]]
    IN walk[MaxHops]

MemoryWalks(F) ==
    LET walk == WalksWithin(F)
        starts == Sorted(DOMAIN walk, OutpointLess)
    IN FoldLeft(LAMBDA emitted, p :
                    IF \/ Len(walk[p]) < MinLength
                       \/ \E i \in DOMAIN emitted : TxsOf(emitted[i].hops) = TxsOf(walk[p])
                    THEN emitted
                    ELSE Append(emitted, [start |-> p, hops |-> walk[p]]),
                << >>, starts)

-----------------------------------------------------------------------------
(* Bounded: rounds of joins.  A row of walk_active is [start, cur, hops].   *)

Advance(hop, w) ==
    [start |-> w.start, cur |-> hop[w.cur].next, hops |-> Append(w.hops, hop[w.cur])]

Round(hop, tables) ==
    LET stuck == {w \in tables.active : w.cur \notin DOMAIN hop}
        next == {Advance(hop, w) : w \in tables.active \ stuck}
    IN [done |-> tables.done \cup stuck \cup {w \in next : w.cur = Null},
        active |-> {w \in next : w.cur # Null}]

SqlWalks(F) ==
    LET hop == Hops(F)
        first == [done |-> {}, active |-> {[start |-> p, cur |-> p, hops |-> << >>] : p \in DOMAIN hop}]
        last == FoldLeft(LAMBDA tables, round : Round(hop, tables), first, [r \in 1 .. MaxHops |-> r])
        long == {w \in last.done \cup last.active : Len(w.hops) >= MinLength}
        \* row_number() OVER (PARTITION BY transaction list ORDER BY start) = 1
        chains == {w \in long : \A v \in long : TxsOf(v.hops) = TxsOf(w.hops) => ~OutpointLess(v.start, w.start)}
    IN Sorted({[start |-> w.start, hops |-> w.hops] : w \in chains},
                    LAMBDA a, b : OutpointLess(a.start, b.start))

-----------------------------------------------------------------------------
(* Signals and patterns.                                                    *)

LockOf(F, point) == F.outs[CHOOSE i \in DOMAIN F.outs : Outpoint(F.outs[i]) = point].to
OriginOf(F, point) == IF LockOf(F, point) = Null THEN <<"out", point>> ELSE <<"address", LockOf(F, point)>>

KnownTimes(F, hops) == SelectSeq([i \in DOMAIN hops |-> TimeOf(F, hops[i].tx)], LAMBDA t : t # Null)

(* Twice the median, so that it stays a whole number. *)
TwiceMedian(values) ==
    LET sorted == SortSeq(values, <)
        n == Len(sorted)
    IN sorted[(n + 1) \div 2] + sorted[(n + 2) \div 2]

(* Gaps between neighbouring known times, backward steps left out. *)
Gaps(times) ==
    SelectSeq([i \in 1 .. Len(times) - 1 |-> times[i + 1] - times[i]], LAMBDA gap : gap >= 0)

(* The score in 1200ths of its four equal parts: length, regularity, time   *)
(* continuity and evidence coverage (each hop's row is its own evidence).   *)
Score(F, hops) ==
    LET times == KnownTimes(F, hops)
        gaps == Gaps(times)
        continuing == Cardinality({i \in DOMAIN hops : hops[i].next # Null})
    IN (300 * Min({Len(hops), MaxHops})) \div MaxHops
       + (300 * continuing) \div Len(hops)
       + (IF Len(times) < 2 \/ gaps = << >> THEN 0 ELSE (600 * Day) \div (2 * Day + TwiceMedian(gaps)))
       + 300

PeelingSignal(F, walk) ==
    [kind |-> "peeling_chain_candidate", entity |-> OriginOf(F, walk.start), start |-> walk.start,
     txs |-> TxsOf(walk.hops), hops |-> Len(walk.hops), score |-> Score(F, walk.hops)]

(* The key a chain's finding would get: its origin and first window. *)
ChainKey(F, signal) ==
    <<signal.entity,
      IF TimeOf(F, signal.txs[1]) = Null THEN Null ELSE WindowStart(TimeOf(F, signal.txs[1]), Quarter)>>

(* The union-find over chains: chain i joins every group holding a chain    *)
(* with its key or one of its transactions.  Groups in order of their least *)
(* member, members in order.                                                *)
Clusters(F, signals) ==
    LET linked(i, j) == \/ ChainKey(F, signals[i]) = ChainKey(F, signals[j])
                        \/ Range(signals[i].txs) \cap Range(signals[j].txs) # {}
        join(groups, i) ==
            LET touching == {g \in groups : \E j \in g : linked(i, j)}
            IN (groups \ touching) \cup {{i} \cup UNION touching}
        groups == FoldLeft(join, {}, [i \in DOMAIN signals |-> i])
    IN Sorted(groups, LAMBDA g, h : Min(g) < Min(h))

TxListLess(a, b) ==
    \E n \in 1 .. Len(b) :
        /\ \A m \in 1 .. n - 1 : m <= Len(a) /\ a[m] = b[m]
        /\ n > Len(a) \/ a[n] < b[n]

Stronger(a, b) ==
    \/ a.hops > b.hops
    \/ a.hops = b.hops /\ a.score > b.score
    \/ a.hops = b.hops /\ a.score = b.score /\ TxListLess(a.txs, b.txs)

(* The longest chain is the pattern's path, the strongest score its score. *)
Pattern(signals, group) ==
    LET members == Sorted({signals[i] : i \in group}, Stronger)
    IN [kind |-> "peeling_chain_candidate", entity |-> members[1].entity, start |-> members[1].start,
        tx |-> members[1].txs[1], txs |-> UNION {Range(members[i].txs) : i \in DOMAIN members},
        chains |-> Len(members), hops |-> members[1].hops,
        score |-> Max({members[i].score : i \in DOMAIN members})]

GroupPeelingPatterns(F, signals) ==
    LET clusters == Clusters(F, signals)
    IN [k \in DOMAIN clusters |-> Pattern(signals, clusters[k])]

\* Mutant: chunks of as many walks, wherever that cuts.
ChunksOfWalks(clusters, enough) ==
    LET walks == Sorted(UNION Range(clusters), <)
        piece(n) == {walks[i] : i \in {j \in DOMAIN walks : (j - 1) \div enough = n - 1}}
    IN SelectSeq([n \in DOMAIN walks |-> piece(n)], LAMBDA chunk : chunk # {})
(* Whole clusters, in root order, until a chunk holds enough walks. *)
Chunks(clusters, enough) ==
    LET add(acc, cluster) ==
            LET open == acc.open \cup cluster
            IN IF Cardinality(open) >= enough THEN [full |-> Append(acc.full, open), open |-> {}]
               ELSE [acc EXCEPT !.open = open]
        end == FoldLeft(add, [full |-> << >>, open |-> {}], clusters)
    IN IF end.open = {} THEN end.full ELSE Append(end.full, end.open)

MemorySignals(F) == LET walks == MemoryWalks(F) IN [i \in DOMAIN walks |-> PeelingSignal(F, walks[i])]

(* The walks as indices into the emit order, split into chunks. *)
WalkChunks(F, signals, enough) ==
    LET chunks == Chunks(Clusters(F, signals), enough)
    IN [k \in DOMAIN chunks |-> Sorted(chunks[k], <)]

(* _peeling_chunk: the signals and patterns of one chunk. *)
ChunkSignals(signals, chunk) == [k \in DOMAIN chunk |-> signals[chunk[k]]]

-----------------------------------------------------------------------------
(* Equal-output structure (detect_coinjoin_like_transactions).              *)

CONSTANTS MinCoinjoin \* inputs, outputs and equal outputs it needs (3)

InputCount(F, tx) == Cardinality({i \in DOMAIN F.ins : F.ins[i].tx = tx})
OutputsOfTx(F, tx) == {i \in DOMAIN F.outs : F.outs[i].tx = tx}

EqualGroups(F, tx) ==
    {{i \in OutputsOfTx(F, tx) : F.outs[i].amount = v} : v \in {F.outs[i].amount : i \in OutputsOfTx(F, tx)}}

(* min by (-size, value): with no tolerance a group has a single value. *)
EqualGroup(F, tx) ==
    LET groups == EqualGroups(F, tx)
        largest == {g \in groups : Cardinality(g) = Max({Cardinality(h) : h \in groups})}
        valueOf(g) == F.outs[CHOOSE i \in g : TRUE].amount
    IN CHOOSE g \in largest : \A h \in largest : valueOf(g) <= valueOf(h)

LooksLikeCoinjoin(F, tx) ==
    /\ InputCount(F, tx) >= MinCoinjoin
    /\ Cardinality(OutputsOfTx(F, tx)) >= MinCoinjoin
    /\ Cardinality(EqualGroup(F, tx)) >= MinCoinjoin

(* All four parts of the score are at their cap once the shape qualifies,   *)
(* except coverage: one row of evidence over all inputs and outputs.        *)
CoinjoinSignal(F, tx) ==
    [kind |-> "coinjoin_like_structure", entity |-> <<"tx", tx>>, tx |-> tx, txs |-> {tx},
     equal |-> Cardinality(EqualGroup(F, tx)), value |-> F.outs[CHOOSE i \in EqualGroup(F, tx) : TRUE].amount,
     score |-> 900 + 300 \div (InputCount(F, tx) + Cardinality(OutputsOfTx(F, tx)) + 1)]

CoinjoinSignalsOf(F, among) ==
    LET txs == Sorted({tx \in among : LooksLikeCoinjoin(F, tx)}, <)
    IN [k \in DOMAIN txs |-> CoinjoinSignal(F, txs[k])]

CoinjoinSignals(F) == CoinjoinSignalsOf(F, TxIds(F))

(* The SQL prefilter; the detector then sees slices of these only. *)
CoinjoinCandidates(F) ==
    {tx \in TxIds(F) : InputCount(F, tx) >= 3 /\ Cardinality(OutputsOfTx(F, tx)) >= 3}
=============================================================================
