------------------------------ MODULE MlGrains ------------------------------
(* Feature tables of the anomaly stack (ml/grains.py) and recipient history *)
(* (ml/recipient_history.py) over the arrays of MlFacts.  Logarithms, means *)
(* and ratios of a row are left out: each is a function of the numbers kept *)
(* here.  Tables are functions of transaction or output slots.              *)
EXTENDS MlFacts

CONSTANTS Window,    \* seconds of a history window and of a motif bucket (900)
          Trailing,  \* seconds a relay's recent activity is counted over (3600)
          Tolerance  \* how far outputs of a graded equal group may differ

OutsOf(M, t) == SelectSeq([k \in DOMAIN M.outs |-> k], LAMBDA k : M.outs[k].tx = t)
InsOf(M, t) == SelectSeq([i \in DOMAIN M.ins |-> i], LAMBDA i : M.ins[i].tx = t)
Resolved(M, t) ==
    LET prevs == [n \in DOMAIN InsOf(M, t) |-> M.ins[InsOf(M, t)[n]].prev]
    IN SelectSeq(prevs, LAMBDA p : p # 0)

TimeAt(M, t) == M.txs[t].at
Of(M, field(_), slots) == [n \in DOMAIN slots |-> field(slots[n])]

(* The largest set of outputs within a tolerance: a window over the sorted  *)
(* values whose left edge only moves right.                                 *)
LargestEqualGroup(values, tolerance) ==
    LET sorted == SortSeq(values, <)
        step(acc, right) ==
            LET left == Min({l \in acc.left .. right : sorted[right] - sorted[l] <= tolerance})
            IN [left |-> left, best |-> Max({acc.best, right - left + 1})]
    IN IF values = << >> THEN 0
       ELSE FoldLeft(step, [left |-> 1, best |-> 1], [n \in DOMAIN sorted |-> n]).best

TransactionRow(M, t) ==
    LET values == Of(M, LAMBDA k : M.outs[k].value, OutsOf(M, t))
        resolved == Resolved(M, t)
        ages == [n \in DOMAIN resolved |-> Max({0, TimeAt(M, t) - TimeAt(M, M.outs[resolved[n]].tx)})]
    IN [values |-> SortSeq(values, <), inputs |-> Of(M, LAMBDA k : M.outs[k].value, resolved),
        ages |-> SortSeq(ages, <), equal |-> LargestEqualGroup(values, 0),
        near |-> LargestEqualGroup(values, Tolerance), rapid |-> Len(SelectSeq(ages, LAMBDA a : a <= Trailing))]

(* motif_family_flags: equal outputs behind as many inputs, or a peel step. *)
CoinjoinFlag(row) == Len(row.inputs) >= 3 /\ Len(row.values) >= 3 /\ row.near >= 3
PeelFlag(row) == Len(row.values) = 2 /\ row.values[2] > 0 /\ 4 * row.values[1] < row.values[2]
MotifFlags(M) ==
    [t \in DOMAIN M.txs |-> CoinjoinFlag(TransactionRow(M, t)) \/ PeelFlag(TransactionRow(M, t))]

(* Spend latency, right-censored at a horizon.                              *)
LatencyTable(M, horizon) ==
    [k \in DOMAIN M.outs |->
        LET observed == M.spentBy[k] # 0 /\ TimeAt(M, M.spentBy[k]) <= horizon
            ends == IF observed THEN TimeAt(M, M.spentBy[k]) ELSE horizon
        IN [value |-> M.outs[k].value, observed |-> observed,
            duration |-> Max({0, ends - TimeAt(M, M.outs[k].tx)}),
            spender |-> IF observed THEN M.spentBy[k] ELSE 0]]

(* Per (address, window) rows in order, with running totals over the        *)
(* address's earlier rows.                                                  *)
WindowOf(M, t) == (TimeAt(M, t) \div Window) * Window

HistoryTable(M) ==
    LET flags == MotifFlags(M)
        valid == {k \in DOMAIN M.outs : M.outs[k].addr # 0}
        keys == Sorted({<<M.outs[k].addr, WindowOf(M, M.outs[k].tx)>> : k \in valid},
                       LAMBDA a, b : a[1] < b[1] \/ (a[1] = b[1] /\ a[2] < b[2]))
        rowsOf(key) == {k \in valid : M.outs[k].addr = key[1] /\ WindowOf(M, M.outs[k].tx) = key[2]}
        txsOf(key) == {M.outs[k].tx : k \in rowsOf(key)}
        blank(address) == [address |-> address, windows |-> 0, events |-> 0, value |-> 0, motif |-> 0, previous |-> Null]
        step(acc, key) ==
            LET prior == IF acc.totals.address = key[1] THEN acc.totals ELSE blank(key[1])
                events == Cardinality(txsOf(key))
                value == MapThenSumSet(LAMBDA k : M.outs[k].value, rowsOf(key))
            IN [totals |-> [prior EXCEPT !.windows = @ + 1, !.events = @ + events, !.value = @ + value,
                                         !.motif = @ + Cardinality({t \in txsOf(key) : flags[t]}), !.previous = key[2]],
                rows |-> Append(acc.rows,
                    [address |-> M.addresses[key[1]], window |-> key[2], events |-> events, value |-> value,
                     priorWindows |-> prior.windows, priorEvents |-> prior.events, priorValue |-> prior.value,
                     priorMotif |-> prior.motif, gap |-> IF prior.previous = Null THEN Null ELSE key[2] - prior.previous])]
    IN FoldLeft(step, [totals |-> blank(0), rows |-> << >>], keys).rows

(* Backward chain depth, in slot order (tx_time is already sorted).         *)
Parents(M, t) == {M.outs[p].tx : p \in Range(Resolved(M, t))}
BackDepth(M) ==
    FoldLeft(LAMBDA depth, t :
                 IF Parents(M, t) = {} THEN depth
                 ELSE [depth EXCEPT ![t] = Min({2, 1 + Max({depth[p] : p \in Parents(M, t)})})],
             [t \in DOMAIN M.txs |-> 0], [t \in DOMAIN M.txs |-> t])

\* Mutant: every other use of the address counts, also the later ones.
AnyUse(M, k) == Cardinality({j \in DOMAIN M.outs : M.outs[j].addr = M.outs[k].addr /\ j # k})

(* Earlier rows with the same key, by (time, tiebreak), rows in their order. *)
PriorUse(M, k) ==
    Cardinality({j \in DOMAIN M.outs :
        /\ M.outs[j].addr = M.outs[k].addr
        /\ M.outs[j].tx < M.outs[k].tx \/ (M.outs[j].tx = M.outs[k].tx /\ j < k)})

GraphRow(M, t) ==
    [spends |-> Len(Resolved(M, t)), outputs |-> Len(OutsOf(M, t)), parents |-> Cardinality(Parents(M, t)),
     depth |-> BackDepth(M)[t],
     reuse |-> Of(M, LAMBDA k : IF M.outs[k].addr = 0 THEN 0 ELSE PriorUse(M, k), OutsOf(M, t))]

(* Strictly earlier transactions of the same relay within the trailing hour. *)
TrailingCount(M, t, relay) ==
    IF relay[t] = Null THEN 0
    ELSE Cardinality({u \in DOMAIN M.txs : /\ relay[u] = relay[t]
                                           /\ TimeAt(M, u) >= TimeAt(M, t) - Trailing
                                           /\ TimeAt(M, u) < TimeAt(M, t)})

(* Rarity of a relay's country: its share of the earlier transactions,      *)
(* smoothed by the number of countries in the whole table, as a fraction.   *)
Classes(M) == Max({1, Cardinality(M.countries)})

CountryShare(M, t) ==
    IF M.seen[t].country = Null THEN Null
    ELSE [seen |-> 1 + Cardinality({u \in 1 .. t - 1 : M.seen[u].country = M.seen[t].country}),
          of |-> t - 1 + Classes(M)]

NetworkRow(M, t) ==
    [endpoint |-> TrailingCount(M, t, [u \in DOMAIN M.txs |-> M.seen[u].ip]),
     asn |-> TrailingCount(M, t, [u \in DOMAIN M.txs |-> M.seen[u].asn]),
     country |-> CountryShare(M, t)]

(* recipient_history: one pass in groups of equal time; every transaction   *)
(* of a group is read before any of them is counted.                        *)
Recipients(M, t) == {M.outs[k].addr : k \in Range(OutsOf(M, t))} \ {0}
NoHistory == [count |-> 0, first |-> Null, last |-> Null, firstTx |-> 0, lastTx |-> 0]

HistoryRow(M, state, t) ==
    [a \in {M.addresses[r] : r \in Recipients(M, t)} |->
        LET h == state[LastIndex(M.addresses, LAMBDA x : x = a)]
        IN [count |-> h.count, span |-> IF h.count = 0 THEN 0 ELSE h.last - h.first,
            witnesses |-> IF h.count = 0 THEN << >> ELSE <<M.txs[h.firstTx].tx, M.txs[h.lastTx].tx>>]]

CountRecipients(M, state, t) ==
    [r \in DOMAIN state |->
        IF r \notin Recipients(M, t) THEN state[r]
        ELSE [count |-> state[r].count + 1,
              first |-> IF state[r].count = 0 THEN TimeAt(M, t) ELSE state[r].first,
              firstTx |-> IF state[r].count = 0 THEN t ELSE state[r].firstTx,
              last |-> TimeAt(M, t), lastTx |-> t]]

RecipientHistory(M) ==
    LET times == Sorted({TimeAt(M, t) : t \in DOMAIN M.txs}, LAMBDA a, b : a < b)
        at(time) == SelectSeq([t \in DOMAIN M.txs |-> t], LAMBDA t : TimeAt(M, t) = time)
        step(acc, time) ==
            [rows |-> acc.rows @@ [t \in Range(at(time)) |-> HistoryRow(M, acc.state, t)],
             state |-> FoldLeft(LAMBDA s, t : CountRecipients(M, s, t), acc.state, at(time))]
    IN FoldLeft(step, [rows |-> [t \in {} |-> 0], state |-> [r \in DOMAIN M.addresses |-> NoHistory]], times).rows
=============================================================================
