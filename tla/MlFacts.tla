------------------------------- MODULE MlFacts -------------------------------
(* The integer-indexed arrays of the anomaly stack (ml/facts.py), made      *)
(* four ways: from streams of committed facts, by the bounded store's SQL   *)
(* (bounded.py ml_facts), from the files of a data set (load_facts), and by *)
(* truncating arrays to an earlier moment.                                  *)
(* Slots count from 1; 0 stands for the program's -1.                       *)
EXTENDS Facts, FiniteSetsExt

(* ORDER BY (time, txid); a transaction without a time is left out. *)
Timed(F) ==
    Sorted({F.txs[i] : i \in {j \in DOMAIN F.txs : F.txs[j].at # Null}},
           LAMBDA a, b : a.at < b.at \/ (a.at = b.at /\ a.tx < b.tx))

Slot(txs, tx) == IF \E i \in DOMAIN txs : txs[i].tx = tx THEN CHOOSE i \in DOMAIN txs : txs[i].tx = tx ELSE 0

(* The last index that satisfies a test, as a dictionary overwritten keeps. *)
LastIndex(seq, Test(_)) == IF \E i \in DOMAIN seq : Test(seq[i]) THEN Max({i \in DOMAIN seq : Test(seq[i])}) ELSE 0

\* Mutant: the first of several inputs that claim an output keeps it.
SpentByFirst(ins, outs) ==
    FoldLeft(LAMBDA spent, in : IF in.prev = 0 \/ spent[in.prev] # 0 THEN spent ELSE [spent EXCEPT ![in.prev] = in.tx],
             [k \in DOMAIN outs |-> 0], ins)

Spent(ins, outs) ==
    FoldLeft(LAMBDA spent, in : IF in.prev = 0 THEN spent ELSE [spent EXCEPT ![in.prev] = in.tx],
             [k \in DOMAIN outs |-> 0], ins)

FromStreams(F) ==
    LET txs == Timed(F)
        kept == SelectSeq(F.outs, LAMBDA o : Slot(txs, o.tx) # 0)
        labels == FoldLeft(LAMBDA seen, o : IF o.to = Null \/ o.to \in Range(seen) THEN seen ELSE Append(seen, o.to),
                           << >>, kept)
        outs == [k \in DOMAIN kept |->
                    [tx |-> Slot(txs, kept[k].tx), vout |-> kept[k].vout, value |-> kept[k].amount,
                     addr |-> LastIndex(labels, LAMBDA a : a = kept[k].to)]]
        spends == SelectSeq(F.ins, LAMBDA in : Slot(txs, in.tx) # 0)
        prevOf(in) == IF in.prev = Null THEN 0
                      ELSE LastIndex(outs, LAMBDA o : o.tx = Slot(txs, in.prev[1]) /\ o.vout = in.prev[2])
        ins == [k \in DOMAIN spends |-> [tx |-> Slot(txs, spends[k].tx), prev |-> prevOf(spends[k])]]
    IN [txs |-> txs, outs |-> outs, ins |-> ins, addresses |-> labels, spentBy |-> Spent(ins, outs)]

-----------------------------------------------------------------------------
(* ml_tx, ml_out, ml_in: numbered by window functions, joined by equality.  *)

FromStore(F) ==
    LET txs == Timed(F)
        slotOf == [i \in DOMAIN F.txs |->
                      IF F.txs[i].at = Null THEN 0
                      ELSE Cardinality({j \in DOMAIN F.txs :
                               F.txs[j].at # Null /\ (F.txs[j].at < F.txs[i].at \/ (F.txs[j].at = F.txs[i].at /\ F.txs[j].tx <= F.txs[i].tx))})]
        txSlot(tx) == Max({slotOf[i] : i \in {j \in DOMAIN F.txs : F.txs[j].tx = tx}} \cup {0})
        base == {i \in DOMAIN F.outs : txSlot(F.outs[i].tx) # 0}
        pos(i) == Cardinality({j \in base : j <= i})
        first(a) == Min({i \in base : F.outs[i].to = a})
        known == {F.outs[i].to : i \in base} \ {Null}
        addrSlot(a) == IF a = Null THEN 0 ELSE Cardinality({b \in known : first(b) <= first(a)})
        rowAt(k) == CHOOSE i \in base : pos(i) = k
        outs == [k \in 1 .. Cardinality(base) |->
                    [tx |-> txSlot(F.outs[rowAt(k)].tx), vout |-> F.outs[rowAt(k)].vout,
                     value |-> F.outs[rowAt(k)].amount, addr |-> addrSlot(F.outs[rowAt(k)].to)]]
        joined(in) == {k \in DOMAIN outs : /\ in.prev # Null /\ in.prev \in Outpoints(F)
                                           /\ outs[k].tx = txSlot(in.prev[1]) /\ outs[k].vout = in.prev[2]}
        spends == SelectSeq(F.ins, LAMBDA in : txSlot(in.tx) # 0)
        ins == [k \in DOMAIN spends |-> [tx |-> txSlot(spends[k].tx), prev |-> Max(joined(spends[k]) \cup {0})]]
        claims(k) == {i \in DOMAIN ins : ins[i].prev = k}
    IN [txs |-> txs, outs |-> outs, ins |-> ins,
        addresses |-> [n \in 1 .. Cardinality(known) |-> CHOOSE a \in known : addrSlot(a) = n],
        \* arg_max(tx, seq) GROUP BY prev
        spentBy |-> [k \in DOMAIN outs |-> IF claims(k) = {} THEN 0 ELSE ins[Max(claims(k))].tx]]

-----------------------------------------------------------------------------
(* load_facts reads the files of a data set in their order, which numbers   *)
(* the transactions; every row there has a time and repeats none.           *)

FromFiles(F) ==
    LET txs == F.txs
        labels == FoldLeft(LAMBDA seen, o : IF o.to = Null \/ o.to \in Range(seen) THEN seen ELSE Append(seen, o.to),
                           << >>, F.outs)
        outs == [k \in DOMAIN F.outs |->
                    [tx |-> Slot(txs, F.outs[k].tx), vout |-> F.outs[k].vout, value |-> F.outs[k].amount,
                     addr |-> LastIndex(labels, LAMBDA a : a = F.outs[k].to)]]
        prevOf(in) == IF in.prev = Null THEN 0
                      ELSE LastIndex(outs, LAMBDA o : o.tx = Slot(txs, in.prev[1]) /\ o.vout = in.prev[2])
        ins == [k \in DOMAIN F.ins |-> [tx |-> Slot(txs, F.ins[k].tx), prev |-> prevOf(F.ins[k])]]
    IN [txs |-> txs, outs |-> outs, ins |-> ins, addresses |-> labels, spentBy |-> Spent(ins, outs)]

(* _attach_network_context reads the rows themselves and lets a later one   *)
(* replace an earlier that named no network.                                *)
RowSight(rows, tx) ==
    LET mine == {i \in DOMAIN rows : rows[i].id = tx}
        named == {i \in mine : rows[i].seen.asn # Null}
        taken == IF named # {} THEN rows[Min(named)].seen ELSE rows[Max(mine)].seen
    IN [ip |-> taken.src, asn |-> taken.asn, country |-> taken.country]

(* Countries are interned from every row read, replaced ones included.      *)
RowCountries(M, rows) ==
    {rows[i].seen.country : i \in {j \in DOMAIN rows :
        /\ Slot(M.txs, rows[j].id) # 0
        /\ \A k \in 1 .. j - 1 : rows[k].id = rows[j].id => rows[k].seen.asn = Null}} \ {Null}

AttachRows(M, rows) ==
    M @@ [seen |-> [t \in DOMAIN M.txs |-> RowSight(rows, M.txs[t].tx)], countries |-> RowCountries(M, rows)]

(* outputs_of, inputs_of: a stable order by transaction, and where each     *)
(* transaction's slice of it starts.                                        *)
BySlot(index, n) ==
    [order |-> SortSeq([k \in DOMAIN index |-> k], LAMBDA a, b : index[a] < index[b] \/ (index[a] = index[b] /\ a < b)),
     starts |-> [t \in 1 .. n + 1 |-> Cardinality({k \in DOMAIN index : index[k] < t})]]

OutputsOfSlot(M) == BySlot([k \in DOMAIN M.outs |-> M.outs[k].tx], Len(M.txs))
InputsOfSlot(M) == BySlot([i \in DOMAIN M.ins |-> M.ins[i].tx], Len(M.txs))
Slice(csr, t) == SubSeq(csr.order, csr.starts[t] + 1, csr.starts[t + 1])

-----------------------------------------------------------------------------
(* attach_network_observations: the first observation of a transaction, and *)
(* the countries that such observations report.                             *)

FirstSight(F, tx) ==
    LET mine == {i \in DOMAIN F.obs : F.obs[i].tx = tx}
    IN IF mine = {} THEN [ip |-> Null, asn |-> Null, country |-> Null]
       ELSE LET o == F.obs[Min(mine)] IN [ip |-> o.src, asn |-> o.asn, country |-> o.country]

Attach(M, F) ==
    LET sights == [t \in DOMAIN M.txs |-> FirstSight(F, M.txs[t].tx)]
    IN M @@ [seen |-> sights, countries |-> {sights[t].country : t \in DOMAIN sights} \ {Null}]

(* truncate_facts: keep what is at or before a moment and renumber; address *)
(* and country tables stay whole.                                           *)
Truncate(M, asOf) ==
    LET keepTx(t) == M.txs[t].at <= asOf
        newTx(t) == IF t = 0 \/ ~keepTx(t) THEN 0 ELSE Cardinality({u \in 1 .. t : keepTx(u)})
        keepOut(k) == keepTx(M.outs[k].tx)
        newOut(k) == IF k = 0 \/ ~keepOut(k) THEN 0 ELSE Cardinality({j \in 1 .. k : keepOut(j)})
        kept(seq, Keep(_)) == SelectSeq([i \in DOMAIN seq |-> i], Keep)
        outs == kept(M.outs, keepOut)
        ins == kept(M.ins, LAMBDA i : keepTx(M.ins[i].tx))
        txs == kept(M.txs, keepTx)
    IN [M EXCEPT !.txs = [t \in DOMAIN txs |-> M.txs[txs[t]]],
                 !.outs = [k \in DOMAIN outs |-> [M.outs[outs[k]] EXCEPT !.tx = newTx(@)]],
                 !.ins = [i \in DOMAIN ins |-> [tx |-> newTx(M.ins[ins[i]].tx), prev |-> newOut(M.ins[ins[i]].prev)]],
                 !.spentBy = [k \in DOMAIN outs |-> newTx(M.spentBy[outs[k]])],
                 !.seen = [t \in DOMAIN txs |-> M.seen[txs[t]]]]
=============================================================================
