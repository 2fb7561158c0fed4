------------------------------- MODULE Facts -------------------------------
(* The committed facts of one snapshot, as every later stage reads them.    *)
(* A row of evidence is normalised into one transaction fact, its inputs,   *)
(* its outputs and at most one network observation (canonical/normalize.py);*)
(* the snapshot's facts of each kind are those of its rows in commit order. *)
(*   id      the transaction;  at  its time, a number, or Null              *)
(*   spends  one entry per input: an outpoint <<transaction, vout>> or Null *)
(*   by      the address each input names itself, or Null                   *)
(*   pays    one entry per output: [amount, to], "to" an address or Null    *)
(*   seen    [src, dst, country, asn] of the relay observation, or Nulls    *)
EXTENDS Integers, Sequences, FiniteSets, SequencesExt

CONSTANT Null

(* A set in increasing order of a strict total order (ORDER BY, sorted).    *)
Sorted(S, Less(_, _)) ==
    [k \in 1 .. Cardinality(S) |-> CHOOSE x \in S : Cardinality({y \in S : Less(y, x)}) = k - 1]

Transactions(rows) == [i \in DOMAIN rows |-> [tx |-> rows[i].id, at |-> rows[i].at]]

(* Positions are counted from zero: vin and vout come from enumerate(). *)
Inputs(rows) ==
    FlattenSeq([i \in DOMAIN rows |->
        [k \in DOMAIN rows[i].spends |->
            [tx |-> rows[i].id, vin |-> k - 1, prev |-> rows[i].spends[k], by |-> rows[i].by[k]]]])

Outputs(rows) ==
    FlattenSeq([i \in DOMAIN rows |->
        [k \in DOMAIN rows[i].pays |->
            [tx |-> rows[i].id, vout |-> k - 1,
             amount |-> rows[i].pays[k].amount, to |-> rows[i].pays[k].to]]])

(* A row without any network field yields no observation. *)
Observations(rows) ==
    FlattenSeq([i \in DOMAIN rows |->
        IF \A field \in DOMAIN rows[i].seen : rows[i].seen[field] = Null THEN << >>
        ELSE <<[id |-> i, tx |-> rows[i].id] @@ rows[i].seen>>])

FactsOf(rows) ==
    [txs |-> Transactions(rows), ins |-> Inputs(rows),
     outs |-> Outputs(rows), obs |-> Observations(rows)]

Outpoint(out) == <<out.tx, out.vout>>

Outpoints(F) == {Outpoint(F.outs[i]) : i \in DOMAIN F.outs}

(* A transaction's time: its block time, else the source's own timestamp. *)
TimeOf(F, tx) == F.txs[CHOOSE i \in DOMAIN F.txs : F.txs[i].tx = tx].at

AmountOf(F, point) == F.outs[CHOOSE i \in DOMAIN F.outs : Outpoint(F.outs[i]) = point].amount

InputsOf(F, tx) == {i \in DOMAIN F.ins : F.ins[i].tx = tx}

TxIds(F) == {F.txs[i].tx : i \in DOMAIN F.txs}
=============================================================================
