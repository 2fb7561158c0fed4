----------------------------- MODULE GraphBuild -----------------------------
(* The transaction graph of one snapshot, built twice as the program does:  *)
(* in memory (graph/builder.py _build: dictionaries that keep the first row *)
(* inserted under an id) and by the bounded executor (bounded.py: rows      *)
(* staged in any order with an ordinal, the least ordinal per id kept).     *)
EXTENDS Facts, FiniteSetsExt, Functions

CONSTANT PhaseSpan \* ordinals between two phases; above 8 * (facts of a kind + 1)

TxNode(tx) == <<"tx", tx>>
OutNode(point) == <<"out", point[1], point[2]>>
AddressNode(a) == <<"address", a>>
ObsNode(o) == <<"obs", o>>
EndpointNode(e) == <<"endpoint", e>>

Row(id, attrs) == [id |-> id, attrs |-> attrs]
Edge(from, to, kind, attrs) == Row(<<from, to, kind>>, attrs)

(* dict.setdefault: the first row inserted under an id stays. *)
KeepFirst(rows) ==
    FoldLeft(LAMBDA kept, r : IF r.id \in DOMAIN kept THEN kept
                              ELSE [id \in DOMAIN kept \cup {r.id} |->
                                        IF id = r.id THEN r.attrs ELSE kept[id]],
             [id \in {} |-> {}], rows)

-----------------------------------------------------------------------------
(* In memory: every transaction, then every output with its address, then  *)
(* every resolved spend, then every observation.                            *)

OutputNodes(out) ==
    <<Row(TxNode(out.tx), << >>), Row(OutNode(Outpoint(out)), <<out.amount>>)>>
        \o IF out.to = Null THEN << >> ELSE <<Row(AddressNode(out.to), << >>)>>

OutputEdges(out) ==
    <<Edge(TxNode(out.tx), OutNode(Outpoint(out)), "CREATES_OUTPUT", <<out.amount>>)>>
        \o IF out.to = Null THEN << >>
           ELSE <<Edge(OutNode(Outpoint(out)), AddressNode(out.to), "LOCKED_TO", << >>)>>

ObservationEnds(o) ==
    (IF o.src = Null THEN << >> ELSE <<[kind |-> "SEEN_FROM", end |-> o.src]>>)
        \o (IF o.dst = Null THEN << >> ELSE <<[kind |-> "SEEN_TO", end |-> o.dst]>>)

ObservationNodes(o) ==
    <<Row(ObsNode(o.id), << >>), Row(TxNode(o.tx), << >>)>>
        \o [k \in DOMAIN ObservationEnds(o) |-> Row(EndpointNode(ObservationEnds(o)[k].end), << >>)]

ObservationEdges(o) ==
    <<Edge(ObsNode(o.id), TxNode(o.tx), "OBSERVED_TX", << >>)>>
        \o [k \in DOMAIN ObservationEnds(o) |->
                Edge(ObsNode(o.id), EndpointNode(ObservationEnds(o)[k].end), ObservationEnds(o)[k].kind, << >>)]

SpendEdge(in) == Edge(OutNode(in.prev), TxNode(in.tx), "SPENT_BY", <<in.vin>>)

NoSpends == [spender |-> [p \in {} |-> 0], edges |-> << >>,
             resolved |-> 0, missing |-> 0, unknown |-> 0, conflicts |-> 0]

(* One input of the spend loop, in commit order: the first transaction to   *)
(* spend an outpoint keeps it, a later one is counted as a conflict.        *)
ResolveSpend(points, acc, in) ==
    CASE in.prev = Null -> [acc EXCEPT !.missing = @ + 1]
      [] in.prev # Null /\ in.prev \notin points -> [acc EXCEPT !.unknown = @ + 1]
      [] in.prev \in points /\ in.prev \in DOMAIN acc.spender /\ acc.spender[in.prev] # in.tx ->
            [acc EXCEPT !.conflicts = @ + 1]
      [] OTHER ->
            [acc EXCEPT !.spender = [p \in DOMAIN @ \cup {in.prev} |-> IF p = in.prev THEN in.tx ELSE @[p]],
                        !.edges = Append(@, SpendEdge(in)),
                        !.resolved = @ + 1]

MemorySpends(F) ==
    LET points == Outpoints(F)
    IN FoldLeft(LAMBDA acc, in : ResolveSpend(points, acc, in), NoSpends, F.ins)

OutputValue(F, tx) == MapThenSumSet(LAMBDA i : F.outs[i].amount, {i \in DOMAIN F.outs : F.outs[i].tx = tx})
InputValue(F, tx) == MapThenSumSet(LAMBDA i : AmountOf(F, F.ins[i].prev), InputsOf(F, tx))

(* Value is checked where every input names a committed output. *)
ValueChecked(F) ==
    {tx \in {F.ins[i].tx : i \in DOMAIN F.ins} :
        \A i \in InputsOf(F, tx) : F.ins[i].prev \in Outpoints(F)}

Coverage(total, resolved, missing, unknown, conflicts, checked, violations) ==
    [input_count |-> total, resolved_spend_inputs |-> resolved,
     missing_outpoint_inputs |-> missing, unknown_prior_output_inputs |-> unknown,
     double_spend_conflicts |-> conflicts, value_checks |-> checked, value_violations |-> violations,
     spend_lineage_complete |-> missing = 0 /\ unknown = 0 /\ conflicts = 0]

MemoryGraph(F) ==
    LET spends == MemorySpends(F)
        nodes == [i \in DOMAIN F.txs |-> Row(TxNode(F.txs[i].tx), <<F.txs[i].at>>)]
                     \o FlattenSeq([i \in DOMAIN F.outs |-> OutputNodes(F.outs[i])])
                     \o FlattenSeq([i \in DOMAIN F.obs |-> ObservationNodes(F.obs[i])])
        edges == FlattenSeq([i \in DOMAIN F.outs |-> OutputEdges(F.outs[i])])
                     \o spends.edges
                     \o FlattenSeq([i \in DOMAIN F.obs |-> ObservationEdges(F.obs[i])])
    IN [nodes |-> KeepFirst(nodes), edges |-> KeepFirst(edges),
        coverage |-> Coverage(Len(F.ins), spends.resolved, spends.missing, spends.unknown,
                              spends.conflicts, Cardinality(ValueChecked(F)),
                              Cardinality({tx \in ValueChecked(F) : InputValue(F, tx) < OutputValue(F, tx)}))]

-----------------------------------------------------------------------------
(* Bounded: staged rows carry phase and source position as one ordinal.     *)

Ord(phase, seq, pos) == phase * PhaseSpan + seq * 8 + pos
Staged(row, ord) == [id |-> row.id, attrs |-> row.attrs, ord |-> ord]

(* QUALIFY row_number() OVER (PARTITION BY id ORDER BY ord) = 1 *)
FirstPerId(staged) ==
    [id \in {r.id : r \in staged} |->
        LET same == {r \in staged : r.id = id}
        IN (CHOOSE r \in same : r.ord = Min({s.ord : s \in same})).attrs]

StagedNodes(F) ==
    {Staged(Row(TxNode(F.txs[i].tx), <<F.txs[i].at>>), Ord(0, i, 0)) : i \in DOMAIN F.txs}
    \cup {Staged(Row(TxNode(F.outs[i].tx), << >>), Ord(1, i, 0)) : i \in DOMAIN F.outs}
    \cup {Staged(Row(OutNode(Outpoint(F.outs[i])), <<F.outs[i].amount>>), Ord(1, i, 1)) : i \in DOMAIN F.outs}
    \cup {Staged(Row(AddressNode(F.outs[i].to), << >>), Ord(1, i, 3)) :
              i \in {j \in DOMAIN F.outs : F.outs[j].to # Null}}
    \cup {Staged(Row(ObsNode(F.obs[i].id), << >>), Ord(3, i, 0)) : i \in DOMAIN F.obs}
    \cup {Staged(Row(TxNode(F.obs[i].tx), << >>), Ord(3, i, 1)) : i \in DOMAIN F.obs}
    \cup {Staged(Row(EndpointNode(F.obs[i].src), << >>), Ord(3, i, 3)) :
              i \in {j \in DOMAIN F.obs : F.obs[j].src # Null}}
    \cup {Staged(Row(EndpointNode(F.obs[i].dst), << >>), Ord(3, i, 5)) :
              i \in {j \in DOMAIN F.obs : F.obs[j].dst # Null}}

(* Semi join with the outputs, then arg_min(txid, seq) per outpoint. *)
Matched(F) == {i \in DOMAIN F.ins : F.ins[i].prev # Null /\ F.ins[i].prev \in Outpoints(F)}
\* Mutant: the last transaction to spend an outpoint keeps it.
LastSpender(F, point) == F.ins[Max({i \in Matched(F) : F.ins[i].prev = point})].tx
FirstSpender(F, point) == F.ins[Min({i \in Matched(F) : F.ins[i].prev = point})].tx
Resolution(F) == {i \in Matched(F) : F.ins[i].tx = FirstSpender(F, F.ins[i].prev)}

StagedEdges(F) ==
    {Staged(OutputEdges(F.outs[i])[1], Ord(1, i, 2)) : i \in DOMAIN F.outs}
    \cup {Staged(OutputEdges(F.outs[i])[2], Ord(1, i, 4)) : i \in {j \in DOMAIN F.outs : F.outs[j].to # Null}}
    \cup {Staged(SpendEdge(F.ins[i]), Ord(2, i, 0)) : i \in Resolution(F)}
    \cup {Staged(Edge(ObsNode(F.obs[i].id), TxNode(F.obs[i].tx), "OBSERVED_TX", << >>), Ord(3, i, 2)) :
              i \in DOMAIN F.obs}
    \cup {Staged(Edge(ObsNode(F.obs[i].id), EndpointNode(F.obs[i].src), "SEEN_FROM", << >>), Ord(3, i, 4)) :
              i \in {j \in DOMAIN F.obs : F.obs[j].src # Null}}
    \cup {Staged(Edge(ObsNode(F.obs[i].id), EndpointNode(F.obs[i].dst), "SEEN_TO", << >>), Ord(3, i, 6)) :
              i \in {j \in DOMAIN F.obs : F.obs[j].dst # Null}}

BoundedCoverage(F) ==
    LET missing == {i \in DOMAIN F.ins : F.ins[i].prev = Null}
        unknown == {i \in DOMAIN F.ins : F.ins[i].prev # Null /\ F.ins[i].prev \notin Outpoints(F)}
        \* per_tx: bool_and over the left join, NULL sums read as zero
        known(i) == F.ins[i].prev # Null /\ F.ins[i].prev \in Outpoints(F)
        complete == {tx \in {F.ins[i].tx : i \in DOMAIN F.ins} : \A i \in InputsOf(F, tx) : known(i)}
    IN Coverage(Len(F.ins), Cardinality(Resolution(F)), Cardinality(missing), Cardinality(unknown),
                Cardinality(Matched(F) \ Resolution(F)), Cardinality(complete),
                Cardinality({tx \in complete : InputValue(F, tx) < OutputValue(F, tx)}))

BoundedGraph(F) ==
    [nodes |-> FirstPerId(StagedNodes(F)), edges |-> FirstPerId(StagedEdges(F)),
     coverage |-> BoundedCoverage(F)]
=============================================================================
