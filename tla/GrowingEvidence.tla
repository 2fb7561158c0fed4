--------------------------- MODULE GrowingEvidence ---------------------------
(* What later evidence may and may not change.  A case is analysed at one   *)
(* moment after another, each time over the rows known by then: feature     *)
(* tables of the anomaly stack (MlGrains), entities and relay correlation   *)
(* (NetworkEntities), and risk from the seeds analysts add and remove.      *)
EXTENDS MlGrains, NetworkEntities

CONSTANTS Histories, \* the sequences of rows to run through, with Geo-IP or without
          Refs,      \* what a seed may name
          Weights,   \* the weights a seed may have
          MaxSeeds   \* how many seeds a case has at most

VARIABLES evidence,  \* every row the case will ever hold, in commit order
          clock,     \* the moment analysed
          installed, \* a Geo-IP database is installed
          tables,    \* the feature tables of the rows known by then
          net,       \* the entity and network tables of those rows
          seeds,     \* RiskSeed rows: the weight of each wallet_ref
          risk       \* scores of the current view's latest RiskRun, or Null

vars == <<evidence, clock, installed, tables, net, seeds, risk>>

Known(moment) == EvidenceOf(SelectSeq(evidence, LAMBDA r : r.at = Null \/ r.at <= moment))

(* Tables by transaction, so that they can be compared across views.        *)
FeatureTables(F) ==
    LET M == Attach(FromStreams(F), F)
        rows(Row(_)) == [tx \in {M.txs[t].tx : t \in DOMAIN M.txs} |-> Row(Slot(M.txs, tx))]
        recipients == RecipientHistory(M)
    IN [facts |-> M,
        transactions |-> rows(LAMBDA t : TransactionRow(M, t)),
        graph |-> rows(LAMBDA t : GraphRow(M, t)),
        network |-> rows(LAMBDA t : NetworkRow(M, t)),
        recipients |-> rows(LAMBDA t : recipients[t]),
        history |-> HistoryTable(M)]

Instants == {evidence[i].at : i \in DOMAIN evidence} \ {Null}

Init ==
    /\ \E history \in Histories : evidence = history.rows /\ installed = history.installed
    /\ clock = 0
    /\ tables = FeatureTables(Known(0)) /\ net = NetworkTables(Known(0), installed)
    /\ seeds = [ref \in {} |-> 0] /\ risk = Null

(* A later import holds everything up to the next moment: a new snapshot,   *)
(* which no risk run belongs to yet.                                        *)
Grow ==
    /\ \E t \in Instants : t > clock
    /\ clock' = Min({t \in Instants : t > clock})
    /\ tables' = FeatureTables(Known(clock'))
    /\ net' = NetworkTables(Known(clock'), installed)
    /\ risk' = Null
    /\ UNCHANGED <<evidence, installed, seeds>>

(* POST /risk/seeds upserts by wallet_ref, then propagates.                 *)
UpsertSeed(ref, weight) ==
    /\ ref \in DOMAIN seeds \/ Cardinality(DOMAIN seeds) < MaxSeeds
    /\ seeds' = [r \in DOMAIN seeds \cup {ref} |-> IF r = ref THEN weight ELSE seeds[r]]
    /\ risk' = Risk(net, seeds')
    /\ UNCHANGED <<evidence, clock, installed, tables, net>>

DeleteSeed(ref) ==
    /\ ref \in DOMAIN seeds
    /\ seeds' = Restrict(seeds, DOMAIN seeds \ {ref})
    /\ risk' = Risk(net, seeds')
    /\ UNCHANGED <<evidence, clock, installed, tables, net>>

RunRisk ==
    /\ risk = Null
    /\ risk' = Risk(net, seeds)
    /\ UNCHANGED <<evidence, clock, installed, tables, net, seeds>>

Next ==
    \/ Grow \/ RunRisk
    \/ \E ref \in Refs : DeleteSeed(ref) \/ \E weight \in Weights : UpsertSeed(ref, weight)

Spec == Init /\ [][Next]_vars

-----------------------------------------------------------------------------
(* Properties of the feature tables.                                        *)

(* Transactions that spend what becomes known only later: the spender's     *)
(* time is before the time of the transaction that pays it.                 *)
Late(F, G) == {F.ins[i].tx : i \in {j \in DOMAIN F.ins : F.ins[j].prev \in Outpoints(G) \ Outpoints(F)}}
Children(F, txs) == {F.ins[i].tx : i \in {j \in DOMAIN F.ins : F.ins[j].prev # Null /\ F.ins[j].prev[1] \in txs}}
PaidBy(F, txs) == {F.outs[k].to : k \in {j \in DOMAIN F.outs : F.outs[j].tx \in txs}}

(* An address's history before a window, the motif count left out for some. *)
Past(row, unmarked) ==
    [address |-> row.address, window |-> row.window, windows |-> row.priorWindows, events |-> row.priorEvents,
     value |-> row.priorValue, motif |-> IF row.address \in unmarked THEN Null ELSE row.priorMotif, gap |-> row.gap]

Diluted(row, more) == [row EXCEPT !.country = IF @ = Null THEN Null ELSE [@ EXCEPT !.of = @ + more]]

(* What a moment's tables say of the rows there were before, but for the    *)
(* transactions that were late, the children of those and whom they pay,    *)
(* and for the countries there are more of.                                 *)
SameButFor(late, children, paid, more) ==
    /\ \A tx \in DOMAIN tables.transactions :
          /\ tx \notin late => tables'.transactions[tx] = tables.transactions[tx]
          /\ tx \notin late \cup children => tables'.graph[tx] = tables.graph[tx]
          /\ tables'.graph[tx].reuse = tables.graph[tx].reuse
          /\ tables'.network[tx] = Diluted(tables.network[tx], more)
          /\ tables'.recipients[tx] = tables.recipients[tx]
    /\ {Past(r, paid) : r \in Range(tables.history)} \subseteq {Past(r, paid) : r \in Range(tables'.history)}

(* No look-ahead (grains.py:9-33, recipient_history.py "strictly earlier"): *)
(* whatever is committed later, a transaction's features and an address's   *)
(* history up to a window are the same, but for two things in which the     *)
(* code looks ahead.  Countries first reported later thin out the country   *)
(* share of every row, and by no more than their number; and an input is    *)
(* resolved by whatever time its parent bears, which changes the rows of    *)
(* the spender alone, the depth of its children, and whether it counts as a *)
(* motif of those it pays.                                                  *)
CausalRows ==
    [][clock < clock' =>
          \A F \in {Known(clock)}, G \in {Known(clock')} : \A late \in {Late(F, G)} :
             SameButFor(late, Children(F, late), PaidBy(F, late), Classes(tables'.facts) - Classes(tables.facts))]_vars

(* "a feature for transaction t may only use facts whose timestamp is at or *)
(* before tx_time[t]", whole-dataset statistics "are gone" (grains.py:9,    *)
(* :21, :380).  False of the code, for the two reasons above.               *)
RowsNeverChange ==
    [][\A tx \in DOMAIN tables.transactions :
          \A table \in {"transactions", "graph", "network", "recipients"} : tables'[table][tx] = tables[table][tx]]_<<clock, tables>>

(* The bounded store's SQL numbers, interns and joins as the streams do     *)
(* (bounded.py ml_facts, "identical").                                      *)
StoreFactsAgree == FromStore(Known(clock)) = FromStreams(Known(clock))

(* A data set's files give the committed arrays, transactions numbered by   *)
(* their place in the file and not by time (facts.py:117, :204).            *)
Named(M) ==
    LET id(t) == IF t = 0 THEN Null ELSE M.txs[t].tx
    IN [M EXCEPT !.txs = Range(@),
                 !.outs = [k \in DOMAIN @ |-> [@[k] EXCEPT !.tx = id(@)]],
                 !.ins = [i \in DOMAIN @ |-> [@[i] EXCEPT !.tx = id(@)]],
                 !.spentBy = [k \in DOMAIN @ |-> id(@[k])],
                 !.seen = [tx \in {M.txs[t].tx : t \in DOMAIN M.txs} |-> @[Slot(M.txs, tx)]]]

FileFactsAgree ==
    LET rows == SelectSeq(evidence, LAMBDA r : r.at # Null /\ r.at <= clock)
        F == FactsOf(rows)
    IN rows = SelectSeq(evidence, LAMBDA r : r.at = Null \/ r.at <= clock)
           => Named(AttachRows(FromFiles(F), rows)) = Named(tables.facts)

(* The slices by transaction are what a scan of the arrays would find, in   *)
(* the arrays' order.                                                       *)
SlicesAreScans ==
    LET M == tables.facts
        scan(seq, t) == SelectSeq([k \in DOMAIN seq |-> k], LAMBDA k : seq[k].tx = t)
    IN \A t \in DOMAIN M.txs : /\ Slice(OutputsOfSlot(M), t) = scan(M.outs, t)
                               /\ Slice(InputsOfSlot(M), t) = scan(M.ins, t)

(* Truncating the whole history to a moment gives what was known then, for  *)
(* every output at most one transaction claims (facts.py truncate_facts),   *)
(* and so do latencies censored at that moment (grains.py:252).  The tables *)
(* of addresses and countries stay whole, so that what is computed of a cut *)
(* history does not show a dependence on the number of countries.           *)
Claimants(M, k) == {M.ins[i].tx : i \in {j \in DOMAIN M.ins : M.ins[j].prev = k}}
Outs(M) == [k \in DOMAIN M.outs |-> [M.outs[k] EXCEPT !.addr = IF @ = 0 THEN Null ELSE M.addresses[@]]]

TruncationIsTheView ==
    LET F == FactsOf(evidence)
        whole == Attach(FromStreams(F), F)
        cut == Truncate(whole, clock)
        now == tables.facts
        early == SelectSeq([k \in DOMAIN whole.outs |-> k], LAMBDA k : TimeAt(whole, whole.outs[k].tx) <= clock)
        plain == \A k \in DOMAIN whole.outs : Cardinality(Claimants(whole, k)) <= 1
    IN /\ cut.txs = now.txs /\ cut.ins = now.ins /\ cut.seen = now.seen /\ Outs(cut) = Outs(now)
       /\ plain => /\ cut.spentBy = now.spentBy
                   /\ Of(whole, LAMBDA k : LatencyTable(whole, clock)[k], early) = LatencyTable(now, clock)

(* However the arrays of a moment are made, they are the same arrays.       *)
ViewsAgree == StoreFactsAgree /\ FileFactsAgree /\ SlicesAreScans /\ TruncationIsTheView

-----------------------------------------------------------------------------
(* Properties of the entities.                                              *)

(* Entities are exactly what common inputs connect: addresses of a linking  *)
(* transaction are together, no part of an entity is cut off from the rest, *)
(* and the least address names it (analytics.py:267 "identical labelling"). *)
EntitiesAreComponents ==
    LET F == Known(clock)
    IN /\ DOMAIN net.entity = Linked(F)
       /\ \A tx \in Linking(F) : Cardinality({net.entity[a] : a \in SpentFrom(F, tx)}) = 1
       /\ \A root \in Range(net.entity) :
             LET members == net.entities[root].addresses
             IN /\ root = Min(members)
                /\ \A part \in (SUBSET members) \ {{}, members} :
                      \E tx \in Linking(F) : SpentFrom(F, tx) \cap part # {} /\ ~(SpentFrom(F, tx) \subseteq part)

(* What inputs of some addresses had stated beyond the outputs they turn    *)
(* out to spend.                                                            *)
Overstated(F, G, members) ==
    LET found == {i \in DOMAIN F.ins : InAddress(F, i) \in members /\ F.ins[i].prev \in Outpoints(G) \ Outpoints(F)}
    IN MapThenSumSet(LAMBDA i : Max({0, InAmount(F, i) - AmountOf(G, F.ins[i].prev)}), found)

(* More evidence merges entities and never splits one; what an entity has   *)
(* received and was linked by only adds up, and so does what it has sent,   *)
(* but where an output that becomes known is worth less than the input had  *)
(* stated, whose word is taken until then, and by that only; and a seed     *)
(* that names an address keeps its wallet, as one that names an entity does *)
(* not.                                                                     *)
EntitiesOnlyMerge ==
    [][clock < clock' =>
       /\ \A a \in DOMAIN net.entity :
             /\ a \in DOMAIN net'.entity
             /\ \A b \in DOMAIN net.entity : net.entity[a] = net.entity[b] => net'.entity[a] = net'.entity[b]
       /\ \A F \in {Known(clock)}, G \in {Known(clock')} : \A root \in DOMAIN net.entities :
             LET old == net.entities[root]
                 new == net'.entities[net'.entity[root]]
             IN /\ old.received <= new.received
                /\ old.sent - Overstated(F, G, old.addresses) <= new.sent
                /\ \A tx \in DOMAIN old.links : tx \in DOMAIN new.links /\ old.links[tx] <= new.links[tx]
       /\ \A ref \in DOMAIN seeds :
             ref[1] = "address" /\ SeedWallet(net, ref) \in Wallets(net)
                 => SeedWallet(net', ref) \in Wallets(net')]_vars

(* At most one relay can be what a wallet's spends concentrate on, so it    *)
(* does not matter which of several best keys arg_max returns; and an       *)
(* endpoint is contradicted only by a database that knows it.               *)
FindingsAreDecided ==
    /\ \A c, d \in net.concentrations : c.wallet = d.wallet /\ c.dimension = d.dimension => c = d
    /\ \A ip \in net.mismatches :
          installed /\ Geo[ip].scope = "public" /\ \E field \in {"country", "asn"} : Geo[ip][field] # Null

(* Nothing an analyst reads of the network hangs on which of several equal  *)
(* candidates a query or a thread happened to meet first.                   *)
NetworkIsDecided == EntitiesAreComponents /\ FindingsAreDecided

-----------------------------------------------------------------------------
(* Properties of risk.                                                      *)

(* Another seed, or a heavier one, never makes a wallet look safer.         *)
MoreSeedsMoreRisk ==
    [][(/\ risk # Null /\ risk' # Null
        /\ DOMAIN seeds \subseteq DOMAIN seeds' /\ \A ref \in DOMAIN seeds : seeds[ref] <= seeds'[ref])
       => \A w \in DOMAIN risk : /\ risk[w].down <= risk'[w].down /\ risk[w].up <= risk'[w].up
                                 /\ risk[w].risk <= risk'[w].risk]_vars

(* Funds carry risk, and nothing else does: a wallet is at risk downstream  *)
(* exactly when value reached it from a seed within the hops counted,       *)
(* upstream exactly when value it sent reached one, and never by more than  *)
(* the heaviest seed's weight.                                              *)
SeededOuts == {k \in DOMAIN net.out : net.out[k].wallet # Null /\ SeedVector(net, seeds)[net.out[k].wallet] > 0}
Carries(k) == net.out[k].amount > 0

Reached(Beyond(_)) ==
    FoldLeft(LAMBDA outs, hop : outs \cup Beyond({k \in outs : Carries(k)}), SeededOuts, [hop \in 1 .. MaxRiskHops |-> hop])

Onward(outs) == {k \in DOMAIN net.out : \E i \in SpendsOf(net, net.out[k].tx) : net.in[i].out \in outs}
Back(outs) == {k \in DOMAIN net.out : Spender(net, k) # Null /\ Created(net, Spender(net, k)) \cap outs # {}}

FundsCarryRisk ==
    risk # Null =>
        LET vector == SeedVector(net, seeds)
            heaviest == Max({0} \cup {vector[w] : w \in DOMAIN vector})
            holds(w, outs) == \E k \in outs : net.out[k].wallet = w /\ Carries(k)
        IN \A w \in DOMAIN risk :
              /\ risk[w].down <= heaviest /\ risk[w].up <= heaviest
              /\ risk[w].down > 0 <=> vector[w] > 0 \/ holds(w, Reached(Onward))
              /\ risk[w].up > 0 <=> vector[w] > 0 \/ holds(w, {k \in Reached(Back) : Spender(net, k) # Null})
=============================================================================
