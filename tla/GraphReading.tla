---------------------------- MODULE GraphReading ----------------------------
(* Reading a case's graph: the server's neighbourhood pages and fund flow   *)
(* (engine/graph/query.py, api/routes.py) and the view that loads pages one *)
(* after another (frontend GraphContinuation.tsx, lib/graphWindow.ts) while *)
(* imports publish further graphs.                                          *)
EXTENDS GraphBuild

CONSTANTS
    Ledgers,    \* the evidence of the imports of the case, in order
    Depth,      \* graph steps the view asks for
    PageSizes,  \* nodes per page the reader may choose
    EdgeCap,    \* most edges of a page (routes.py: le=3000)
    LoadedNodes, LoadedEdges, \* most nodes and edges the view keeps
    MaxMounts,  \* bound on the sources and page sizes tried
    MaxLoads    \* bound on requests sent

Listing(s) == s \in Seq(Range(s))

(* A transaction is in an import's evidence once (intake skips repetitions). *)
ASSUME LedgersAssumption ==
    /\ Listing(Ledgers) /\ Ledgers # << >>
    /\ \A n \in DOMAIN Ledgers :
           LET rows == Ledgers[n]
           IN /\ Listing(rows)
              /\ \A i \in DOMAIN rows : Listing(rows[i].spends) /\ Listing(rows[i].pays)
              /\ \A i, j \in DOMAIN rows : rows[i].id = rows[j].id => i = j

(* At least a step, and a node and an edge per page (routes.py: ge=1).      *)
ASSUME PagesAssumption ==
    /\ Depth \in Nat \ {0} /\ EdgeCap \in Nat \ {0}
    /\ PageSizes \subseteq Nat \ {0}
    /\ LoadedNodes \in Nat /\ LoadedEdges \in Nat

VARIABLES
    graphs, \* the published graphs of the case, oldest first
    mount,  \* the component mounted: [n, seed, size, pin], pin a graph or Null
    view,   \* what it shows, or Null: [graph, nodes, edges, cursor, left]
    wire,   \* requests and responses under way, each of one mount
    loads   \* requests sent

vars == <<graphs, mount, view, wire, loads>>

-----------------------------------------------------------------------------
(* query_neighbourhood.                                                     *)

Ends(e) == {e[1], e[2]}

(* The nodes within so many steps of the source, whatever the direction.    *)
Reach(G, source, depth) ==
    FoldLeft(LAMBDA seen, level : seen \cup UNION {Ends(e) : e \in {f \in DOMAIN G.edges : Ends(f) \cap seen # {}}},
             {source}, [level \in 1 .. depth |-> level])

ReachEdges(G, source, depth) ==
    {e \in DOMAIN G.edges : Ends(e) \cap Reach(G, source, depth - 1) # {}}

(* ORDER BY: the source first among nodes, otherwise one order of the ids.  *)
Ordered(ids) == FoldSet(LAMBDA id, rows : Append(rows, id), << >>, ids)
NodeOrder(source, ids) == <<source>> \o Ordered(ids \ {source})
Page(rows, offset, limit) == SubSeq(rows, offset + 1, Min({offset + limit, Len(rows)}))

(* The signed cursor carries everything the offsets are meant for.          *)
Binding(req, graph) ==
    [graph |-> graph, seed |-> req.seed, depth |-> req.depth, nodeLimit |-> req.nodeLimit, edgeLimit |-> req.edgeLimit]

InScope(req, graph) ==
    req.cursor = Null \/ Binding(req, graph) = req.cursor.binding

Empty(graph) == [ok |-> TRUE, graph |-> graph, nodes |-> << >>, edges |-> << >>, left |-> 0, cursor |-> Null]

Neighbourhood(req, graph, G) ==
    LET reach == Reach(G, req.seed, req.depth)
        edgeIds == ReachEdges(G, req.seed, req.depth)
        from == IF req.cursor = Null THEN [nodes |-> 0, edges |-> 0] ELSE req.cursor.offsets
        \* joined with the nodes table: an end without a row is not delivered
        nodes == Page(NodeOrder(req.seed, reach \cap DOMAIN G.nodes), from.nodes, req.nodeLimit)
        edges == Page(Ordered(edgeIds), from.edges, req.edgeLimit)
        upto == [nodes |-> from.nodes + Len(nodes), edges |-> from.edges + Len(edges)]
        left == (Cardinality(reach) - upto.nodes) + (Cardinality(edgeIds) - upto.edges)
    IN IF req.seed \notin DOMAIN G.nodes THEN Empty(graph)
       ELSE [ok |-> TRUE, graph |-> graph, nodes |-> nodes, edges |-> edges, left |-> left,
             cursor |-> IF left = 0 THEN Null ELSE [binding |-> Binding(req, graph), offsets |-> upto]]

Failed == [ok |-> FALSE]

(* get_graph: the graph asked for, else the case's latest.                  *)
Asked(req) == IF req.graph # Null THEN req.graph ELSE Len(graphs)

Served(req) ==
    IF ~InScope(req, Asked(req)) THEN Failed ELSE Neighbourhood(req, Asked(req), graphs[Asked(req)])

-----------------------------------------------------------------------------
(* query_flow: the counterparties of a transaction or an address.           *)

OfKind(G, kind) == {e \in DOMAIN G.edges : e[3] = kind}
SpentIn(G, tx) == {e[1] : e \in {f \in OfKind(G, "SPENT_BY") : f[2] = tx}}
CreatedBy(G, tx) == {e[2] : e \in {f \in OfKind(G, "CREATES_OUTPUT") : f[1] = tx}}
Locked(G, out) == LET to == {e[2] : e \in {f \in OfKind(G, "LOCKED_TO") : f[1] = out}}
                  IN IF to = {} THEN Null ELSE CHOOSE a \in to : TRUE
SpenderOf(G, out) == LET by == {e[2] : e \in {f \in OfKind(G, "SPENT_BY") : f[1] = out}}
                     IN IF by = {} THEN Null ELSE CHOOSE tx \in by : TRUE
LockedTo(G, address) == {e[1] : e \in {f \in OfKind(G, "LOCKED_TO") : f[2] = address}}
CreatorTx(out) == TxNode(out[2])
AmountIn(G, outs) == MapThenSumSet(LAMBDA out : G.nodes[out][1], outs)
CreatedAmount(G, outs) == MapThenSumSet(LAMBDA out : G.edges[<<CreatorTx(out), out, "CREATES_OUTPUT">>][1], outs)

(* Outputs are grouped under their address; one without stands for itself.  *)
KeyOf(G, out) == IF Locked(G, out) = Null THEN out ELSE Locked(G, out)
Under(G, outs, key) == {out \in outs : KeyOf(G, out) = key}

(* Transactions beyond the source that touch an address.                    *)
AddressOnward(G, address, tx) ==
    Cardinality((UNION {{CreatorTx(out), SpenderOf(G, out)} : out \in LockedTo(G, address)}) \ {tx, Null})

\* Mutant: what is locked to the source counts as well.
TxOnwardAll(G, tx, address) == Cardinality(SpentIn(G, tx)) + Cardinality(CreatedBy(G, tx))

(* Inputs and outputs of a transaction not locked to the source.            *)
TxOnward(G, tx, address) ==
    Cardinality({out \in SpentIn(G, tx) : Locked(G, out) # address})
        + Cardinality({out \in CreatedBy(G, tx) : Locked(G, out) # address})

(* An unaddressed output is followed through the transaction that made it   *)
(* (an input) or spends it (an output); it has no dead end of its own.      *)
InputEntry(G, tx, key) ==
    LET outs == Under(G, SpentIn(G, tx), key)
    IN [amount |-> AmountIn(G, outs), utxos |-> Cardinality(outs),
        source |-> IF key[1] = "out" THEN CreatorTx(key) ELSE key,
        onward |-> IF key[1] = "out" THEN 1 ELSE AddressOnward(G, key, tx)]

OutputEntry(G, tx, key) ==
    LET outs == Under(G, CreatedBy(G, tx), key)
    IN [amount |-> CreatedAmount(G, outs), utxos |-> Cardinality(outs),
        source |-> IF key[1] = "out" THEN SpenderOf(G, key) ELSE key,
        onward |-> IF key[1] # "out" THEN AddressOnward(G, key, tx)
                   ELSE IF SpenderOf(G, key) = Null THEN 0 ELSE 1]

TxFlow(G, tx) ==
    [inputs |-> [key \in {KeyOf(G, out) : out \in SpentIn(G, tx)} |-> InputEntry(G, tx, key)],
     outputs |-> [key \in {KeyOf(G, out) : out \in CreatedBy(G, tx)} |-> OutputEntry(G, tx, key)]]

LegEntry(G, address, tx, outs) ==
    [amount |-> AmountIn(G, outs), utxos |-> Cardinality(outs), source |-> tx, onward |-> TxOnward(G, tx, address)]

AddressFlow(G, address) ==
    LET coins == LockedTo(G, address)
    IN [inputs |-> [tx \in {CreatorTx(out) : out \in coins} |->
                       LegEntry(G, address, tx, {out \in coins : CreatorTx(out) = tx})],
        outputs |-> [tx \in {SpenderOf(G, out) : out \in coins} \ {Null} |->
                       LegEntry(G, address, tx, {out \in coins : SpenderOf(G, out) = tx})]]

(* An output stands for its address, or for the transaction that made it.   *)
Centre(G, node) ==
    IF node[1] # "out" THEN node ELSE IF Locked(G, node) # Null THEN Locked(G, node) ELSE CreatorTx(node)

Flow(G, node) ==
    IF Centre(G, node)[1] = "tx" THEN TxFlow(G, Centre(G, node)) ELSE AddressFlow(G, Centre(G, node))

-----------------------------------------------------------------------------
(* The view.                                                                *)

Seeds == UNION {DOMAIN MemoryGraph(FactsOf(Ledgers[i])).nodes : i \in DOMAIN Ledgers}

(* None is neither a node, a number nor a cursor.                           *)
Cursors ==
    [binding : [graph : Nat, seed : Seeds, depth : Nat, nodeLimit : Nat, edgeLimit : Nat],
     offsets : [nodes : Nat, edges : Nat]]

ASSUME NullAssumption == Null \notin Seeds /\ Null \notin Nat /\ Null \notin Cursors

Mounted(n, seed, size, pin) == [n |-> n, seed |-> seed, size |-> size, pin |-> pin]

Init ==
    /\ graphs = <<MemoryGraph(FactsOf(Ledgers[1]))>>
    /\ \E seed \in Seeds, size \in PageSizes, pin \in {Null, 1} : mount = Mounted(1, seed, size, pin)
    /\ view = Null /\ wire = {} /\ loads = 0

(* Another import of the case finishes its graph. *)
PublishNext ==
    /\ Len(graphs) < Len(Ledgers)
    /\ graphs' = Append(graphs, MemoryGraph(FactsOf(Ledgers[Len(graphs) + 1])))
    /\ UNCHANGED <<mount, view, wire, loads>>

(* The key of the component changes: its state starts anew. *)
Mount(seed, size, pin) ==
    /\ mount.n < MaxMounts
    /\ mount' = Mounted(mount.n + 1, seed, size, pin)
    /\ view' = Null
    /\ UNCHANGED <<graphs, wire, loads>>

Loading == \E m \in wire : m.of = mount.n
Capped == view # Null /\ (Len(view.nodes) >= LoadedNodes \/ Len(view.edges) >= LoadedEdges)

Load ==
    /\ ~Loading /\ ~Capped /\ loads < MaxLoads
    /\ view # Null => view.cursor # Null
    /\ wire' = wire \cup {[of |-> mount.n, kind |-> "request", seed |-> mount.seed, depth |-> Depth,
                           nodeLimit |-> mount.size, edgeLimit |-> Min({EdgeCap, 2 * mount.size}),
                           cursor |-> IF view = Null THEN Null ELSE view.cursor,
                           graph |-> IF view = Null THEN mount.pin ELSE view.graph]}
    /\ loads' = loads + 1
    /\ UNCHANGED <<graphs, mount, view>>

Answer(req) ==
    /\ req.kind = "request"
    /\ wire' = (wire \ {req}) \cup {[of |-> req.of, kind |-> "response", page |-> Served(req)]}
    /\ UNCHANGED <<graphs, mount, view, loads>>

(* mergeGraphPage: entries merged by id, then cut to what the view keeps.   *)
Merge(old, new, most) ==
    LET merged == FoldLeft(LAMBDA kept, x : IF x \in Range(kept) THEN kept ELSE Append(kept, x), old, new)
    IN SubSeq(merged, 1, Min({most, Len(merged)}))

Shown(page) ==
    LET nodes == IF view = Null THEN << >> ELSE view.nodes
        edges == IF view = Null THEN << >> ELSE view.edges
    IN [graph |-> page.graph, nodes |-> Merge(nodes, page.nodes, LoadedNodes),
        edges |-> Merge(edges, page.edges, LoadedEdges), cursor |-> page.cursor, left |-> page.left]

(* A response of a component no longer mounted is dropped; an error, or a   *)
(* page of another graph, is shown and changes nothing.                     *)
Usable(msg) ==
    /\ msg.of = mount.n /\ msg.page.ok
    /\ view # Null => view.graph = msg.page.graph

Receive(msg) ==
    /\ msg.kind = "response"
    /\ wire' = wire \ {msg}
    /\ view' = IF Usable(msg) THEN Shown(msg.page) ELSE view
    /\ UNCHANGED <<graphs, mount, loads>>

(* The request or its answer is lost. *)
Lose(msg) ==
    /\ wire' = wire \ {msg}
    /\ UNCHANGED <<graphs, mount, view, loads>>

Reset ==
    /\ view # Null /\ ~Loading
    /\ view' = Null
    /\ UNCHANGED <<graphs, mount, wire, loads>>

Next ==
    \/ PublishNext
    \/ \E seed \in Seeds, size \in PageSizes, pin \in {Null, 1} : Mount(seed, size, pin)
    \/ Load \/ Reset
    \/ \E msg \in wire : Answer(msg) \/ Receive(msg) \/ Lose(msg)

Spec == Init /\ [][Next]_vars
-----------------------------------------------------------------------------
TypeOK ==
    /\ Len(graphs) \in DOMAIN Ledgers
    /\ mount.n \in 1 .. MaxMounts /\ mount.seed \in Seeds /\ mount.size \in PageSizes
    /\ view # Null => view.graph \in DOMAIN graphs /\ view.left \in Nat
    /\ \A m \in wire : m.of <= mount.n /\ m.kind \in {"request", "response"}
    /\ loads \in 0 .. MaxLoads

Loaded == Len(view.nodes) + Len(view.edges)
Whole(G) == IF mount.seed \in DOMAIN G.nodes
            THEN Cardinality(Reach(G, mount.seed, Depth)) + Cardinality(ReachEdges(G, mount.seed, Depth)) ELSE 0

(* Each further page of a mounted view brings something: the reader never   *)
(* presses "Load more" for ever. It rests on the builder, which must give a *)
(* row to every end of every edge: the count of what is left is taken       *)
(* before the join with the rows, the page after it.                        *)
EveryPageProgresses ==
    \A m \in wire : m.kind = "response" /\ Usable(m) /\ view # Null => m.page.left < view.left

(* However pages, late answers, other sources and new graphs interleave:    *)
(* what is shown is of one graph, its counts of what is left are true, and  *)
(* when nothing is left (and nothing was cut) it is the whole neighbourhood *)
(* of the source mounted: each node but the source is the end of an edge    *)
(* shown, both ends of each edge are shown, and no edge at a node nearer    *)
(* than the depth is missing (query_neighbourhood's "independent stable     *)
(* node/edge pages; merge by ID; endpoints may follow", mergeGraphPage).    *)
ReadingIsWhole ==
    /\ EveryPageProgresses
    /\ view # Null /\ ~Capped =>
           LET G == graphs[view.graph]
               nodes == Range(view.nodes)
               edges == Range(view.edges)
           IN /\ nodes \subseteq DOMAIN G.nodes /\ edges \subseteq DOMAIN G.edges
              /\ Loaded + view.left = Whole(G)
              /\ view.cursor = Null /\ mount.seed \in DOMAIN G.nodes =>
                     /\ nodes = {mount.seed} \cup UNION {Ends(e) : e \in edges}
                     /\ edges = {e \in DOMAIN G.edges : Ends(e) \cap Reach(G, mount.seed, Depth - 1) # {}}

(* Following the funds is consistent in both directions: an address is a    *)
(* counterparty of a transaction, with an amount and a number of coins,     *)
(* exactly when the transaction is one of the address with the same; and an *)
(* entry is a dead end (onward_count 0) exactly when its own flow shows     *)
(* nothing but the source one came from. Outputs without an address are     *)
(* left aside. Flows depend on the graphs alone, hence loads = 0.           *)
Same(entry, other) == entry.amount = other.amount /\ entry.utxos = other.utxos
Mutual(G, tx, address) ==
    LET T == TxFlow(G, tx)
        A == AddressFlow(G, address)
    IN /\ address \in DOMAIN T.inputs <=> tx \in DOMAIN A.outputs
       /\ address \in DOMAIN T.outputs <=> tx \in DOMAIN A.inputs
       /\ address \in DOMAIN T.inputs =>
              /\ Same(T.inputs[address], A.outputs[tx])
              /\ T.inputs[address].onward = 0 <=> (DOMAIN A.inputs \cup DOMAIN A.outputs) \ {tx} = {}
              /\ A.outputs[tx].onward = 0 <=> (DOMAIN T.inputs \cup DOMAIN T.outputs) \ {address} = {}
       /\ address \in DOMAIN T.outputs =>
              /\ Same(T.outputs[address], A.inputs[tx])
              /\ T.outputs[address].onward = 0 <=> (DOMAIN A.inputs \cup DOMAIN A.outputs) \ {tx} = {}
              /\ A.inputs[tx].onward = 0 <=> (DOMAIN T.inputs \cup DOMAIN T.outputs) \ {address} = {}

FlowIsMutual ==
    loads = 0 =>
        \A i \in DOMAIN graphs :
            LET ids(kind) == {id \in DOMAIN graphs[i].nodes : id[1] = kind}
            IN /\ \A tx \in ids("tx"), a \in ids("address") : Mutual(graphs[i], tx, a)
               \* the flow of an output shows the output among its coins
               /\ \A out \in ids("out") : \E key \in DOMAIN Flow(graphs[i], out).inputs \cup DOMAIN Flow(graphs[i], out).outputs :
                      key \in {CreatorTx(out), KeyOf(graphs[i], out)}
=============================================================================
