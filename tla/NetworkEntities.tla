--------------------------- MODULE NetworkEntities ---------------------------
(* The entity and network tables of one analytics snapshot (analytics.py    *)
(* _compute) and risk over its value flows (propagate_risk).  Addresses are *)
(* ordered; an entity is named by the least of its addresses.  Fractions    *)
(* are whole parts of Scale, rounded down.                                  *)
EXTENDS Facts, FiniteSetsExt, Functions

CONSTANTS MixingInputs,  \* MIXING_MIN_INPUTS
          MixingOutputs, \* MIXING_MIN_EQUAL_OUTPUTS
          MinSpends,     \* CORRELATION_MIN_SPENDS
          MinCoherent,   \* coherent children a flagged endpoint needs
          MinMismatch,   \* GEO_MISMATCH_MIN_OBSERVATIONS
          Scale, Decay,  \* one, and RISK_DECAY, in parts of Scale
          MaxRiskHops,   \* RISK_MAX_HOPS
          Geo,           \* what the Geo-IP database says of an address
          Unlikely(_, _, _) \* the corrected tail of k out of n at k0 of Scale

(* The facts with the amount that each input states of itself, or Null.     *)
EvidenceOf(rows) == FactsOf(rows) @@ [stated |-> FlattenSeq([i \in DOMAIN rows |-> rows[i].worth])]

PrevOut(F, i) ==
    LET p == F.ins[i].prev
    IN IF p = Null \/ p \notin Outpoints(F) THEN 0 ELSE CHOOSE k \in DOMAIN F.outs : Outpoint(F.outs[k]) = p

(* in_addr: an input names its address itself, or by the output it spends.  *)
InAddress(F, i) ==
    IF F.ins[i].by # Null THEN F.ins[i].by
    ELSE IF PrevOut(F, i) = 0 THEN Null ELSE F.outs[PrevOut(F, i)].to

(* The amount of the output spent, if that is known, else what the input    *)
(* states.                                                                  *)
InAmount(F, i) ==
    CASE PrevOut(F, i) # 0 -> F.outs[PrevOut(F, i)].amount
      [] PrevOut(F, i) = 0 /\ F.stated[i] # Null -> F.stated[i]
      [] OTHER -> 0

SpentFrom(F, tx) == {InAddress(F, i) : i \in InputsOf(F, tx)} \ {Null}
OutputsOf(F, tx) == {k \in DOMAIN F.outs : F.outs[k].tx = tx}

-----------------------------------------------------------------------------
(* Common input ownership.                                                  *)

Mixing(F, tx) ==
    /\ Cardinality(InputsOf(F, tx)) >= MixingInputs
    /\ \E k \in OutputsOf(F, tx) :
           Cardinality({j \in OutputsOf(F, tx) : F.outs[j].amount = F.outs[k].amount}) >= MixingOutputs

Linking(F) == {tx \in TxIds(F) : Cardinality(SpentFrom(F, tx)) >= 2 /\ ~Mixing(F, tx)}
Linked(F) == UNION {SpentFrom(F, tx) : tx \in Linking(F)}

(* _components: union-find over (least address of a transaction, member);   *)
(* the smaller root wins, so parents only decrease.                         *)
FindRoot(parent, a) ==
    LET root[x \in DOMAIN parent] == IF parent[x] = x THEN x ELSE root[parent[x]] IN root[a]

\* Mutant: the pair is joined, not the roots of its two ends.
UnionOfEnds(parent, pair) == [parent EXCEPT ![pair[2]] = pair[1]]

Union(parent, pair) ==
    LET a == FindRoot(parent, pair[1])
        b == FindRoot(parent, pair[2])
    IN IF a = b THEN parent ELSE [parent EXCEPT ![Max({a, b})] = Min({a, b})]

Components(addresses, pairs) ==
    LET parent == FoldLeft(Union, [a \in addresses |-> a], pairs)
    IN [a \in addresses |-> FindRoot(parent, a)]

AddressEntity(F) ==
    Components(Linked(F),
               SetToSeq(UNION {{<<Min(SpentFrom(F, tx)), a>> : a \in SpentFrom(F, tx)} : tx \in Linking(F)}))

(* A wallet is an entity, or an address that no transaction links.          *)
WalletOf(entity, a) ==
    CASE a = Null -> Null
      [] a # Null /\ a \in DOMAIN entity -> <<"entity", entity[a]>>
      [] OTHER -> <<"address", a>>

TimesOf(F, txs) == {TimeOf(F, tx) : tx \in txs} \ {Null}
Sum(F, slots) == MapThenSumSet(LAMBDA k : F.outs[k].amount, slots)

EntityRow(F, entity, root) ==
    LET members == {a \in DOMAIN entity : entity[a] = root}
        received == {k \in DOMAIN F.outs : F.outs[k].to \in members}
        sent == {i \in DOMAIN F.ins : InAddress(F, i) \in members}
        times == TimesOf(F, {F.outs[k].tx : k \in received} \cup {F.ins[i].tx : i \in sent})
    IN [addresses |-> members,
        links |-> [tx \in {t \in Linking(F) : SpentFrom(F, t) \cap members # {}} |->
                       Cardinality(SpentFrom(F, tx) \cap members)],
        received |-> Sum(F, received), receivedTxs |-> Cardinality({F.outs[k].tx : k \in received}),
        sent |-> MapThenSumSet(LAMBDA i : InAmount(F, i), sent),
        spentTxs |-> Cardinality({F.ins[i].tx : i \in sent}),
        seen |-> IF times = {} THEN Null ELSE <<Min(times), Max(times)>>]

FlowOut(F, entity) ==
    [k \in DOMAIN F.outs |-> [tx |-> F.outs[k].tx, wallet |-> WalletOf(entity, F.outs[k].to), amount |-> F.outs[k].amount]]

FlowIn(F, entity) ==
    [i \in DOMAIN F.ins |-> [tx |-> F.ins[i].tx, out |-> PrevOut(F, i), wallet |-> WalletOf(entity, InAddress(F, i))]]

-----------------------------------------------------------------------------
(* Endpoints: what rows reported of them against the Geo-IP database.       *)

(* The value most rows report, the least of those when several tie.         *)
Vote(F, ip, field) ==
    LET cast == {o \in Range(F.obs) : o.src = ip /\ o[field] # Null}
        count(v) == Cardinality({o \in cast : o[field] = v})
        best == Max({count(o[field]) : o \in cast} \cup {0})
    IN IF cast = {} THEN Null ELSE Min({v \in {o[field] : o \in cast} : count(v) = best})

Check(reported, scope, installed, held) ==
    CASE reported = Null -> "not_reported"
      [] reported # Null /\ scope # "public" -> "unverifiable_non_public"
      [] reported # Null /\ scope = "public" /\ ~installed -> "no_geoip_database"
      [] reported # Null /\ scope = "public" /\ installed /\ held = Null -> "not_in_database"
      [] OTHER -> IF reported = held THEN "verified" ELSE "mismatch"

EndpointGeo(F, ip, installed) ==
    LET held(field) == IF installed THEN Geo[ip][field] ELSE Null
        country == Vote(F, ip, "country")
        asn == Vote(F, ip, "asn")
    IN [observations |-> Cardinality({n \in DOMAIN F.obs : F.obs[n].src = ip}),
        country |-> Check(country, Geo[ip].scope, installed, held("country")),
        asn |-> Check(asn, Geo[ip].scope, installed, held("asn"))]

Endpoints(F) == UNION {{o.src, o.dst} : o \in Range(F.obs)} \ {Null}

GeoMismatches(F, installed) ==
    {ip \in Endpoints(F) : LET row == EndpointGeo(F, ip, installed)
                           IN "mismatch" \in {row.country, row.asn} /\ row.observations >= MinMismatch}

-----------------------------------------------------------------------------
(* Correlation of wallets with the relays their spends were seen from.      *)

WalletSpend(F, entity) ==
    {<<WalletOf(entity, InAddress(F, i)), F.ins[i].tx>> : i \in {j \in DOMAIN F.ins : InAddress(F, j) # Null}}

ObsTx(F, installed) ==
    {[tx |-> o.tx, endpoint |-> o.src, asn |-> IF installed /\ Geo[o.src].asn # Null THEN Geo[o.src].asn ELSE o.asn] :
        o \in {p \in Range(F.obs) : p.src # Null}}

Share(part, whole) == IF whole = 0 THEN 0 ELSE (Scale * part) \div whole

(* Of wallets with enough sightings, the relay most spends were seen from,  *)
(* when it has most of them and chance would not explain it.  arg_max keeps *)
(* any one of several best keys.                                            *)
Concentrations(spent, sightings, dimension) ==
    LET seen == {o \in sightings : o[dimension] # Null}
        on(w) == {o \in seen : <<w, o.tx>> \in spent}
        spends(w, key) == Cardinality({o.tx : o \in {s \in on(w) : s[dimension] = key}})
        keys(w) == {o[dimension] : o \in on(w)}
        total(w) == MapThenSumSet(LAMBDA key : spends(w, key), keys(w))
        top(w) == {key \in keys(w) : \A other \in keys(w) : spends(w, other) <= spends(w, key)}
        base(key) == Share(Cardinality({o.tx : o \in {s \in seen : s[dimension] = key}}), Cardinality({o.tx : o \in sightings}))
        tested == {w \in {s[1] : s \in spent} : total(w) >= MinSpends}
        concentrated(w, key) == 5 * spends(w, key) >= 3 * total(w) /\ Unlikely(spends(w, key), total(w), base(key))
    IN UNION {{[dimension |-> dimension, wallet |-> w, key |-> key, spends |-> spends(w, key), total |-> total(w)] :
                  key \in {k \in top(w) : concentrated(w, k)}} : w \in tested}

(* Endpoints that relay spends of transactions they relayed themselves,     *)
(* more often than chance: the program averages the chance over a child's   *)
(* parents, here it is the endpoint's share of the relayed transactions.    *)
ParentsOf(F, tx) == {F.outs[PrevOut(F, i)].tx : i \in {j \in InputsOf(F, tx) : PrevOut(F, j) # 0}}
RelayedBy(F, ip) == {o.tx : o \in {p \in Range(F.obs) : p.src = ip}}

Coherent(F) ==
    LET relayed == UNION {RelayedBy(F, ip) : ip \in Endpoints(F)}
        children(ip) == {tx \in RelayedBy(F, ip) : ParentsOf(F, tx) \cap relayed # {}}
        own(ip) == {tx \in children(ip) : ParentsOf(F, tx) \cap RelayedBy(F, ip) # {}}
    IN {ip \in Endpoints(F) :
           /\ Cardinality(own(ip)) >= MinCoherent
           /\ 2 * Cardinality(own(ip)) >= Cardinality(children(ip))
           /\ Unlikely(Cardinality(own(ip)), Cardinality(children(ip)), Share(Cardinality(RelayedBy(F, ip)), Cardinality(relayed)))}

-----------------------------------------------------------------------------
(* One analytics snapshot.                                                  *)

NetworkTables(F, installed) ==
    LET entity == AddressEntity(F)
        spent == WalletSpend(F, entity)
        sightings == ObsTx(F, installed)
    IN [entity |-> entity,
        entities |-> [root \in Range(entity) |-> EntityRow(F, entity, root)],
        out |-> FlowOut(F, entity), in |-> FlowIn(F, entity),
        mismatches |-> GeoMismatches(F, installed),
        concentrations |-> Concentrations(spent, sightings, "endpoint") \cup Concentrations(spent, sightings, "asn"),
        coherent |-> Coherent(F)]

Wallets(net) == ({net.out[k].wallet : k \in DOMAIN net.out} \cup {net.in[i].wallet : i \in DOMAIN net.in}) \ {Null}

-----------------------------------------------------------------------------
(* propagate_risk: a seed names an address, or an entity by its identifier. *)

\* Mutant: a seed is looked up under the name it was given.
SeedAsNamed(net, ref) == ref

SeedWallet(net, ref) == IF ref[1] = "entity" THEN ref ELSE WalletOf(net.entity, ref[2])

\* Mutant: of several seeds of a wallet the lightest counts.
SeedVectorLeast(net, seeds) ==
    [w \in Wallets(net) |->
        LET mine == {seeds[ref] : ref \in {r \in DOMAIN seeds : SeedWallet(net, r) = w}}
        IN IF mine = {} THEN 0 ELSE Min(mine)]

SeedVector(net, seeds) ==
    [w \in Wallets(net) |-> Max({0} \cup {seeds[ref] : ref \in {r \in DOMAIN seeds : SeedWallet(net, r) = w}})]

OwnSeed(net, vector) == [k \in DOMAIN net.out |-> IF net.out[k].wallet = Null THEN 0 ELSE vector[net.out[k].wallet]]

(* The average score of what some rows stand for, weighted by its value.    *)
Weighted(net, outOf, score) ==
    LET value == MapThenSumSet(LAMBDA r : net.out[outOf[r]].amount, DOMAIN outOf)
    IN IF value = 0 THEN 0
       ELSE MapThenSumSet(LAMBDA r : net.out[outOf[r]].amount * score[outOf[r]], DOMAIN outOf) \div value

Average(net, slots, score) == Weighted(net, [k \in slots |-> k], score)

SpendsOf(net, tx) == {i \in DOMAIN net.in : net.in[i].tx = tx /\ net.in[i].out # 0}
Created(net, tx) == {k \in DOMAIN net.out : net.out[k].tx = tx}
Decayed(score) == (Decay * score) \div Scale

(* At most MaxRiskHops rounds, fewer once a round changes nothing.          *)
Settle(Step(_), start) ==
    FoldLeft(LAMBDA score, hop : LET updated == Step(score) IN IF updated = score THEN score ELSE updated,
             start, [hop \in 1 .. MaxRiskHops |-> hop])

\* Mutant: what arrives is added to an output's own score.
DownstreamAdded(net, own) ==
    Settle(LAMBDA score :
             LET taint == [tx \in {net.out[k].tx : k \in DOMAIN net.out} |-> Weighted(net, [i \in SpendsOf(net, tx) |-> net.in[i].out], score)]
             IN [k \in DOMAIN score |-> own[k] + Decayed(taint[net.out[k].tx])], own)

Downstream(net, own) ==
    Settle(LAMBDA score :
             LET taint == [tx \in {net.out[k].tx : k \in DOMAIN net.out} |-> Weighted(net, [i \in SpendsOf(net, tx) |-> net.in[i].out], score)]
             IN [k \in DOMAIN score |-> Max({own[k], Decayed(taint[net.out[k].tx])})], own)

(* Each output hands back to one spender: the last in transaction order.    *)
Spender(net, k) ==
    LET claims == {net.in[i].tx : i \in {j \in DOMAIN net.in : net.in[j].out = k}}
    IN IF claims = {} THEN Null ELSE Max(claims)

Upstream(net, own) ==
    LET spender == [k \in DOMAIN net.out |-> Spender(net, k)]
    IN Settle(LAMBDA score :
                LET up == [tx \in Range(spender) \ {Null} |-> Average(net, Created(net, tx), score)]
                IN [k \in DOMAIN score |-> Max({own[k], IF spender[k] = Null THEN 0 ELSE Decayed(up[spender[k]])})], own)

Risk(net, seeds) ==
    LET vector == SeedVector(net, seeds)
        own == OwnSeed(net, vector)
        down == Downstream(net, own)
        up == Upstream(net, own)
        locked(w) == {k \in DOMAIN net.out : net.out[k].wallet = w}
        both(d, u) == Scale - ((Scale - d) * (Scale - u)) \div Scale
        score(w) ==
            LET d == Max({vector[w], Average(net, locked(w), down)})
                u == Max({vector[w], Average(net, {k \in locked(w) : Spender(net, k) # Null}, up)})
            IN [down |-> d, up |-> u, risk |-> both(d, u)]
    IN [w \in Wallets(net) |-> score(w)]
=============================================================================
