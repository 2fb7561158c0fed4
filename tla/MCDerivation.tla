---------------------------- MODULE MCDerivation ----------------------------
EXTENDS ReviewSeeds

Sight(s, d) == [src |-> s, dst |-> d, country |-> Null, asn |-> Null]
NoSight == Sight(Null, Null)
Pay(amount, to) == [amount |-> amount, to |-> to]
Tx(id, at, spends, pays, seen) == [id |-> id, at |-> at, spends |-> spends, by |-> [k \in DOMAIN spends |-> Null],
     pays |-> pays, seen |-> seen]

(* Chains: four transactions, each with two outputs; any way of spending    *)
(* the earlier ones' outputs, an outpoint nobody committed or none at all.  *)
Claims(points, most) ==
    {<< >>} \cup {<<p>> : p \in points} \cup
    (IF most = 2 THEN {<<p, q>> : p, q \in points} \ {<<p, p>> : p \in points} ELSE {})

PointsOf(id) == {<<id, 0>>, <<id, 1>>}

Chain(t3, s2, s3, s4) ==
    <<Tx(1, 1, <<Null>>, <<Pay(9, 1), Pay(5, 2)>>, Sight(1, 2)),
      Tx(2, 2, s2, <<Pay(7, 1), Pay(4, Null)>>, NoSight),
      Tx(3, t3, s3, <<Pay(6, 3), Pay(3, 1)>>, Sight(2, Null)),
      Tx(4, 7, s4, <<Pay(2, 2), Pay(2, 2)>>, NoSight)>>

ChainLedgers ==
    {Chain(t3, s2, s3, s4) :
        t3 \in {6, Null},
        s2 \in {<<p>> : p \in PointsOf(1)} \cup {<<<<1, 0>>, <<1, 1>>>>, <<<<9, 0>>>>},
        s3 \in Claims(PointsOf(1) \cup PointsOf(2), 1),
        s4 \in Claims(PointsOf(1) \cup PointsOf(2) \cup PointsOf(3), 2)}

(* Bursts: four payments to one address, in one quarter hour, one hour or   *)
(* two days; three of them spent together within the hour or later.         *)
Burst(t, spent) ==
    <<Tx(1, t[1], <<Null>>, <<Pay(5, 1)>>, NoSight), Tx(2, t[2], << >>, <<Pay(6, 1), Pay(1, 2)>>, NoSight),
      Tx(3, t[3], << >>, <<Pay(7, 1)>>, NoSight), Tx(4, t[4], <<<<2, 1>>>>, <<Pay(8, 1)>>, NoSight),
      Tx(5, spent, <<<<1, 0>>, <<2, 0>>, <<3, 0>>>>, <<Pay(3, 3)>>, NoSight)>>

BurstLedgers == {Burst(t, spent) : t \in [1 .. 4 -> {1, 2, 3, 97}], spent \in {3, 6}}

(* Equal outputs behind three inputs, with a chain running through them.    *)
Mix(third, times) ==
    <<Tx(1, times[1], <<Null>>, <<Pay(9, 1), Pay(9, 2), Pay(9, 3)>>, Sight(1, 2)),
      Tx(2, times[2], <<<<1, 0>>, <<1, 1>>, <<1, 2>>>>, <<Pay(8, 1), Pay(8, third), Pay(8, 2), Pay(3, 3)>>, NoSight),
      Tx(3, times[3], <<<<2, 0>>>>, <<Pay(7, 1), Pay(1, 2)>>, NoSight),
      Tx(4, times[4], <<<<3, 0>>, <<2, 2>>>>, <<Pay(6, 3)>>, NoSight)>>

MixLedgers == {Mix(third, t) : third \in {Null, 2}, t \in [1 .. 4 -> {1, 98, Null}]}

(* Two days of the same three payments to two addresses: equal scores.      *)
TwoDays ==
    [i \in 1 .. 6 |-> Tx(i, IF i < 4 THEN i ELSE 93 + i, << >>, <<Pay(i, 1), Pay(7 - i, 2)>>, NoSight)]

(* The rows may be committed in any order: an input may precede the output  *)
(* it spends.                                                               *)
Backward(l) == [i \in DOMAIN l |-> l[Len(l) + 1 - i]]

(* Ledgers whose attempts are also failed, retried and run in a pool.       *)
StressedLedgers ==
    {Chain(6, <<<<1, 0>>>>, <<<<2, 0>>>>, <<<<3, 0>>>>), Chain(6, <<<<1, 0>>, <<1, 1>>>>, <<<<2, 0>>>>, <<<<2, 0>>, <<3, 1>>>>),
     Chain(Null, <<<<1, 0>>>>, <<<<1, 1>>>>, <<<<2, 0>>, <<3, 0>>>>), Mix(Null, <<1, 1, 98, 98>>), Burst(<<1, 2, 3, 97>>, 3),
     TwoDays}

(* A record costs 100 MB, so these four to six cost 400 to 600.             *)
Machine(available, pinned, cpus, mode, workers) ==
    [available |-> available, disk |-> 2000, pinned |-> pinned, cpus |-> cpus, mode |-> mode, workers |-> workers]

(* Roomy, short of memory for more than four records, without figures, two  *)
(* cores' worth, told to run bounded or in two processes, told to run in    *)
(* more than it can feed, and out of disk.                                  *)
AllMachines ==
    {Machine(2000, 0, 1, "auto", 0), Machine(800, 0, 2, "auto", 0), Machine(0, 0, 2, "bounded", 0),
     Machine(0, 5600, 2, "auto", 0), Machine(0, 2560, 4, "auto", 2), Machine(0, 2560, 4, "auto", 4),
     [Machine(800, 0, 2, "bounded", 0) EXCEPT !.disk = 1000]}

(* Two partitions of one process, in batches of three records or one. *)
Halved == {Machine(0, 640, 1, "bounded", 0)}
HalvedSmall == {Machine(0, 550, 1, "bounded", 0)}

Scenario(ledgers, on, most) == [ledgers |-> ledgers, machines |-> on, attempts |-> most]

MCScenarios ==
    {Scenario(StressedLedgers \cup {Backward(l) : l \in StressedLedgers}, AllMachines, 2),
     Scenario(ChainLedgers \cup BurstLedgers \cup MixLedgers, Halved, 1),
     Scenario({Backward(l) : l \in ChainLedgers}, HalvedSmall, 1)}

MCChunkSizes == 1 .. 2
MCBatchSizes == 1 .. 3

(* A snapshot completed in one attempt may be seeded: an address at the     *)
(* head of a chain, one it pays, and one that is not in the case.           *)
SeededLedgers ==
    {Chain(6, <<<<1, 1>>>>, <<<<2, 0>>>>, <<<<3, 0>>>>), Chain(6, <<<<1, 1>>>>, <<<<2, 0>>>>, <<<<1, 0>>, <<3, 1>>>>),
     Mix(2, <<1, 1, 98, 98>>)}

SeededFacts == {FactsOf(l) : l \in SeededLedgers}

MCSeedsOffered(F) == IF F \in SeededFacts THEN {<<1, "x">>, <<2, "x">>, <<5, "x">>} ELSE {}
=============================================================================
