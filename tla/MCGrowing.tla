------------------------------ MODULE MCGrowing ------------------------------
EXTENDS GrowingEvidence

(* Address 9 is a private one; the database knows 1 and 2 only in part.     *)
MCGeo == [ip \in {1, 2, 3, 9} |->
             CASE ip = 1 -> [scope |-> "public", country |-> 1, asn |-> 1]
               [] ip = 2 -> [scope |-> "public", country |-> Null, asn |-> 2]
               [] ip = 3 -> [scope |-> "public", country |-> Null, asn |-> Null]
               [] OTHER -> [scope |-> "private", country |-> Null, asn |-> Null]]

(* Everything seen more often than its share of the traffic is unlikely.    *)
MCUnlikely(k, n, share) == Scale * k > n * share

Pay(amount, to) == [amount |-> amount, to |-> to]
Sight(src, dst, country, asn) == [src |-> src, dst |-> dst, country |-> country, asn |-> asn]
NoSight == Sight(Null, Null, Null, Null)
Tx(id, at, spends, says, pays, seen) ==
    [id |-> id, at |-> at, spends |-> spends, by |-> [k \in DOMAIN says |-> says[k].to],
     worth |-> [k \in DOMAIN says |-> says[k].amount], pays |-> pays, seen |-> seen]

(* Wallets 1..5: two payouts, a spend that links addresses, a spend of the  *)
(* result, and one that may repeat a claim, mix, or run late.               *)
Silent == Pay(Null, Null)
Told(s3, says3, s4, says4, pay3, sights, times) ==
    <<Tx(1, times[1], <<Null>>, <<Silent>>, <<Pay(5, 2), Pay(3, 3), Pay(4, 1)>>, sights[1]),
      Tx(2, times[1], <<Null>>, <<Pay(8, 4)>>, <<Pay(6, 4), Pay(2, Null)>>, sights[2]),
      Tx(3, times[2], s3, says3, pay3, sights[3]),
      Tx(4, times[3], s4, says4, <<Pay(2, 5), Pay(1, 2)>>, sights[4])>>

Mute(spends) == [k \in DOMAIN spends |-> Silent]
Flow(s3, s4, pay3, sights, times) == Told(s3, Mute(s3), s4, Mute(s4), pay3, sights, times)

Sightings ==
    {[k \in 1 .. 4 |-> NoSight],
     [k \in 1 .. 4 |-> Sight(1, 9, 2, 1)],
     <<Sight(1, 2, 1, 1), Sight(2, 1, 1, Null), Sight(1, 2, 3, 1), Sight(1, 3, 1, 1)>>,
     <<Sight(3, Null, 1, 2), Sight(9, 1, 2, 2), Sight(3, 9, 1, 2), Sight(3, 1, 1, 2)>>}

Usual == <<Pay(4, 5), Pay(3, 1)>>
Equal == <<Pay(2, 5), Pay(2, 3), Pay(2, 1)>>
Firsts == {<<<<1, 0>>>>, <<<<1, 0>>, <<1, 1>>>>, <<<<1, 1>>, <<2, 0>>, <<1, 2>>>>}
Lasts == {<<<<3, 0>>>>, <<<<3, 1>>, <<2, 0>>>>, <<<<3, 1>>, <<1, 2>>>>}
Payments == {Usual, Equal, <<Pay(7, 6), Pay(1, Null)>>}
Times == {<<1, 2, 3>>, <<1, 1, 1>>, <<1, 3, 9>>, <<Null, 2, 3>>}

(* Every way funds may flow, unobserved; one flow seen and timed in every   *)
(* way, with and without a database, in either commit order; and funds that *)
(* are spent before they are known to be paid.                              *)
Quiet == {Flow(s3, s4, pay3, [k \in 1 .. 4 |-> NoSight], <<1, 2, 3>>) : s3 \in Firsts, s4 \in Lasts, pay3 \in Payments}
Watched ==
    {Flow(s3, <<<<1, 2>>, <<3, 0>>>>, Usual, sights, times) :
        s3 \in {<<<<1, 1>>>>, <<<<1, 2>>, <<1, 0>>>>}, sights \in Sightings, times \in Times}

(* Spenders dated before what they spend.  Their inputs say nothing, or     *)
(* name the address they spend from and an amount: too much, or in turn     *)
(* right, too little and too much.                                          *)
Paid(point, pay3) ==
    CASE point[1] = 1 -> <<Pay(5, 2), Pay(3, 3), Pay(4, 1)>>[point[2] + 1]
      [] point[1] = 2 -> Pay(6, 4)
      [] point[1] = 3 -> pay3[point[2] + 1]
Stating(spends, pay3, off) ==
    [k \in DOMAIN spends |->
        LET paid == Paid(spends[k], pay3) IN Pay(paid.amount + off[k], paid.to)]
Offsets == {<<2, 2, 2>>, <<0, -2, 1>>}

Early ==
    UNION {{Flow(s3, s4, pay3, sights, <<3, 1, 2>>)} \cup
           {Told(s3, Stating(s3, pay3, off), s4, Stating(s4, pay3, off), pay3, sights, <<3, 1, 2>>) : off \in Offsets} :
        s3 \in {spends \in Firsts : Len(spends) > 1}, s4 \in {<<<<3, 0>>>>, <<<<3, 1>>, <<1, 2>>>>},
        pay3 \in {Usual, Equal},
        sights \in {<<Sight(1, 2, 1, 1), Sight(2, 1, 2, Null), Sight(1, 2, 3, 1), Sight(1, 3, 1, 1)>>}}

Backward(h) == [i \in DOMAIN h |-> h[Len(h) + 1 - i]]
MCHistories ==
    {[rows |-> h, installed |-> FALSE] : h \in Quiet}
    \cup {[rows |-> h, installed |-> TRUE] : h \in Watched}
    \cup {[rows |-> Backward(h), installed |-> FALSE] : h \in {w \in Watched : Len(w[3].spends) = 2 /\ w[3].spends[1] = <<1, 2>>}}
    \cup {[rows |-> h, installed |-> FALSE] : h \in Early}
MCRefs == {<<"address", 3>>, <<"entity", 1>>, <<"entity", 2>>}
=============================================================================
