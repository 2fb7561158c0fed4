---------------------------- MODULE MCGraphReading ----------------------------
EXTENDS FindingsReading

Pay(amount, to) == [amount |-> amount, to |-> to]
Seen(src, dst) == [src |-> src, dst |-> dst, country |-> Null, asn |-> Null]
Tx(id, spends, pays, seen) ==
    [id |-> id, at |-> id, spends |-> spends, by |-> [k \in DOMAIN spends |-> Null], pays |-> pays, seen |-> seen]

(* The second import sees the first one's transactions and a third: it      *)
(* spends coins of both, one of them without an address, and pays a wallet  *)
(* that nothing else touches.                                               *)
First == <<Tx(1, <<Null>>, <<Pay(5, 1), Pay(2, Null)>>, Seen(7, Null)),
           Tx(2, <<<<1, 0>>>>, <<Pay(3, 1), Pay(1, 1)>>, Seen(Null, Null))>>
Second == First \o <<Tx(3, <<<<1, 1>>, <<2, 0>>>>, <<Pay(4, 3)>>, Seen(7, 8))>>
MCLedgers == <<First, Second>>

(* Two findings of one family, the later one better, and one of another; a  *)
(* legacy row and two files, shorter than a page and as long.               *)
MCFindings == 1 .. 3
MCFamily == <<1, 2, 1>>
MCScore == <<1, 1, 2>>
MCFileRows == <<1, 2>>
=============================================================================
