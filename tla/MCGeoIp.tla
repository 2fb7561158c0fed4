------------------------------ MODULE MCGeoIp ------------------------------
EXTENDS GeoIp

Range3(from, to, value) == [from |-> from, to |-> to, value |-> value]

(* Nested, overlapping and repeated ranges; the same countries met in       *)
(* another order; a row that is no country, a range that ends before it     *)
(* starts.                                                                  *)
MCDatabases ==
    {[country |-> <<Range3(5, 8, "B"), Range3(1, 6, "A"), Range3(2, 3, "C"), Range3(1, 6, "B")>>,
      asn |-> <<Range3(1, 2, 11), Range3(4, 8, 12)>>],
     [country |-> <<Range3(1, 4, "A"), Range3(3, 4, "B"), Range3(3, 7, "C"), Range3(6, 8, Null), Range3(8, 2, "B")>>,
      asn |-> <<Range3(2, 5, 12), Range3(2, 5, 11), Range3(1, 1, Null)>>]}
=============================================================================
