---------------------------- MODULE SourceIntake ----------------------------
(***************************************************************************)
(* What ingestion promises of a source, whatever batches, crashes and      *)
(* retries it takes: every import goes through the rows in source order,   *)
(* any number at a time, keeps the first well-formed row of each           *)
(* transaction, quarantines every other row, and never goes back.          *)
(***************************************************************************)
EXTENDS Naturals, Sequences

CONSTANT Imports

VARIABLES
    rows,     \* the rows of the source
    taken,    \* per import, the rows gone through
    kept,     \* per import, the rows whose facts are committed
    refused,  \* per import, the rows quarantined
    ended     \* the imports that are ingested

WellFormed(i) == rows[i].kind = "ok"

Firsts(n) ==
    {i \in 1..n : WellFormed(i) /\ \A k \in 1..i - 1 : WellFormed(k) => rows[k].txid # rows[i].txid}

IntakeInit ==
    /\ taken = [j \in Imports |-> 0]
    /\ kept = [j \in Imports |-> {}]
    /\ refused = [j \in Imports |-> {}]
    /\ ended = {}

Take(j) ==
    \E n \in taken[j] + 1..Len(rows) :
        /\ \A i \in 1..n : rows[i].kind # "broken"
        /\ taken' = [taken EXCEPT ![j] = n]
        /\ kept' = [kept EXCEPT ![j] = Firsts(n)]
        /\ refused' = [refused EXCEPT ![j] = (1..n) \ Firsts(n)]
        /\ UNCHANGED <<rows, ended>>

End(j) ==
    /\ taken[j] = Len(rows) /\ taken[j] > 0
    /\ ended' = ended \cup {j}
    /\ UNCHANGED <<rows, taken, kept, refused>>

IntakeNext == \E j \in Imports : Take(j) \/ End(j)

IntakeSpec == IntakeInit /\ [][IntakeNext]_<<rows, taken, kept, refused, ended>>

=============================================================================
