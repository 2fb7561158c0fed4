---------------------------- MODULE MCIngestion ----------------------------
\* Small instances of Ingestion: every source of up to MaxRows rows.
EXTENDS Ingestion

CONSTANT MaxRows

Good == [kind : {"ok"}, txid : Txids, variant : Variants]
Bad  == {[kind |-> k, txid |-> CHOOSE t \in Txids : TRUE, variant |-> CHOOSE v \in Variants : TRUE] :
            k \in {"malformed", "broken"}}

AllSources == UNION {[1..n -> Good \cup Bad] : n \in 0..MaxRows}

=============================================================================
