SPECIFICATION Spec
CONSTANTS
    Clients = {c1, c2, c3}
    Digests = {d1, d2}
    Keys = {k1, k2}
    Findings = {f1}
    Groups = {g1}
    Verdicts = {"dismissed"}
    MaxRequests = 3
SYMMETRY Symmetry
INVARIANT LogIsComplete
INVARIANT DecisionsFormAChain
INVARIANT KeysAreIdempotent
CHECK_DEADLOCK FALSE
