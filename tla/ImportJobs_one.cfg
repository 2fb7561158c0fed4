SPECIFICATION Spec
CONSTANTS
    Jobs = {1}
    Workers = {w1}
    Nobody = Nobody
    Batches = 1
    SideChannel = FALSE
    FaultKinds = {"crash", "exception"}
    MaxFaults = 2
    MaxAsks = 2
INVARIANT RequestKeysFresh
INVARIANT OutcomesAreBacked
INVARIANT CompletedIsSettled
PROPERTY SettledStaysSettled
PROPERTY PromiseKept
CHECK_DEADLOCK FALSE
