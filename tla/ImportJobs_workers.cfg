SPECIFICATION FairSpec
CONSTANTS
    Jobs = {1}
    Workers = {w1, w2}
    Nobody = Nobody
    Batches = 1
    SideChannel = TRUE
    FaultKinds = {"crash", "exception", "overrun"}
    MaxFaults = 1
    MaxAsks = 0
INVARIANT OneWorkerPerJob
PROPERTY AttemptsNeverGoBack
PROPERTY EveryJobSettles
CHECK_DEADLOCK FALSE
