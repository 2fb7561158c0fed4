SPECIFICATION PoolSpec
CONSTANTS
    Drivers = {d1, d2}
    Asked = 3
    MaxJobs = 4
    FaultKinds = {"death", "loss"}
    MaxFaults = 1
PROPERTY OrderIsKept
PROPERTY MapEnds
CHECK_DEADLOCK FALSE
