SPECIFICATION Spec
CONSTANTS
    MaxFindings = 3
    MaxMembers = 2
    Peeling = {1}
    Workers = {w1, w2}
    Releases = {"r1", "r2"}
    Ids <- ForwardAndBack
    Profiles <- Shapes
    Families = {1, 2}
    RowLocks = FALSE
    MaxBuilds = 3
    MaxDecisions = 1
SYMMETRY Symmetry
INVARIANT OneActiveGeneration
INVARIANT GroupedStaysGrouped
INVARIANT ExecutorsAgree
INVARIANT ReplacementsAreLinked
INVARIANT QueueIsFair
CHECK_DEADLOCK FALSE
