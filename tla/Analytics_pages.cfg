SPECIFICATION Spec
CONSTANTS
    Imports = {1, 2}
    Clients = {c1, c2}
    Wallets = {w1, w2}
    MaxBegun = 4
SYMMETRY Symmetry
INVARIANT RecordsKeepTheirFiles
INVARIANT RiskIsNotOutdated
INVARIANT SeedsAreReflected
PROPERTY RefreshKeepsTheView
CHECK_DEADLOCK FALSE
