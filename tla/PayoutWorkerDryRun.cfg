SPECIFICATION Spec
CONSTANTS
    w1 = w1
    w2 = w2
    Workers = {w1, w2}
    Rows = {1, 2, 3, 4}
    DryRun = {1, 2, 4}
    Foreign = {4}
    Target <- MCTarget
    NoRow = NoRow
    MaxCrashes = 1
INVARIANTS
    DryRunMovesNoMoney
CHECK_DEADLOCK FALSE
