SPECIFICATION FairSpec
CONSTANTS
    w1 = w1
    w2 = w2
    Workers = {w1, w2}
    Older = {w2}
    Jobs = {1, 2, 3}
    NoMerchant = {2}
    Malformed = {3}
    NoJob = NoJob
    MaxFaults = 2
INVARIANTS
    BroadcastsBounded
PROPERTIES
    KeepsContract
    ReportsAreTrue
    EveryJobSettles
CHECK_DEADLOCK FALSE
