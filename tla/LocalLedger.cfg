SPECIFICATION FairSpec
CONSTANTS
    r1 = r1
    r2 = r2
    Requests = {r1, r2}
    Kind <- MCKind
    MaxCrashes = 1
INVARIANTS
    OutcomeOnTop
    KeptUnlessDisturbed
PROPERTIES
    AppendIsAtomic
    EveryRequestAnswered
CHECK_DEADLOCK FALSE
