SPECIFICATION FairSpec
CONSTANTS
    c1 = c1
    Calls = {c1}
    MaxAttempts <- MCMaxAttempts
INVARIANTS
    NoFalseApproval
    RefusedOnlyWhenExhausted
    AuthorisationsBounded
    RepeatsAreTimeouts
PROPERTIES
    EveryCallEnds
