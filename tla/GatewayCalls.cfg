SPECIFICATION FairSpec
CONSTANTS
    c1 = c1
    c2 = c2
    Calls = {c1, c2}
    NoCall = NoCall
    Mixes <- MCMixes
    Amount = 7
INVARIANTS
    TypeOK
    AnswerIsVerdict
    NeverOverpaid
    CodecsKeepFields
PROPERTIES
    EveryCallEnds
CHECK_DEADLOCK FALSE
