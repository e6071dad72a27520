SPECIFICATION FairSpec
CONSTANTS
    r1 = r1
    r2 = r2
    r3 = r3
    r4 = r4
    k1 = k1
    k2 = k2
    NoHeader = NoHeader
    Requests = {r1, r2, r3, r4}
    Keys = {k1, k2}
    Header <- MCHeader
    Hash <- MCHash
    Bank <- MCBank
    UniqueKey = TRUE
INVARIANTS
    TypeOK
    PayoutIffApproved
    ApprovedWasAuthorized
    ReplyTruthful
    OneAuthPerKey
PROPERTIES
    SettledIsFinal
    EveryCallEnds
    KeepsContract
