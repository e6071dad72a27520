SPECIFICATION FairSpec
CONSTANTS
    d1 = d1
    d2 = d2
    d3 = d3
    d4 = d4
    k1 = k1
    k2 = k2
    NoKey = NoKey
    NoDelivery = NoDelivery
    Deliveries = {d1, d2, d3, d4}
    Direct = {d4}
    Approved = {d1, d2, d4}
    Key <- MCKey
    StoreMax = 1
    MaxFaults = 2
INVARIANTS
    OnePayoutPerDelivery
    OnTheBooks
    StoreIsNewest
PROPERTIES
    EveryCallEnds
CHECK_DEADLOCK FALSE
