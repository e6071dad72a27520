SPECIFICATION Spec
CONSTANTS
    i1 = i1
    i2 = i2
    d1 = d1
    d2 = d2
    d3 = d3
    w1 = w1
    w2 = w2
    Intents = {i1, i2}
    Deliveries = {d1, d2, d3}
    Of <- MCOf
    Runs = {w1, w2}
    Limit = 2
INVARIANTS
    RowsOfEvent
    StatusIffTarget
PROPERTIES
    BackOnlyByRedelivery
    RowsAreProcessed
CHECK_DEADLOCK FALSE
