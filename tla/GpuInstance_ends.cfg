SPECIFICATION EndsSpec
CONSTANTS
    Requests = {r1}
    Workers = {w1}
    Ops <- LifeOps
    Prepaid = TRUE
    Period = 1
    ListTimeout = 0
    SyncTimeout = 0
    Horizon = 1
    MaxExpiry = 0
    Losable <- NotRelease
    NULL = NULL
CHECK_DEADLOCK FALSE
PROPERTIES TransitionsEnd ReleasingEnds MeterIsStarted
