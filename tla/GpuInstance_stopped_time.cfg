SPECIFICATION Spec
CONSTANTS
    Requests = {r1}
    Workers = {w1}
    Ops = {"create", "scale", "list", "release"}
    Prepaid = FALSE
    Period = 1
    ListTimeout = 0
    SyncTimeout = 1
    Horizon = 2
    MaxExpiry = 0
    Losable = {}
    NULL = NULL
CHECK_DEADLOCK FALSE
INVARIANTS BilledForRunningOnly
