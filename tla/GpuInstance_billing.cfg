SPECIFICATION BillingSpec
CONSTANTS
    Requests = {r1, r2}
    Workers = {w1}
    Ops <- RenewOps
    Prepaid = TRUE
    Period = 2
    ListTimeout = 1
    SyncTimeout = 1
    Horizon = 3
    MaxExpiry = 5
    Losable <- RenewOps
    NULL = NULL
SYMMETRY RequestSymmetry
CONSTRAINT Explored
CHECK_DEADLOCK FALSE
INVARIANTS TypeOK BilledAsItRan PeriodsPaidFor
PROPERTIES ExpiresWhenDue
