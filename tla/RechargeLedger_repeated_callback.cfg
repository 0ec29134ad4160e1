SPECIFICATION Spec
CONSTANTS
    alice = alice
    root = root
    r1 = r1
    r2 = r2
    m1 = m1
    o1 = o1
    Users = {alice, root}
    Recharges = {r1}
    Manual = {}
    Orders = {}
    Sessions = {s1, s2}
    Owner <- MCOwner
    Amount <- MCAmount
    Yuan = 2
    Deltas <- MCDeltas
    Opening = 10
    Kinds = {"callback"}
    NULL = NULL
CHECK_DEADLOCK FALSE
INVARIANT PaidOutOnce
