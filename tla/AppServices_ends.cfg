SPECIFICATION ServicesSpec
CONSTANTS
    alice = alice
    root = root
    r1 = r1
    r2 = r2
    m1 = m1
    o1 = o1
    Users = {alice, root}
    Recharges = {r1, m1}
    Manual = {m1}
    Orders = {o1}
    Sessions = {s1, s2}
    Owner <- MCOwner
    Amount <- MCAmount
    Yuan = 2
    Deltas <- MCDeltas
    Opening = 10
    Kinds <- AllKinds
    NULL = NULL
    Processes = {p1, p2}
    Workers = {a1, a2, a3}
    Sockets = {t1}
    Admins = {d1}
    Consoles = {c1}
    PoolSize = 1
    Pods = {x1, x2}
    MaxLog = 2
    Keys = {k1}
    Channels = {h1}
INVARIANTS TypeOK SettledOnce StatusMatchesMoney NothingLost CallbacksSerialised OneWorker  LeavesNothing
PROPERTIES StatusIsFinal RequestsEnd BothSidesEnd LogIsShown StatusSettles
CHECK_DEADLOCK FALSE
