SPECIFICATION PortalSpec
CONSTANTS
    NULL = NULL
    Users = {u1}
    Watchers = {w1}
    Requests = {r1}
    InstanceStatuses = {running, stopped}
    ChannelLength = 1
    Clients = {c1, c2}
    Links = {l1, l2}
    Passwords = {p1, p2}
    Clerks = {k1, k2}
    Admins = {a1, a2}
    Sessions = {b1, b2}
    Captchas = {g1}
    Codes = {o1}
    MaxIp = 2
    MaxEmail = 1
    Window = 2
    Horizon = 2
CONSTRAINTS OneStore Calm
SYMMETRY PortalSymmetry
INVARIANTS ShowsTheStatus OpenIsRegistered RewardedOnce ResetOnce HandlerReplied LoginsLimited ComparedOnce
CHECK_DEADLOCK FALSE
