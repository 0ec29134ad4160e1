SPECIFICATION InstanceSpec
CONSTANTS
    k1 = k1
    k2 = k2
    c1 = c1
    s1 = s1
    s2 = s2
    p1 = p1
    n1 = n1
    u1 = u1
    r1 = r1
    r2 = r2
    w1 = w1
    Requests = {u1}
    Clients = {r1, r2}
    Workers = {w1}
    Period = 1
    CreatingTimeout = 0
    Horizon = 2
    MaxExpiry = 2
    Keys = {k1, k2}
    Channels = {c1}
    Providers = {p1}
    ProviderOf <- MCProviderOf
    Skills = {s1, s2}
    Names = {n1}
    NameOf <- MCNameOf
    Slots = {1}
    NULL = NULL
SYMMETRY MCSymmetry
CONSTRAINTS Explored OneCopy OneForConfig OneTrouble
CHECK_DEADLOCK FALSE
PROPERTIES StoppedStays
