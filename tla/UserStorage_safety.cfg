SPECIFICATION Spec
CONSTANTS
    u1 = u1
    a = a
    b = b
    c1 = c1
    c2 = c2
    e1 = e1
    e2 = e2
    e3 = e3
    e4 = e4
    s1 = s1
    s2 = s2
    NULL = NULL
    Users = {u1}
    Names = {a, b}
    Contents = {c1, c2}
    Entries = {e1, e2, e3, e4}
    Sessions = {s1, s2}
    Paths <- MCPaths
    Size <- MCSize
    Quota = 2
    MaxFiles = 2
    ContentAddressed = TRUE
SYMMETRY MCSymmetry
CONSTRAINT FewAfterTrouble
CHECK_DEADLOCK FALSE
INVARIANTS UsedIsSum QuotaHolds CountNearLimit KeptUntilDeleted TreeIsWhole
PROPERTIES ImplementsFileSpace
