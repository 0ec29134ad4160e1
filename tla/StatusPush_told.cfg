SPECIFICATION Spec
CONSTANTS
    NULL = NULL
    Users = {u1}
    Watchers = {w1}
    Requests = {r1}
    Statuses = {"running", "stopped"}
    ChannelLength = 1
CHECK_DEADLOCK FALSE
INVARIANTS EveryChangeIsPushed
