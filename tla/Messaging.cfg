CONSTANTS
    c1 = c1
    c2 = c2
    u1 = u1
    u2 = u2
    None = None
    Caller = {c1, c2}
    Underlay = {u1, u2}
    QueueSize = 1
    CanRequeue = TRUE
    Deadlines = TRUE
    ReapAbove = 0
SPECIFICATION Spec
SYMMETRY Symmetry
CHECK_DEADLOCK FALSE
INVARIANTS
    MessageInOnePlace
    NoErrCMisuse
    ReturnIsTrue
    ReplyFindsWaiter
