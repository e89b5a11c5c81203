CONSTANTS
    c1 = c1
    c2 = c2
    u1 = u1
    None = None
    Caller = {c1, c2}
    Underlay = {u1}
    QueueSize = 1
    CanRequeue = TRUE
    Deadlines = TRUE
    ReapAbove = 0
SPECIFICATION FairSpec
CHECK_DEADLOCK FALSE
PROPERTIES
    WireCallerReturns
    CloseReleasesCallers
