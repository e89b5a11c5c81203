CONSTANTS
    k1 = k1
    k2 = k2
    None = None
    Key = {k1, k2}
    Reaper = {u1, u2}
    First = u1
    OnLoop = {k2}
    Configs <- MCConfigs
    ReapEvery = 1
    ReapAbove = 0
    Closer = {g1, g2}
    Creator = g1
SPECIFICATION DSpec
CHECK_DEADLOCK FALSE
INVARIANTS
    CountNeverAbove
    TakenByTheRightOne
    ClosedOnce
PROPERTIES
    AskIsAnswered
