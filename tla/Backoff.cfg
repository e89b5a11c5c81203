CONSTANTS
    u1 = u1
    u2 = u2
    None = None
    Underlay = {u1, u2}
    BaseDelay = 1
    MaxDelay = 4
    MinStableDuration = 2
    MinDialInterval = 1
    JitterPercent = 50
    ShiftCap = 2
    IntModulus = 16
    MaxFailures = 4
    MaxIteration = 2
SPECIFICATION Spec
INVARIANTS
    DelayAsDocumented
    OneGroup
PROPERTIES
    ResetNeedsStability
