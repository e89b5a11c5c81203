CONSTANTS
    u0 = u0
    u1 = u1
    u2 = u2
    None = None
    Underlay = {u0, u1}
    First = u0
    Type = {"default"}
    Configs <- Ending
SPECIFICATION FairSpec
PROPERTIES
    ClosedChannelDrains
    BelowMinimumCloses
