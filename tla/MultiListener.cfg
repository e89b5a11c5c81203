CONSTANTS
    u1 = u1
    u2 = u2
    u3 = u3
    g1 = g1
    None = None
    Underlay = {u1, u2, u3}
    Id = {g1}
SPECIFICATION FairSpec
INVARIANTS
    OpenChannelIsFound
    OneOpenChannelPerGroup
    NoDeadRegistration
    NoUnderlayLeaked
    RefusalCostsNoChannel
PROPERTIES
    OpenRegistrationKept
    ImplementsGroups
    EveryUnderlayHandled
