CONSTANTS
    u0 = u0
    u1 = u1
    u2 = u2
    None = None
    Underlay = {u0, u1, u2}
    First = u0
    Type = {"default"}
    Configs <- Dialing
SPECIFICATION Spec
SYMMETRY Symmetry
INVARIANTS
    DesiredNotExceeded
    NoLostShortage
    RemovalAnnouncedOnce
