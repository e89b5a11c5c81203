SPECIFICATION FairSpec
CONSTANTS
    Dialer = {d1, d2}
    d1 = d1
    d2 = d2
    Hellos <- AllHellos
    QueueSize = 1
    Workers = 1
    None = None
INVARIANTS
    LeftOpenOnlyByClose
    EndsAgree
PROPERTIES
    ConnectionsHandled
CHECK_DEADLOCK FALSE
