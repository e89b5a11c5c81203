SPECIFICATION FairSpec
CONSTANTS
    Txer = {t1}
    t1 = t1
    MaxInputs = 2
    Interval = {0, 1}
    EventQueueSize = 1
    OutQueueSize = 1
    None = None
INVARIANTS
    AnsweredOnce
    LatestIntervalWins
PROPERTIES
    ResponseLeaves
    PulseNotBlocked
CHECK_DEADLOCK FALSE
