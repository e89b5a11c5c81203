SPECIFICATION Spec
CONSTANTS
    Txer = {t1}
    t1 = t1
    MaxInputs = 2
    Interval = {}
    EventQueueSize = 2
    OutQueueSize = 1
    None = None
INVARIANT
    NoHeartbeatForgotten
CHECK_DEADLOCK FALSE
