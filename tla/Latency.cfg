SPECIFICATION FairSpec
CONSTANTS
    Rxer = {r1, r2, r3}
    QueueSize = 1
    RoundTripFreq = 2
    CountModulus = 256
INVARIANTS OneResponse RoundTripsRegular
PROPERTIES ReceiverNotHeldUp
CHECK_DEADLOCK FALSE
