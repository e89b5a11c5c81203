SPECIFICATION Spec
CONSTANTS
    Base = 8
    IntLen = 2
    MaxHelloHeaders = 20
    MaxHelloBody = 2
    MaxVersions = 2
    MaxEntries = 2
    MaxString = 2
    None = None
    Err = Err
    Token <- MCToken
    ConnectionId <- MCConnectionId
    Attributes <- MCAttributes
    Responses <- MCResponses
    Payload <- MCPayload
    MaxSent <- MCMaxSent
    MaxPacket = 20
INVARIANT CreateAgrees
PROPERTIES ImplementsPipe DownForAReason AnsweredDialerReturns
CHECK_DEADLOCK FALSE
