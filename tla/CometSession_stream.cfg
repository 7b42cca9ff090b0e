\* Both transports, one fault, one packet down and up to two up.
SPECIFICATION FairSpec
CONSTANTS
    Data = {"data"}
    Transports = {"longpoll", "xhrstream"}
    Statuses = {"zero", "null", "throws"}
    MaxRetries = 2
    MaxWritten = 1
    MaxPosted = 1
    MaxFaults = 1
CHECK_DEADLOCK FALSE
INVARIANTS
    TypeOK
    AckWindow
    NothingUnreadForgotten
    UpstreamInOrder
    AcknowledgedTaken
PROPERTIES
    StreamSpec
    ClosingEnds
    OrphanEnds
