CONSTANTS
    Modes <- MCModes
    TxCap = 2
    MaxMessages = 2
    MaxMishaps = 1
    MaxRequests = 1
    HandshakeTime = 1
    MaxDelay = 2
SPECIFICATION FairSpec
CHECK_DEADLOCK FALSE
INVARIANTS
    MessagesAreWhole
PROPERTIES
    LinkRecovers
    DeadLinkIsNoticed
    RequestsAreAnswered
