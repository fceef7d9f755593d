SPECIFICATION FairSpec
CONSTANTS
    Codex = "codex"
    Claude = "claude"
    ZCode = "zcode"
    Hermes = "hermes"
    Nobody = "nobody"
    QueueCap = 1
    SessionIds = {1, 2}
    Clients <- MCOneAgent
    Hosts <- MCHosts
    Controls = {}
    Serial = FALSE
    DeckSize = 6
    Debounce = 1
    PollTime = 1
    MaxRequests = 1
    MaxTaskEvents = 1
    InboxLimit = 1
INVARIANTS
    PositionsAreShared
    CatalogOnce
PROPERTIES
    EventsLeaveInAnswers
    PartitionSettles
