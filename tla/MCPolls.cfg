SPECIFICATION FairSpec
CONSTANTS
    Codex = "codex"
    Claude = "claude"
    ZCode = "zcode"
    Hermes = "hermes"
    Nobody = "nobody"
    QueueCap = 1
    SessionIds = {1, 2}
    Clients <- MCOneAgent
    Hosts <- MCNone
    Controls = {3}
    Serial = FALSE
    DeckSize = 6
    Debounce = 1
    PollTime = 1
    MaxRequests = 2
    MaxTaskEvents = 0
    InboxLimit = 1
INVARIANTS
    AnsweredOnce
    PollsAreOwed
PROPERTY
    PollsEnd
