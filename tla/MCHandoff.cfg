SPECIFICATION Spec
CONSTANTS
    NumDevices = 1
    MaxSlots = 3
    LcdSlots = 3
    Agents <- MCAgents
    Codex = "codex"
    Sessions = {0}
    AgentOf <- HidAgentOf
    TaskIds = {0, 1, 2}
    HidIds = {0, 1, 2}
    Priorities = {0}
    Grace = 0
    PendingHold = 0
    GuardHold = 0
    PreferenceCap = 256
    Snapshot = 0
    KeyIndex <- HidKeys
    LegacyIds <- NoLegacy
    Publishes <- HidPublishes
    Items <- OneItem
    HidReports <- HidReported
    Capacities = {3}
    Pressable = {0}
    Focusable = {}
    OwnerMaps <- HidOwnerMaps
    Restored <- NoRestored
PROPERTY
    SelectionIsNoExecution
