SPECIFICATION Spec
CONSTANTS
    NumDevices = 1
    MaxSlots = 2
    LcdSlots = 2
    Agents <- MCAgents
    Codex = "codex"
    Sessions = {0, 1}
    AgentOf <- HidAgentOf
    TaskIds = {0, 1, 2}
    HidIds = {0, 1}
    Priorities = {0}
    Grace = 0
    PendingHold = 0
    GuardHold = 0
    PreferenceCap = 256
    Snapshot = 0
    KeyIndex <- HidKeys
    LegacyIds <- HidLegacy
    Publishes <- HidPublishes
    Items <- OneItem
    HidReports <- HidReported
    Capacities = {2}
    Pressable = {0}
    Focusable = {}
    OwnerMaps <- HidOwnerMaps
    Restored <- HidRestored
PROPERTIES
    AllocatesSlots
    RedrawIsNoProgress
