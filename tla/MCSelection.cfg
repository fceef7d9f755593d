SPECIFICATION FairSpec
CONSTANTS
    NumDevices = 1
    MaxSlots = 1
    LcdSlots = 1
    Agents <- MCAgents
    Codex = "codex"
    Sessions = {0, 1, 2}
    AgentOf <- SelectionAgentOf
    TaskIds = {0, 1, 2}
    HidIds = {}
    Priorities = {0}
    Grace = 1
    PendingHold = 1
    GuardHold = 0
    PreferenceCap = 256
    Snapshot = 0
    KeyIndex <- NoKeys
    LegacyIds <- NoLegacy
    Publishes <- SelectionPublishes
    Items <- SelectionItems
    HidReports <- NoReports
    Capacities = {0, 1}
    Pressable = {0, 2}
    Focusable = {1}
    OwnerMaps <- SelectionOwnerMaps
    Restored <- NoRestored
INVARIANTS
    LeaseMatchesState
    PendingIsSelected
    ReviewedStaysReviewed
PROPERTY
    DesktopYields
    LeaseEnds
