SPECIFICATION FairSpec
CONSTANTS
    Fed = {"a"}
    Mirrored = {"c"}
    Setups <- MCSetups
    Apps <- MCApps
    MaxAttempts = 2
    MaxGestures = 2
    MaxChanges = 1
    MaxSwitches = 1
INVARIANTS
    ActsOnTheShownCard
    OneGestureOneAct
    FirstAppIsClosed
PROPERTIES
    NoOlderSession
    PressesAreSettled
CHECK_DEADLOCK FALSE
