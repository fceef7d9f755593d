SPECIFICATION Spec
CONSTANTS
    Fed = {"a"}
    Mirrored = {"c"}
    Setups <- MCSetups
    Apps <- MCApps
    MaxAttempts = 2
    MaxGestures = 2
    MaxChanges = 1
    MaxSwitches = 1
INVARIANT
    ReleaseClosesDictation
CHECK_DEADLOCK FALSE
