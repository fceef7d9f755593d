CONSTANTS
    a1 = a1
    a2 = a2
    a3 = a3
    Proxies <- MCProxies
    StaleAge = 2
    WinnerWait = 2
    LoserWait = 3
    StartTime = 2
    MaxKills = 1
SPECIFICATION FairSpec
CHECK_DEADLOCK FALSE
INVARIANT
    LockIsFreed
PROPERTIES
    NoSecondSpawn
    
