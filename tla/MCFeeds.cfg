CONSTANTS
    Agents <- MCAgents
    MaxTurns = 2
    MaxWrites = 7
    MaxFaults = 1
SPECIFICATION FairSpec
CHECK_DEADLOCK FALSE
PROPERTIES
    
    StartIsOfThisTurn
    DeadTurnsFade
    CardsComeBack
