SPECIFICATION WindowOrFileSpec
CONSTANTS
    r1 = r1
    r2 = r2
    a1 = a1
    a2 = a2
    OtherFiles = {a2}
    MaxWords = 5
    RobotDir <- TwoRobots
    ArenaDir <- OneArena
    FailedReadIsZero = TRUE
    IntMax = 2147483647
    Typed = {0, 3}
    MaxAllowed = 120
    MaxListed = 3
    MaxClicks = 8
INVARIANTS
    RowsMatch
    StartsPlayable
    
    FileAsWritten
CHECK_DEADLOCK FALSE
