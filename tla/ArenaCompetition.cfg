SPECIFICATION FairSpec
CONSTANTS
    r1 = r1
    r2 = r2
    r3 = r3
    Robots = {r1, r2}
    RobotsPerGame = 2
    GamesPerSequence = 2
    SequencesInTournament = 2
    NumberOfArenas = 2
    BadArenas = {2}
    PlacementMayFail = TRUE
    GameMode = "COMPETITION"
    Timeout = 2
    CheckInterval = 1
    StartupTime = 0
    ShutdownTime = 1
    MaxTimestep = 2
    Garbage = {0, 2}
    MaxClicks = 2
PROPERTIES
    
    PauseTakesEffect
CHECK_DEADLOCK FALSE
