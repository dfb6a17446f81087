SPECIFICATION Spec
CONSTANTS
    r1 = r1
    r2 = r2
    r3 = r3
    Robots = {r1, r2, r3}
    RobotsPerGame = 3
    GamesPerSequence = 2
    SequencesInTournament = 2
    NumberOfArenas = 2
    BadArenas = {2}
    PlacementMayFail = FALSE
    GameMode = "DEBUG"
    Timeout = 1
    CheckInterval = 1
    StartupTime = 0
    ShutdownTime = 1
    MaxTimestep = 1
    Garbage = {0, 2}
    MaxClicks = 2
SYMMETRY RobotSymmetry
INVARIANTS
    TypeOK
    RobotsAccounted
    OwnWalls
    ResultsInOrder
    FairPoints
PROPERTIES
    DeadScoredNextTick
    ImplementsTournament
CHECK_DEADLOCK FALSE
