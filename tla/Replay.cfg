SPECIFICATION Spec
CONSTANTS
    NumberOfRobots = 3
    GamesPerSequence = 1
    SequencesInTournament = 2
    Timeout = 3
    LogEvery = 1
    ShortestGame = 3
    MaxObjects = 1
    MaxEvents = 2
    FastForwardFactor = 2
    MaxClicks = 2
INVARIANTS
    ObjectsAsLogged
    RobotsAsLogged
    OnlyCutLogsFail
CHECK_DEADLOCK FALSE
