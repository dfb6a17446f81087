SPECIFICATION Spec
CONSTANTS
    NumberOfRobots = 3
    Lineups <- MCLineups
    Lines <- MCLines
    ValueOf <- MCValueOf
    Colours = {"black", "white", "red", "blue"}
    Background = "black"
    Foreground = "white"
    TeamOf <- MCTeamOf
    NSIG = 4
    SIGUSR1 = 3
    MaxDebugLevel = FALSE
    ReadLimit = 7
    SequencesInTournament = 2
    GamesPerSequence = 2
    MaxLines = 3
INVARIANTS
    ReadAsWritten
    UniqueNames
    DistinctColours
CHECK_DEADLOCK FALSE
