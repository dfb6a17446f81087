SPECIFICATION Spec
CONSTANTS
    NumberOfRobots = 4
    RobotsPerGame = 3
    NumberOfSequences = 11
    IntMax = 2147483647
INVARIANTS
    RoundsComplete
    SomebodyCanPlay
    Balanced
