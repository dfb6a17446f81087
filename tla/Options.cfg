SPECIFICATION Spec
CONSTANTS
    Table <- MCTable
    Grain = 2
    Biggest = 20
    Typed <- MCTyped
    WindowSizes <- MCWindowSizes
    HandWritten <- MCHandWritten
    Competition = TRUE
    MaxClicks = 5
INVARIANTS
    SavedIsLoaded
    UntouchedEntries
CHECK_DEADLOCK FALSE
