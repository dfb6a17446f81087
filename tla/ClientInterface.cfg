SPECIFICATION FairSpec
CONSTANTS
    Connections = {c1, c2}
    SendsNul = {c2}
    ClientLines <- MCClientLines
    ReadSize = 3
    Graphics = TRUE
    MaxLines = 3
    MaxTournaments = 2
    MaxLog = 2
INVARIANTS
    LinesIntact
    

    
CHECK_DEADLOCK FALSE
