SPECIFICATION Spec
CONSTANTS
    Lines <- MCLines
    Scales = {1, 3}
    Biggest = 6
    MaxLines = 4
    MaxGames = 2
INVARIANTS
    ParsedAsMeant
    
CHECK_DEADLOCK FALSE
