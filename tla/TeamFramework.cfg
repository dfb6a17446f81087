SPECIFICATION Spec
CONSTANTS
    t1 = t1
    t2 = t2
    Nobody = Nobody
    Team = {t1, t2}
    Coordinates = {"Absolute", "Relative"}
    MaxSequences = 2
    MaxGames = 2
    MaxTicks = 1
    MaxHits = 2
    MaxFaults = 1
    MaxLag = 1
INVARIANTS
    SocketFileOwned
    RotatesAsHit
PROPERTIES
    TeamQuits
CHECK_DEADLOCK FALSE
