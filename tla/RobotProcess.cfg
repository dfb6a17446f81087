SPECIFICATION FairSpec
INVARIANT NoOrphans
INVARIANT PipesMatchSequence
PROPERTY ZombiesReaped
CONSTANTS
    r1 = r1
    r2 = r2
    p1 = p1
    p2 = p2
    p3 = p3
    p4 = p4
    Robots = {r1, r2}
    Pids = {p1, p2, p3, p4}
    None = None
    Other = Other
    MaxForks = 4
CHECK_DEADLOCK FALSE
