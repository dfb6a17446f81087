SPECIFICATION Spec
INVARIANT ChargedFairly
PROPERTY ExtraLasts
PROPERTY DisqualifiedFairly
INVARIANT WarnedOnce
PROPERTY ChildrenLimited
CONSTANTS
    StartLimit = 2
    Extra = 1
    Period = 2
    WarningPercent = 50
    Timeout = 3
    GamesPerSequence = 2
    Sequences = 2
    MaxCpu = 8
CHECK_DEADLOCK FALSE
