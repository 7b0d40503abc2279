SPECIFICATION FairSpec
CONSTANTS
    Full = 2
    FireDuration = 2
    MaxHits = 2
    MaxStuns = 1
    MaxBurns = 2
    MaxKits = 1
    MaxFalls = 1
    MaxFailed = 1
    MaxUp = 2
    MaxDown = 1
CHECK_DEADLOCK FALSE
INVARIANTS
    LineageHolds
    LossesAreExact
PROPERTIES
    HitsStand
    Converges
