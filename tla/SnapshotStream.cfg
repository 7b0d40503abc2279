SPECIFICATION FairSpec
CONSTANTS
    None = None
    PageRows = 1
    MaxWire = 1
    MaxSeq = 1
    MaxChanges = 2
    MaxEvents = 1
    MaxQueue = 1
    MaxFaults = 1
CHECK_DEADLOCK FALSE
INVARIANTS
    DeltasFollow
    AskedIsAnswered
    ViewIsTrue
PROPERTIES
    ViewCatchesUp
