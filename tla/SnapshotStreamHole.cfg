SPECIFICATION Spec
CONSTANTS
    None = None
    PageRows = 1
    MaxWire = 1
    MaxSeq = 1
    MaxChanges = 1
    MaxEvents = 3
    MaxQueue = 1
    MaxFaults = 1
CHECK_DEADLOCK FALSE
INVARIANTS
    FrontierHidesNoHole
