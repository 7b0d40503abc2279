SPECIFICATION Spec
CONSTANTS
    a1 = a1
    a2 = a2
    Accounts = {a1}
    None = None
    Malformed = {}
    MaxReceipts = 4
    MaxMarkers = 4
    MaxBoot = 2
    MaxRound = 2
PROPERTIES BarrierSendsThisRound
CHECK_DEADLOCK FALSE
