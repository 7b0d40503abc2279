SPECIFICATION FairSpec
CONSTANTS
    a1 = a1
    a2 = a2
    Accounts = {a1}
    None = None
    Malformed <- MCMalformed
    MaxReceipts = 2
    MaxMarkers = 4
    MaxBoot = 2
    MaxRound = 2
INVARIANTS AckedIsDurable SavesAgree
PROPERTIES PaysOnce CountsOnce RetiredStaysRetired EvictsOldest BacklogDrains
CHECK_DEADLOCK FALSE
