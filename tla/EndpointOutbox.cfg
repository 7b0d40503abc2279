SPECIFICATION FairSpec
CONSTANTS
    p1 = p1
    p2 = p2
    Senders = {p1, p2}
    Nobody = Nobody
    NoItem = NoItem
    MaxMessages = 2
    MaxBytes = 3
    SizeOf <- MCSizeOf
    MaxOffers = 2
    MaxRound = 2
    MaxTick = 1
    MaxRevision = 1
INVARIANTS WithinLimits TrueMeansWritten
PROPERTIES ImplementsStream NoStaleSnapshot SendReturns AcceptedIsWritten
CHECK_DEADLOCK FALSE
