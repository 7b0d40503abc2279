SPECIFICATION FairSpec
CONSTANTS
    c1 = c1
    c2 = c2
    c3 = c3
    w1 = w1
    w2 = w2
    NoWorker = NoWorker
    Conns <- MCTwoConns
    Workers <- MCOneWorker
    TeamOf <- MCTeamOf
    BotTeams = {2}
    MaxPlayers = 1
    PrebattleTicks = 1
    BattleTicks = 1
    ResetTicks = 3
    MaxRound = 2
    MaxTick = 8
    MaxDiskFaults = 1
    MaxTickFaults = 1
CHECK_DEADLOCK FALSE

PROPERTIES
    BattleEnds
    OneOutcome
    ResultShownBeforeReset
