SPECIFICATION Spec
CONSTANTS
    default = default
    career = career
    garage = garage
    results = results
    None = None
    Partial = Partial
    Default = default
    Slots = {default, career}
    Files = {garage, results}
    MaxVersion = 2
    MaxFaults = 2
CHECK_DEADLOCK FALSE
SYMMETRY FileSymmetry
PROPERTIES
    NothingLost
    FailureAccounted
    DoneIsExact
