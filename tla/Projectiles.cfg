SPECIFICATION Spec
CONSTANTS
    None = None
    MaxShots = 2
    Flight = 2
    MaxUp = 2
    MaxMishaps = 1
INVARIANTS LongestIsExact OwnerIsBelieved LiveIsTracked
CHECK_DEADLOCK FALSE
