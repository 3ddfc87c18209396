SPECIFICATION Spec
CONSTANTS
    Nbrs = {1, 2, 3}
    TwoHops = {3, 4}
    Pairs <- MCStar
    WILL_ALWAYS = 7
    Willingness <- MCMixed
    Costs = {1, 2}
    Coverages = {1, 2}
    LqLevels = {0, 2}
CHECK_DEADLOCK FALSE
PROPERTIES
    LqBestCovered
    LqNeeded
    SoleRelayKept
