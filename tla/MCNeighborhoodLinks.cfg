SPECIFICATION FairSpec
CONSTANTS
    a = a
    b = b
    m = m
    t = t
    NoAddr = NoAddr
    Addrs = {a}
    TwoHops = {t}
    Ifaces = {i1, i2}
    HelloPairs <- MCOneEach
    MidPairs <- MCNone
    Willingness = {0, 3}
    Flags = {TRUE, FALSE}
    Ids = {1, 2}
    MAX_MESSAGES = 3
CHECK_DEADLOCK FALSE
INVARIANT SymLinkMeansSymNeighbor
PROPERTY SilenceForgotten
