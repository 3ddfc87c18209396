SPECIFICATION Spec
CONSTANTS
    a = a
    b = b
    m = m
    t = t
    NoAddr = NoAddr
    Addrs = {a, b, m}
    TwoHops = {b, t}
    Ifaces = {i1}
    HelloPairs <- MCHeardBy
    MidPairs <- MCAlias
    Willingness = {3}
    Flags = {FALSE}
    Ids = {1, 2}
    MAX_MESSAGES = 3
CHECK_DEADLOCK FALSE
INVARIANTS
    TypeOK
    NeighborMustExist
    TwoHopConsistent
    MprUpToDate
