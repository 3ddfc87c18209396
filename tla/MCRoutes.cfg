SPECIFICATION Spec
CONSTANTS
    Nodes = {0, 1, 2, 3}
    myself = 0
    Ifaces = {"i1", "i2"}
    Wires <- MCWires
    Adverts <- MCAdverts
    Hnas <- MCHnas
    Default = 9
    Costs = {1, 3}
    LINK_COST_BROKEN = 50
    ROUTE_COST_BROKEN = 500
    LqLevels = {0, 2}
    FibMetrics = {"flat", "correct"}
    IpVersions = {4, 6}
    NAT_NUM = 1
    NAT_DEN = 2
    Faults = {"none", "refuse", "prompt", "late", "carrier"}
    MAX_EVENTS = 6
    None = None
CONSTRAINT MCScenarios
CHECK_DEADLOCK FALSE
INVARIANTS
    TypeOK
    ShutdownClean
PROPERTIES
    SpfExact
    KernelFollows
