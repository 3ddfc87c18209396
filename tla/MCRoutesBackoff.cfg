SPECIFICATION FairSpec
CONSTANTS
    Nodes = {0, 1}
    myself = 0
    Ifaces = {"i1"}
    Wires <- MCWire
    Adverts <- MCPair
    Hnas <- MCHna
    Default = 9
    Costs = {1, 3}
    LINK_COST_BROKEN = 50
    ROUTE_COST_BROKEN = 500
    LqLevels = {0}
    FibMetrics = {"flat"}
    IpVersions = {4}
    NAT_NUM = 1
    NAT_DEN = 2
    Faults = {"none"}
    MAX_EVENTS = 2
    None = None
CHECK_DEADLOCK FALSE
PROPERTY RoutesFollow
