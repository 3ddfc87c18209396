SPECIFICATION FairSpec
CONSTANTS
    Gateways = {1, 2}
    Families = {"v4"}
    AllowNat = FALSE
    Costs = {1}
    Announcements <- MCPlain
    GW_DEFAULT_STABLE_COUNT = 1
    MaxHnas <- MCOne
    MaxFailures = 0
PROPERTY
    GatewayFound
CHECK_DEADLOCK FALSE
