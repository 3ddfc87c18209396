SPECIFICATION Spec
CONSTANTS
    Gateways = {1, 2}
    Families = {"v4", "v6"}
    AllowNat = FALSE
    Costs = {1}
    Announcements <- MCBoth
    GW_DEFAULT_STABLE_COUNT = 1
    MaxHnas <- MCHnas
    MaxFailures = 1
CONSTRAINT MCScenarios
INVARIANTS
    TunnelsExact
    NoDangling
    LossPursued
CHECK_DEADLOCK FALSE
