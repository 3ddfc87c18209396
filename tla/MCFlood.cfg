SPECIFICATION Spec
CONSTANTS
    Interfaces <- MCInterfaces
    Owner <- MCOwner
    Ether = {"q2", "s2", "y2", "z2"}
    MprSets <- MCMprSets
    Hears <- MCHears
    MessageSets <- MCMessageSets
    TC_SEQNO_WINDOW = 8
    MAX_IGNORED = 1
    MAX_TTL = 18
    MAXSIZE <- MCMaxSize
    MaxLost = 1
CONSTRAINT MCScenarios
INVARIANTS
    TypeOK
    ForwardedOnce
    FloodComplete
CHECK_DEADLOCK FALSE
