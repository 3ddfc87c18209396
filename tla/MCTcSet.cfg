SPECIFICATION Spec
CONSTANTS
    Nodes = {1, 2, 3}
    myself = 1
    Originators = {2, 3}
    Neighbors = {2, 3}
    Prefixes = {p1}
    SEQ_MOD = 16
    TC_ANSN_WINDOW = 3
    TC_SEQNO_WINDOW = 3
    TC_ANSN_WINDOW_MULT = 2
    TC_SEQNO_WINDOW_MULT = 2
    MAX_IGNORED = 1
    IN_FLIGHT = 3
    FirstNumbers <- MCFirstNumbers
    RebootJumps <- MCRebootJumps
    MAX_MSGS = 5
    MAX_BOOTS = 1
CONSTRAINT MCScenarios
CHECK_DEADLOCK FALSE
INVARIANTS
    TypeOK
    InverseExact
    RefcountExact
    NewestRevokes
    NewestBelieved
    RebootBelieved
PROPERTY ChangesFlagged
