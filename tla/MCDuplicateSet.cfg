SPECIFICATION Spec
CONSTANTS
    Originators = {o1}
    SEQ_MOD = 16
    WINDOW = 3
    DUP_MAX_TOO_LOW = 2
    TIME_MOD = 16
    DUPLICATE_VTIME = 2
    DUPLICATE_CLEANUP_INTERVAL = 2
    DUPLICATE_CLEANUP_JITTER = 1
    IN_FLIGHT = 3
    MAX_LOST = 5
    MAX_SENT = 22
    MAX_CLOCK = 6
CONSTRAINT MCScenarios
CHECK_DEADLOCK FALSE
INVARIANTS
    TypeOK
    AcceptedOnce
    NoNewMessageBlocked
    StartsOverOnlyAfterReboot
    RebootRecovers
PROPERTY KeptWhileHeard
