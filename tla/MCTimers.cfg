SPECIFICATION FairSpec
CONSTANTS
    Blocks = {t1, t2}
    NoTimer = NoTimer
    CLOCK_MOD = 16
    TIMER_WHEEL_SLOTS = 2
    Rels = {1, 3}
    Gaps = {1, 2}
    MAX_STALL = 3
    JITTER_PCT = 34
    FREE_LIST_THRESHOLD = 1
INVARIANTS
    WheelExact
    LateOnlyAfterWrap
PROPERTIES
    Implements
    WalkTerminates
