SPECIFICATION Spec
CONSTANTS
    SEQ_MOD = 8
    BITS = 2
    IPSIZE = 2
    OFF = 1
    MAXSIZE = 3
    Networks <- MCNetworks
    FirstAnsn = 6
    MaxChanges = 2
    MaxTcs = 2
INVARIANTS
    TypeOK
    ReceivedExact
    PartsQueued
PROPERTIES
    StillAdvertisedKept
CHECK_DEADLOCK FALSE
