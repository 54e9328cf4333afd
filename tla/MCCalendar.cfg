SPECIFICATION WalkSpec
CONSTANTS
    Walks <- MC_Walks
    SECS_PER_DAY = 24
    Offsets <- MC_Offsets
    TauLock <- MC_TauLock
INVARIANTS DateAgrees CircuitDatesAreReal SettleDatesAgree
CHECK_DEADLOCK FALSE
