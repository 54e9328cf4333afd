SPECIFICATION FairSpec
CONSTANTS
    Sessions = {s1}
    PREPROCESS_TIMEOUT = 2
    SESSION_TIMEOUT = 4
    TOLERANCE = 1
    MaxStart = 1
INVARIANTS AttestedInTime LogTellsWhatWasSent OnlyTheJoinLeavesADriver
PROPERTIES SessionsEnd
CHECK_DEADLOCK FALSE
