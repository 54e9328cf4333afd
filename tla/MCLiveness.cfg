CONSTANTS
    MaxAddress = 2
    Funds = 6
    OPERATOR = 1
    DELTA = 1
    TAU_LOCK = 1
    MAX_EXPIRATIONS = 2
    RHO = 5000
    Verifier = {v1, v2}
    PolicyId = {1}
    Bundle <- MC_Bundle
    TxData <- MC_OneListing
    Salt = {"r"}
    CB = {"cB"}
    Nonce = {n1, n2, n3, n4}
    Amount = {3}
    MaxListings = 1
    MaxApplications = 2
    MaxEngagements = 2
    MaxTime = 4
    MaxStack = 1
SPECIFICATION FairSpec
PROPERTIES
    LockEnds
    EverythingLeaves
CHECK_DEADLOCK FALSE
