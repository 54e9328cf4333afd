CONSTANTS
    MaxAddress = 3
    Funds = 3
    OPERATOR = 1
    DELTA = 1
    TAU_LOCK = 1
    MAX_EXPIRATIONS = 2
    RHO = 5000
    Verifier = {v1}
    PolicyId = {1}
    Bundle <- MC_Bundle
    TxData <- MC_Listings
    Salt = {"r"}
    CB = {"cB"}
    Nonce = {n1, n2, n3, n4}
    Amount = {1, 3}
    MaxListings = 1
    MaxApplications = 2
    MaxEngagements = 2
    MaxTime = 4
    MaxStack = 2
SYMMETRY MC_Symmetry
SPECIFICATION Spec
INVARIANTS BalanceEqualsObligations RecordsMatchState LockedIffOneOpen PendingIndexExact
PROPERTIES SettlesOpenEngagement OnlyAgreedTransfers
CHECK_DEADLOCK FALSE
