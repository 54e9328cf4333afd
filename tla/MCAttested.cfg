\* Two notaries with keys the operator may swap; signatures sent late, twice,
\* or by another address.
SPECIFICATION ASpec
CONSTANTS
    MaxAddress = 2
    Funds = 2
    OPERATOR = 1
    DELTA = 1
    TAU_LOCK = 1
    MAX_EXPIRATIONS = 2
    RHO = 5000
    Verifier = {v1, v2}
    PolicyId = {1}
    Bundle <- MC_Bundle
    TxData <- MC_TxData
    Salt = {"r"}
    CB = {"cB"}
    Nonce = {n1, n2, n3}
    Amount = {1}
    MaxListings = 1
    MaxApplications = 2
    MaxEngagements = 1
    MaxTime = 2
    MaxStack = 0
    MaxSignatures = 3
SYMMETRY MC_Symmetry
INVARIANT OneSignatureEach
PROPERTY EvidenceIsRecent
CHECK_DEADLOCK FALSE
