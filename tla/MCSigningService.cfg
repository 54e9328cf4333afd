\* Two clients, two nonces, requests to be refused among the others; a first crash may
\* tear a line, a second the line that was added to it.
SPECIFICATION FairSpec
CONSTANTS
    Digit = {0, 1}
    NONCE_DIGITS = 2
    Client = {c1, c2}
    Request <- MC_Requests
    NoRequest = NoRequest
    RegisterPolicies = {"R"}
    ApplyPolicies = {"A"}
    SettlePolicies = {"S"}
    TauLock <- MC_TauLock
    MaxSessionSecs = 5
    TlsnClockTolerance = 2
    MaxSubmissions = 4
    MaxCrashes = 3
INVARIANTS LoadRemembersSigned SignedTimeSupported
PROPERTIES Answered ImplementsSigner
CHECK_DEADLOCK FALSE
