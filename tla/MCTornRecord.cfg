\* One client: a kill or a failed write in the middle of a record is enough.
SPECIFICATION Spec
CONSTANTS
    Digit = {0, 1}
    NONCE_DIGITS = 2
    Client = {c1}
    Request <- MC_Good
    NoRequest = NoRequest
    RegisterPolicies = {"R"}
    ApplyPolicies = {"A"}
    SettlePolicies = {"S"}
    TauLock <- MC_TauLock
    MaxSessionSecs = 5
    TlsnClockTolerance = 2
    MaxSubmissions = 4
    MaxCrashes = 3
INVARIANT RecordedIsLoadable
CHECK_DEADLOCK FALSE
