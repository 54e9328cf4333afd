\* One retry: the last attempt follows another.  Timeouts of 1 and 2 leave time
\* before, between and after them, and a second attempt starts late or early.
SPECIFICATION CFairSpec
CONSTANTS
    MaxRetries = 1
    PromptDriver = TRUE
    PREPROCESS_TIMEOUT = 1
    SESSION_TIMEOUT = 2
    TOLERANCE = 0
    MaxStart = 1
INVARIANTS RegistryReachedOnce AttestedByLastAttempt
PROPERTIES CutIsRetried FinalStaysFinal ImplementsProver NothingLeftOpen
CHECK_DEADLOCK FALSE
