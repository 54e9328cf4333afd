\* A link with a delay and a bandwidth; the smallest and the largest queue are refused.
SPECIFICATION FairSpec
CONSTANTS
    CHUNK = 2
    MAX_QUEUE = 3
    QueueSizes = {1, 2, 4}
    DELAY = 1
    PER_BYTE = 1
    MaxBytes <- MC_OneWay
    MaxTime = 2
INVARIANTS InOrder QueueBounded LinkRate
PROPERTIES AllArrives
CHECK_DEADLOCK FALSE
