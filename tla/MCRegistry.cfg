SPECIFICATION FairSpec
CONSTANTS
    Users = {"u1", "u2"}
    Knows <- MCKnows
    Conns = {"c1", "c2", "c3"}
    Requests <- MCRequests
    Setups <- MCSetups
    MAX_REQUEST = 2
    CHUNK = 2
INVARIANT ServedRight
PROPERTIES RequestsServed
CHECK_DEADLOCK FALSE
