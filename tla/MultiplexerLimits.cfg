SPECIFICATION MuxSpec
CONSTANTS
    Queries = {q1, q2}
    Clients <- MCClients
    Conns = {c1}
    Gens = {g1, g2}
    NoConn = NoConn
    NoRun = NoRun
    MaxId = 0
    RetryReadError = TRUE
    DetectsDeath = FALSE
    KeepIdleCalls = {FALSE}
SYMMETRY Symm
INVARIANTS PendingIsUser IdleClosed
PROPERTIES PoolSpec
CHECK_DEADLOCK FALSE
