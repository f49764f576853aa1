SPECIFICATION MuxSpec
CONSTANTS
    Queries = {q1, q2}
    Clients <- MCClients
    Conns = {c1, c2}
    Gens = {g1}
    NoConn = NoConn
    NoRun = NoRun
    MaxId = 1
    RetryReadError = TRUE
    DetectsDeath = FALSE
    KeepIdleCalls = {}
SYMMETRY Symm
ACTION_CONSTRAINT FreshId
INVARIANTS TrackedIsRead
PROPERTIES ServiceSpec
CHECK_DEADLOCK FALSE
