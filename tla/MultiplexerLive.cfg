SPECIFICATION MuxFairSpec
CONSTANTS
    Queries = {q1, q2}
    Clients <- MCClients
    Conns = {c1}
    Gens = {g1}
    NoConn = NoConn
    NoRun = NoRun
    MaxId = 3
    RetryReadError = TRUE
    DetectsDeath = FALSE
    KeepIdleCalls = {}
PROPERTIES Answered
CHECK_DEADLOCK FALSE
