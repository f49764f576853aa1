SPECIFICATION FairSpec
CONSTANTS
    Clients = {k1, k2}
    Conns = {c1}
    Gens = {g1, g2}
    NoConn = NoConn
    DetectsDeath = FALSE
PROPERTIES WaiterReturns OldConnsClosed
