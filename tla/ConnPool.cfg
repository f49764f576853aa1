SPECIFICATION Spec
CONSTANTS
    Clients = {k1, k2}
    Conns = {c1, c2}
    Gens = {g1, g2}
    NoConn = NoConn
    DetectsDeath = TRUE
SYMMETRY Symm
INVARIANTS TypeOK SingleConnection NoLeak UsersCounted WaitersCounted OneReader
PROPERTIES IdleCloseSpares NeverHandsOutClosed SharedSpec
