SPECIFICATION FairSpec
CONSTANTS
    m1 = m1
    m2 = m2
    d1 = d1
    outbounds <- MCOutbounds
    Networks <- MCNetworks
    Supports <- MCSupports
    Dials = {d1}
    interruptExternalConnections = TRUE
    nil = nil
    MaxTroubles = 1
INVARIANTS OnSelected
PROPERTIES SelectsFirstTested Converges
