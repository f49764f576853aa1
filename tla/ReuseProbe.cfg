SPECIFICATION FairSpec
CONSTANTS
    Probes = {p1, p2}
    Readers = {r1, r2}
    MaxEpoch = 2
INVARIANTS ProbeOwned SupportedIsProven LimitIsActedOn
PROPERTIES ProbingEnds
