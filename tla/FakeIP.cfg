SPECIFICATION Spec
CONSTANTS
    Domains = {d1, d2, d3}
    Creators = {c1, c2}
    inet4Last = 5
    reservedAddressCount = 1
    MaxRestarts = 1
    MaxFaults = 1
SYMMETRY Symm
INVARIANTS
    CountExact
    Bijective
    GivenResolves
PROPERTIES
    FreshAddress
CHECK_DEADLOCK FALSE
