SPECIFICATION FairSpec
CONSTANTS
    Connections = {c1, c2}
INVARIANTS OnCloseOnce NothingLeft ClosedForGood
PROPERTIES ConnectionEnds
