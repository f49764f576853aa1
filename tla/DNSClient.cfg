SPECIFICATION FairSpec
CONSTANTS
    r1 = r1
    r2 = r2
    r3 = r3
    None = None
    Requests = {r1, r2, r3}
    Async = {r2}
    Lookups = {r1}
    Checked = {r2}
    Strict = {r1}
    Parent <- MCParent
    Envs = {0, 1}
    MaxChanges = 2
INVARIANTS LockHeld WaitersServed EnvMatches
PROPERTIES RequestsEnd
