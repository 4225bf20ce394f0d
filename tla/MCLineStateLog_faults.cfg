SPECIFICATION FairSpec
CONSTANTS
    Line = {l1, l2}
    State = {good, minor}
    None = None
    Worker = {w1}
    MaxChanges = 3
    MaxFaults = 1
    MaxRestarts = 1
CHECK_DEADLOCK FALSE
INVARIANTS
    TypeOK
    RepeatsAreLosses
    CacheIsNewest
PROPERTY StateIsLoggedUnlessLost
