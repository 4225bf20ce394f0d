SPECIFICATION FairSpec
CONSTANTS
    Severe = Severe
    Minor = Minor
    Good = Good
    Closed = Closed
    x = x
    y = y
    Severity <- MCSeverity
    Reason = {x, y}
    Disabled <- MCDisabled
    Cleared <- MCCleared
    Line = {l1, l2}
    Report <- ShortReport
    Pref = {mail}
    EmailPref = {mail}
    Worker = {w1}
    Day = 5
    Start = 1
    End = 3
    Cooldown = 2
    TaskLimit = 1
    Horizon = 6
    MaxChanges = 2
    MaxFaults = 0
CHECK_DEADLOCK FALSE
PROPERTIES
    KeepsPromise
    StatusReachesReader
