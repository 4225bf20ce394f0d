SPECIFICATION Spec
CONSTANTS
    Severe = Severe
    Minor = Minor
    Good = Good
    Closed = Closed
    x = x
    y = y
    Severity <- MCSeverity
    Reason = {x, y}
    Disabled <- MCDisabled
    Cleared <- MCCleared
    Line = {l1}
    Report <- RichReport
    Pref = {mail, text}
    EmailPref = {mail}
    Worker = {w1}
    Day = 6
    Start = 1
    End = 4
    Cooldown = 2
    TaskLimit = 1
    Horizon = 7
    MaxChanges = 2
    MaxFaults = 2
CHECK_DEADLOCK FALSE
INVARIANTS
    TypeOK
    StoredWasSaid
    FreshWindow
    OneRepeatPerFault
