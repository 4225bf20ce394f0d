SPECIFICATION Spec
CONSTANTS
    Key = {"disruptions", "routes"}
    Authenticated = {"routes"}
    MaxMounts = 3
    MaxFocus = 1
INVARIANTS
    TypeOK
    LoopsAreCounted
PROPERTIES
    LoggedOutIsQuiet
    PollsRecur
