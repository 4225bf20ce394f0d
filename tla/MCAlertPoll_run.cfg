SPECIFICATION Spec
CONSTANTS
    Route = {r1, r2, r3}
    MaxPrefs = 2
    MaxFaults = 3
CHECK_DEADLOCK FALSE
SYMMETRY Symmetry
INVARIANTS
    TypeOK
    NoSilentSkip
    SentIsLogged
    DeliveredIsLogged
