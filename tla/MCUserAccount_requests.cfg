SPECIFICATION Spec
CONSTANTS
    s1 = s1
    s2 = s2
    Session = {s1, s2}
    User = {1, 2}
    Contact = {1, 2, 3}
    Preference = {1, 2, 3}
    Address = {"first", "second", "strange"}
    Kind <- MCKind
    Habits <- MCHabits
    Mine = {"first", "second"}
    None = "none"
    VERIFICATION_CODE_RATE_LIMIT = 1
    ADD_CONTACT_FAILURE_RATE_LIMIT = 1
    MAX_NOTIFICATION_PREFERENCES_PER_ROUTE = 2
SYMMETRY Symmetric
INVARIANTS
    TypeOK
    OnlyMineIsTold
    RatesAreLimited
    RacesAreBounded
    NothingSurvives
CHECK_DEADLOCK FALSE
