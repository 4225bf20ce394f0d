SPECIFICATION FairSpec
CONSTANTS
    a = a
    b = b
    c = c
    d = d
    x = x
    red = red
    blue = blue
    usual = usual
    works = works
    None = None
    Line = {red, blue}
    Station = {a, b, c, d, x}
    Network = {usual, works}
    Variants <- MCVariants
    Serves <- MCServes
    InHub = {}
    Journey <- MCJourney
    Proc = {p1}
    MaxEdits = 3
    MaxRefreshes = 1
    MaxFaults = 1
CHECK_DEADLOCK FALSE
INVARIANTS
    SequenceIsDense
    DeletionIsComplete
    FirstIndexIsExact
PROPERTY StaleIsRebuilt
