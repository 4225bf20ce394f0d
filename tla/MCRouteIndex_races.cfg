SPECIFICATION Spec
CONSTANTS
    a = a
    b = b
    c = c
    d = d
    x = x
    red = red
    blue = blue
    usual = usual
    works = works
    None = None
    Line = {red, blue}
    Station = {a, b, c, d, x}
    Network = {usual, works}
    Variants <- MCVariants
    Serves <- MCServes
    InHub = {d}
    Journey <- RaceJourney
    Proc = {p1, p2}
    MaxEdits = 4
    MaxRefreshes = 0
    MaxFaults = 1
CHECK_DEADLOCK FALSE
SYMMETRY Symmetry
INVARIANTS
    TypeOK
    OneBuildPerProcess

