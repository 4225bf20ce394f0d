SPECIFICATION Spec
CONSTANTS
    a = a
    b = b
    c = c
    d = d
    x = x
    red = red
    blue = blue
    usual = usual
    works = works
    None = None
    Line = {red, blue}
    Station = {a, b, c, d, x}
    Network = {usual, works}
    Variants <- MCVariants
    Serves <- MCServes
    InHub = {}
    Journey <- MCJourney
    Proc = {p1}
    MaxEdits = 2
    MaxRefreshes = 0
    MaxFaults = 0
CHECK_DEADLOCK FALSE
INVARIANT IndexIsJourney
