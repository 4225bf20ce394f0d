SPECIFICATION FairSpec
CONSTANTS
    a = a
    b = b
    c = c
    d = d
    red = red
    blue = blue
    Line = {red, blue}
    Station = {a, b, c, d}
    Network <- MCNetwork
    Builder = {b1, b2}
    Task = b1
    MaxFaults = 1
INVARIANTS
    TypeOK
PROPERTIES
    BuildsDoNotMix
    CleanBuildRepairs
    GraphConverges
