SPECIFICATION Spec
CONSTANTS
    c1 = c1
    c2 = c2
    c3 = c3
    c4 = c4
    NoPeer = NoPeer
    Conns = {c1, c2, c3, c4}
    Present = {c1, c2, c4}
    Ident <- AnnTwiceAndCyd
    Bots = {}
    MaxMatches = 2
    MaxStamp = 0
    MaxDrains = 0
    MaxEvents = 0
    ControlCap = 1
CHECK_DEADLOCK FALSE
PROPERTY
    RatingKeepsMatches
