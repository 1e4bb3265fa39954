SPECIFICATION Spec
CONSTANTS
    c1 = c1
    c2 = c2
    c3 = c3
    c4 = c4
    NoPeer = NoPeer
    Conns = {c1, c2, c3}
    Present = {}
    Ident <- AnnTwice
    Bots = {c2}
    MaxMatches = 2
    MaxStamp = 2
    MaxDrains = 1
    MaxEvents = 2
    ControlCap = 1
CHECK_DEADLOCK FALSE
SYMMETRY AnnsTabs
VIEW NoRatings
INVARIANTS
    TypeOK
    ChallengesAreLive
    ChallengesExpire
    OwnersBound
    InGameIffBound
    NoGameKilled
PROPERTIES
    NoDoubleBooking
    OldTimerHarmless
    DrainHolds
