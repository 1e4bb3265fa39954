SPECIFICATION Spec
CONSTANTS
    Human <- TwoHumans
    MaxConns = 2
    MaxSeq = 0
    MaxAsks = 1
    InputCap = 1
    ControlCap = 2
    GraceTicks = 2
    ProbeEvery = 2
INVARIANTS
    TypeOK
    FreezeHasDeadline
    OnlyDeadSocketsAreDown
    KeyframeOwed
    EndIsAnnounced
PROPERTY
    ImplementsLife
