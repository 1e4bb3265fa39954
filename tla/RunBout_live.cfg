SPECIFICATION FairSpec
CONSTANTS
    Human <- HumanVsBot
    MaxConns = 2
    MaxSeq = 1
    MaxAsks = 0
    InputCap = 1
    ControlCap = 2
    GraceTicks = 1
    ProbeEvery = 2
PROPERTIES
    FreezeResolves
    RejoinHonoured
