SPECIFICATION FairSpec
CONSTANTS
    Drivers = {"bot", "browser"}
    MaxLocks = 2
    Fall = 1
    LinesTilBaz = 1
    LockHistory = 2
    MaxEvents = 1
    MaxInputs = 2
    MaxResyncs = 1
    MaxDown = 0
CHECK_DEADLOCK FALSE
INVARIANTS
    TypeOK
    KeyframeAgrees
PROPERTIES
    LeaveIsReal
    BotLeaves
    
