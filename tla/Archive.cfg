SPECIFICATION FairSpec
CONSTANTS
    Modes <- AllModes
    Keys = {"move"}
    MaxTicks = 3
    MaxFrames = 2
    Legacy = {"filler", "human"}
    Posted = {"posted"}
    Imported = {"file"}
    MatchReplay = "match"
    MatchId = "wire"
    Players <- NamesOf
    MaxCrashes = 2
CHECK_DEADLOCK FALSE
INVARIANTS
    RowsResolve
    PlaybackAgrees
PROPERTY
    BootServes
