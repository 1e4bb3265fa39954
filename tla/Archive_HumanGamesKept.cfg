SPECIFICATION Spec
CONSTANTS
    Modes <- AllModes
    Keys = {"move"}
    MaxTicks = 2
    MaxFrames = 2
    Legacy = {"alike", "human"}
    Posted = {"posted"}
    Imported = {"file"}
    MatchReplay = "match"
    MatchId = "wire"
    Players <- NamesOf
    MaxCrashes = 2
CHECK_DEADLOCK FALSE
PROPERTY
    HumanGamesKept
