SPECIFICATION DrivenSpec
CONSTANTS
    Wth = 4
    Hgt = 6
    BottleX = 1
    BottleY = 1
    Ledge = 1
    BoxSide = 4
    HappyVal = 150
    NearDeathRow = 3
    Computer = FALSE
    Kind = {"Long", "Wall", "Star", "WeirdLong"}
    Pips = {1}
    Weapon <- GeometryWeapon
    OpArsenals <- Geometry
    WeaponNo <- GeometryOrder
    Duration <- OneLine
    OpBoard <- Corners
    DefX = 2
    DefY = 0
    DropTime = 4
    FastDropTime = 1
    LinesTilBaz = 3
    Midline = 14
    Drivers = {"keys", "computer", "Ernie", "Bert", "Roam"}
    ArsenalsOf <- GeometryOf
    Noise = 300000
    MaxLocks = 2
    MaxReceived = 2
    MaxOpLines = 1
CHECK_DEADLOCK FALSE
INVARIANTS
    PieceInLockstep
    FrameAgrees
    WallsStand
    ClearsAccount
    TurnReaches
