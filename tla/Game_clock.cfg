SPECIFICATION DrivenSpec
CONSTANTS
    Wth = 2
    Hgt = 4
    BottleX = 0
    BottleY = 1
    Ledge = 0
    BoxSide = 4
    HappyVal = 150
    NearDeathRow = 1
    Computer = FALSE
    Kind = {"Happy", "Die"}
    Pips = {1}
    Weapon <- ClockWeapon
    OpArsenals <- Clock
    WeaponNo <- ClockOrder
    Duration <- TwoLines
    OpBoard <- Corners
    DefX = 0
    DefY = 0
    DropTime = 4
    FastDropTime = 1
    LinesTilBaz = 3
    Midline = 14
    Drivers = {"keys"}
    ArsenalsOf <- ClockOf
    Noise = 300000
    MaxLocks = 4
    MaxReceived = 2
    MaxOpLines = 0
CHECK_DEADLOCK FALSE
INVARIANTS
    ClockRestored
    SupplyRestored
    RoundTrip
    TornKeyframeRejected
