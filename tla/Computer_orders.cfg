SPECIFICATION Spec
CONSTANTS
    Weapon = {"NiceDay", "Reagan", "Keating", "Susan", "Speedy", "SoLong", "Ace"}
    Price <- SomePrices
    Slots = 4
    MinCombo = 3
    MaxCombo = 4
    SusanLines = 1
    Cooldown = 2
    BuyPriority <- SomePriority
    Gift <- SomeGift
    MaxFunds = 6
    MaxOpLines = 3
    MaxBazaars = 2
CHECK_DEADLOCK FALSE
INVARIANTS
    OrdersAreHeld
    NiceDayPaired
    PlanIsBought
