SPECIFICATION Spec
CONSTANTS
    Weapon <- Economy
    Duration <- OneLine
    Price <- Cheap
    LinesTilBaz = 3
    RowFunds = 5
    MaxClear = 2
    MaxLines = 4
    MaxStock = 1
    MaxGrants = 1
CHECK_DEADLOCK FALSE
INVARIANTS
    BazaarsShared
    TaxConserves
    VerdictIsFirst
