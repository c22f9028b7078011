SPECIFICATION Spec
CONSTANTS
    Markets = {m1}
    Prices = {40, 60}
    Marks = {0, 60, 100}
    Quantities = {0, 1, 2, 3}
    Unit = 100
    Scale = 6
    Parts = 6
    MaxSnapshots = 3
    MaxPosition = 2
    MaxFills = 3
    MaxReports = 4
INVARIANTS
    TypeOK
    FlatCarriesNothing
    ProfitIsCash
    WelfordIsTwoPass
PROPERTIES
    FillAtMarkIsNeutral
    SettlementAtMarkIsNeutral
