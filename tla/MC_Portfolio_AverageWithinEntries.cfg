SPECIFICATION Spec
CONSTANTS
    Markets = {m1}
    Prices = {40, 60}
    Marks = {50}
    Quantities = {1, 2}
    Unit = 100
    Scale = 6
    Parts = 6
    MaxSnapshots = 0
    MaxPosition = 3
    MaxFills = 3
    MaxReports = 3
INVARIANT
    AverageWithinEntries
