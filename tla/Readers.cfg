SPECIFICATION ReadersSpec
CONSTANTS
    FirstDate <- October2023
    LastDate <- April2025
    MaxMonths = 14
    Exporters = {one, two}
    NoFile = NoFile
    Role <- OneConsumer
    Period = {1, 2}
    Rows <- SixRows
    MaxDeliveries = 1
    MaxExports = 3
    Cells <- FiveCells
    Values = {0, 2, 603, 606}
    Day = 0
    DayLength = 2
    Tolerance = 2
    MaxCommits = 1
SYMMETRY ExportersAlike
INVARIANTS
    MonthsAreWhole
    CalendarIsRight
    BillIsSound
    HandedOverStays
    QuietBillIsComplete
    DayIsJudged
CHECK_DEADLOCK FALSE
