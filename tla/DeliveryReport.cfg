SPECIFICATION ReportSpec
CONSTANTS
    Candidates <- Both
    Owners <- ThreeOwners
    MaxFiles = 4
    MaxFailures = 1
INVARIANTS
    ReportIsExact
    CleanFiguresAreRight
    QuietMeansOrderFree
CHECK_DEADLOCK FALSE
