SPECIFICATION ReportSpec
CONSTANTS
    Runs = {scheduled, manual}
    Files = {1, 2}
    NoRun = NoRun
    MaxFailures = 1
    MaxStarts = 2
    MaxReports = 1
SYMMETRY Interchangeable
INVARIANTS
    ArchiveIsTrue
    NobodyWaits
    ReportIsHonest
PROPERTIES
    LossNeedsRace
CHECK_DEADLOCK FALSE
