SPECIFICATION Spec
CONSTANTS
    Runs = {scheduled, manual}
    Files = {1, 2}
    NoRun = NoRun
    MaxFailures = 1
    MaxStarts = 3
INVARIANT LastCopyKept
CHECK_DEADLOCK FALSE
