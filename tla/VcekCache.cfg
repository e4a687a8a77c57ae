SPECIFICATION RetrySpec
CONSTANTS
    Run = {r1, r2}
    Chip = {chip}
    Tcb = {t1, t2}
    Pieces = 3
    Hole = Hole
    Absent = Absent
INVARIANTS
    TypeOK
    ReturnsWanted
    SettledFilesWhole
    FailureHasCause
PROPERTIES
    NeverRepaired
    RetriesSucceed
