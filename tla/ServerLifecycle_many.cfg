SPECIFICATION Spec
CONSTANTS
    Instances = {i1, i2, i3}
    NoOne = NoOne
    NumWorkers = 1
    Pids = {p1, p2, p3}
    NoFile = NoFile
    OldFile = OldFile
    ConcurrentStarts = TRUE
    StartFaults = {"open"}
    MasterMayCrash = TRUE
    OtherProcesses = FALSE
CHECK_DEADLOCK FALSE
SYMMETRY Interchangeable
INVARIANT OneInstance
