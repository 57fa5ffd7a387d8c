SPECIFICATION Spec
CONSTANTS
    Instances = {i1, i2}
    NoOne = NoOne
    NumWorkers = 1
    Pids = {p1, p2, p3, p4}
    NoFile = NoFile
    OldFile = OldFile
    ConcurrentStarts = FALSE
    StartFaults = {}
    MasterMayCrash = FALSE
    OtherProcesses = FALSE
CHECK_DEADLOCK FALSE
INVARIANT PidFileNamesMaster
