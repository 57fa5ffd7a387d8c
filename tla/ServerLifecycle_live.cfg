SPECIFICATION FairSpec
CONSTANTS
    Instances = {i1}
    NoOne = NoOne
    NumWorkers = 2
    Pids = {p1, p2, p3, p4}
    NoFile = NoFile
    OldFile = OldFile
    ConcurrentStarts = FALSE
    StartFaults = {"init", "fork"}
    MasterMayCrash = TRUE
    OtherProcesses = TRUE
CHECK_DEADLOCK FALSE
INVARIANTS TypeOK PidFileNamesMaster NoWorkerLeft
PROPERTIES MasterFollowsWorkers StopsAtWorkerExit StaleFileIsReplaced
