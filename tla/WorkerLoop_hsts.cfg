SPECIFICATION Spec
CONSTANTS
    Conns = {c1, c2}
    NoConn = NoConn
    TlsEnabled = TRUE
    Hsts = TRUE
    KeepAliveTimeout = 30
    KeepAliveMax = 2
    MaxRequests = 2
    WholeRequests = FALSE
    Pipelining = FALSE
    Outcomes = {"reply", "silent", "crash"}
    AcceptMayFail = TRUE
SYMMETRY ClientSymmetry
INVARIANTS SafetyInv WellFramed
PROPERTY PeersDoNotEndWorker
CHECK_DEADLOCK FALSE
