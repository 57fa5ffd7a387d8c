SPECIFICATION FairSpec
CONSTANTS
    Conns = {c1, c2}
    NoConn = NoConn
    TlsEnabled = FALSE
    Hsts = FALSE
    KeepAliveTimeout = 30
    KeepAliveMax = 2
    MaxRequests = 2
    WholeRequests = TRUE
    Pipelining = FALSE
    Outcomes = {"reply", "silent"}
    AcceptMayFail = FALSE
INVARIANTS TypeOK OwnReplies WellFramed KeepAlivePromises AnsweredInOrder
PROPERTY WorkerReturns
