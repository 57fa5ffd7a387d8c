SPECIFICATION FairSpec
CONSTANTS
    Conns = {c1, c2}
    NoConn = NoConn
    TlsEnabled = TRUE
    Hsts = TRUE
    KeepAliveTimeout = 30
    KeepAliveMax = 1
    MaxRequests = 2
    WholeRequests = TRUE
    Pipelining = TRUE
    Outcomes = {"reply"}
    AcceptMayFail = FALSE
INVARIANT OwnReplies
PROPERTIES WorkerReturns EveryoneAccepted
