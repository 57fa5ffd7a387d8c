SPECIFICATION Spec
CONSTANTS
    Workers = {w1, w2}
    d1 = d1
    d2 = d2
    bad = bad
    Docs = {d1, d2, bad}
    WellFormed = {d1, d2}
    NoBody = NoBody
    DocumentRoot = TRUE
    Requests <- FewRequests
    MaxRows = 2
    DatabaseMayFail = TRUE
SYMMETRY WorkerSymmetry
INVARIANTS TypeOK CreatedNamesEntry  
CHECK_DEADLOCK FALSE
