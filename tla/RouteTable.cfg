SPECIFICATION Spec
CONSTANTS
    Paths = {p1, p2, p3, p4}
    Handlers = {h1, h2}
    NoHandler = NoHandler
    MaxRoutes = 3
INVARIANTS TypeOK NoDuplicatePath
PROPERTY ImplementsMap
