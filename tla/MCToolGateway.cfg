SPECIFICATION Spec
CONSTANTS
    w1 = w1
    w2 = w2
    w3 = w3
    p1 = p1
    p2 = p2
    Threads = {w1, w2, w3}
    Procs = {p1, p2}
    Home <- TwoAndOne
    Tools <- PackSample
    NumCalls = 2
    MaxDeliveries = 2
    MaxCrashes = 1
SYMMETRY Symmetry
CHECK_DEADLOCK FALSE
INVARIANTS
    TypeOK
    UnsentRowsTouchedNothing
    OkWritesWerePerformed
    DraftsStayDrafts
    OnePerformancePerDelivery
    NothingLeftPending
    QuarantinedWritesWerePerformed
    SchemaAskedOncePerThread
