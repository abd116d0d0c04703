SPECIFICATION FairSpec
CONSTANTS
    Tasks = {t1}
    ReadOnlyTasks = {}
    Workers = {w1, w2}
    Handlers = {h1, h2}
    CallIds = {c1, c2}
    Payloads = {p1}
    None = None
    ReadsPerTask = 0
    WritesPerTask = 2
    Reads <- MCReads
    Writes <- MCWrites
    Decisions = {"approved", "rejected"}
    MaxDeliveries = 1
    MaxFaults = 0
CHECK_DEADLOCK FALSE
PROPERTIES
    DispatchedSettles
    ApprovedSettles
