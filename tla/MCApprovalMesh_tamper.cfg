SPECIFICATION Spec
CONSTANTS
    Tasks = {t1}
    ReadOnlyTasks = {}
    Workers = {w1}
    Handlers = {h1}
    CallIds = {c1, c2}
    Payloads = {p1, p2}
    None = None
    ReadsPerTask = 0
    WritesPerTask = 1
    Reads <- MCReads
    Writes <- MCWrites
    Decisions = {"pending", "approved", "rejected", "expired"}
    MaxDeliveries = 2
    MaxFaults = 1
SYMMETRY Symmetry
CHECK_DEADLOCK FALSE
INVARIANTS
    IInv
PROPERTIES
    ImplementsGatedWrites
