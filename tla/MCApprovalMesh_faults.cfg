SPECIFICATION Spec
CONSTANTS
    Tasks = {t1}
    ReadOnlyTasks = {}
    Workers = {w1, w2}
    Handlers = {h1}
    CallIds = {c1, c2}
    Payloads = {p1}
    None = None
    ReadsPerTask = 0
    WritesPerTask = 1
    Reads <- MCReads
    Writes <- MCWrites
    Decisions = {"approved", "rejected"}
    MaxDeliveries = 2
    MaxFaults = 1
SYMMETRY Symmetry
CHECK_DEADLOCK FALSE
INVARIANTS
    OnlyApprovedPayloadsSent
    ExecutedRowsWereSent
    ApprovedStateHasDecision
    ParkedIsAnswerable
    SendsBelowDeliveries
