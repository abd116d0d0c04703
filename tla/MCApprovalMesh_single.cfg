SPECIFICATION Spec
CONSTANTS
    Tasks = {t1, t2}
    ReadOnlyTasks = {t1}
    Workers = {w1, w2}
    Handlers = {h1, h2}
    CallIds = {c1, c2, c3}
    Payloads = {p1}
    None = None
    ReadsPerTask = 0
    WritesPerTask = 2
    Reads <- MCReads
    Writes <- MCWrites
    Decisions = {"approved", "rejected"}
    MaxDeliveries = 1
    MaxFaults = 1
SYMMETRY Symmetry
CHECK_DEADLOCK FALSE
INVARIANTS
    OnceInv
    AtMostOnceSent
    RejectedNeverSent
    EveryGatedCallAnswerable
PROPERTIES
    SentOnlyWhileApproved
    LifecycleSpec
