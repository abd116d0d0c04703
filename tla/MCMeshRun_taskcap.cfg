CONSTANTS
    Tasks = {t1, t2}
    Workers = {w1, w2}
    Estimate <- TierEstimate
    Prices = {1}
    MaxCost = 2
    UserCap = 6
    TaskCap = 3
    Durable = TRUE
    MaxDeliveries = 1
    MaxGuesses = 0
    MaxMonths = 0
    MaxFaults = 0
SPECIFICATION Spec
SYMMETRY Symmetry
CHECK_DEADLOCK FALSE
INVARIANTS
    TaskCapHolds
