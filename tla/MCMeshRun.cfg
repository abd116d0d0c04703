CONSTANTS
    Tasks = {t1}
    Workers = {w1, w2}
    Estimate <- TierEstimate
    Prices = {1, 3}
    MaxCost = 3
    UserCap = 4
    TaskCap = 3
    Durable = TRUE
    MaxDeliveries = 2
    MaxGuesses = 1
    MaxMonths = 1
    MaxFaults = 1
SPECIFICATION Spec
SYMMETRY Symmetry
INVARIANTS
    TypeOK
    OverspendIsBounded
    LedgerAccountsForSpend
    TurnsArePaidPerRun
    HaltsAreAudited
CHECK_DEADLOCK FALSE
