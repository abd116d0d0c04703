CONSTANTS
    N = 6
    Baseline <- AllButLast
    MaxIterations = 2
    Alpha <- DefaultAlpha
    NullWinRate <- DefaultNullWinRate
SPECIFICATION Spec
INVARIANTS
    TypeOK
    GateKeepsEveryBaselineItem
    JudgeNeedsEvidence
    PositionBiasIsNoEvidence
    StopsAtFirstPass
PROPERTIES
    LoopHalts
