CONSTANTS
    Proposals = {p1, p2}
    Actors = {a1, a2}
    Versions = {v1, v2}
    Decisions = {"approved", "rejected", "expired"}
    None = None
    MaxCalls = 7
    MaxFaults = 1
SPECIFICATION Spec
SYMMETRY Symmetry
INVARIANTS
    TypeOK
    ApprovedNamesGrant
    PromotionsTraceable
    PromotionsAreDecided
PROPERTIES
    ImplementsGovernedVersions
CHECK_DEADLOCK FALSE
