SPECIFICATION Spec
CONSTANTS
    OrderId = {o1, o2, o3}
    SyntheticId = {}
    WalletId = {w1}
    Price = {1, 2}
    QtyLimit = 4
    MaxSnapshot = 1
SYMMETRY Symmetry
INVARIANTS
    RestingNeverCrosses
    RefusalChangesNothing
    NobodyIsTradedThrough
    SubmissionsAddUp
    EstimateForetellsTheMatch
    QueuePositionForetellsTheFill
    NewcomersFindWhatWasForetold
    TopLevelsAreTradedFirst
