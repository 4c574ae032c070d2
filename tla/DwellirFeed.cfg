SPECIFICATION Spec
CONSTANTS
    OrderId = {o1, o2}
    SyntheticId = {}
    WalletId = {w1}
    Price = {1}
    QtyLimit = 5
    Grain = 2
    WireSide = {"Bid", "Ask"}
    WireSize = {1, 2, 3, 4}
    MaxDiffs = 3
SYMMETRY Symmetry
CHECK_DEADLOCK FALSE
INVARIANTS
    ReplicaIsTheVenue
    OnlyTheUnseenAreRefused
    CausesTellFillsFromCancels
