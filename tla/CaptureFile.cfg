SPECIFICATION FileSpec
CONSTANTS
    OrderId = {o1, o2}
    SyntheticId = {}
    WalletId = {w1}
    Price = {1}
    QtyLimit = 5
    Grain = 2
    WireSide = {"Bid"}
    WireSize = {1, 2, 4}
    MaxDiffs = 2
    MaxLines = 4
    MaxFileDiffs = 3
SYMMETRY Symmetry
CHECK_DEADLOCK FALSE
INVARIANTS
    ReplayEndsAsLive
    OnlyBadSnapshotsStopTheReplay
    StatsAccountForEveryDiff
