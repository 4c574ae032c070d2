SPECIFICATION Spec
CONSTANTS
    OrderId = {v1, v2, s1, s2}
    SyntheticId = {s1, s2}
    WalletId = {w1}
    Price = {1, 2}
    QtyLimit = 2
    MaxSnapshot = 2
SYMMETRY Symmetry
INVARIANTS
    PreserveIsAtomic
    RefusedReplaceKeepsTheBeginning
    LocalOrdersGoBehindTheVenue
