SPECIFICATION Spec
CONSTANTS
    OrderId = {o1, o2, o3}
    WalletId = {w1, w2}
    Price = {1, 2}
    QtyLimit = 3
    NoSlot = NoSlot
SYMMETRY Symmetry
INVARIANTS
    TypeOK
    IndexExact
    FreeListExact
    LinksConsistent
    LevelsExact
    WalletsExact
    AssertInvariants
    LevelsAreChains
