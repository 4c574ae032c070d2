SPECIFICATION Spec
CONSTANTS
    OrderId = {o1, o2, o3}
    WalletId = {w1}
    Price = {1, 2}
    QtyLimit = 3
    NoSlot = NoSlot
SYMMETRY IdSymmetry
PROPERTY ImplementsPriorityBook
