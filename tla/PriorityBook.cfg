SPECIFICATION Spec
CONSTANTS
    OrderId = {o1, o2, o3}
    WalletId = {w1}
    Price = {1, 2}
    QtyLimit = 3
SYMMETRY Symmetry
INVARIANT OneRestingOrderPerId
PROPERTY NobodyIsOvertaken
