SPECIFICATION Spec
CONSTANTS
    OrderId = {o1, o2}
    WalletId = {w1}
    Price = {1}
    QtyLimit = 3
    SyntheticId = {}
INVARIANT StrictMirrorsApplyOp
