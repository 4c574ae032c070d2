SPECIFICATION Spec
CONSTANTS
    OrderId = {o1, o2, o3}
    WalletId = {w1}
    Price = {1}
    QtyLimit = 3
    SyntheticId = {}
    NoId = NoId
    MaxDamaged = 2
SYMMETRY Symmetry
INVARIANTS
    DamageIsConfined
    OnlyTheDamagedAreTolerated
