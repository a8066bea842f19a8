SPECIFICATION Spec
CONSTANTS
    OrderKeys = {o1}
    NoOrder = NoOrder
    InitialCapital = 100000050
    LotPrice = 1000000
    FeeNum = 1
    FeeDen = 2
    MaxOrderValue = 100000000
    WNum = 1
    WDen = 1
    OrderLots = {100}
    FillLots = {1, 33}
INVARIANT
    ReconcileRecovers
