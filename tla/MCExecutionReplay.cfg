SPECIFICATION Spec
SYMMETRY Symmetry
CONSTANTS
    OrderKeys = {o1, o2, o3}
    NoOrder = NoOrder
    InitialCapital = 100000050
    LotPrice = 1000000
    FeeNum = 1
    FeeDen = 2
    MaxOrderValue = 100000000
    WNum = 1
    WDen = 1
    OrderLots = {66}
    FillLots = {33}
INVARIANTS
    TypeOK
    OneOpenOrder
    ReservationsMatch
    LiquidationIsFinal
    AccountFollowsBroker
    OnlyDeliveryBreaksChecks
    FlatMeansNoCost
PROPERTY
    MirrorsBroker
