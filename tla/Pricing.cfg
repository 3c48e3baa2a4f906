SPECIFICATION Spec
CONSTANTS
    p1 = p1
    p2 = p2
    p3 = p3
    v3 = v3
    bc = bc
    ac = ac
    WordBits = 30
    TenK = 100
    Q96 = 8
    OneK = 10
    L1Fee = 0
    PairRounds = 40
    CycleRounds = 45
    Pools <- SixPools
    Pair <- SixPairs
    Protocol <- SixKinds
    FeeTier <- SixTiers
    InitialReserves <- FewReserves
    Amounts <- FewAmounts
    GasPrices = {0, 1}
    GasEstimateLimit = 1
    MinProfitWei = 1
    Cycles <- BothWays
    MaxSwaps = 2
INVARIANTS
    TypeOK
    RootIsFloor
    SignalHolds
    NothingMissed
    SearchNearBest
    PriceKeepsValue
PROPERTY ProductNeverShrinks
CHECK_DEADLOCK FALSE
