SPECIFICATION FairSystemSpec
CONSTANTS
    A = A
    B = B
    pab = pab
    qab = qab
    NoPool = NoPool
    Unlimited = Unlimited
    MonitoredRouters <- Routers
    Pools <- PairPools
    PoolOrder <- PairOrder
    Token0 <- PairToken0
    Token1 <- PairToken1
    Protocol <- PairProtocol
    FeeTier <- PairFee
    MaxAmount = 8
    TxShapes <- AllShapes
    UserTxs <- Users
    MaxUserTxs = 2
    TradeAmount = 2
    MaxTxs = 4
    BlockOffset = 0
    FeedCap = 2
    FeedFaults <- NoFeedFaults
    RpcFails = FALSE
    ExecCap = 1
    MaxTransactions = 2
    OptimizerFails = FALSE
    StartNonce = 0
    Faults <- TradeFaults
INVARIANTS
    DriftIsOwn
PROPERTIES
    EngineSpec
    ManagerSpec
    SignalsSettle
    WindsDown
CHECK_DEADLOCK FALSE
