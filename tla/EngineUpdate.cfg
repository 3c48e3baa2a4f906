SPECIFICATION Spec
CONSTANTS
    A = A
    B = B
    C = C
    pab = pab
    qab = qab
    pbc = pbc
    rbc = rbc
    xbc = xbc
    pac = pac
    NoPool = NoPool
    Unlimited = Unlimited
    MonitoredRouters <- Routers
    Pools <- MixedPools
    PoolOrder <- MixedOrder
    Token0 <- MixedToken0
    Token1 <- MixedToken1
    Protocol <- MixedProtocol
    FeeTier <- MixedFee
    MaxAmount = 8
    TxShapes <- OneShape
    MaxTxs = 1
    BlockOffset = 0
    FeedCap = 2
    FeedFaults <- NoFeedFaults
    RpcFails = FALSE
    ExecCap = 1
    MaxTransactions = Unlimited
    OptimizerFails = TRUE
PROPERTIES
    UpdateRegardless
CHECK_DEADLOCK FALSE
