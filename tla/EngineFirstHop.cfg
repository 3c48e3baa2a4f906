SPECIFICATION Spec
CONSTANTS
    A = A
    B = B
    C = C
    pab = pab
    qab = qab
    pbc = pbc
    rbc = rbc
    xbc = xbc
    pac = pac
    NoPool = NoPool
    Unlimited = Unlimited
    MonitoredRouters <- Routers
    Pools <- EndPools
    PoolOrder <- EndOrder
    Token0 <- EndToken0
    Token1 <- EndToken1
    Protocol <- EndProtocol
    FeeTier <- EndFee
    MaxAmount = 8
    TxShapes <- EndShapes
    MaxTxs = 1
    BlockOffset = 0
    FeedCap = 2
    FeedFaults <- NoFeedFaults
    RpcFails = FALSE
    ExecCap = 1
    MaxTransactions = Unlimited
    OptimizerFails = FALSE
PROPERTIES
    FirstHopPool
CHECK_DEADLOCK FALSE
