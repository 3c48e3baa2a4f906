SPECIFICATION Spec
CONSTANTS
    A = A
    B = B
    C = C
    pab = pab
    qab = qab
    pbc = pbc
    rbc = rbc
    xbc = xbc
    pac = pac
    NoPool = NoPool
    Unlimited = Unlimited
    MonitoredRouters <- Routers
    Pools <- TwoPools
    PoolOrder <- TwoOrder
    Token0 <- TwoToken0
    Token1 <- TwoToken1
    Protocol <- TwoProtocol
    FeeTier <- TwoFee
    MaxAmount = 8
    TxShapes <- OneShape
    MaxTxs = 2
    BlockOffset = 0
    FeedCap = 2
    FeedFaults <- NoFeedFaults
    RpcFails = FALSE
    ExecCap = 1
    MaxTransactions = Unlimited
    OptimizerFails = FALSE
INVARIANTS
    CheckpointEncoded
CHECK_DEADLOCK FALSE
