SPECIFICATION FairSpec
CONSTANTS
    A = A
    B = B
    C = C
    pab = pab
    qab = qab
    pbc = pbc
    rbc = rbc
    xbc = xbc
    pac = pac
    NoPool = NoPool
    Unlimited = Unlimited
    MonitoredRouters <- Routers
    Pools <- MixedPools
    PoolOrder <- MixedOrder
    Token0 <- MixedToken0
    Token1 <- MixedToken1
    Protocol <- MixedProtocol
    FeeTier <- MixedFee
    MaxAmount = 8
    TxShapes <- RegistryShapes
    MaxTxs = 2
    BlockOffset = 0
    FeedCap = 2
    FeedFaults <- NoFeedFaults
    RpcFails = TRUE
    ExecCap = 1
    MaxTransactions = Unlimited
    OptimizerFails = TRUE
INVARIANTS
    TypeOK
    UnfetchedInert
    DoublesAreLate
    DeviationsExplained
PROPERTIES
    Bootstraps
    FeedConsumed
CHECK_DEADLOCK FALSE
