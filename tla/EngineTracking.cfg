SPECIFICATION Spec
CONSTANTS
    A = A
    B = B
    C = C
    pab = pab
    qab = qab
    pbc = pbc
    rbc = rbc
    xbc = xbc
    pac = pac
    NoPool = NoPool
    Unlimited = Unlimited
    MonitoredRouters <- Routers
    Pools <- TwoPools
    PoolOrder <- TwoOrder
    Token0 <- TwoToken0
    Token1 <- TwoToken1
    Protocol <- TwoProtocol
    FeeTier <- TwoFee
    MaxAmount = 8
    TxShapes <- TrackedShapes
    MaxTxs = 3
    BlockOffset = 0
    FeedCap = 1
    FeedFaults <- AllFeedFaults
    RpcFails = FALSE
    ExecCap = 1
    MaxTransactions = 2
    OptimizerFails = FALSE
INVARIANTS
    CheckpointDominates
    StreamInOrder
    Tracks
    DoublesAreLate
    ExactlyN
CHECK_DEADLOCK FALSE
