CONSTANTS
    s1 = s1
    s2 = s2
    s3 = s3
    s4 = s4
    Signals <- FourSignals
    ChanCap = 2
    StartNonce = 0
    Faults <- AllFaults
    MaxRestarts = 1
SPECIFICATION Spec
SYMMETRY SymFour
INVARIANTS
    TypeOK
    NonceBudget
    NeverTooLow
    OneHeadHolder
    LossStallsWallet
PROPERTY LedgerSpec
CHECK_DEADLOCK FALSE
