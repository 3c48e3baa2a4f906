SPECIFICATION Spec
CONSTANTS
    s1 = s1
    s2 = s2
    s3 = s3
    s4 = s4
    Signals <- ThreeSignals
    ChanCap = 2
    StartNonce = 0
    Faults <- ConditionFault
    MaxRestarts = 0
PROPERTY RevertFreesOwnNonce
CHECK_DEADLOCK FALSE
