\* Expected violation: a panicking connection task leaves a ghost entry.
CONSTANTS
    MaxConn <- MCMaxConn
    MaxBudding <- MCMaxBudding
    ChanCap <- MCChanCap
    QkdMalformed = TRUE
SPECIFICATION Spec
INVARIANT NoGhostConnection
CHECK_DEADLOCK FALSE
