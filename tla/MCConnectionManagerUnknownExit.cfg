\* Expected violation: an Exit for a connection already pruned is received
\* in normal operation, contrary to on_exit's "likely a bug" comment.
CONSTANTS
    MaxConn <- MCMaxConn
    MaxBudding <- MCMaxBudding
    ChanCap <- MCChanCap
    QkdMalformed = FALSE
SPECIFICATION Spec
PROPERTY ExitAlwaysKnown
CHECK_DEADLOCK FALSE
