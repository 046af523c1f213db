\* A QKD device that may answer with malformed base64: connection tasks can
\* panic without reporting Exit.  Supersession must still hold.
CONSTANTS
    MaxConn <- MCMaxConn
    MaxBudding <- MCMaxBudding
    ChanCap <- MCChanCap
    QkdMalformed = TRUE
SPECIFICATION Spec
PROPERTY SupersessionMonotone
CHECK_DEADLOCK FALSE
