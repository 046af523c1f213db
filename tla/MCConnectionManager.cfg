\* Well-formed QKD replies: the manager's bookkeeping and supersession.
CONSTANTS
    MaxConn <- MCMaxConn
    MaxBudding <- MCMaxBudding
    ChanCap <- MCChanCap
    QkdMalformed = FALSE
SPECIFICATION Spec
INVARIANT TypeOK
INVARIANT BuddingBound
INVARIANT NoOrphanTask
INVARIANT NoGhostConnection
INVARIANT PromotableAreNewer
\* Once MaxConn connections have come and gone the server idles in accept().
CHECK_DEADLOCK FALSE
