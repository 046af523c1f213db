\* Silent partitions, with TCP's retransmission timeout: two partitions
\* leave the peers on different keys for good.  An end with nothing
\* unacknowledged then blocks in a read with no timeout, so the system
\* really stops: deadlock is not an error.
CONSTANTS
    NSlots <- MCNSlots
    NumKeys <- MCNumKeys
    MaxFaults <- MCMaxFaults
    HalfOpenPossible = TRUE
SPECIFICATION FairSpec
PROPERTY EventuallyInSync
CHECK_DEADLOCK FALSE
