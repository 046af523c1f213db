\* Every fault, silent partitions included: the roles stay in lockstep.
\* After a silent partition an end with nothing unacknowledged blocks in a
\* read that has no timeout, so the system really stops: deadlock is not an
\* error.
CONSTANTS
    NSlots <- MCNSlots
    NumKeys <- MCNumKeys
    MaxFaults <- MCMaxFaults
    HalfOpenPossible = TRUE
SPECIFICATION Spec
INVARIANT RoundLockstep
CHECK_DEADLOCK FALSE
