\* Resets, failed QKD fetches and refused connects, but no silent partition:
\* the peers keep returning to the same key.
CONSTANTS
    NSlots <- MCNSlots
    NumKeys <- MCNumKeys
    MaxFaults <- MCMaxFaults
    HalfOpenPossible = FALSE
SPECIFICATION FairSpec
PROPERTY EventuallyInSync
