\* A sink that never fails: the age of a Fresh key is bounded.
CONSTANTS
    EraseAfter <- MCEraseAfter
    DeadmanCap <- MCDeadmanCap
    Producers <- MCProducers
    SinkMayFail = FALSE
SPECIFICATION Spec
INVARIANT TypeOK
INVARIANT FreshKeyBounded
