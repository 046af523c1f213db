\* The process exits after its last handle is dropped.
CONSTANTS
    EraseAfter <- MCEraseAfter
    DeadmanCap <- MCDeadmanCap
    Producers <- MCProducers
    SinkMayFail = FALSE
SPECIFICATION Spec
INVARIANT ErasedOnShutdown
