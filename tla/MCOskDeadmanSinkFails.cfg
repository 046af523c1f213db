\* A sink whose set_osk may fail: the worker panics, and the key it last
\* installed stays in the sink while the process runs on.
CONSTANTS
    EraseAfter <- MCEraseAfter
    DeadmanCap <- MCDeadmanCap
    Producers <- MCProducers
    SinkMayFail = TRUE
SPECIFICATION Spec
INVARIANT FreshKeyBounded
