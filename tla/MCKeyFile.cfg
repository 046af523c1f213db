\* However the reads are split, a key is only loaded from the whole text.
CONSTANTS
    MaxKeyBytes <- MCMaxKeyBytes
    MaxTextLen <- MCMaxTextLen
    MaxTail <- MCMaxTail
SPECIFICATION Spec
INVARIANT WholeTextLoaded
\* Loading the file returns: nothing is left to do.
CHECK_DEADLOCK FALSE
