\* A well-formed short key must be rejected with an error.
CONSTANTS
    MaxKeyBytes <- MCMaxKeyBytes
    MaxTextLen <- MCMaxTextLen
    MaxKeys <- MCMaxKeys
SPECIFICATION Spec
INVARIANT ShortKeyIsError
\* One fetch is one call: it returns and the model has nothing left to do.
CHECK_DEADLOCK FALSE
