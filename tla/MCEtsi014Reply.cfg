\* The code yields a key for exactly the replies the spec accepts.
CONSTANTS
    MaxKeyBytes <- MCMaxKeyBytes
    MaxTextLen <- MCMaxTextLen
    MaxKeys <- MCMaxKeys
SPECIFICATION Spec
INVARIANT AcceptsExactlySpec
\* One fetch is one call: it returns and the model has nothing left to do.
CHECK_DEADLOCK FALSE
