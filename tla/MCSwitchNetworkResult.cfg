\* switchnetwork called concurrently by two RPC threads: does each call
\* return the state it set?
CONSTANTS
    w1 = w1
    w2 = w2
    Workers <- TwoCallers

SPECIFICATION Spec

PROPERTY ReturnsNewState
