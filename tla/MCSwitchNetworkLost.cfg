\* switchnetwork called concurrently by two RPC threads: is every call an
\* atomic negation of the flag?
CONSTANTS
    w1 = w1
    w2 = w2
    Workers <- TwoCallers

SPECIFICATION Spec

PROPERTY TogglesAtomically
