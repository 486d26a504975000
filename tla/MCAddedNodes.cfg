\* Two RPC threads calling addnode and getaddednodeinfo over three
\* endpoints, with peers connecting and going away.
CONSTANTS
    w1 = w1
    w2 = w2
    e1 = e1
    e2 = e2
    e3 = e3
    none = none
    Workers <- MCWorkers
    Endpoints <- MCEndpoints
    NoFilter = none
SPECIFICATION Spec
SYMMETRY MCSymmetry
INVARIANT TypeOK
PROPERTY ImplementsAddedNodeSet
