---------------------------- MODULE MCAddedNodes ----------------------------
EXTENDS AddedNodes, TLC

CONSTANTS w1, w2, e1, e2, e3, none

MCWorkers == {w1, w2}
MCEndpoints == {e1, e2}
\* the threads are interchangeable: no definition names one of them
MCSymmetry == Permutations(MCWorkers)
=============================================================================
