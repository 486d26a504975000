-------------------------- MODULE MCRegistryLocks --------------------------
(* Two RPC threads beside the socket and message threads of the node.     *)
EXTENDS RegistryLocks, TLC

CONSTANTS w1, w2, sock, msg

MCWorkers == {w1, w2}

(* The RPC threads are interchangeable: every property quantifies over all *)
(* of them and no action names one.                                        *)
MCSymmetry == Permutations(MCWorkers)
=============================================================================
