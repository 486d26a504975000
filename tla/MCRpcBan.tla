----------------------------- MODULE MCRpcBan -----------------------------
(* Instantiates RpcBan for TLC: two RPC threads, two addresses and the     *)
(* subnet that holds both, three connections over a behaviour.            *)
EXTENDS RpcBan, TLC

CONSTANTS w1, w2, a1, a2

MCWorkers == {w1, w2}
MCOneWorker == {w1}
\* bantime arguments a caller may pass: negative, and large enough that
\* now + bantime overflows the 3-bit timestamps of MCRpcBanBantime.cfg
MCBanTimesAny == {-1, 0, 3}
MCAddr == {a1, a2}
\* the two RPC threads are interchangeable: every action is quantified over
\* Workers and no definition names one of them (safety runs only)
MCWorkerSymmetry == Permutations(MCWorkers)
MCSubnets == {{a1, a2}}
=============================================================================
