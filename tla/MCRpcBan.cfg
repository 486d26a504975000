\* setban/clearbanned/listbanned/disconnectnode on two RPC threads, with
\* peers connecting, dropping and being erased by the socket thread,
\* misbehaviour bans, a clock that lets the default ban expire, and one
\* process restart at any point.
CONSTANTS
    w1 = w1
    w2 = w2
    a1 = a1
    a2 = a2
    Workers <- MCWorkers
    Addr <- MCAddr
    Subnets <- MCSubnets
    MaxPeers = 1
    BanTimes = {0}
    DefaultBanTime = 1
    MaxTime = 1
    TimeBits = 4
    MaxRestarts = 1

SPECIFICATION Spec
SYMMETRY MCWorkerSymmetry

INVARIANT TypeOK
INVARIANT DurableWhenQuiet
INVARIANT AckedBansSurviveRestart
