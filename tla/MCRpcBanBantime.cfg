\* Negative, absolute-past and overflowing bantime arguments.
CONSTANTS
    w1 = w1
    w2 = w2
    a1 = a1
    a2 = a2
    Workers <- MCOneWorker
    Addr <- MCAddr
    Subnets <- MCSubnets
    MaxPeers = 1
    BanTimes <- MCBanTimesAny
    DefaultBanTime = 1
    MaxTime = 2
    TimeBits = 3
    MaxRestarts = 0

SPECIFICATION Spec

INVARIANT BanEntryWellFormed
