\* Two concurrent setban add calls on the same target.
CONSTANTS
    w1 = w1
    w2 = w2
    a1 = a1
    a2 = a2
    Workers <- MCWorkers
    Addr <- MCAddr
    Subnets <- MCSubnets
    MaxPeers = 1
    BanTimes = {0}
    DefaultBanTime = 1
    MaxTime = 0
    TimeBits = 4
    MaxRestarts = 0

SPECIFICATION Spec

PROPERTY BanCheckStillHolds
