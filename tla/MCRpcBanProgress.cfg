\* Termination of the handlers: one RPC thread against two connections
\* that the socket thread flags and erases, with other peers connecting
\* and misbehaviour bans landing while a setban loop runs.
CONSTANTS
    w1 = w1
    w2 = w2
    a1 = a1
    a2 = a2
    Workers <- MCOneWorker
    Addr <- MCAddr
    Subnets <- MCSubnets
    MaxPeers = 2
    BanTimes = {0}
    DefaultBanTime = 1
    MaxTime = 0
    TimeBits = 4
    MaxRestarts = 0

SPECIFICATION Spec

PROPERTY CallsReturn
