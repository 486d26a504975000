\* Two RPC threads running any of the handlers with 0 to 4
\* arguments, the socket thread opening and deleting up to two peers, the
\* message thread sending pings.
CONSTANTS
    w1 = w1
    w2 = w2
    sock = sock
    msg = msg
    Workers <- MCWorkers
    SocketThread = sock
    MessageThread = msg
    MaxPeers = 2
    MaxArgs = 4

SPECIFICATION Spec
SYMMETRY MCSymmetry

INVARIANT NoWaitCycle
INVARIANT PeerStatsHaveState
INVARIANT HelpOnlyWhenMalformed
