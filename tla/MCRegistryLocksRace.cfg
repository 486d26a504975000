\* getnetworkinfo reading vNodes.size() while the socket thread changes vNodes.
CONSTANTS
    w1 = w1
    w2 = w2
    sock = sock
    msg = msg
    Workers <- MCWorkers
    SocketThread = sock
    MessageThread = msg
    MaxPeers = 2
    MaxArgs = 4

SPECIFICATION Spec


INVARIANT NoConcurrentvNodesAccess
