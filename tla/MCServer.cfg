SPECIFICATION mcSpec
CHECK_DEADLOCK FALSE
CONSTANTS
    c1 = c1
    c2 = c2
    c3 = c3
    Conns <- mcConns
    None = None
    MaxPeers = 2
    MaxMsgs = 2
INVARIANTS PeerListMatches BroadcastsReachAll
PROPERTIES RefusedOnlyWhenFull QueueIsSent
