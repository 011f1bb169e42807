SPECIFICATION GossipSpec
CHECK_DEADLOCK FALSE
CONSTANTS
    alice = alice
    bob = bob
    carol = carol
    w1 = w1
    w2 = w2
    a1 = a1
    a2 = a2
    b1 = b1
    c1 = c1
    Nodes = {alice, bob}
    Workers = {w1, w2}
    Own <- mcPairOwn
    KnownPeers <- mcPairKnown
    Linked = FALSE
    Settled = {}
    MaxIco = 1
SYMMETRY mcWorkers
INVARIANTS OwnAddressOnce CopiesBounded
