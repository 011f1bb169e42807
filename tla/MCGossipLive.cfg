SPECIFICATION mcLiveSpec
CHECK_DEADLOCK FALSE
CONSTANTS
    alice = alice
    bob = bob
    carol = carol
    w1 = w1
    w2 = w2
    a1 = a1
    a2 = a2
    b1 = b1
    c1 = c1
    Nodes = {alice, bob, carol}
    Workers = {w1}
    Own <- mcLineOwn
    KnownPeers <- mcLineKnown
    Linked = TRUE
    Settled = {alice}
    MaxIco = 0
PROPERTIES AddressesSpread IcoSpreads
