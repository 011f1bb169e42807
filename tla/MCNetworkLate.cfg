SPECIFICATION FairNetworkSpec
CHECK_DEADLOCK FALSE
CONSTANTS
    alice = alice
    bob = bob
    carol = carol
    tb = tb
    g = g
    c1 = c1
    e1 = e1
    e2 = e2
    e3 = e3
    zero = zero
    ZeroHash = zero
    Txs <- mcNone
    InputsOf <- mcEmpty
    ValuesOf <- mcEmpty
    AddressesOf <- mcEmpty
    KeyOf <- mcEmpty
    WellSigned <- mcNone
    IcoAddresses <- mcEmpty
    ProposerBlocks <- mcEmptyBlocks
    Genesis = g
    Parent <- mcEmptyParent
    RefsOf <- mcEmptyRefs
    TxBlocks <- mcNone
    ContentOf <- mcEmpty
    InSortition <- mcEmptyBlocks
    Nodes = {alice, bob, carol}
    Edges <- mcLine
    Linked <- mcPair
    MinedBy <- mcEmptyMinedBy
    Miners = {alice, bob}
    NumRef = 1
    Attackers = {alice, bob}
    AnyNode = carol
PROPERTIES TreeGrowsAsSpecified LateNodeCatchesUp
