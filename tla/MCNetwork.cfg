SPECIFICATION FairNetworkSpec
CHECK_DEADLOCK FALSE
CONSTANTS
    alice = alice
    bob = bob
    carol = carol
    tb = tb
    g = g
    c1 = c1
    e1 = e1
    e2 = e2
    e3 = e3
    zero = zero
    ZeroHash = zero
    Txs <- mcNone
    InputsOf <- mcEmpty
    ValuesOf <- mcEmpty
    AddressesOf <- mcEmpty
    KeyOf <- mcEmpty
    WellSigned <- mcNone
    IcoAddresses <- mcEmpty
    ProposerBlocks <- mcOneBlock
    Genesis = g
    Parent <- mcOneParent
    RefsOf <- mcOneRefs
    TxBlocks <- mcOneTxBlock
    ContentOf <- mcOneContent
    InSortition <- mcOneSortition
    Nodes = {alice, bob, carol}
    Edges <- mcTriangle
    Linked <- mcTriangle
    MinedBy <- mcOneMinedBy
    Miners = {alice, carol}
    NumRef = 1
    Attackers = {alice}
    AnyNode = carol
INVARIANTS TxBlocksComeFirst
PROPERTY BlocksSpread
