SPECIFICATION mcSpec
CHECK_DEADLOCK FALSE
CONSTANTS
    g = g
    a1 = a1
    a2 = a2
    a3 = a3
    a4 = a4
    b1 = b1
    b2 = b2
    b3 = b3
    c2 = c2
    c3 = c3
    d3 = d3
    e1 = e1
    alice = alice
    bob = bob
    zero = zero
    t1 = t1
    t2 = t2
    t3 = t3
    t4 = t4
    t5 = t5
    t6 = t6
    t7 = t7
    t8 = t8
    t9 = t9
    u1 = u1
    u2 = u2
    u3 = u3
    u4 = u4
    ProposerBlocks <- mcBlocks
    Genesis = g
    Parent <- mcParent
    RefsOf <- mcRefs
    TxBlocks <- mcNone
    ContentOf <- mcNoSeq
    InSortition <- mcBlocks
    Txs <- mcTxs
    InputsOf <- mcInputs
    ValuesOf <- mcValues
    AddressesOf <- mcAddresses
    KeyOf <- mcKey
    WellSigned <- mcTxs
    ZeroHash = zero
    IcoAddresses <- mcIco
    Base = 4
    Half = 2
    Claims <- mcClaims
    Datums = {a1, b1}
    MaxLeaves = 5
INVARIANTS TipIsHighest ChainReachesGenesis SpentForGood OneSpender OneKind MinedIsAccepted
           ProofsAreSound RootBindsLeaves
PROPERTY ForkChoice
