SPECIFICATION mcLiveSpec
CHECK_DEADLOCK FALSE
CONSTANTS
    alice = alice
    bob = bob
    zero = zero
    x1 = x1
    x2 = x2
    x3 = x3
    x4 = x4
    y = y
    x5 = x5
    o = o
    p = p
    q = q
    r = r
    s = s
    z = z
    u = u
    g = g
    a1 = a1
    a2 = a2
    a3 = a3
    b1 = b1
    c1 = c1
    d1 = d1
    f1 = f1
    m2 = m2
    m4 = m4
    e1 = e1
    e2 = e2
    Txs <- mcLiveTxs
    InputsOf <- mcLiveInputs
    ValuesOf <- mcLiveValues
    AddressesOf <- mcLiveAddresses
    KeyOf <- mcLiveKey
    WellSigned <- mcLiveTxs
    ZeroHash = zero
    IcoAddresses <- mcIco
    ProposerBlocks <- mcLiveBlocks
    Genesis = g
    Parent <- mcLiveParent
    RefsOf <- mcLiveRefs
    TxBlocks <- mcLiveTxBlocks
    ContentOf <- mcLiveContent
    InSortition <- mcLiveSortition
    Miner = miner
    Workers = {w1}
    InFlight <- mcLiveMail
    StartedUp = TRUE
    MayMine = FALSE
    Attacking = FALSE
    Mineable <- mcEmpty
    PooledTxs <- mcEmpty
    PooledTxBlocks <- mcLiveTxBlocks
    NumTx = 10
    NumRef = 10
    MyAddresses = {alice}
    AllAddresses = {alice, bob}
    Commands <- mcStartAndLook
PROPERTIES CatchesUp OrphansAreAdopted EveryCoinOffered
