SPECIFICATION mcColdSpec
CHECK_DEADLOCK FALSE
CONSTANTS
    alice = alice
    bob = bob
    zero = zero
    x1 = x1
    x2 = x2
    x3 = x3
    x4 = x4
    y = y
    x5 = x5
    o = o
    p = p
    q = q
    r = r
    s = s
    z = z
    u = u
    g = g
    a1 = a1
    a2 = a2
    a3 = a3
    b1 = b1
    c1 = c1
    d1 = d1
    f1 = f1
    m2 = m2
    m4 = m4
    e1 = e1
    e2 = e2
    Txs <- mcTxs
    InputsOf <- mcInputs
    ValuesOf <- mcValues
    AddressesOf <- mcAddresses
    KeyOf <- mcKey
    WellSigned <- mcSigned
    ZeroHash = zero
    IcoAddresses <- mcIco
    ProposerBlocks <- mcBlocks
    Genesis = g
    Parent <- mcParent
    RefsOf <- mcRefs
    TxBlocks <- mcTxBlocks
    ContentOf <- mcContent
    InSortition <- mcSortition
    Miner = miner
    Workers = {w1}
    InFlight <- mcEarlyMail
    StartedUp = FALSE
    MayMine = TRUE
    Attacking = TRUE
    Mineable <- mcAttack
    PooledTxs <- mcEmpty
    PooledTxBlocks <- mcColdBlocks
    NumTx = 10
    NumRef = 10
    MyAddresses = {alice}
    AllAddresses = {alice, bob}
    Commands <- mcColdCommands
INVARIANTS PublishedComplete AttackConfirmsNothing
