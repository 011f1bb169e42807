# A verification project for SimplifiedPrism

SimplifiedPrism is a blockchain node in Rust that separates two kinds of
blocks, after Prism: *transaction blocks* carry transactions, *proposer blocks*
carry references to transaction blocks and form the block tree. This directory
holds TLA+ modules of the node, the TLC configurations that check them on small
instances, and TLAPS proofs of their main properties for all instances.
Paths like `worker.rs:468` are under `src/src/` or `src/src/network/`.

## 1. The system

| Part | Source | State | Operations |
|---|---|---|---|
| Block tree | `blockchain.rs` | `blocks`, `heights`, `longest`, `tip_node_hash` | `new`, `insert`, `tip`, `all_blocks_in_longest_chain` |
| Blocks, transactions | `block.rs`, `transaction.rs` | none (values) | hashing, `sign`, `verify` |
| Workers | `network/worker.rs` | shared maps, see below | one handler per `Message`, `new_parent` |
| Miner | `miner.rs` | operating state; candidate block | `miner_loop`, `miner_loop_attacker`, `Start`, `Exit` |
| Generator (wallet) | `generator.rs` | own keys, operating state, last tip | addresses, ICO, one transaction per owned coin at every new tip, balance |
| Server | `network/server.rs` | slab of peers, `peer_list` | connect, accept, broadcast, removal, event loop |
| Peer | `network/peer.rs` | read and write cursors | length-prefixed framing over partial I/O |
| Messages | `network/message.rs` | none | eleven kinds of messages |
| API | `api/mod.rs` | none | URL to control signal |
| Start-up | `main.rs` | creates everything | order in which the threads start |
| Merkle tree, hashes, keys | `crypto/` | none | root, order of hashes, key pairs |

**How they interact.** `main` creates eight structures, each in an
`Arc<Mutex<_>>` of its own: `blockchain`, `orphan_handler`, `tx_pool`,
`glob_state` (proposer block -> ledger state), `tx_block_pool`, `tx_block_ref`
(proposer block -> transaction blocks referenced up to it), `all_addr`,
`my_addr_key`. Several worker threads, the miner thread and the generator thread
work on them. No thread ever holds two of these locks except where a pool is
scanned; a handler takes and releases a lock per statement. Workers receive
`(bytes, peer)` pairs from one channel that the server thread fills; they
answer with `peer.write` and announce with `server.broadcast`.

**What is hard.** (1) A handler is a chain of short critical sections, and
other threads run between any two of them. (2) A block's entries in three maps
appear one after the other. (3) `HashMap` indexing panics on a missing key; the
thread dies and, since it holds the guard, poisons the mutex, so that every
`lock().unwrap()` of it panics from then on. (4) Messages of different peers,
and of one peer handled by different workers, come in any order: children before
parents, proposer blocks before the transaction blocks they reference, anything
before the ICO. (5) A transaction may be confirmed any number of times, together
with conflicting ones: blocks are not checked against the ledger, only the
ledger update skips what is spent. (6) The candidate block of the miner is put
together under five locks while the tip moves. (7) Nodes start, connect and announce
in any order, and each announcement is made once, to the peers of the moment.
(8) The server handles events in batches and names peers by keys that are used again:
by the time an event is handled its peer may be gone, or its key another's. (9) An
operator gives commands at any time, the ICO among them, over a stateless API.

**What makes it correct, part by part.**

- *Block tree*: the tip is a highest block; it moves to strictly higher new
  blocks only; the walk from the tip ends at the genesis block.
- *Ledger*: a coin is spent once and for good, by one transaction; money is
  neither made nor lost; on every fork.
- *Workers*: a block in the tree has all its entries, they do not change, and
  are those its parent's entries give, as if under one lock; messages in a bad
  order may kill a thread, but not the ledger; every announced block joins the
  tree; every buffered orphan is adopted.
- *Miner*: what is mined fits the tip that was read first.
- *Generator*: what it makes is admissible at the tip it read; a coin is given out once
  per tip; every coin gets its turn; its commands, the ICO apart, leave the ledger of
  every block alone.
- *Addresses and ICO*: a node has its own addresses once and a bounded number of copies of
  others'; addresses spread; every connected node gets the ICO.
- *Attacker*: its blocks extend what it read and confirm nothing.
- *Peer, server*: a message is delivered whole, in order, once; no wake-up is
  lost; a closed peer is forgotten everywhere, and whoever gets its key is given every
  broadcast from then on.
- *Network*: every block reaches every node, through relays, also a node that connects
  late; a block comes after the transaction blocks it references, unless the two threads of
  some node have announced them the wrong way round.
- *Sortition*: what a miner makes passes the check of a worker, as one kind of block.
- *Merkle tree*: a proof verifies at its leaf and nowhere else; a root stands for its leaves.

PROJECT.json lists the hazards with their lines and the property for each.

## 2. The modules

```
Transaction   transactions, ledger states, admission, the effect of a transaction
  Ledger        one ledger state under confirmations in any order
  Block         blocks; effect of a block on its parent's state and references
    Blockchain    the block tree, insert, fork choice
      Node          worker threads and miner thread over the shared maps
        NodeProperties   what a node owes its readers
          Wallet           the generator thread and the operator's commands on top
    Network       nodes that exchange blocks; each has a Blockchain (INSTANCE)
Gossip        nodes that start, connect, tell their addresses and pass on the ICO
Server        the server thread: slab, peer_list, control queue, batches of events
Fifo          abstract: messages come out whole, once and in order
  Connection    framing over partial I/O and edge-triggered events
AtomicChain   abstract: a block joins the tree with state and references at once
Sortition     the order of hashes, which block a hash makes, who accepts it
Merkle        the Merkle tree, its proofs and their verification
Folding       facts about folds, sums and recursions over chains of parents
  StructureProofs (Sortition, Ledger, Blockchain, Merkle)
    NodeProofs      WalletProofs
  NetworkProofs   ConnectionProofs
GossipProofs, ServerProofs                                       theorems
MCStructures (Blockchain, Ledger, Sortition and Merkle, one at a time), MCNode, MCWallet,
MCConnection, MCGossip, MCServer, MCNetwork                      instances for TLC
```

**Transaction.** A transaction is a model value; `InputsOf`, `ValuesOf`,
`AddressesOf`, `KeyOf` and `WellSigned` are its fields and the verdict of
`verify`. A coin is `<<transaction, index>>`, the key of the `HashMap` of
worker.rs:24. The value and the address stored under a key are those written in
the transaction it names and never change, so they are functions of the key
(`Value`, `Owner`) and a ledger state is the set of the keys it has, the unspent
coins. `ApplyTx` is the update loop of worker.rs:433-442 and
miner.rs:252-264, `Admissible` the checks of worker.rs:230-271 with their
peculiarities (`input_sum` is the value of the *last* input). `TxAssumption`
says what holds of every transaction that `generator.rs` makes: the input coin is
listed once per output. `OutputAssumption` types the outputs; only the runs use
it. That the outputs sum up to the input is not assumed: `MoneyKept` shows what happens to
the money of the instances' transactions, which but for `x5` are made like the generator's.

**Block.** A block stands for its hash. `InSortition` is the set of blocks that
pass the proof-of-work check of their handler. `LedgerAfter` and `RefsAfter` are
what worker.rs:415-444 computes from the parent's entries. That a hash names one block
(`BlockAssumption`) is assumed of the peers: a header has the Merkle roots of its content, but no
handler compares them (worker.rs:295-311, 354-365).

**Blockchain.** `Insert` is `Blockchain::insert`, `LongestChain` is
`all_blocks_in_longest_chain` with its fixed number of steps. Both indexing
panics (`heights[&parent]`) and the parent's presence are the caller's matter,
as in the code; `NodeProofs!TreeRefinement` shows that the callers see to it.

**Node.** Every shared structure is a variable; `local[t]` holds the program
counter and the local variables of thread `t`. *An action is what a thread does
from one lock acquisition to the next*, and the program counter names the
acquisition that comes next, so all interleavings of critical sections are
there. Acquisitions are merged only where the structure just grows (the
signature loop over `tx_block_pool`, the ledger update), or where `contains_key` is followed by
`remove` of the same key. `Locks(t)` gives the mutexes of the next action and
`KeyMissing(t)` the map it would index without the key: `At(t, l)` requires
neither a poisoned mutex nor a missing key, `IndexPanics` and `LockPanics` are
the other outcomes. `new_parent` is recursive in the code (a block inserted
there is itself looked up in the orphan buffer before the next orphan); `todo`
is the concatenation of the vectors of all the calls on the stack, the innermost
first, which is all the recursion needs. `inbox` is a bag of messages: the
channel and what the peers have in flight. An announcement of something unknown
and the request for a missing parent put the peer's answer there.

The miner thread runs `miner_loop` or, with `Attacking`, `miner_loop_attacker`,
which leaves out the pool of transactions, the references and the ledger update,
and mines a proposer block over an empty list; `Loop(honest, attacker)` gives the
program counter that comes next in either. A hash below a difficulty is a choice
among `Mineable` blocks. `Exit` is left out: nothing in the program calls
`Handle::exit`.

**AtomicChain** has no threads and no locks: `AddBlock` extends tree, ledger
states and references in one step and moves the tip if the block is higher than
every block of the tree. `NodeProperties!AtomicSpec` instantiates it with the
node's maps restricted to blocks of the tree: what a thread has written for a
block that is not in the tree yet is invisible.

**Connection** is one direction of a TCP connection: the queue and the
`WriteContext` of the sender, the bytes in the sockets, the `ReadContext` of the
receiver, and the two event loops as far as they concern this connection. A
message is a sequence of bytes; it travels as its length and its bytes. `Flush`,
`WriteThrough`, `Fill` and `ReadThrough` move any number of bytes, `WriteBlocks` and
`ReadBlocks` are `WouldBlock`. `events` holds what `mio` has raised and the loop has
not handled: a registration raises an event if there is something at that
moment, later only something new does. `queue_armed` and `write_armed` are the
registrations that server.rs:150, 210 and 217 change. BufWriter, BufReader,
sockets and `mio` are external and modelled by their documented behaviour.
**Fifo** is what the workers rely on: `Link` maps `sent` and `delivered` to it.

**Gossip** is the time before the first block. Every node has its connect thread, which
goes through the known peers and tries each until it answers (`RequestConnect`,
`ProcessConnect`), its server with the control queue, the backlog of the listening
socket and the peers, its workers with the three critical sections of `NewAddr`
(`CheckAddress`, `PushAddress`, `RelayAddresses`) and the two of `ICO`, and the
generator, which makes its addresses one by one and tells all it knows each time.
`all_addr` is the vector of the code; the ICO is the vector of the addresses its
coins go to, coin by coin. A connection is a queue each way. `Linked` and `Settled`
start a run later: connections are there, generators have told their addresses to
nobody, which is where a node that connects late really is.

**Wallet** adds the generator thread of one node to `Node`, with the same
granularity: an action goes to the next lock acquisition, a missing key or a poisoned
mutex kills the thread. `Command` takes a signal as the API sends it; a running thread goes
on with its pass afterwards, a paused one waits for the next (`Resume`). The pass reads
the tip, compares it with the last one, reads its ledger state and adds one transaction
per owned coin in any order. `Made` is the shape of generator.rs:289-331: the coin
listed twice, something to anybody, the rest to its owner. Which amounts and
receivers there are is bounded by `Txs`. `my_addr_key` and `all_addr` are constants here, since they only
change in the phase that `Gossip` models. `Paused` and `Exit` are left out: no URL and
no other code sends them.

**Server** is the server thread of one node with everything around it that mio turns
into events. `peers` is the slab, `vacant` its list of free keys (the `slab` crate
hands out the one freed last), `peer_list` the vector that broadcast goes through. `Poll`
takes all that was raised into a batch, in any order; then each event is handled, a socket's
flags one by one. What the bytes are is `Connection`'s matter: a read or a write here succeeds,
blocks or ends the connection. `RegisterWriteInterest` and `QueuePanics` are the
two outcomes of line 146. `AcceptFails` is the `?` of the accept loop, which ends the
thread. The error paths of `register` (server.rs:76-90: `mio` or the clone of the socket fails) are
left out: they drop the connection before anything has changed, and no property speaks of them.

**Network** composes nodes, each with two threads, a worker and a miner. A block joins the maps in one
step (`NodeProofs!Refinement` shows that it does so as far as readers of the tree can tell), but
its announcement is another: what a thread has stored is its `news`, and `Broadcast` puts that
into the control queue before the thread goes on, so that the other thread can run in between
(worker.rs:331 and 334, 468 and 471, miner.rs:289 and 291, 322 and 325). The miner reads the tip
(`ReadTip`), scans the pool for at most `NumRef` transaction blocks that the chain of that tip does not
reference (`PickTxBlocks`), finds a block or none (`MineNothing`, `MineTxBlock`, `MineProposerBlock`)
and inserts it (`InsertMined`), each in a step of its own: pool and tip may have moved. `Attackers`
run the other loop, `Miners` are those told to start.
Announcements go through the control queue to all peers,
requests and answers to one peer, and a connection keeps their order. What
`Node` has to assume of its peers, that a request is answered, is what
`GetProposerBlocks` and `GetTransactionBlocks` do here. `new_parent` is `Adopt`, one block
a step from `todo`, innermost call first as in `Node`. There is one worker per node, as
with `--p2p-workers 1`; the default is eight, which `Node` is for. `early` is a history variable: the
pairs of a proposer block and a transaction block referenced up to it that a node announced in the
wrong order, one thread between the other's insertion and announcement. Ledger states are
left out: no handler of this module reads them. `AnyNode` is one of the nodes, and
`Tree` looks at its tree as a `Blockchain`; the run takes the node that comes late,
the theorem any.

**Sortition** has hashes of `2 * Half` digits to the base `Base`, compared by halves as `H256`
compares its two `u128`. `Mine` and `Receive` are the decisions of the miner and the worker. Both
take the difficulties from the header itself, which nobody compares with its parent's:
`Claims` are the pairs that headers may name.
**Merkle** has the vector of all nodes with the offsets of its levels, as `new` fills it and `proof` reads it;
SHA-256 is a constructor.

## 3. The runs

| Run | Instance | Question | States |
|---|---|---|---|
| `structures` | 12 blocks, forks at three depths, all orders of insertion and repetitions; 13 transactions, up to two spenders per coin, confirmed in any order, any number of times; all 256 hashes of 4 digits to the base 4 with each of four pairs of difficulties, digits on both sides, equal and inverted ones; all pairs of lists of up to 5 of 2 datums | tip, fork choice, walk to the genesis block; spent for good, one spender; kinds of blocks, acceptance; proofs, roots | 12 500 |
| `node` | 2 workers and one of four situations. *Start*: the ICO from two peers and a block come while the miner thread starts and mines. *Workers*: a block announced by two peers, two children that may come first, its transaction block late. *Forks*: a chain of three blocks and forks with conflicting and repeated transactions, a wrongly signed one, a failed proof of work. *Pool*: transactions offered, asked for, confirmed and pruned at once | maps as if under one lock; entries never change; panics spare a warm ledger; money and single spending on every fork | 149 000 |
| `wallet` | 1 worker, the miner, and one of two situations. *Generator*: Start twice and Balance once while two forks come in. *Mining*: no commands; the tip moves while the candidate is put together, a transaction of the new tip comes in | what is made and mined fits the tip read first, how often a coin is given out, and that nothing disappears | 154 000 |
| `wallet_cold` | 1 worker, the miner, and one of three situations. Commands in any order before the ICO command; the ICO from two peers, and messages before it; the attacker's loop next to a growing tree | nothing half-made is published, whoever dies; the attacker confirms nothing | 185 000 |
| `wallet_live` | 1 worker, the generator, with fairness. Forks and commands come in between; or only two leaves are announced | every announced block arrives, orphans are adopted, every coin gets its turn | 17 000 |
| `connection` | messages of 1 to 3 bytes, three of them; the sender may end; with fairness | first in, first out, whole; no lost wake-up; all delivered | 83 000 |
| `gossip` | 2 nodes, 2 workers each, an address each, one ICO, connecting while they start | copies of addresses | 34 000 |
| `gossip_live` | 3 nodes in a line, with fairness. One has told its address to nobody, the others are to make theirs; or all are told and 2 ICO commands are to come | addresses and ICO spread through the one in the middle | 58 000 |
| `server` | 3 connections over 2 slots, in and out, broadcasts at any moment, with fairness | slab and list, broadcasts, refusals; queues are sent although an event of the last owner is taken for the next one's | 197 000 |
| `network` | 3 nodes, all connected, two with a miner; an attacker's transaction block and a block that references it, with fairness | nothing overtakes but what a node's threads announce in the wrong order, which does happen; blocks spread | 85 000 |
| `network_late` | 3 nodes in a line, the first two attackers that mine a fork of empty blocks, the third comes late; with fairness | a late node catches up; its tree is a `Blockchain` | 142 000 |
| `orphan_lost` | 2 workers, a block and its child, with fairness | a violation, see section 6 | |

A run with several situations starts in the union of their initial states: each is an
instance of the same module with other messages, commands or connections (`INSTANCE ... WITH`
in the MC modules; `Situation` in `MCServer`, whose states are those after connections
have come up and messages have been sent to them). `MCStructures` starts with the part
that moves, and the others stand still.

The bounds: two workers are the least that race, and all the code's critical sections are symmetric in the thread; a
third can only repeat what one of two does between the other's steps. Two
conflicting transactions and a child of one of them are the least for an
order to matter; chains have three blocks, so that orphans wait for orphans. The
number of messages in flight bounds the behaviours; no counter is capped.
In the connection a byte is a bit and a length has two bytes: the length field and
the payload are then both cut at every point, and messages are shorter than, as
long as and longer than the buffers (3 and 2 bytes) and the sockets (3 and 2), so
that every way through BufReader and BufWriter and `WouldBlock` at any point
occur. `MaxSent` bounds the messages: three let a short one follow a long one, with
a third in the queue.
`NumTx` and `NumRef` are 10 in the code (miner.rs:162-163); `wallet` sets
`NumRef` to 1 so that the limit is reached (`network` has one transaction block, and `NumRef` 1).

In `Gossip` two nodes and two workers race for one address; three nodes in a line are the
least for a relay. In `Server` two slots and three connections let one be refused, a slot be
used again and `peer_list` be in another order than the keys; `Conns` names each
connection once, so that a connection that ends never returns under its name. In
`Network` a triangle is the least for two routes, a chain of two blocks for an orphan. The
hashes of `Sortition` have two digits per half, so that each half orders hashes. Five leaves
are the least with padding by more than one, over three levels. `MaxIco`, `Commands`,
`MaxMsgs` and `MaxLeaves` are the other bounds, each on what an operator or a caller gives.

The Node configurations say `CHECK_DEADLOCK FALSE` because a node does stop: a
worker waits in `recv` when the inbox is empty, a paused miner waits for a
signal, and a thread that has panicked never moves. The others say so for the same
reasons: all is told, sent or handled, or all the values of a pure function are seen.

**Fairness.** `FairNodeSpec` has weak fairness on each worker thread: the
operating system schedules it, a worker blocks only in `recv`, and no critical
section waits for anything. Nothing is assumed of the miner or of the operator. (`wallet_live` assumes the
same of the workers under `WalletFairness`.)
That the peer answers a request is part of the actions `Announcement` and
`RequestParent` (peers never drop blocks; they may drop transactions, which
`NewTransactionHashes` allows for), and TCP delivers while the connection lives.

`FairConnSpec` has weak fairness on the steps of each event loop. The next read or
write of a loop is always possible or blocks, and when it blocks the loop waits for
events that `mio` delivers; nobody has to write. `AllDelivered` speaks of senders that
live: one that ends takes its queue along. The
configurations say `CHECK_DEADLOCK FALSE` since all is quiet when all is delivered.

`GossipFairness`: weak fairness on every thread of every node. A server finds its control
queue and its listener in every batch that has them, so each gets its turn. Nothing
is assumed of operators. `WalletFairness`: the generator thread and the workers
are scheduled; operator and miner owe nothing. `ServerFairness`: the thread is scheduled; a
socket the server waits for becomes writable, and if it does again and again it takes
the queue in the end (the only strong fairness: the peer reads). `FairNetworkSpec`: servers,
workers and miner threads are scheduled, so that what is stored is announced, and a worker takes
what came first from its channel, so that
no peer is passed over for ever; nobody has to find a block or to connect.

Every property of a passing run has a mutant: a plausible slip in a modelled
definition (the operators marked `slip`) under which TLC finds it violated.

## 4. The properties that carry the weight

- `AtomicSpec` (refinement), `PublishedComplete`, `WriteOnce`: readers of the
  tip never see a half-made block, and what they saw stays, although three
  mutexes are involved and two workers may work on the same block.
- `WarmNodeKeepsLedger`: from the moment the ICO is over and the miner has started, no
  order of messages poisons `glob_state`, `tx_block_ref` or `blockchain`.
  (`tx_pool`, `tx_block_pool` and `orphan_handler` *can* be poisoned: by
  `GetTransactions` racing a confirmation, by a proposer block before its
  transaction blocks, by two workers in `new_parent`; the run `node` reaches all three.)
- `SpentForGood`, `OneSpender`, `SpentOnChain`, `MoneyKept`: the ledger update
  alone keeps the ledger sound although blocks are not checked against it.
- `MinerSnapshot`, `MinedRefsAreNew`, `AdmittedOnTree`: stale reads are harmless.
- `AttackConfirmsNothing`: whatever the workers insert in the meantime.
- `CatchesUp`, `OrphansAreAdopted`: with one worker.
- `InOrder`, `AllDelivered` (refinements of `Fifo`), `NoLostWakeup`: bytes, events and
  registrations interleave in any way.
- `OneSpendPerHeight`, `EveryCoinOffered`: one comparison of tips, between commands
  and blocks that come in, decides both that a coin is not given out twice and that it is given out at all.
- `TransactionsAccounted`: a transaction that has left the pool is in a block, or in the
  hands of a thread that will store it, or has been spent on some branch.
- `CopiesBounded`, `OwnAddressOnce`: the race in `NewAddr` is real, but each worker loses it
  once, and nobody can tell a node its own address before it has it.
- `AddressesSpread`, `IcoSpreads`, `BlocksSpread`, `LateNodeCatchesUp`: what is announced
  once, to the peers of the moment, gets everywhere; and from where on it does.
- `TxBlocksComeFirst`: an ordering over all routes, from the order in which each node
  announces and the order each connection keeps; the one place where the order can be lost, between the
  two threads of a node, is named in the property (observation 7). `BlocksSpread` excepts peers
  whose worker has panicked of it.
- `PeerListMatches`, `BroadcastsReachAll`, `QueueIsSent`: keys are used again and events are late.
- `OneKind`, `MinedIsAccepted`: four comparisons at the boundaries, for whatever difficulties a
  header names. The exceptions are stated: a transaction block with the proposer
  difficulty for a hash is mined and rejected; of a hash that equals the transaction
  difficulty `OneKind` only says that it is not accepted twice (observation 6).

## 5. The proofs

All are for arbitrary constants that satisfy the named assumptions of the module
at hand. For a node these are `TxAssumption`, `BlockAssumption` and `NodeAssumption` (fields have their types, the input coin of a transaction is
listed once per output, the miner is not a worker): any number of workers,
blocks, transactions and messages, either miner loop, started or not.

- **StructureProofs, block tree.** `TipIsHighest` is not inductive: inserting a block a
  second time could change its height. `HeightsAddUp` (a height is the parent's
  plus one) makes `InsertAgain` a no-op, and `InsertInv` the rest. That the walk of
  `all_blocks_in_longest_chain` ends at the genesis block needs that this one has
  height 0 (`RootIsLowest`) and an induction over the steps of the walk, `WalkDown`:
  each block is one lower than the one before.
- **StructureProofs, ledger.** `LedgerInv` relates `utxo` and `spent`: a coin of a
  transaction is in one of them only if the transaction's input is in `spent`.
  So a transaction whose input is there never comes to effect again, which gives
  `SpentForGood` and `OneSpender`. `ApplyTxEffect` first states what the update
  loop does, in terms of sets.
- **StructureProofs, hashes.** `OneKind` and `MinedIsAccepted` follow from
  `SortitionInv`, which says that a verdict is what the comparisons say, once `Less`,
  which compares by halves, is shown to be the order of the numbers that the digits stand for:
  a fold over the digits, for any base and any number of digits.
- **StructureProofs, Merkle tree.** `ProofsAreSound` and `RootBindsLeaves` are proved for any
  number of leaves. `new` puts the levels into one vector and keeps an offset: that a level
  is where `proof` looks for it is an induction over the fold that builds the vector (`Built`,
  `BuiltStep`), with the powers of two that bound the offsets (`TwoTo`, `Halving`). A second
  induction says that what `proof` has collected (`Told`) are the siblings on the way up from the leaf,
  a third, downwards, that `verify` climbs from a datum to the root only if the datum is the
  leaf (`VerifyIs`, `OnlyTheLeafVerifies`): hashes are constructors, so two equal hashes have
  equal arguments. Equal roots give equal rows from the top to the leaves (`SameRows`).
- **NodeProofs.** The invariant `IInv` says of the shared maps that each entry is
  what its parent's entry gives (`RefsOK`, `StatesOK`), of a thread what it has
  read, written or checked by the time it is at a given program counter
  (`BlockInHand`, `TransactionInHand`, `CandidateInHand`), and that before the
  miner thread has started nothing has references (`BootInv`). `PublishedComplete`
  alone is not inductive, since it is established four critical sections before
  the insertion. The locals of the *other* threads survive a step because the
  maps only grow (`Grow`, lemma `LocalsKept`); one lemma per action shows that it
  has the `Effect` required. `NodeTypeOK`, `PublishedComplete`,
  `WarmNodeKeepsLedger`, `MinerSnapshot`, `WriteOnce` and `AdmittedOnTree` follow.
- **NodeProofs, refinements.** A node implements `AtomicChain` (`Refinement`): the writes to
  the maps are invisible until the insertion, since a block of the tree has its
  entries already and is given the same ones again; `InsertBlock` is `AddBlock`
  or, the second time, a stutter. It implements `Blockchain` too
  (`TreeRefinement`), so that `ForkChoice` and `ChainReachesGenesis` carry over.
- **NodeProofs, ledger of every branch.** `IInv` does not say what is in a ledger state. That a
  state only ever arises from its parent's by `LedgerAfter` is lemma `StatesGrow`; `History`
  then says that the coins of all ancestors' states are in a block's state, or in a
  set of coins that can never come back (`SpendInv`, the invariant of the ledger
  above, carried over the folds of `LedgerAfter`). `SpentOnChain` follows. `Worthy` says that a
  state is worth what the ICO's is. `MoneyKept` is proved from `GeneratedTxs`: what a
  transaction in a block pays out is worth its input. That is how generator.rs:302-331
  makes them; workers do not check it for blocks, so it cannot be had for less.
- **NodeProofs, miner and attacker.** `MinedRefsAreNew` and `AttackConfirmsNothing`
  speak of the blocks of *this* miner, so something must be said of peers:
  `PeersBlocks(F)` says that they have a set F of blocks with their ancestors,
  and that a block of F which this miner could have made is an empty one. A
  block's hash covers a random nonce and a time stamp (miner.rs:219), so no peer comes upon a block
  of this miner by itself.
  `OriginInv` follows F through the inbox, the orphan buffer and what workers
  have in hand, and says that a block of the tree is from F or one that the miner had put
  together from what was new (`Candidate`, which ties what the miner has read
  under five locks to the one block it builds on).
- **NodeProofs, transactions.** `TransactionsAccounted` is an action property; the one
  thing it needs besides `IInv` is that a thread which clears the pool has the
  transactions of its own block to go (`AllClear`).

- **ConnectionProofs.** `NoLostWakeup` is not inductive: that a sender with work to do
  is called depends on who is registered. `Registered` says that exactly one of
  queue and socket is, the queue only when all is written and flushed, and that a
  registered queue with a message has raised its event. Each action keeps that; the
  actions in the loop of `WriteContext::write` need one argument (`LoopStep`), as
  registrations do not change there. No assumption on the constants is used for it.
- **ConnectionProofs, order.** `InOrder` compares messages, but between the two queues there
  are only bytes, cut at any point. `FrameInv` says that what was sent is what was delivered,
  then some messages `rest`, then the queue; and that what the `ReadContext` holds of an
  unfinished frame (`Got`) followed by all bytes on their way, from the BufReader back to the
  `WriteContext` (`InTransit`), are exactly the frames of `rest`. A step that moves bytes leaves that
  concatenation alone (`MoveOn`); taking a message from the queue appends a frame to it
  (`FrameWritten`); the receiver finishes a length or a payload only when all its bytes are
  there, and then these are the first of the first frame (`FrameRead`), so that the
  message handed on is the first of `rest`. That a length is read as it was written
  (`DecodeEncode`) is an induction over its digits. `ConnectionAssumption` is used: a base of at
  least 2, buffers of at least one byte, and messages that are not empty and whose length fits
  in the length field, as those of `bincode` are and do.
- **GossipProofs.** Both counts need to know where an address may be. `Told` says that an
  address in any vector, message or local is one its owner has pushed already; so
  nobody can hand a node an address that it is about to push itself (`OwnAddressOnce`).
  For the addresses of others `CountOK` counts the copies in `all_addr` together with the
  workers about to push: a worker checks only while there is no copy, so the sum is at
  most the number of workers (`CopiesBounded`); the ICO copies a vector for which
  that holds. `GossipAssumption` says that keys are not equal by chance and that two
  nodes have one connection.
- **WalletProofs.** Every step of the generator and of the operator except the ICO is
  `Harmless`: it leaves all of `Node`'s state alone but the transaction pool, to
  which it only adds, and `poisoned`. So `IInv` survives it, and the theorems of
  `NodeProofs` carry over to a node with a generator. They are stated
  for `Commands["ICO"] = 0`: an ICO after the start rewrites a ledger state, which is
  observation 3 of section 6. `MinerSnapshot`, `MinedRefsAreNew` and `TransactionsAccounted` need nothing
  else. `AdmittedOnTree` does, as the generator's own transactions enter the pool too, unchecked:
  `CoinsInHand` says that the coins it still has to spend were in the state of the tip it read,
  and `MadeIsAdmissible` that what it makes of one passes every check of a worker, the
  sum of the two outputs included.
- **WalletProofs, one spend per height.** `OneSpendPerHeight` bounds the spends of a coin in the pool
  by the height of the tip. `PassInv` says why: before the first pass there are none; afterwards
  there are at most as many as the tip of the *last pass* is high, and one more once the coin is no
  longer due in that pass. A new pass begins only when the tip has changed, and then, by
  `TipIsHighest` and the fork choice, it is strictly higher. The bound would be
  wrong if anybody else could add a spend of this node's coins; `OffersInv` says that
  no worker has one in hand and none is in the mail, from the hypothesis `KeysAreOwn`: only this
  node signs with its keys, so that a transaction that is on its way from a peer, or in the pool
  at the start, spends none of its coins. (TLC has checked both invariants on the instance of `wallet`.)
- **ServerProofs.** `SlabOK` says that the keys are an interval from 0, at most `MaxPeers`
  long, and that `vacant` and `peer_list` split it without repetition; lemmas on `Tail`,
  concatenation and `swap_remove` carry it through `register` and the removals. That a
  connection is refused only when the slab is full follows: with no free key the next one is the number of peers.
  `BroadcastsReachAll` takes `DeliveryInv`. The count of what a connection has been given is spread
  over the moment of its registration, the requests and messages in the control
  queue and what is done so far: `PeersOK` says it of every open connection, `RequestsOK` that a
  connection is in one place at a time, and `MessagesOK` that the messages that wait are
  `done + 1` to `asked` in order.
- **NetworkProofs, trees.** The tree of any node implements `Blockchain`
  (`TreeGrowsAsSpecified`): `TreesOK` says that the blocks in `todo`, and what the
  miner builds on, have their parents in the tree, and that orphans wait under their
  own parent, so that they have one when they are taken up.
- **NetworkProofs, order.** `TxBlocksComeFirst` says only that nobody has panicked.
  `OrderInv` says why, for each node and each connection. `Due` are the pairs of a
  proposer block b and a transaction block t referenced up to it that no node has announced
  the wrong way round, that is, all but those in `early`. A node has all transaction blocks that its tree
  references, and of what the blocks in `todo` or among its orphans reference, all that is due (`RefsOK`);
  its miner has what it picked (`MinerRefs`). `HandOK` is about the two threads: what one of them
  is about to announce the node has stored, and a block of the tree above it is about to be announced too, or
  was announced early. For a connection, `InOrder` follows a due pair
  through the protocol: wherever b is announced, asked for or delivered
  (`QueueOrder`, `AnnounceOrder`, `RequestOrder`, `DeliverOrder`), t is with the peer already, or
  at the same stage before b, or at a later one. `Pending` says that everything a node has announced
  is with the peer or on its way; without it the next announcement of a block would not be in
  order. `Known` says that what a node has announced it has, so that a request is always
  answered. Six lemmas say what taking a message from one of the queues, or adding one,
  does to `InOrder`; each handler is then two of them. A broadcast may add to `early`, after which less is
  due (`FewerDue`); `EarlyOK` keeps `Due` closed under ancestors, which a request for a parent needs. The theorem is stated for
  `Linked = Edges`: a node that connects late does panic (observation 5), and the code has
  nothing that would prevent it.
- **Folding.** The library's induction theorems take an operator as a parameter, which the
  provers here cannot instantiate. `Folding` gets induction from the least
  element of a set of numbers (`WFMin` of WellFoundedInduction) instead, and states
  once, for a parameter `Step` or `Weight`, what the modules above need of `FoldLeft`
  and `MapThenSumSet`: what a fold passes through, that a recursive function
  exists, how a sum splits. A module takes it with `INSTANCE Folding WITH Step <- ...`.
  `CollectExists` says the same of sets collected along parents (`Ancestors`, `RefsUpTo`),
  where no order on blocks is given.

Assumptions on constants that the proofs rest on, besides types: a hash names one
block (`BlockAssumption`); the ICO's addresses are a list
(`TxAssumption`); connections are not messages (`ServerAssumption`); a node has no connection to
itself, and the blocks of an instance are those that meet the difficulty and lie in their sortition
(`NetworkAssumption`): a miner keeps no others, and what a node sends it has made or accepted.

**Only model-checked.** Liveness (`CatchesUp`, `OrphansAreAdopted`, `AllDelivered`,
`AddressesSpread`, `IcoSpreads`, `EveryCoinOffered`, `QueueIsSent`, `BlocksSpread`,
`LateNodeCatchesUp`), as the prover has neither fairness nor ENABLED.
Every other property of the runs is stated by a theorem. `OneSpendPerHeight` and `MinedRefsAreNew`,
and `MoneyKept` and `AttackConfirmsNothing`, are proved under the hypotheses named above
(`KeysAreOwn`, `PeersBlocks`, `GeneratedTxs`), the wallet's for no ICO command.

## 6. Findings

**An orphan can be lost** (run `orphan_lost`). worker.rs:377 says of an orphan
"When the parent is received, that block can be popped out from buffer and check
again". The parent is looked up at line 378 and the orphan buffered at line 386,
under different mutexes. If another worker inserts the parent in between
(line 468) and looks for its orphans (line 75), the orphan enters the buffer
after the last look. The parent is asked for again, but a block that is in the
tree is skipped (line 357) before `new_parent`. The block, and every block
built on it, stays out until a peer happens to send it again.

Observations made while modelling, which the properties above leave room for and no run
is devoted to:

1. *Addresses can be told to nobody.* worker.rs:178 says "When a
   node is started, it would tell other nodes its addresses". The generator tells them
   once, right after the start (generator.rs:230); connections come up when they come up, and
   nothing is sent on a new connection. `AddressesSpread` says what holds: it takes an address
   made after the connections are there. With thirty addresses per node that usually happens.
2. *Two ICOs give two genesis states.* generator.rs:185 says "the
   glob_state for all nodes should have the same state in genesis block". The
   command overwrites what is there (line 195), a worker keeps what is there (worker.rs:190).
   `IcoSpreads` promises every node some state only.
3. *An ICO after the first block rewrites that block's ledger.*
   generator.rs:186 speaks of `genesis_hash`; line 190 takes the tip. So does a command given
   while the ICO of a peer is on its way: `wallet_cold` gives a node one or the other.
4. *An event of a closed peer stops the server.* If the event of a queue stands behind
   the event that removes its peer, the key is vacant and server.rs:146 panics (`QueuePanics`); the
   branch for sockets looks first (line 338 and after), the branch for queues (355) does not. If the key has a
   new owner, that one is registered for nothing, which `QueueIsSent` shows to be harmless.
5. *A node that joins late cannot adopt blocks with references.*
   It asks for missing parents, but for missing transaction blocks nobody asks: the
   index at worker.rs:396 panics. `LateNodeCatchesUp` says what holds: blocks without
   references are caught up with.
6. *A boundary.* worker.rs:303 asks for a hash below the transaction
   difficulty, line 304 admits one that equals it. No miner makes one. `OneKind` leaves open whether
   such a block is accepted. The difficulties themselves are those that the block's header names; no
   handler compares them with the parent's.
7. *Two threads announce in the wrong order.* A worker puts a transaction block into the pool
   (worker.rs:331) and announces it in the next statement (334). In between the node's miner may
   find it there (miner.rs:200), mine a proposer block over it, insert (289) and announce that one (291)
   first. A peer without the transaction block then asks for the proposer block first, gets it first,
   and its worker panics at worker.rs:396, with all connections up and one worker per node. It takes a worker
   that is preempted between two statements until the miner has found a block. The run
   `network` reaches it; `TxBlocksComeFirst` says that nothing else does, and `BlocksSpread` what is
   left to the nodes whose workers live.

## 7. Not modelled, and the plan

Not modelled on purpose: parsing and answers of the HTTP API, the command line,
logging, wording of messages, hashing and signing as computations, time stamps;
`Exit` and `Paused`, which nothing sends; sums of coin values that exceed 32 bits
(worker.rs:267), which no transaction of a generator has.

What could follow:

1. The theorems about a node with a generator for an ICO command that is given before anything
   else, which is how a first node begins; now they start from a node that knows the genesis block's
   ledger or is told it by a peer.
2. `Network` with several workers per node, or with nodes that are `Node`s lock by lock:
   beyond TLC at any interesting size, so first as a refinement.
3. `Server` over `Connection` instead of its summary of a connection.
