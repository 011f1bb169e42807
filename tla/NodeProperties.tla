--------------------------- MODULE NodeProperties ---------------------------
(***************************************************************************)
(* What a node owes its readers: the miner, the generator, the wallet and  *)
(* the peers.                                                              *)
(***************************************************************************)
EXTENDS Node

(* Types. *)
PCs == WorkerPCs \cup MinerPCs \cup CommonPCs

(* What a ledger state contains is the matter of MoneyKept and SpentOnChain. *)
LocalTypeOK(r) ==
    r \in [pc : PCs, item : ProposerBlocks \cup TxBlocks \cup Txs,
           todo : Seq(Children) \cup Seq(Txs), base : ProposerBlocks,
           refs : SUBSET TxBlocks, state : {r.state},
           content : SUBSET Txs, props : SUBSET TxBlocks]

NodeTypeOK ==
    /\ ChainTypeOK
    /\ DOMAIN orphan_handler \subseteq ProposerBlocks
    /\ \A p \in DOMAIN orphan_handler : orphan_handler[p] \in Seq(Children)
    /\ tx_pool \subseteq Txs
    /\ DOMAIN glob_state \subseteq ProposerBlocks
    /\ tx_block_pool \subseteq TxBlocks
    /\ DOMAIN tx_block_ref \subseteq ProposerBlocks
    /\ \A b \in DOMAIN tx_block_ref : tx_block_ref[b] \subseteq TxBlocks
    /\ poisoned \subseteq Mutexes
    /\ inbox \in [Message -> Nat]
    /\ DOMAIN local = Threads
    /\ \A t \in Threads : LocalTypeOK(local[t])

(* Every thread that reads the tip indexes the other maps with it later,    *)
(* under other locks (worker.rs:230, miner.rs:168 and 198, generator.rs:145 *)
(* and 276): a block that can be the tip has its ledger state, its          *)
(* references, and the transaction blocks it references.                    *)
PublishedComplete ==
    \A b \in blocks \ {Genesis} :
        /\ b \in DOMAIN glob_state
        /\ b \in DOMAIN tx_block_ref
        /\ Refs(b) \subseteq tx_block_pool

(* Once the ICO is done and the miner thread has started, no message, in    *)
(* whatever order it comes, makes a thread panic on the ledger states, the  *)
(* references or the block tree, which would poison their mutexes and stop  *)
(* every other thread for good: not even one that was handled half before.  *)
Ledgers == {"glob_state", "tx_block_ref", "blockchain"}
GenesisKnown == Genesis \in DOMAIN glob_state /\ Genesis \in DOMAIN tx_block_ref
LedgersSpared == GenesisKnown => poisoned' \cap Ledgers \subseteq poisoned
WarmNodeKeepsLedger == [][LedgersSpared]_nodeVars

(* Two workers with the same block compute its state and references each    *)
(* for itself and write them one after the other: what a reader has seen    *)
(* does not change under it.                                                *)
WriteOnce ==
    [][ /\ \A b \in DOMAIN glob_state :
              b \in DOMAIN glob_state' /\ glob_state'[b] = glob_state[b]
        /\ \A b \in DOMAIN tx_block_ref :
              b \in DOMAIN tx_block_ref' /\ tx_block_ref'[b] = tx_block_ref[b] ]_nodeVars

(* "The total amount of the money should be the same as the beginning"      *)
(* (README.md:79), in the ledger state of every block of every fork, when   *)
(* transactions are confirmed twice or in conflict.                         *)
MoneyKept == \A b \in DOMAIN glob_state : TotalValue(glob_state[b]) = TotalValue(IcoState)

(* A coin spent on a chain is not in the state of a later block of that     *)
(* chain, even if a block confirms the transaction that made it again.      *)
Ancestors[b \in ProposerBlocks] ==
    IF b = Genesis THEN {} ELSE {Parent[b]} \cup Ancestors[Parent[b]]
SpentOnChain ==
    \A b \in blocks \ {Genesis} : \A a \in Ancestors[Parent[b]] :
        (glob_state[a] \ glob_state[Parent[b]]) \cap glob_state[b] = {}

(* The references of a block the miner made are new to its chain although   *)
(* the tip, its references and the pool were read under different locks     *)
(* while blocks came in: no transaction block is confirmed twice by it.     *)
MinedRefsAreNew ==
    \A b \in blocks \cap Mineable : Refs(b) \cap tx_block_ref[Parent[b]] = {}

(* What the miner is about to hash fits the tip it read first: the          *)
(* transactions it took from the pool are unspent in that tip's state, read *)
(* under another lock while the tip moved on ("check if the transaction is  *)
(* valid, maybe double spend", miner.rs:177).                               *)
MinerSnapshot ==
    Pc(Miner) = "seal" =>
        \A x \in local[Miner].content : Unspent(glob_state[local[Miner].base], x)

(* An attacker that mines empty blocks makes the chain longer, but it       *)
(* confirms and takes back nothing ("update nothing", miner.rs:424): its    *)
(* block has the state and the references of the very block it is built on, *)
(* read under locks between which the tip may move.                         *)
AttackConfirmsNothing ==
    Attacking => \A b \in blocks \cap Mineable :
        /\ glob_state[b] = glob_state[Parent[b]]
        /\ tx_block_ref[b] = tx_block_ref[Parent[b]]

(* A transaction that comes in from a peer is admissible in the ledger      *)
(* state of some block of the tree when it enters the pool, although the    *)
(* tip, its state and the pool are locked one after the other.              *)
AdmittedOnTree ==
    [][ \A x \in tx_pool' \ tx_pool :
          \E b \in blocks \cap DOMAIN glob_state : Admissible(glob_state[b], x) ]_nodeVars

(* A transaction that was in the pool is still there, or in a transaction   *)
(* block that is stored or about to be, or the state of a block that is     *)
(* stored or about to be leaves it no input: those of a losing fork too.    *)
Accounted(x) ==
    \/ x \in tx_pool
    \/ \E b \in tx_block_pool : x \in ToSet(ContentOf[b])
    \/ \E t \in Threads : Pc(t) \in {"clear", "store"} /\ x \in ToSet(ContentOf[Item(t)])
    \/ \E b \in DOMAIN glob_state \ {Genesis} : ~ Unspent(glob_state[b], x)
    \/ \E t \in Threads : Pc(t) = "state_write" /\ ~ Unspent(local[t].state, x)

(* Transactions leave the pool one by one before their block is stored      *)
(* (worker.rs:323-331), and by the state of every block that comes in,      *)
(* before that state is stored (worker.rs:447-465): none is lost between    *)
(* the locks, unless a thread has panicked.                                 *)
TransactionsAccounted ==
    [][ \A x \in Txs : Accounted(x) => Accounted(x)' \/ poisoned' # {} ]_nodeVars

(* The maps, as far as blocks of the tree are concerned, change as if all   *)
(* the locks were held together.                                            *)
Atomic == INSTANCE AtomicChain WITH
    state <- [b \in DOMAIN glob_state \cap blocks |-> glob_state[b]],
    refs  <- [b \in DOMAIN tx_block_ref \cap blocks |-> tx_block_ref[b]]
AtomicSpec == Atomic!AtomicSpec

(* A block that a peer has announced is in the tree in the end, its missing *)
(* ancestors being asked for one by one (worker.rs:376-389).                *)
CatchesUp ==
    \A b \in Children :
        [](inbox[Msg("NewProposerBlockHashes", b)] > 0 => <>(b \in blocks))

(* "When the parent is received, that block can be popped out from buffer   *)
(* and check again" (worker.rs:377): a buffered block whose parent is in    *)
(* the tree joins it in the end.                                            *)
OrphansAreAdopted ==
    \A b \in Children :
        [](( /\ Parent[b] \in blocks
             /\ Parent[b] \in DOMAIN orphan_handler
             /\ b \in ToSet(orphan_handler[Parent[b]]) ) => <>(b \in blocks))
=============================================================================
