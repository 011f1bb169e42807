---------------------------- MODULE AtomicChain ----------------------------
(***************************************************************************)
(* What the maps a node keeps per proposer block (the tree with its        *)
(* heights, the ledger states, the referenced transaction blocks) promise  *)
(* to whoever reads the tip: a block joins the tree with its ledger state  *)
(* and its references at once, all computed from its parent's, they stay,  *)
(* and the block is the new tip if it is higher than every other.          *)
(* Node implements this with three mutexes that no thread holds together.  *)
(***************************************************************************)
EXTENDS Naturals

CONSTANTS
    Children, Genesis, Parent,  \* the proposer blocks, as in Block
    IcoState,                   \* the ledger state of the genesis block
    LedgerAfter(_, _),          \* the ledger state of a child
    RefsAfter(_, _)             \* the references of a child

VARIABLES
    blocks, heights, tip_node_hash,
    state,   \* proposer block -> ledger state
    refs     \* proposer block -> transaction blocks it and its ancestors reference
atomicVars == <<blocks, heights, tip_node_hash, state, refs>>

EmptyMap == [b \in {} |-> {}]
GenesisMap(v) == [b \in {Genesis} |-> v]
With(f, k, v) == [x \in DOMAIN f \cup {k} |-> IF x = k THEN v ELSE f[x]]

(* Before the ICO no block has a state, before the miner thread has started *)
(* none has references; or both have happened.                              *)
AtomicInit ==
    /\ blocks = {Genesis} /\ heights = GenesisMap(0) /\ tip_node_hash = Genesis
    /\ state \in {EmptyMap, GenesisMap(IcoState)}
    /\ refs \in {EmptyMap, GenesisMap({})}

(* The initial coin offering gives the genesis block its ledger state. *)
InitialCoinOffering ==
    /\ state = EmptyMap
    /\ state' = GenesisMap(IcoState)
    /\ UNCHANGED <<blocks, heights, tip_node_hash, refs>>

(* The miner thread starts: the genesis block references nothing. *)
StartMining ==
    /\ refs = EmptyMap
    /\ refs' = GenesisMap({})
    /\ UNCHANGED <<blocks, heights, tip_node_hash, state>>

(* A block joins its parent. *)
AddBlock(b) ==
    LET height == heights[Parent[b]] + 1
    IN  /\ b \notin blocks
        /\ Parent[b] \in blocks \cap DOMAIN state \cap DOMAIN refs
        /\ blocks' = blocks \cup {b}
        /\ heights' = With(heights, b, height)
        /\ tip_node_hash' = IF \A c \in blocks : height > heights[c] THEN b ELSE tip_node_hash
        /\ state' = With(state, b, LedgerAfter(state[Parent[b]], b))
        /\ refs' = With(refs, b, RefsAfter(refs[Parent[b]], b))

AtomicNext ==
    \/ InitialCoinOffering
    \/ StartMining
    \/ \E b \in Children : AddBlock(b)

AtomicSpec == AtomicInit /\ [][AtomicNext]_atomicVars
=============================================================================
