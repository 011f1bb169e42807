----------------------------- MODULE Blockchain -----------------------------
(***************************************************************************)
(* The proposer block tree of a node (src/src/blockchain.rs).              *)
(***************************************************************************)
EXTENDS Block

VARIABLES
    blocks,         \* the hashes of the blocks in the tree
    heights,        \* hash -> height
    longest,        \* the height of the tip
    tip_node_hash   \* the tip
chainVars == <<blocks, heights, longest, tip_node_hash>>

ChainInit ==
    /\ blocks = {Genesis}
    /\ heights = [b \in {Genesis} |-> 0]
    /\ longest = 0
    /\ tip_node_hash = Genesis

(* Blockchain::insert.  heights[&parent] panics if the parent is missing:   *)
(* the callers must see to it that it never is.                             *)
Insert_StaleLongest(b) ==  \* slip: longest is not updated with the tip
    /\ blocks' = blocks \cup {b}
    /\ heights' = Put(heights, b, heights[Parent[b]] + 1)
    /\ tip_node_hash' = IF heights[Parent[b]] + 1 > longest THEN b ELSE tip_node_hash
    /\ UNCHANGED longest
Insert_OnTip(b) ==         \* slip: the height is counted from the tip
    /\ blocks' = blocks \cup {b}
    /\ heights' = Put(heights, b, longest + 1)
    /\ longest' = longest + 1 /\ tip_node_hash' = b
Insert_LastWins(b) ==      \* slip: >= for >
    LET curr_height == heights[Parent[b]] + 1
    IN  /\ blocks' = blocks \cup {b}
        /\ heights' = Put(heights, b, curr_height)
        /\ IF curr_height >= longest
             THEN longest' = curr_height /\ tip_node_hash' = b
             ELSE UNCHANGED <<longest, tip_node_hash>>
Insert(b) ==
    LET curr_height == heights[Parent[b]] + 1
    IN  /\ blocks' = blocks \cup {b}
        /\ heights' = Put(heights, b, curr_height)
        /\ IF curr_height > longest
             THEN longest' = curr_height /\ tip_node_hash' = b
             ELSE UNCHANGED <<longest, tip_node_hash>>

ChainNext == \E b \in Children : Parent[b] \in blocks /\ Insert(b)

ChainSpec == ChainInit /\ [][ChainNext]_chainVars

(* all_blocks_in_longest_chain: longest + 1 steps up from the tip, then     *)
(* reversed.  The genesis header has a fake parent, the hash of no block.   *)
ParentHash(b) == IF b \in Children THEN Parent[b] ELSE ZeroHash
StepsUp[n \in Nat] == IF n = 0 THEN tip_node_hash ELSE ParentHash(StepsUp[n - 1])
LongestChain ==
    IF longest = 0 THEN <<tip_node_hash>>
    ELSE Reverse([i \in 1..(longest + 1) |-> StepsUp[i - 1]])
-----------------------------------------------------------------------------
ChainTypeOK ==
    /\ blocks \subseteq ProposerBlocks
    /\ heights \in [blocks -> Nat]
    /\ longest \in Nat
    /\ tip_node_hash \in blocks

(* The tip is a block of the tree that no other block is higher than, and   *)
(* longest is its height (Blockchain::insert keeps three fields in step,    *)
(* whatever the fork the inserted block is on).                             *)
TipIsHighest ==
    /\ Genesis \in blocks
    /\ longest = heights[tip_node_hash]
    /\ \A b \in blocks : heights[b] <= longest

(* all_blocks_in_longest_chain walks from the tip to the genesis block and  *)
(* stops exactly there: the heights, written at insertion, count the links. *)
ChainReachesGenesis ==
    /\ LongestChain[1] = Genesis
    /\ Last(LongestChain) = tip_node_hash
    /\ \A i \in 2..Len(LongestChain) : Parent[LongestChain[i]] = LongestChain[i - 1]
    /\ \A i \in DOMAIN LongestChain : heights[LongestChain[i]] = i - 1

(* A node never gives up a chain for one that is not strictly longer, and a *)
(* block inserted again (two workers may both have it) changes nothing.     *)
ForkChoice ==
    [][ /\ blocks \subseteq blocks'
        /\ \A b \in blocks : heights'[b] = heights[b]
        /\ tip_node_hash' # tip_node_hash =>
              /\ tip_node_hash' \notin blocks
              /\ \A b \in blocks : heights'[tip_node_hash'] > heights[b] ]_chainVars
=============================================================================
