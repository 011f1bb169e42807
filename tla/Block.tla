------------------------------- MODULE Block -------------------------------
(***************************************************************************)
(* Proposer blocks and transaction blocks (src/src/block.rs), and what a   *)
(* proposer block does to its parent's ledger state and to its parent's    *)
(* list of referenced transaction blocks.  A block stands for its hash.    *)
(***************************************************************************)
EXTENDS Transaction

CONSTANTS
    ProposerBlocks, \* every proposer block of the instance, Genesis included
    Genesis,        \* the block Blockchain::new builds
    Parent,         \* header.proposer_parent of the others
    RefsOf,         \* content.proposer_content of the others: tx blocks
    TxBlocks,       \* every transaction block of the instance
    ContentOf,      \* content.transaction_content: transactions
    InSortition     \* blocks whose hash lies where the PoW check wants it

Children == ProposerBlocks \ {Genesis}

(* A hash names one block: what comes with a header is what its Merkle      *)
(* roots stand for.  No handler checks that (worker.rs:295, 354), so it is  *)
(* assumed of the peers.                                                    *)
ASSUME BlockAssumption ==
    /\ Genesis \in ProposerBlocks
    /\ ProposerBlocks \cap TxBlocks = {}
    /\ Parent \in [Children -> ProposerBlocks]
    /\ RefsOf \in [Children -> Seq(TxBlocks)]
    /\ ContentOf \in [TxBlocks -> Seq(Txs)]
    /\ InSortition \subseteq ProposerBlocks \cup TxBlocks

(* HashMap::insert. *)
Put(f, k, v) == [x \in DOMAIN f \cup {k} |-> IF x = k THEN v ELSE f[x]]

Refs(b) == ToSet(RefsOf[b])

(* tx_block_ref of a child of a block that has R.  The Vec is only searched, *)
(* so the set of its elements stands for it.                                 *)
RefsAfter(R, b) == R \cup Refs(b)

(* The ledger state of a child of a block whose state is S: its transaction *)
(* blocks in order, the transactions of each in order.                      *)
ApplyTxBlock(S, t) == FoldLeft(ApplyTx, S, ContentOf[t])
LedgerAfter(S, b) == FoldLeft(ApplyTxBlock, S, RefsOf[b])

(* The signature loop over a block's references, at a time when the pool    *)
(* holds the transaction blocks P: it stops at the first reference that is  *)
(* missing (the index panics) or that holds a wrongly signed transaction.   *)
GoodRef(P, r) == r \in P /\ ToSet(ContentOf[r]) \subseteq WellSigned
Verified(P, b) == \A r \in Refs(b) : GoodRef(P, r)
RefMissing(P, b) ==
    \E i \in DOMAIN RefsOf[b] :
        RefsOf[b][i] \notin P /\ \A j \in 1..(i - 1) : GoodRef(P, RefsOf[b][j])
=============================================================================
