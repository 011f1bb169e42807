------------------------------- MODULE Ledger -------------------------------
(***************************************************************************)
(* The ledger state along one chain of proposer blocks: the ICO, then the  *)
(* transactions of the referenced transaction blocks one by one.  Nothing  *)
(* orders them or keeps one from coming twice: miners on different nodes   *)
(* put the same transaction, or two transactions of one coin, in different *)
(* transaction blocks, and one miner may put them in the same block (the   *)
(* pool is searched against the tip's state only, miner.rs:171-194).  What *)
(* holds the ledger together is the lookup in the update loop alone.       *)
(***************************************************************************)
EXTENDS Transaction

VARIABLES
    utxo,   \* curr_state of the update loop
    spent   \* history: the coins that left it
ledgerVars == <<utxo, spent>>

LedgerInit ==
    /\ utxo = IcoState
    /\ spent = {}

(* One turn of the loop over transaction_content. *)
Confirm(x) ==
    /\ utxo' = ApplyTx(utxo, x)
    /\ spent' = spent \cup (utxo \ utxo')

LedgerNext == \E x \in Txs : Confirm(x)

LedgerSpec == LedgerInit /\ [][LedgerNext]_ledgerVars
-----------------------------------------------------------------------------
HasEffect(x) == \E c \in utxo \cup spent : c[1] = x

(* A coin that was spent is never in the ledger again, not even when the    *)
(* transaction that made it is confirmed by a second transaction block      *)
(* (the update loop inserts outputs without looking whether they were there *)
(* before, worker.rs:436-437).                                              *)
SpentForGood == spent \cap utxo = {}

(* Of the transactions that spend one coin at most one has effect, in       *)
(* whatever order and however often they are confirmed.                     *)
OneSpender ==
    \A x, y \in Txs :
        HasEffect(x) /\ HasEffect(y) /\ InputsOf[x][1] = InputsOf[y][1] => x = y
=============================================================================
