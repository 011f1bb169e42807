---------------------------- MODULE Transaction ----------------------------
(***************************************************************************)
(* Signed transactions (src/src/transaction.rs) and what one of them does  *)
(* to a ledger state, the map (tx hash, output index) -> (value, address)  *)
(* that worker.rs and miner.rs keep per proposer block.                    *)
(*                                                                         *)
(* A hash is injective, so a transaction stands for its hash.  The value   *)
(* and the address of a key never change (they are written in the          *)
(* transaction that the key names), so a ledger state is the set of its    *)
(* keys: the coins that are unspent.  Output indices start at 1 here.      *)
(***************************************************************************)
EXTENDS Naturals, Sequences, SequencesExt, FiniteSetsExt

CONSTANTS
    Txs,          \* the signed transactions of the instance
    InputsOf,     \* input_previous and input_index, zipped: coins
    ValuesOf,     \* output_value
    AddressesOf,  \* output_address
    KeyOf,        \* the address that hashes from sig.key
    WellSigned,   \* the transactions whose signature verify() accepts
    ZeroHash,     \* H256([0; 32]), the "transaction" of every ICO coin
    IcoAddresses  \* all_addr at the ICO, one coin each

Coins == (Txs \cup {ZeroHash}) \X Nat

(* What generator.rs produces: both inputs name one coin, as many outputs   *)
(* as inputs.  A transaction cannot contain its own hash.                   *)
ASSUME TxAssumption ==
    /\ ZeroHash \notin Txs
    /\ InputsOf \in [Txs -> Seq(Coins)]
    /\ \A x \in Txs : /\ InputsOf[x] # <<>>
                      /\ \A i \in DOMAIN InputsOf[x] : 
                            /\ InputsOf[x][i] = InputsOf[x][1]
                            /\ InputsOf[x][i][1] # x
    /\ WellSigned \subseteq Txs

(* The typing of the outputs and of all_addr, a Vec. *)
ASSUME OutputAssumption ==
    /\ \A x \in Txs : /\ ValuesOf[x] \in Seq(Nat)
                       /\ Len(ValuesOf[x]) = Len(InputsOf[x])
                       /\ Len(AddressesOf[x]) = Len(InputsOf[x])
                       /\ KeyOf[x] \in Range(IcoAddresses)
    /\ IcoAddresses \in Seq(Range(IcoAddresses))

InputCoins(x) == ToSet(InputsOf[x])

(* The value that ControlSignal::ICO gives every address. *)
IcoValue == 1000

(* ico_state: coin i of the ICO belongs to all_addr[i]. *)
IcoState == {<<ZeroHash, i>> : i \in DOMAIN IcoAddresses}

(* (value, recipient) of a coin. *)
Value(c) == IF c[1] = ZeroHash THEN IcoValue ELSE ValuesOf[c[1]][c[2]]
Owner(c) == IF c[1] = ZeroHash THEN IcoAddresses[c[2]] ELSE AddressesOf[c[1]][c[2]]

(* One transaction of a block: an output is inserted for each input found,  *)
(* and if there was one, the last input looked up is removed.               *)
ApplyTx_Unchecked(S, x) ==  \* slip: the outputs are inserted whether or not the input is there
    (S \cup {<<x, i>> : i \in DOMAIN InputsOf[x]}) \ {Last(InputsOf[x])}
ApplyTx_KeepsInput(S, x) == \* slip: the input is not removed
    S \cup {<<x, i>> : i \in {j \in DOMAIN InputsOf[x] : InputsOf[x][j] \in S}}
ApplyTx(S, x) ==
    LET found == {i \in DOMAIN InputsOf[x] : InputsOf[x][i] \in S}
    IN  IF found = {} THEN S
        ELSE (S \cup {<<x, i>> : i \in found}) \ {Last(InputsOf[x])}

(* Every input is unspent in S: the check of the pool, of the pruning and   *)
(* of the miner.                                                            *)
Unspent(S, x) == InputCoins(x) \subseteq S

(* input_sum keeps the value of the last input only; output_sum adds up.    *)
InputSum(x)  == Value(Last(InputsOf[x]))
OutputSum(x) == MapThenSumSet(LAMBDA i : ValuesOf[x][i], DOMAIN InputsOf[x])

(* The checks of Message::Transactions once the state is in hand. *)
Admissible(S, x) ==
    /\ Unspent(S, x)
    /\ \A c \in InputCoins(x) : Owner(c) = KeyOf[x]
    /\ OutputSum(x) <= InputSum(x)

TotalValue(S) == MapThenSumSet(Value, S)
=============================================================================
