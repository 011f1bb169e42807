------------------------------ MODULE Sortition ------------------------------
(***************************************************************************)
(* Which block a hash makes: the order of hashes (src/src/crypto/hash.rs), *)
(* the miner that finds a header, for a proposer or a transaction block    *)
(* (src/src/miner.rs), and the proof-of-work check of the worker that gets *)
(* the header in a message (src/src/network/worker.rs).  A hash is a       *)
(* sequence of big-endian digits, compared by halves.  Both read the       *)
(* difficulties in the header itself: the miner copies its parent's, and   *)
(* no code compares them with the parent's again, so they may be any.      *)
(***************************************************************************)
EXTENDS Naturals, Sequences, SequencesExt

CONSTANTS
    Base,       \* a digit is 0 .. Base - 1: 256
    Half,       \* the digits of half a hash: 16
    Claims      \* the two difficulties that headers may name

Hashes == [1..(2 * Half) -> 0..(Base - 1)]
Kinds == {"proposer", "transaction"}

(* The number that a sequence of digits writes: u128::from_be_bytes.        *)
Number(digits) == FoldLeft(LAMBDA n, d : n * Base + d, 0, digits)

(* Blockchain::new has [15, 255, ...] and [127, 255, ...]. *)
ASSUME SortitionAssumption ==
    /\ Base \in Nat \ {0, 1} /\ Half \in Nat \ {0}
    /\ Claims \subseteq Hashes \X Hashes

VARIABLES
    hash, proposer_difficulty, transaction_difficulty,  \* of the header
    mined,      \* what the miner makes of it
    verdict     \* what a worker says of it as a block of either kind
header == <<hash, proposer_difficulty, transaction_difficulty>>
sortitionVars == <<header, mined, verdict>>

Higher(h) == Number(SubSeq(h, 1, Half))
Lower(h) == Number(SubSeq(h, Half + 1, 2 * Half))

(* Ord::cmp for H256: the lower halves count if the higher ones are equal.  *)
Less(g, h) ==
    \/ Higher(g) < Higher(h)
    \/ Higher(g) = Higher(h) /\ Lower(g) < Lower(h)

SortitionInit ==
    /\ hash \in Hashes
    /\ \E c \in Claims : proposer_difficulty = c[1] /\ transaction_difficulty = c[2]
    /\ mined = "unseen"
    /\ verdict = [k \in Kinds |-> "unseen"]

(* The miner: a proposer block, else a transaction block, else try again.   *)
Mine_Transaction ==             \* slip: the transaction block is tried first
    /\ mined = "unseen"
    /\ mined' = IF Less(hash, transaction_difficulty) THEN "transaction"
                ELSE IF Less(hash, proposer_difficulty) THEN "proposer" ELSE "nothing"
    /\ UNCHANGED <<header, verdict>>
Mine ==
    /\ mined = "unseen"
    /\ mined' = IF Less(hash, proposer_difficulty) THEN "proposer"
                ELSE IF Less(hash, transaction_difficulty) THEN "transaction" ELSE "nothing"
    /\ UNCHANGED <<header, verdict>>

(* A worker rejects a proposer block above its difficulty, a transaction    *)
(* block above its own or not above the proposer difficulty.                *)
Rejects_Low(k) ==               \* slip: < for <= in the second test
    \/ k = "proposer" /\ Less(proposer_difficulty, hash)
    \/ k = "transaction" /\ Less(transaction_difficulty, hash)
    \/ k = "transaction" /\ Less(hash, proposer_difficulty)
Rejects(k) ==
    \/ k = "proposer" /\ Less(proposer_difficulty, hash)
    \/ k = "transaction" /\ Less(transaction_difficulty, hash)
    \/ k = "transaction" /\ ~ Less(proposer_difficulty, hash)
Receive(k) ==
    /\ verdict[k] = "unseen"
    /\ verdict' = [verdict EXCEPT ![k] = IF Rejects(k) THEN "rejected" ELSE "accepted"]
    /\ UNCHANGED <<header, mined>>

SortitionNext == Mine \/ \E k \in Kinds : Receive(k)
SortitionSpec == SortitionInit /\ [][SortitionNext]_sortitionVars
-----------------------------------------------------------------------------
(* No header passes the checks of both kinds, whatever difficulties it      *)
(* names: a hash that wins a place in the block tree cannot be spent on a   *)
(* transaction block too (worker.rs:304, 308, 362).  One that is low enough *)
(* for either passes one of them.  Left open is a hash that equals its      *)
(* transaction difficulty: line 304 lets it pass, the comment on line 303   *)
(* asks for less.                                                           *)
OneKind ==
    "unseen" \notin {verdict[k] : k \in Kinds} =>
        /\ \E k \in Kinds : verdict[k] = "rejected"
        /\ hash # transaction_difficulty =>
              ((\E k \in Kinds : verdict[k] = "accepted")
                  <=> \/ Number(hash) <= Number(proposer_difficulty)
                      \/ Number(hash) < Number(transaction_difficulty))

(* A worker accepts what a miner makes (miner.rs:228, 298 and worker.rs:304,*)
(* 308, 362 choose different comparisons), with one exception: a            *)
(* transaction block with the proposer difficulty for a hash.               *)
MinedIsAccepted ==
    mined \in Kinds /\ verdict[mined] # "unseen" =>
        (verdict[mined] = "rejected" <=> hash = proposer_difficulty)
=============================================================================
