------------------------------- MODULE MCNode -------------------------------
(***************************************************************************)
(* Node for TLC.  x1 and x2 spend the same coin and x3 an output of x1, so *)
(* that transaction blocks p and q have another effect in either order; s  *)
(* confirms x1 again, r holds both spenders; y, in z, is signed wrongly;   *)
(* x4, in o, spends the rest that x1 leaves, x5 gives back more than it    *)
(* takes.  The blocks a1-a2-a3 are a chain, the others fork off it; c1     *)
(* lists z first; f1 fails the PoW check; m2 and m4 are what the miner may *)
(* find, e1, e2 and u, which are empty, what an attacker may.              *)
(* The runs differ in what is in flight and who is running.                *)
(***************************************************************************)
EXTENDS NodeProperties, TLC

CONSTANTS alice, bob, zero, x1, x2, x3, x4, y, x5, o, p, q, r, s, z, u,
          g, a1, a2, a3, b1, c1, d1, f1, m2, m4, e1, e2

mcTxs == {x1, x2, x3, x4, y, x5}
mcSigned == mcTxs \ {y}
Both(c) == <<c, c>>
mcInputs == x1 :> Both(<<zero, 1>>) @@ x2 :> Both(<<zero, 1>>) @@ x3 :> Both(<<x1, 1>>)
            @@ x4 :> Both(<<x1, 2>>) @@ y :> Both(<<zero, 2>>) @@ x5 :> Both(<<zero, 1>>)
mcValues == x1 :> <<700, 300>> @@ x2 :> <<1, 999>> @@ x3 :> <<700, 0>>
            @@ x4 :> <<1, 299>> @@ y :> <<10, 990>> @@ x5 :> <<10, 1000>>
mcAddresses == x1 :> <<bob, alice>> @@ x2 :> <<bob, alice>> @@ x3 :> <<alice, bob>>
               @@ x4 :> <<bob, alice>> @@ y :> <<alice, bob>> @@ x5 :> <<bob, alice>>
mcKey == x1 :> alice @@ x2 :> alice @@ x3 :> bob @@ x4 :> alice
         @@ y :> bob @@ x5 :> alice
mcIco == <<alice, bob>>

mcTxBlocks == {o, p, q, r, s, z, u}
mcContent == p :> <<x1>> @@ q :> <<x2, x3>> @@ r :> <<x1, x2>> @@ s :> <<x1>> @@ z :> <<y>>
             @@ o :> <<x4>> @@ u :> <<>>

mcBlocks == {g, a1, a2, a3, b1, c1, d1, f1, m2, m4, e1, e2}
mcParent == a1 :> g @@ a2 :> a1 @@ a3 :> a2 @@ b1 :> g @@ c1 :> g @@ d1 :> a1 @@ f1 :> g
            @@ m2 :> a1 @@ m4 :> a1 @@ e1 :> g @@ e2 :> a1
mcRefs == a1 :> <<p>> @@ a2 :> <<q>> @@ a3 :> <<s>> @@ b1 :> <<q, p>> @@ c1 :> <<z, q>>
          @@ d1 :> <<>> @@ f1 :> <<p>> @@ m2 :> <<q>>
          @@ m4 :> <<p>> @@ e1 :> <<>> @@ e2 :> <<>>
mcSortition == (mcBlocks \cup mcTxBlocks) \ {f1}

(* The messages in flight: those of the sequence. *)
Mail(seq) == [m \in Message |-> Cardinality({i \in DOMAIN seq : seq[i] = m})]

mcEmpty == {}

(* A block announced by two peers, its child, another child of it that     *)
(* comes first; the transaction block that a1 needs is not there yet.      *)
mcWorkersMail == Mail(<<
    Msg("NewProposerBlockHashes", a1), Msg("NewProposerBlockHashes", a1),
    Msg("NewProposerBlockHashes", a2), Msg("ProposerBlocks", d1),
    Msg("NewTransactionBlockHashes", p) >>)
mcWorkersPool == {q, s}

(* A chain and a fork of it, a wrongly signed block and one that fails the PoW check. *)
mcForksMail == Mail(<<
    Msg("ProposerBlocks", a1), Msg("ProposerBlocks", a2), Msg("ProposerBlocks", a3),
    Msg("ProposerBlocks", b1), Msg("ProposerBlocks", c1), Msg("ProposerBlocks", f1) >>)
mcForksPool == {p, q, s, z}

(* Transactions asked for, offered and confirmed at the same time. *)
mcPoolMail == Mail(<<
    Msg("NewTransactionHashes", x2), Msg("NewTransactionHashes", x3),
    Msg("Transactions", x1), Msg("GetTransactions", x1), Msg("TransactionBlocks", r),
    Msg("ProposerBlocks", a1) >>)
mcPoolTxs == {x1}
mcPoolBlocks == {p}

(* Before the ICO: its message from two peers, and messages too early. *)
mcColdMail == Mail(<<
    Msg("ICO", g), Msg("ICO", g), Msg("Transactions", x1), Msg("ProposerBlocks", a1) >>)
mcColdBlocks == {p}

(* The tip moves under the miner, and a transaction of the new tip comes in. *)
mcMinerMail == Mail(<<
    Msg("ProposerBlocks", a1), Msg("ProposerBlocks", d1), Msg("Transactions", x4) >>)
mcMinerTxs == {x1}
mcMinerBlocks == {p, q}

(* The same pool in front of an attacker; the tip moves, and one of its own *)
(* blocks comes back.                                                       *)
mcAttackMail == Mail(<<
    Msg("ProposerBlocks", a1), Msg("ProposerBlocks", e1), Msg("TransactionBlocks", u) >>)
mcAttack == {e1, e2, u}

(* Only the last block of a chain and a fork of it are announced. *)
mcLeafMail == Mail(<<
    Msg("NewProposerBlockHashes", a3), Msg("NewProposerBlockHashes", d1) >>)

(* A block and its child. *)
mcOrphanMail == Mail(<< Msg("ProposerBlocks", a1), Msg("ProposerBlocks", a2) >>)

(* A cold node with an honest miner, which may start as soon as its thread  *)
(* is up, in between the ICO and a first block.                             *)
mcMined == {m2}
mcStartMail == Mail(<< Msg("ICO", g), Msg("ICO", g), Msg("ProposerBlocks", a1) >>)

(* The node starts cold, or warm with the messages of one of three          *)
(* situations.                                                              *)
TwoWorkers == INSTANCE NodeProperties WITH StartedUp <- TRUE, MayMine <- FALSE,
    InFlight <- mcWorkersMail, PooledTxs <- {}, PooledTxBlocks <- mcWorkersPool
Forks == INSTANCE NodeProperties WITH StartedUp <- TRUE, MayMine <- FALSE,
    InFlight <- mcForksMail, PooledTxs <- {x1, x2, x3}, PooledTxBlocks <- mcForksPool
Pool == INSTANCE NodeProperties WITH StartedUp <- TRUE, MayMine <- FALSE,
    InFlight <- mcPoolMail, PooledTxs <- mcPoolTxs, PooledTxBlocks <- mcPoolBlocks
mcInit == NodeInit \/ TwoWorkers!NodeInit \/ Forks!NodeInit \/ Pool!NodeInit
mcSpec == mcInit /\ [][NodeNext]_nodeVars
=============================================================================
