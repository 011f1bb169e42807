------------------------------ MODULE MCWallet ------------------------------
(***************************************************************************)
(* Wallet for TLC, with the transactions and blocks of MCNode.  The node   *)
(* is alice's: x1 and x2 may be made of her ICO coin, x4 of what x1 leaves *)
(* her; x5 she never makes, and x3 is bob's.                               *)
(***************************************************************************)
EXTENDS MCNode, Wallet

NoCommands == [signal \in Signals |-> 0]

(* A warm node: alice's generator, started twice, while a block and a fork  *)
(* come in; or the operator leaves her generator alone.                    *)
mcWalletMail == Mail(<< Msg("ProposerBlocks", a1), Msg("ProposerBlocks", b1) >>)
mcWalletBlocks == {p, q}
mcTwoStarts == [NoCommands EXCEPT !["Start"] = 2, !["Balance"] = 1]
mcWalletMined == {m2, m4, o}
Mining == INSTANCE Wallet WITH
    InFlight <- mcMinerMail, PooledTxs <- mcMinerTxs, PooledTxBlocks <- mcMinerBlocks,
    Commands <- NoCommands
mcWarmSpec == (WalletInit \/ Mining!WalletInit) /\ [][WalletNext]_allVars

(* Before the ICO: the operator gives it and looks at the ledger and pool, *)
(* in any order; or it comes from two peers; or the attacker's miner loop   *)
(* on a warm node.                                                          *)
mcEarlyMail == Mail(<< Msg("ProposerBlocks", a1), Msg("Transactions", x1) >>)
mcColdCommands ==
    [signal \in Signals |-> IF signal \in {"Start", "ICO", "PrintICO", "PrintTransaction"} THEN 1 ELSE 0]
Cold == INSTANCE Wallet WITH InFlight <- mcColdMail, Commands <- NoCommands
Attack == INSTANCE Wallet WITH
    InFlight <- mcAttackMail, PooledTxs <- mcMinerTxs, PooledTxBlocks <- mcMinerBlocks,
    StartedUp <- TRUE, Commands <- NoCommands
mcColdInit == WalletInit \/ Cold!WalletInit \/ Attack!WalletInit
mcColdSpec == mcColdInit /\ [][WalletNext]_allVars

(* For liveness, a part of the transactions and blocks: a chain and a fork  *)
(* of it come in while the generator runs, or only the last block of either *)
(* is announced.                                                            *)
mcLiveTxs == {x1, x2, x3, x4}
mcLiveTxBlocks == {p, q, s}
mcLiveBlocks == {g, a1, a2, a3, d1}
mcLiveChildren == mcLiveBlocks \ {g}
mcLiveSortition == mcLiveBlocks \cup mcLiveTxBlocks
mcLiveInputs == Restrict(mcInputs, mcLiveTxs)
mcLiveValues == Restrict(mcValues, mcLiveTxs)
mcLiveAddresses == Restrict(mcAddresses, mcLiveTxs)
mcLiveKey == Restrict(mcKey, mcLiveTxs)
mcLiveContent == Restrict(mcContent, mcLiveTxBlocks)
mcLiveParent == Restrict(mcParent, mcLiveChildren)
mcLiveRefs == Restrict(mcRefs, mcLiveChildren)
mcStartAndLook == [NoCommands EXCEPT !["Start"] = 1, !["Balance"] = 1]
mcLiveMail == Mail(<<
    Msg("ProposerBlocks", a1), Msg("ProposerBlocks", a2), Msg("ProposerBlocks", d1) >>)
CatchUp == INSTANCE Wallet WITH InFlight <- mcLeafMail, Commands <- NoCommands
mcLiveSpec ==
    /\ WalletInit \/ CatchUp!WalletInit
    /\ [][WalletNext]_allVars
    /\ WalletFairness
=============================================================================
