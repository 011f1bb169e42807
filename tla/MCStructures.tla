---------------------------- MODULE MCStructures ----------------------------
(***************************************************************************)
(* The structures that one thread works on at a time, each by itself: the  *)
(* initial state picks the one that is exercised.                          *)
(*   Blockchain: a tree of twelve blocks with forks at three depths.       *)
(*   Ledger: up to four generations of transactions of the shape that      *)
(*     generator.rs makes, two spenders for most coins, values of 0.       *)
(*   Sortition: all hashes of four digits 0 .. 3, difficulties of the      *)
(*     shape of the genesis header's, and others, equal ones or the wrong  *)
(*     way round.                                                          *)
(*   Merkle: all pairs of lists of up to five of two datums, so that every *)
(*     number of repeated leaves occurs over heights 0 to 3.               *)
(***************************************************************************)
EXTENDS Blockchain, Ledger, Sortition, Merkle, TLC

CONSTANTS g, a1, a2, a3, a4, b1, b2, b3, c2, c3, d3, e1, alice, bob, zero,
          t1, t2, t3, t4, t5, t6, t7, t8, t9, u1, u2, u3, u4

VARIABLE subject

mcProposer == <<0, 3, 3, 3>>
mcTransaction == <<1, 3, 3, 3>>
mcHighest == <<3, 3, 3, 3>>
mcClaims == {<<mcProposer, mcTransaction>>, <<mcProposer, mcProposer>>,
             <<mcTransaction, mcProposer>>, <<mcProposer, mcHighest>>}

mcInit ==
    /\ ChainInit /\ LedgerInit /\ SortitionInit /\ MerkleInit
    /\ subject \in {"chain", "ledger", "sortition", "merkle"}
    /\ subject # "sortition" =>
          /\ proposer_difficulty = mcProposer /\ transaction_difficulty = mcTransaction
          /\ hash = mcProposer
mcNext ==
    /\ UNCHANGED subject
    /\ \/ /\ subject = "chain" /\ ChainNext
          /\ UNCHANGED <<ledgerVars, sortitionVars, merkleVars>>
       \/ /\ subject = "ledger" /\ LedgerNext
          /\ UNCHANGED <<chainVars, sortitionVars, merkleVars>>
       \/ /\ subject = "sortition" /\ SortitionNext
          /\ UNCHANGED <<chainVars, ledgerVars, merkleVars>>
       \/ /\ subject = "merkle" /\ MerkleNext
          /\ UNCHANGED <<chainVars, ledgerVars, sortitionVars>>
mcSpec == mcInit /\ [][mcNext]_<<chainVars, ledgerVars, sortitionVars, merkleVars, subject>>

mcBlocks == {g, a1, a2, a3, a4, b1, b2, b3, c2, c3, d3, e1}
mcParent == a1 :> g @@ a2 :> a1 @@ a3 :> a2 @@ a4 :> a3 @@ b1 :> g @@ b2 :> b1
            @@ b3 :> b2 @@ c2 :> a1 @@ c3 :> c2 @@ d3 :> a2 @@ e1 :> g
mcRefs == [b \in mcBlocks \ {g} |-> <<>>]
mcNone == {}
mcNoSeq == <<>>

mcTxs == {t1, t2, t3, t4, t5, t6, t7, t8, t9, u1, u2, u3, u4}
Both(c) == <<c, c>>
mcInputs ==
       t1 :> Both(<<zero, 1>>) @@ t2 :> Both(<<zero, 1>>)  \* alice pays twice
    @@ t3 :> Both(<<t1, 1>>)   @@ t4 :> Both(<<t1, 1>>)    \* so does bob
    @@ t5 :> Both(<<t1, 2>>)   @@ t6 :> Both(<<t5, 1>>)
    @@ t7 :> Both(<<t3, 1>>)   @@ t8 :> Both(<<t3, 1>>)
    @@ t9 :> Both(<<t2, 1>>)
    @@ u1 :> Both(<<zero, 2>>) @@ u2 :> Both(<<zero, 2>>)
    @@ u3 :> Both(<<u1, 1>>)   @@ u4 :> Both(<<u1, 2>>)
mcValues ==
       t1 :> <<700, 300>> @@ t2 :> <<1000, 0>>
    @@ t3 :> <<1, 699>>   @@ t4 :> <<200, 500>>
    @@ t5 :> <<300, 0>>   @@ t6 :> <<150, 150>>
    @@ t7 :> <<1, 0>>     @@ t8 :> <<1, 0>>
    @@ t9 :> <<400, 600>>
    @@ u1 :> <<999, 1>>   @@ u2 :> <<500, 500>>
    @@ u3 :> <<900, 99>>  @@ u4 :> <<1, 0>>
mcAddresses == [x \in mcTxs |-> IF x \in {t3, t4, u1} THEN <<alice, bob>>
                                ELSE <<bob, alice>>]
mcKey == [x \in mcTxs |-> IF x \in {t3, t4, t6, t9, u1, u2, u4} THEN bob ELSE alice]
mcIco == <<alice, bob>>

=============================================================================
