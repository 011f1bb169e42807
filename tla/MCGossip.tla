------------------------------ MODULE MCGossip ------------------------------
(***************************************************************************)
(* Gossip for TLC.  Two nodes, the second knows the first; three nodes in  *)
(* a line, the one in the middle connects to one and is connected to by    *)
(* the other.                                                              *)
(***************************************************************************)
EXTENDS Gossip, TLC

CONSTANTS alice, bob, carol, w1, w2, a1, a2, b1, c1

mcPairOwn == alice :> <<a1>> @@ bob :> <<b1>>
mcWorkers == Permutations({w1, w2})
mcPairKnown == alice :> <<>> @@ bob :> <<alice>>

mcLineOwn == alice :> <<a1>> @@ bob :> <<b1>> @@ carol :> <<c1>>
mcLineKnown == alice :> <<>> @@ bob :> <<alice>> @@ carol :> <<bob>>

(* For liveness the line is connected.  Either alice's address was made     *)
(* before that, the others are still to come; or all were made before, and  *)
(* two ICO commands are given.                                              *)
Icos == INSTANCE Gossip WITH Settled <- Nodes, MaxIco <- 2
mcLiveSpec == (GossipInit \/ Icos!GossipInit) /\ [][GossipNext]_gossipVars /\ GossipFairness
=============================================================================
