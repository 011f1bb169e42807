------------------------------ MODULE MCNetwork ------------------------------
(***************************************************************************)
(* Network for TLC.  Three nodes, all connected, where carol's c1 confirms *)
(* the empty transaction block tb of the attacker alice.  Three nodes in a *)
(* line, where alice and bob are connected and carol comes late: e1, e2    *)
(* and e3 are the empty blocks of the attackers alice and bob.             *)
(***************************************************************************)
EXTENDS Network, TLC

CONSTANTS alice, bob, carol, tb, g, c1, e1, e2, e3, zero

Both(n, m) == {<<n, m>>, <<m, n>>}
mcLine == Both(alice, bob) \cup Both(bob, carol)
mcTriangle == mcLine \cup Both(alice, carol)
mcPair == Both(alice, bob)

mcNone == {}
mcEmpty == <<>>

mcOneBlock == {g, c1}
mcOneTxBlock == {tb}
mcOneContent == tb :> <<>>
mcOneParent == c1 :> g
mcOneRefs == c1 :> <<tb>>
mcOneMinedBy == tb :> alice @@ c1 :> carol
mcOneSortition == mcOneBlock \cup mcOneTxBlock

mcEmptyBlocks == {g, e1, e2, e3}
mcEmptyParent == e1 :> g @@ e2 :> e1 @@ e3 :> e1
mcEmptyRefs == e1 :> <<>> @@ e2 :> <<>> @@ e3 :> <<>>
mcEmptyMinedBy == e1 :> alice @@ e2 :> alice @@ e3 :> bob
=============================================================================
