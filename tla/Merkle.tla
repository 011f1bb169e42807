------------------------------- MODULE Merkle -------------------------------
(***************************************************************************)
(* The Merkle tree (src/src/crypto/merkle.rs): a flat vector of all nodes, *)
(* level after level, leaves first.  SHA-256 is a constructor: the hashes  *)
(* of different things differ.                                             *)
(***************************************************************************)
EXTENDS Integers, Sequences, SequencesExt

CONSTANTS
    Datums,     \* what is put into trees
    MaxLeaves   \* bound: how many

ASSUME MerkleAssumption == MaxLeaves \in Nat

VARIABLES
    data,   \* what a tree was made of
    other   \* what another one was made of
merkleVars == <<data, other>>

HashOf(d) == <<"leaf", d>>
Combined(l, r) == <<"node", l, r>>
NoRoot == <<"zero">>

(* 2u32.pow: it stays below 2^32. *)
TwoTo[n \in Nat] == IF n = 0 THEN 1 ELSE 2 * TwoTo[n - 1]

(* (data.len() as f64).log(2.0).ceil(): exact below 2^29. *)
ModHeight(s) ==
    CHOOSE k \in 0..Len(s) : TwoTo[k] >= Len(s) /\ \A j \in 0..(k - 1) : TwoTo[j] < Len(s)

(* The leaves, the last one repeated until there are 2^mod_height.          *)
Leaves(s) == [i \in 1..TwoTo[ModHeight(s)] |-> HashOf(s[IF i <= Len(s) THEN i ELSE Len(s)])]

(* The levels above: range nodes each, made of pairs from offset on.        *)
AddLevel_NoOffset(made, range) ==   \* slip: always the leaves
    [nodes  |-> made.nodes \o [i \in 1..range |-> Combined(made.nodes[2 * i - 1], made.nodes[2 * i])],
     offset |-> Len(made.nodes)]
AddLevel(made, range) ==
    [nodes  |-> made.nodes \o [i \in 1..range |-> Combined(made.nodes[made.offset + 2 * i - 1],
                                                          made.nodes[made.offset + 2 * i])],
     offset |-> Len(made.nodes)]
Ranges(h) == [k \in 1..h |-> TwoTo[h - k]]

(* MerkleTree::new and root. *)
AllNodes(s) ==
    IF s = <<>> THEN <<>>
    ELSE FoldLeft(AddLevel, [nodes |-> Leaves(s), offset |-> 0], Ranges(ModHeight(s))).nodes
Root(s) == IF AllNodes(s) = <<>> THEN NoRoot ELSE Last(AllNodes(s))

(* proof: the sibling on each level, counting indices from 0.               *)
Sibling(index) == IF index % 2 # 0 THEN index - 1 ELSE index + 1
NextSibling(at, range) ==
    [ret    |-> Append(at.ret, at.offset + Sibling(at.index)),
     index  |-> at.index \div 2,
     offset |-> at.offset + 2 * range]
Siblings(h, index) ==
    FoldLeft(NextSibling, [ret |-> <<>>, index |-> index, offset |-> 0], Ranges(h)).ret
Proof(s, index) ==
    LET ret == Siblings(ModHeight(s), index) IN [k \in 1..Len(ret) |-> AllNodes(s)[ret[k] + 1]]

(* verify: the root that a datum and a proof give. *)
Combine_AlwaysLeft(at, sibling) ==      \* slip
    [cur |-> Combined(at.cur, sibling), idx |-> at.idx \div 2]
Combine(at, sibling) ==
    [cur |-> IF at.idx % 2 = 0 THEN Combined(at.cur, sibling) ELSE Combined(sibling, at.cur),
     idx |-> at.idx \div 2]
Verifies(root, datum, proof, index) ==
    root = FoldLeft(Combine, [cur |-> datum, idx |-> index], proof).cur
-----------------------------------------------------------------------------
(* Vec::push on what the trees are made of. *)
MerkleInit == data = <<>> /\ other = <<>>
PushData == \E d \in Datums : Len(data) < MaxLeaves /\ data' = Append(data, d) /\ UNCHANGED other
PushOther == \E d \in Datums : Len(other) < MaxLeaves /\ other' = Append(other, d) /\ UNCHANGED data
MerkleNext == PushData \/ PushOther
MerkleSpec == MerkleInit /\ [][MerkleNext]_merkleVars
-----------------------------------------------------------------------------
(* Every leaf has a proof, and with a leaf's proof no other datum verifies  *)
(* at that index, nor at another one whose leaf differs: two offsets, one   *)
(* counted up in new and one in proof, must name the same levels.           *)
ProofsAreSound ==
    \A i \in 1..Len(data), j \in 1..TwoTo[ModHeight(data)], d \in Datums :
        LET verified == Verifies(Root(data), HashOf(d), Proof(data, i - 1), j - 1)
        IN  /\ verified => Leaves(data)[j] = HashOf(d)
            /\ i = j => (verified <=> data[i] = d)

(* A root stands for its leaves: lists have one root only if they are equal *)
(* once the last datum is repeated (so <<a, b, c>> and <<a, b, c, c>> do).  *)
RootBindsLeaves ==
    Root(data) = Root(other) <=>
        \/ data = other
        \/ data # <<>> /\ other # <<>> /\ Leaves(data) = Leaves(other)
=============================================================================
