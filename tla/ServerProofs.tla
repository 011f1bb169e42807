---------------------------- MODULE ServerProofs ----------------------------
(***************************************************************************)
(* The server's peer_list, a vector from which elements are taken by       *)
(* swap_remove, and its slab, whose keys are used again, stay in step for  *)
(* any number of connections and slots; no connection is refused while a   *)
(* slot is free; and what is broadcast reaches every peer, in order.       *)
(***************************************************************************)
EXTENDS Server, FiniteSetTheorems, TLAPS

(* The slab's keys are the first numbers; the free ones and those of the    *)
(* peers are kept without repetition.                                       *)
SlabOK ==
    /\ \E n \in 0..MaxPeers : DOMAIN peers = 0..(n - 1)
    /\ peers \in [DOMAIN peers -> Conns \cup {None}]
    /\ vacant \in Seq(Nat) /\ peer_list \in Seq(Nat)
    /\ PeerListMatches

(* Every connection has all the fields of a new one.                        *)
ConnsOK == conn = [c \in Conns |-> conn[c]] /\ \A c \in Conns : DOMAIN conn[c] = DOMAIN NewConn
-----------------------------------------------------------------------------
(* A vector without repetitions: push, pop at the front, push at the front, *)
(* and swap_remove.                                                         *)
LEMMA PushBack ==
  ASSUME NEW S, NEW s \in Seq(S), NEW x \in S, IsInjective(s), x \notin ToSet(s)
  PROVE  /\ Append(s, x) \in Seq(S) /\ IsInjective(Append(s, x))
         /\ ToSet(Append(s, x)) = ToSet(s) \cup {x}
<1>1. \A i \in 1..(Len(s) + 1) : Append(s, x)[i] = IF i <= Len(s) THEN s[i] ELSE x
  OBVIOUS
<1>2. \A i \in 1..Len(s) : s[i] # x
  BY DEF ToSet
<1>3. Append(s, x) \in Seq(S) /\ Len(Append(s, x)) = Len(s) + 1
  OBVIOUS
<1>4. IsInjective(Append(s, x))
  BY <1>1, <1>2, <1>3 DEF IsInjective
<1>5. \A a : a \in ToSet(Append(s, x)) <=> \E i \in 1..(Len(s) + 1) : Append(s, x)[i] = a
  BY DEF ToSet
<1>6. \A a : a \in ToSet(s) <=> \E i \in 1..Len(s) : s[i] = a
  BY DEF ToSet
<1> QED
  BY <1>1, <1>3, <1>4, <1>5, <1>6

(* The first free key is taken: the others stay, once each. *)
LEMMA PopFront ==
  ASSUME NEW S, NEW s \in Seq(S), s # <<>>, IsInjective(s)
  PROVE  /\ Tail(s) \in Seq(S) /\ IsInjective(Tail(s))
         /\ Head(s) \in ToSet(s) /\ ToSet(Tail(s)) = ToSet(s) \ {Head(s)}
<1>1. /\ Tail(s) \in Seq(S) /\ Len(Tail(s)) = Len(s) - 1 /\ Head(s) = s[1] /\ 1 \in 1..Len(s)
      /\ \A i \in 1..(Len(s) - 1) : Tail(s)[i] = s[i + 1]
  OBVIOUS
<1>2. \A i, j \in 1..Len(s) : s[i] = s[j] => i = j
  BY DEF IsInjective
<1>3. IsInjective(Tail(s))
  BY <1>1, <1>2 DEF IsInjective
<1>4. \A a : a \in ToSet(Tail(s)) <=> \E i \in 1..(Len(s) - 1) : s[i + 1] = a
  <2> DEFINE t == Tail(s)
  <2>1. DOMAIN t = 1..(Len(s) - 1) /\ \A i \in 1..(Len(s) - 1) : t[i] = s[i + 1]
    BY <1>1
  <2> HIDE DEF t
  <2>2. \A a : a \in ToSet(t) <=> \E i \in 1..(Len(s) - 1) : s[i + 1] = a
    BY <2>1 DEF ToSet
  <2> QED
    BY <2>2 DEF t
<1>5. \A a : a \in ToSet(s) <=> \E i \in 1..Len(s) : s[i] = a
  BY DEF ToSet
<1>6. ASSUME NEW a \in ToSet(s), a # Head(s) PROVE a \in ToSet(Tail(s))
  <2>1. PICK i \in 1..Len(s) : s[i] = a
    BY <1>5
  <2>2. i - 1 \in 1..(Len(s) - 1) /\ s[(i - 1) + 1] = a
    BY <2>1, <1>1, <1>6
  <2> QED
    BY <2>2, <1>4
<1>7. ASSUME NEW a \in ToSet(Tail(s)) PROVE a \in ToSet(s) /\ a # Head(s)
  <2>1. PICK i \in 1..(Len(s) - 1) : s[i + 1] = a
    BY <1>4
  <2>2. i + 1 \in 1..Len(s) /\ i + 1 # 1
    BY <2>1
  <2> QED
    BY <2>1, <2>2, <1>1, <1>2, <1>5
<1> QED
  BY <1>1, <1>3, <1>5, <1>6, <1>7

(* A freed key is put in front of the others. *)
LEMMA PushFront ==
  ASSUME NEW S, NEW s \in Seq(S), NEW x \in S, IsInjective(s), x \notin ToSet(s)
  PROVE  /\ <<x>> \o s \in Seq(S) /\ IsInjective(<<x>> \o s)
         /\ ToSet(<<x>> \o s) = ToSet(s) \cup {x}
<1> DEFINE t == <<x>> \o s
<1>1. t \in Seq(S) /\ Len(t) = Len(s) + 1
      /\ \A i \in 1..(Len(s) + 1) : t[i] = IF i = 1 THEN x ELSE s[i - 1]
  OBVIOUS
<1> HIDE DEF t
<1>2. \A i \in 1..Len(s) : s[i] # x
  BY DEF ToSet
<1>3. \A i, j \in 1..Len(s) : s[i] = s[j] => i = j
  BY DEF IsInjective
<1>4. IsInjective(t)
  BY <1>1, <1>2, <1>3 DEF IsInjective
<1>5. \A a : a \in ToSet(t) <=> \E i \in 1..(Len(s) + 1) : t[i] = a
  BY <1>1 DEF ToSet
<1>6. \A a : a \in ToSet(s) <=> \E i \in 1..Len(s) : s[i] = a
  BY DEF ToSet
<1>7. ASSUME NEW a \in ToSet(s) PROVE a \in ToSet(t)
  <2>1. PICK i \in 1..Len(s) : s[i] = a
    BY <1>6
  <2>2. i + 1 \in 1..(Len(s) + 1) /\ t[i + 1] = a
    BY <2>1, <1>1
  <2> QED
    BY <2>2, <1>5
<1>8. ASSUME NEW a \in ToSet(t) PROVE a \in ToSet(s) \cup {x}
  <2>1. PICK i \in 1..(Len(s) + 1) : t[i] = a
    BY <1>5
  <2>2. CASE i = 1
    BY <2>1, <2>2, <1>1
  <2>3. CASE i # 1
    <3>1. i - 1 \in 1..Len(s) /\ s[i - 1] = a
      BY <2>1, <2>3, <1>1
    <3> QED
      BY <3>1, <1>6
  <2> QED
    BY <2>2, <2>3
<1>9. x \in ToSet(t)
  BY <1>1, <1>5
<1> QED
  BY <1>1, <1>4, <1>7, <1>8, <1>9 DEF t

(* swap_remove takes out one element and leaves the others, once each. *)
LEMMA SwapRemoves ==
  ASSUME NEW S, NEW s \in Seq(S), NEW k \in DOMAIN s, IsInjective(s)
  PROVE  /\ SwapRemove(s, k) \in Seq(S) /\ IsInjective(SwapRemove(s, k))
         /\ ToSet(SwapRemove(s, k)) = ToSet(s) \ {s[k]}
<1> DEFINE u == [s EXCEPT ![k] = s[Len(s)]]
           t == SubSeq(u, 1, Len(s) - 1)
<1>1. SwapRemove(s, k) = t
  BY DEF SwapRemove, Last
<1>2. Len(s) \in Nat /\ Len(s) >= 1 /\ k \in 1..Len(s)
  OBVIOUS
<1>3. u \in Seq(S) /\ Len(u) = Len(s)
      /\ \A i \in 1..Len(s) : u[i] = IF i = k THEN s[Len(s)] ELSE s[i]
  BY <1>2
<1> HIDE DEF u
<1>4. t \in Seq(S) /\ Len(t) = Len(s) - 1 /\ \A i \in 1..(Len(s) - 1) : t[i] = u[i]
  BY <1>2, <1>3
<1> HIDE DEF t
<1>5. \A i, j \in 1..Len(s) : s[i] = s[j] => i = j
  BY DEF IsInjective
<1>6. \A i \in 1..(Len(s) - 1) : t[i] = IF i = k THEN s[Len(s)] ELSE s[i]
  BY <1>2, <1>3, <1>4
<1>7. IsInjective(t)
  BY <1>2, <1>4, <1>5, <1>6 DEF IsInjective
<1>8. \A a : a \in ToSet(t) <=> \E i \in 1..(Len(s) - 1) : t[i] = a
  BY <1>4 DEF ToSet
<1>9. \A a : a \in ToSet(s) <=> \E i \in 1..Len(s) : s[i] = a
  BY DEF ToSet
<1>10. ASSUME NEW a \in ToSet(s), a # s[k] PROVE a \in ToSet(t)
  <2>1. PICK i \in 1..Len(s) : s[i] = a
    BY <1>9
  <2>2. i # k
    BY <2>1, <1>10
  <2>3. CASE i = Len(s)
    <3>1. k \in 1..(Len(s) - 1) /\ t[k] = a
      BY <2>1, <2>2, <2>3, <1>2, <1>6
    <3> QED
      BY <3>1, <1>8
  <2>4. CASE i # Len(s)
    <3>1. i \in 1..(Len(s) - 1) /\ t[i] = a
      BY <2>1, <2>2, <2>4, <1>2, <1>6
    <3> QED
      BY <3>1, <1>8
  <2> QED
    BY <2>3, <2>4
<1>11. ASSUME NEW a \in ToSet(t) PROVE a \in ToSet(s) /\ a # s[k]
  <2>1. PICK i \in 1..(Len(s) - 1) : t[i] = a
    BY <1>8
  <2>2. PICK j \in 1..Len(s) : j # k /\ s[j] = a
    <3>1. CASE i = k
      BY <2>1, <3>1, <1>2, <1>6
    <3>2. CASE i # k
      BY <2>1, <3>2, <1>2, <1>6
    <3> QED
      BY <3>1, <3>2
  <2> QED
    BY <2>2, <1>2, <1>5, <1>9
<1> QED
  BY <1>1, <1>4, <1>7, <1>10, <1>11
-----------------------------------------------------------------------------
(* Registering a connection and removing a peer. *)
LEMMA NextKeyOK ==
  ASSUME SlabOK, NextKey < MaxPeers
  PROVE  /\ NextKey \in Nat /\ NextKey \notin Occupied
         /\ \E n \in 0..MaxPeers : DOMAIN peers \cup {NextKey} = 0..(n - 1)
         /\ IF vacant = <<>> THEN NextKey \notin DOMAIN peers ELSE NextKey \in ToSet(vacant)
<1>1. PICK n \in 0..MaxPeers : DOMAIN peers = 0..(n - 1)
  BY DEF SlabOK
<1>2. MaxPeers \in Nat
  BY ServerAssumption DEF ServerAssumption
<1>3. CASE vacant = <<>>
  <2>1. Cardinality(0..(n - 1)) = n
    BY <1>1, <1>2, FS_Interval
  <2>2. NextKey = n /\ n \in Nat /\ n < MaxPeers
    BY <1>1, <1>2, <1>3, <2>1 DEF NextKey
  <2>3. DOMAIN peers \cup {NextKey} = 0..((n + 1) - 1) /\ n + 1 \in 0..MaxPeers
    BY <1>1, <1>2, <2>2
  <2> QED
    BY <1>1, <1>3, <2>2, <2>3 DEF Occupied
<1>4. CASE vacant # <<>>
  <2>1. NextKey = Head(vacant) /\ Head(vacant) \in ToSet(vacant)
    BY <1>4, PopFront DEF NextKey, SlabOK, PeerListMatches
  <2>2. NextKey \in DOMAIN peers \ Occupied
    BY <2>1 DEF SlabOK, PeerListMatches
  <2> QED
    BY <1>1, <1>4, <2>1, <2>2
<1> QED
  BY <1>3, <1>4

(* A new peer gets a free key, which enters peer_list. *)
LEMMA RegisterOK ==
  ASSUME SlabOK, NEW c \in Conns, Register(c)
  PROVE  SlabOK'
<1>1. CASE NextKey >= MaxPeers
  BY <1>1 DEF Register, slabVars, SlabOK, PeerListMatches, Occupied
<1>2. CASE NextKey < MaxPeers
  <2>1. PICK k : k = NextKey
    OBVIOUS
  <2>2. /\ k \in Nat /\ k \notin Occupied
        /\ \E n \in 0..MaxPeers : DOMAIN peers \cup {k} = 0..(n - 1)
        /\ IF vacant = <<>> THEN k \notin DOMAIN peers ELSE k \in ToSet(vacant)
        /\ vacant # <<>> => k = Head(vacant)
    BY <1>2, <2>1, NextKeyOK DEF NextKey
  <2>3. ~ (k >= MaxPeers)
    BY <1>2, <2>1, <2>2, ServerAssumption DEF ServerAssumption
  <2>4. /\ peers' = [j \in DOMAIN peers \cup {k} |-> IF j = k THEN c ELSE peers[j]]
        /\ vacant' = IF vacant = <<>> THEN vacant ELSE Tail(vacant)
        /\ peer_list' = Append(peer_list, k)
    BY <2>1, <2>3 DEF Register
  <2>5. DOMAIN peers' = DOMAIN peers \cup {k} /\ c # None /\ peers'[k] = c
        /\ \A j \in DOMAIN peers : j # k => peers'[j] = peers[j]
    BY <2>4, ServerAssumption DEF ServerAssumption
  <2>6. Occupied' = Occupied \cup {k}
    BY <2>2, <2>5 DEF Occupied
  <2>7. peers' \in [DOMAIN peers' -> Conns \cup {None}]
    BY <2>4, <2>5 DEF SlabOK
  <2>8. peer_list \in Seq(Nat) /\ IsInjective(peer_list) /\ ToSet(peer_list) = Occupied
        /\ vacant \in Seq(Nat) /\ IsInjective(vacant) /\ ToSet(vacant) = DOMAIN peers \ Occupied
    BY DEF SlabOK, PeerListMatches
  <2>9. peer_list' \in Seq(Nat) /\ IsInjective(peer_list') /\ ToSet(peer_list') = Occupied'
    BY <2>2, <2>4, <2>6, <2>8, PushBack
  <2>10. vacant' \in Seq(Nat) /\ IsInjective(vacant') /\ ToSet(vacant') = DOMAIN peers' \ Occupied'
    <3>1. CASE vacant = <<>>
      <4>1. ToSet(vacant) = {} /\ k \notin DOMAIN peers
        BY <3>1, <2>2 DEF ToSet
      <4> QED
        BY <3>1, <4>1, <2>4, <2>5, <2>6, <2>8
    <3>2. CASE vacant # <<>>
      <4>1. Tail(vacant) \in Seq(Nat) /\ IsInjective(Tail(vacant))
            /\ ToSet(Tail(vacant)) = ToSet(vacant) \ {k}
        BY <3>2, <2>2, <2>8, PopFront
      <4> QED
        BY <3>2, <4>1, <2>2, <2>4, <2>5, <2>6, <2>8
    <3> QED
      BY <3>1, <3>2
  <2> QED
    BY <2>2, <2>5, <2>7, <2>9, <2>10 DEF SlabOK, PeerListMatches
<1>3. NextKey >= MaxPeers \/ NextKey < MaxPeers
  <2>1. NextKey \in Nat /\ MaxPeers \in Nat
    <3>1. CASE vacant = <<>>
      <4>1. PICK n \in 0..MaxPeers : DOMAIN peers = 0..(n - 1)
        BY DEF SlabOK
      <4>2. Cardinality(0..(n - 1)) \in Nat
        BY <4>1, ServerAssumption, FS_Interval, FS_CardinalityType DEF ServerAssumption
      <4> QED
        BY <3>1, <4>1, <4>2, ServerAssumption DEF NextKey, ServerAssumption
    <3>2. CASE vacant # <<>>
      BY <3>2, ServerAssumption DEF NextKey, SlabOK, ServerAssumption
    <3> QED
      BY <3>1, <3>2
  <2> QED
    BY <2>1
<1> QED
  BY <1>1, <1>2, <1>3

(* A removed peer's key leaves peer_list and becomes free. *)
LEMMA RemovePeerOK ==
  ASSUME SlabOK, NEW k \in Occupied, RemovePeer(k)
  PROVE  SlabOK'
<1>1. peer_list \in Seq(Nat) /\ IsInjective(peer_list) /\ ToSet(peer_list) = Occupied
      /\ vacant \in Seq(Nat) /\ IsInjective(vacant) /\ ToSet(vacant) = DOMAIN peers \ Occupied
  BY DEF SlabOK, PeerListMatches
<1>2. Position(k) \in DOMAIN peer_list /\ peer_list[Position(k)] = k
  <2>1. \E i \in DOMAIN peer_list : peer_list[i] = k
    BY <1>1 DEF ToSet
  <2> QED
    BY <2>1 DEF Position
<1>3. /\ peers' = [peers EXCEPT ![k] = None]
      /\ vacant' = <<k>> \o vacant
      /\ peer_list' = SwapRemove(peer_list, Position(k))
  BY DEF RemovePeer
<1>4. DOMAIN peers' = DOMAIN peers /\ k \in DOMAIN peers /\ peers[k] # None /\ peers'[k] = None
      /\ \A j \in DOMAIN peers : j # k => peers'[j] = peers[j]
  BY <1>3 DEF Occupied
<1>5. Occupied' = Occupied \ {k}
  BY <1>4 DEF Occupied
<1>6. peers' \in [DOMAIN peers' -> Conns \cup {None}]
  BY <1>3, <1>4 DEF SlabOK
<1>7. peer_list' \in Seq(Nat) /\ IsInjective(peer_list') /\ ToSet(peer_list') = Occupied'
  BY <1>1, <1>2, <1>3, <1>5, SwapRemoves
<1>8. k \in Nat
  BY <1>1, <1>2
<1>9. vacant' \in Seq(Nat) /\ IsInjective(vacant') /\ ToSet(vacant') = DOMAIN peers' \ Occupied'
  <2>1. k \notin ToSet(vacant)
    BY <1>1
  <2>2. <<k>> \o vacant \in Seq(Nat) /\ IsInjective(<<k>> \o vacant)
        /\ ToSet(<<k>> \o vacant) = ToSet(vacant) \cup {k}
    BY <1>1, <1>8, <2>1, PushFront
  <2> QED
    BY <1>1, <1>3, <1>4, <1>5, <2>2
<1> QED
  BY <1>4, <1>6, <1>7, <1>9 DEF SlabOK, PeerListMatches

(* Every step: the slab is touched by those two only. *)
LEMMA SlabStep == ASSUME SlabOK, [ServerNext]_serverVars PROVE SlabOK'
<1>1. CASE \E c \in Conns : Register(c)
  BY <1>1, RegisterOK
<1>2. CASE \E k \in Occupied : RemovePeer(k)
  BY <1>2, RemovePeerOK
<1>3. CASE UNCHANGED slabVars
  BY <1>3 DEF slabVars, SlabOK, PeerListMatches, Occupied
<1>4. (\E c \in Conns : Register(c)) \/ (\E k \in Occupied : RemovePeer(k)) \/ UNCHANGED slabVars
  BY DEF ServerNext, LoopStep, Environment, Poll, ControlStep, IncomingStep, SocketStep,
         ProcessConnect, ProcessBroadcast, ControlDrained, AcceptOne, AcceptBlocks, AcceptFails,
         SkipSocket, ReadSome, ReadEnd, WriteAll, WriteBlocks, WriteEnd, Readable, Writable,
         RegisterWriteInterest, QueuePanics, CallBroadcast, CallConnect, Arrive, SocketEvent,
         serverVars, slabVars
<1> QED
  BY <1>1, <1>2, <1>3, <1>4

(* The slab is empty at the start. *)
LEMMA SlabStart == ServerInit => SlabOK
<1> SUFFICES ASSUME ServerInit PROVE SlabOK
  OBVIOUS
<1>1. peers = [k \in {} |-> None] /\ vacant = <<>> /\ peer_list = <<>>
  BY DEF ServerInit
<1>2. DOMAIN peers = {} /\ Occupied = {} /\ ToSet(<<>>) = {} /\ IsInjective(<<>>)
  BY <1>1 DEF Occupied, ToSet, IsInjective
<1>3. 0 \in 0..MaxPeers /\ 0..(0 - 1) = {}
  BY ServerAssumption DEF ServerAssumption
<1> QED
  BY <1>1, <1>2, <1>3 DEF SlabOK, PeerListMatches

(* The slab is full when the next key is too large.                         *)
LEMMA FullSlab == ASSUME SlabOK, NextKey >= MaxPeers PROVE Cardinality(Occupied) = MaxPeers
<1>1. PICK n \in 0..MaxPeers : DOMAIN peers = 0..(n - 1)
  BY DEF SlabOK
<1>2. MaxPeers \in Nat /\ n \in Nat /\ n <= MaxPeers
  BY <1>1, ServerAssumption DEF ServerAssumption
<1>3. vacant = <<>>
  <2> SUFFICES ASSUME vacant # <<>> PROVE FALSE
    OBVIOUS
  <2>1. NextKey \in ToSet(vacant) /\ ToSet(vacant) \subseteq DOMAIN peers
    BY PopFront DEF NextKey, SlabOK, PeerListMatches
  <2>2. NextKey \in 0..(n - 1)
    BY <1>1, <2>1
  <2> QED
    BY <1>2, <2>2
<1>4. Occupied = DOMAIN peers
  <2>1. ToSet(vacant) = {}
    BY <1>3 DEF ToSet
  <2> QED
    BY <2>1 DEF SlabOK, PeerListMatches, Occupied
<1>5. Cardinality(0..(n - 1)) = n
  BY <1>2, FS_Interval
<1>6. NextKey = n
  BY <1>1, <1>3, <1>5 DEF NextKey
<1> QED
  BY <1>1, <1>2, <1>4, <1>5, <1>6

(* What a step may do to a connection. *)
Refuses(c) == conn'[c].stage = "refused" =>
                  conn[c].stage = "refused" \/ Cardinality(Occupied) = MaxPeers
ConnStep == ConnsOK' /\ \A c \in Conns : Refuses(c)

(* One connection changes, and is refused only if the slab is full.         *)
LEMMA OneConnStep ==
  ASSUME ConnsOK, NEW d \in Conns, NEW r, conn' = [conn EXCEPT ![d] = r],
         DOMAIN r = DOMAIN NewConn,
         r.stage \in {conn[d].stage, "asked", "open", "gone"} \/ Cardinality(Occupied) = MaxPeers
  PROVE  ConnStep
<1>1. conn' = [c \in Conns |-> IF c = d THEN r ELSE conn[c]]
  BY DEF ConnsOK
<1>2. \A c \in Conns : conn'[c] = IF c = d THEN r ELSE conn[c]
  BY <1>1
<1>3. ConnsOK'
  BY <1>1, <1>2 DEF ConnsOK
<1>4. \A c \in Conns : Refuses(c)
  BY <1>2 DEF Refuses
<1> QED
  BY <1>3, <1>4 DEF ConnStep

(* Connections change, but not their stages. *)
LEMMA ManyConnStep ==
  ASSUME ConnsOK, NEW f, conn' = [c \in Conns |-> f[c]], 
         \A c \in Conns : DOMAIN f[c] = DOMAIN NewConn /\ f[c].stage = conn[c].stage
  PROVE  ConnStep
  BY DEF ConnStep, ConnsOK, Refuses

(* register refuses a connection only when the slab is full. *)
LEMMA RegisterConn ==
  ASSUME SlabOK, ConnsOK, NEW c \in Conns, Register(c) PROVE ConnStep
<1>1. CASE NextKey >= MaxPeers
  <2>1. conn' = [conn EXCEPT ![c] = [conn[c] EXCEPT !.stage = "refused"]]
    BY <1>1 DEF Register
  <2>2. DOMAIN [conn[c] EXCEPT !.stage = "refused"] = DOMAIN NewConn
    BY DEF ConnsOK
  <2> QED
    BY <1>1, <2>1, <2>2, FullSlab, OneConnStep
<1>2. CASE ~ (NextKey >= MaxPeers)
  <2> DEFINE r == [NewConn EXCEPT !.stage = "open", !.armed = TRUE, !.joined = done]
  <2>1. conn' = [conn EXCEPT ![c] = r]
    BY <1>2 DEF Register
  <2>2. DOMAIN r = DOMAIN NewConn /\ r.stage = "open"
    BY DEF NewConn
  <2> HIDE DEF r
  <2> QED
    BY <2>1, <2>2, OneConnStep
<1> QED
  BY <1>1, <1>2

(* The removal of a peer refuses nobody. *)
LEMMA RemoveConn ==
  ASSUME SlabOK, ConnsOK, NEW k \in Occupied, RemovePeer(k) PROVE ConnStep
<1>1. peers[k] \in Conns
  BY DEF SlabOK, Occupied
<1>2. conn' = [conn EXCEPT ![peers[k]] = [conn[peers[k]] EXCEPT !.stage = "gone"]]
  BY DEF RemovePeer
<1>3. /\ DOMAIN [conn[peers[k]] EXCEPT !.stage = "gone"] = DOMAIN NewConn
      /\ [conn[peers[k]] EXCEPT !.stage = "gone"].stage = "gone"
  BY <1>1 DEF ConnsOK, NewConn
<1> QED
  BY <1>1, <1>2, <1>3, OneConnStep

(* The writer's steps, requests and arrivals change one connection.         *)
LEMMA OtherConnSteps ==
  ASSUME SlabOK, ConnsOK,
         \/ WriteAll \/ RegisterWriteInterest
         \/ \E c \in Conns : CallConnect(c) \/ Arrive(c) \/ \E e : SocketEvent(c, e)
  PROVE  ConnStep
<1>1. \A c \in Conns : DOMAIN conn[c] = DOMAIN NewConn /\ "stage" \in DOMAIN conn[c]
  BY DEF ConnsOK, NewConn
<1>2. CASE WriteAll
  <2>1. PICK c \in Conns : conn' = [conn EXCEPT ![c] =
             [conn[c] EXCEPT !.queue = <<>>, !.writing = FALSE, !.armed = TRUE]]
    BY <1>2 DEF WriteAll, Writable, SlabOK, Occupied
  <2>2. /\ DOMAIN [conn[c] EXCEPT !.queue = <<>>, !.writing = FALSE, !.armed = TRUE] = DOMAIN NewConn
        /\ [conn[c] EXCEPT !.queue = <<>>, !.writing = FALSE, !.armed = TRUE].stage = conn[c].stage
    BY <1>1
  <2> QED
    BY <2>1, <2>2, OneConnStep
<1>3. CASE RegisterWriteInterest
  <2>1. PICK c \in Conns : conn' = [conn EXCEPT ![c] = [conn[c] EXCEPT !.writing = TRUE]]
    BY <1>3 DEF RegisterWriteInterest, SlabOK, Occupied
  <2>2. /\ DOMAIN [conn[c] EXCEPT !.writing = TRUE] = DOMAIN NewConn
        /\ [conn[c] EXCEPT !.writing = TRUE].stage = conn[c].stage
    BY <1>1
  <2> QED
    BY <2>1, <2>2, OneConnStep
<1>4. CASE \E c \in Conns : CallConnect(c) \/ Arrive(c)
  <2>1. PICK c \in Conns : conn' = [conn EXCEPT ![c] = [conn[c] EXCEPT !.stage = "asked"]]
    BY <1>4 DEF CallConnect, Arrive
  <2>2. /\ DOMAIN [conn[c] EXCEPT !.stage = "asked"] = DOMAIN NewConn
        /\ [conn[c] EXCEPT !.stage = "asked"].stage = "asked"
    BY <1>1
  <2> QED
    BY <2>1, <2>2, OneConnStep
<1>5. CASE \E c \in Conns : \E e : SocketEvent(c, e)
  <2>0. PICK c \in Conns : \E E : conn' = [conn EXCEPT ![c] = [conn[c] EXCEPT !.events = E]]
    BY <1>5 DEF SocketEvent
  <2>1. PICK E : conn' = [conn EXCEPT ![c] = [conn[c] EXCEPT !.events = E]]
    BY <2>0
  <2>2. /\ DOMAIN [conn[c] EXCEPT !.events = E] = DOMAIN NewConn
        /\ [conn[c] EXCEPT !.events = E].stage = conn[c].stage
    BY <1>1
  <2> QED
    BY <2>1, <2>2, OneConnStep
<1> QED
  BY <1>2, <1>3, <1>4, <1>5

(* poll() and a broadcast change no stage. *)
LEMMA PollConn ==
  ASSUME ConnsOK, Poll \/ ProcessBroadcast PROVE ConnStep
<1>1. \A c \in Conns : DOMAIN conn[c] = DOMAIN NewConn /\ "stage" \in DOMAIN conn[c]
  BY DEF ConnsOK, NewConn
<1>2. CASE Poll
  <2> DEFINE f == [c \in Conns |-> [conn[c] EXCEPT !.events = {},
                                                   !.armed = @ /\ "queue" \notin conn[c].events]]
  <2>1. conn' = f
    BY <1>2 DEF Poll
  <2>2. \A c \in Conns : DOMAIN f[c] = DOMAIN NewConn /\ f[c].stage = conn[c].stage
    BY <1>1
  <2>3. f = [c \in Conns |-> f[c]]
    OBVIOUS
  <2> HIDE DEF f
  <2> QED
    BY <2>1, <2>2, <2>3, ManyConnStep
<1>3. CASE ProcessBroadcast
  <2> DEFINE f == [c \in Conns |-> IF \E i \in DOMAIN peer_list : peers[peer_list[i]] = c
                                   THEN Given(c, Head(control)) ELSE conn[c]]
  <2>1. conn' = f
    BY <1>3 DEF ProcessBroadcast
  <2>2. \A c \in Conns : DOMAIN f[c] = DOMAIN NewConn /\ f[c].stage = conn[c].stage
    <3>1. \A c \in Conns : /\ DOMAIN Given(c, Head(control)) = DOMAIN NewConn
                           /\ Given(c, Head(control)).stage = conn[c].stage
      BY <1>1 DEF Given
    <3> QED
      BY <1>1, <3>1
  <2>3. f = [c \in Conns |-> f[c]]
    OBVIOUS
  <2> HIDE DEF f
  <2> QED
    BY <2>1, <2>2, <2>3, ManyConnStep
<1> QED
  BY <1>2, <1>3

(* What leaves the connections alone refuses nobody. *)
LEMMA SameConns == ASSUME ConnsOK, conn' = conn PROVE ConnStep
  BY DEF ConnStep, ConnsOK, Refuses

(* No step refuses a connection while there is room. *)
LEMMA ConnStepOK == ASSUME SlabOK, ConnsOK, [ServerNext]_serverVars PROVE ConnStep
<1>1. CASE \E c \in Conns : Register(c)
  BY <1>1, RegisterConn
<1>2. CASE \E k \in Occupied : RemovePeer(k)
  BY <1>2, RemoveConn
<1>3. CASE \/ WriteAll \/ RegisterWriteInterest
           \/ \E c \in Conns : CallConnect(c) \/ Arrive(c) \/ \E e : SocketEvent(c, e)
  BY <1>3, OtherConnSteps
<1>4. CASE Poll \/ ProcessBroadcast
  BY <1>4, PollConn
<1>5. \/ \E c \in Conns : Register(c)
      \/ \E k \in Occupied : RemovePeer(k)
      \/ WriteAll \/ RegisterWriteInterest
      \/ \E c \in Conns : CallConnect(c) \/ Arrive(c) \/ \E e : SocketEvent(c, e)
      \/ Poll \/ ProcessBroadcast
      \/ conn' = conn
  BY DEF ServerNext, LoopStep, Environment, ControlStep, IncomingStep, SocketStep,
         ProcessConnect, ControlDrained, AcceptOne, AcceptBlocks, AcceptFails,
         SkipSocket, ReadSome, ReadEnd, WriteBlocks, WriteEnd, Readable, Writable,
         QueuePanics, CallBroadcast, serverVars
<1> QED
  BY <1>1, <1>2, <1>3, <1>4, <1>5, SameConns
-----------------------------------------------------------------------------
(* peer_list and the slab name the same peers, each once, for any number of *)
(* slots and whatever comes and goes (server.rs:95, 168, 191, 228, 250).    *)
THEOREM PeerListCorrect == ServerSpec => []PeerListMatches
<1>1. SlabOK => PeerListMatches
  BY DEF SlabOK
<1>2. ServerSpec => []SlabOK
  BY SlabStart, SlabStep, PTL DEF ServerSpec
<1> QED
  BY <1>1, <1>2, PTL

(* A connection is dropped at registration only when as many as may be are  *)
(* open: keys that became free are given out again (server.rs:63-75).       *)
THEOREM RefusedOnlyWhenFullCorrect == ServerSpec => RefusedOnlyWhenFull
<1>1. ServerInit => SlabOK /\ ConnsOK
  <2>1. ServerInit => ConnsOK
    BY DEF ServerInit, ConnsOK
  <2> QED
    BY <2>1, SlabStart
<1>2. SlabOK /\ ConnsOK /\ [ServerNext]_serverVars => (SlabOK /\ ConnsOK)'
  BY SlabStep, ConnStepOK DEF ConnStep
<1>3. ServerSpec => [](SlabOK /\ ConnsOK)
  BY <1>1, <1>2, PTL DEF ServerSpec
<1>4. SlabOK /\ ConnsOK /\ [ServerNext]_serverVars =>
          [ \A c \in Conns :
              conn'[c].stage = "refused" /\ conn[c].stage # "refused" =>
                  Cardinality(Occupied) = MaxPeers ]_serverVars
  BY ConnStepOK DEF ConnStep, Refuses
<1> QED
  BY <1>3, <1>4, PTL DEF ServerSpec, RefusedOnlyWhenFull
-----------------------------------------------------------------------------
(* What an open connection has been given, and that no two keys of the slab *)
(* have the same connection.                                                *)
Due(c) ==
    /\ conn[c].joined \in 0..done
    /\ conn[c].got = [i \in 1..(done - conn[c].joined) |-> conn[c].joined + i]
PeersOK ==
    \A k \in Occupied :
        /\ conn[peers[k]].stage = "open" /\ Due(peers[k])
        /\ \A j \in Occupied : peers[j] = peers[k] => j = k

(* A connection that is to come up is in one place only.                    *)
RequestsOK ==
    /\ control \in Seq(Conns \cup Nat) /\ backlog \subseteq Conns
    /\ \A c \in backlog : conn[c].stage = "asked"
    /\ \A i \in DOMAIN control : control[i] \in Conns =>
          /\ conn[control[i]].stage = "asked" /\ control[i] \notin backlog
          /\ \A j \in DOMAIN control : control[j] = control[i] => j = i

(* The control channel has the messages that are not yet broadcast, in      *)
(* their order.                                                             *)
MessagesOK ==
    /\ done \in Nat /\ asked \in Nat /\ done <= asked
    /\ \A i \in DOMAIN control : control[i] \notin Conns =>
          /\ control[i] \in (done + 1)..asked
          /\ \A j \in DOMAIN control : j > i /\ control[j] \notin Conns => control[i] < control[j]
    /\ \A m \in (done + 1)..asked : \E i \in DOMAIN control : control[i] = m

DeliveryInv == SlabOK /\ ConnsOK /\ PeersOK /\ RequestsOK /\ MessagesOK

(* A step that leaves a connection's stage and history alone.               *)
Same(c) ==
    /\ conn'[c].stage = conn[c].stage
    /\ conn'[c].joined = conn[c].joined /\ conn'[c].got = conn[c].got

(* The fields the proof speaks of are there. *)
LEMMA FieldsOf ==
  ASSUME ConnsOK
  PROVE  /\ conn = [c \in Conns |-> conn[c]]
         /\ \A c \in Conns : {"stage", "joined", "got", "events", "queue", "armed", "writing"}
                                 \subseteq DOMAIN conn[c]
  BY DEF ConnsOK, NewConn

(* A peer's connection. *)
LEMMA PeerConn == ASSUME SlabOK, NEW k \in Occupied PROVE peers[k] \in Conns
  BY DEF SlabOK, Occupied

(* Taking the head of the channel.                                          *)
LEMMA TailIs ==
  ASSUME NEW S, NEW s \in Seq(S), s # <<>>
  PROVE  /\ Tail(s) \in Seq(S) /\ Head(s) = s[1] /\ 1 \in DOMAIN s
         /\ DOMAIN s = 1..Len(s) /\ DOMAIN Tail(s) = 1..(Len(s) - 1)
         /\ \A i \in DOMAIN Tail(s) : Tail(s)[i] = s[i + 1] /\ i + 1 \in DOMAIN s
         /\ \A i \in DOMAIN s : i # 1 => i - 1 \in DOMAIN Tail(s) /\ Tail(s)[i - 1] = s[i]
  OBVIOUS

(* The head of the channel, if a message, is the next one.                  *)
LEMMA NextMessage ==
  ASSUME DeliveryInv, control # <<>>, Head(control) \notin Conns
  PROVE  Head(control) = done + 1 /\ done + 1 <= asked
<1>1. control \in Seq(Conns \cup Nat)
  BY DEF DeliveryInv, RequestsOK
<1>2. Head(control) = control[1] /\ 1 \in DOMAIN control /\ DOMAIN control = 1..Len(control)
  BY <1>1, TailIs
<1>3. control[1] \in (done + 1)..asked /\ done \in Nat /\ asked \in Nat
  BY <1>2 DEF DeliveryInv, MessagesOK
<1>4. PICK j \in DOMAIN control : control[j] = done + 1
  <2>1. done + 1 \in (done + 1)..asked
    BY <1>3
  <2> QED
    BY <2>1 DEF DeliveryInv, MessagesOK
<1>5. control[j] \notin Conns
  BY <1>3, <1>4, ServerAssumption DEF ServerAssumption
<1>6. j > 1 => control[1] < control[j]
  BY <1>2, <1>5 DEF DeliveryInv, MessagesOK
<1> QED
  BY <1>2, <1>3, <1>4, <1>6

(* Steps that concern neither the slab nor the channel.                     *)
LEMMA DeliverySame ==
  ASSUME DeliveryInv, UNCHANGED <<peers, control, backlog, asked, done>>, \A c \in Conns : Same(c)
  PROVE  PeersOK' /\ RequestsOK' /\ MessagesOK'
<1>1. Occupied' = Occupied /\ \A k \in Occupied : peers[k] \in Conns
  BY PeerConn DEF Occupied, DeliveryInv
<1>2. PeersOK'
  <2> SUFFICES ASSUME NEW k \in Occupied
               PROVE  /\ conn'[peers[k]].stage = "open" /\ Due(peers[k])'
                      /\ \A j \in Occupied : peers[j] = peers[k] => j = k
    BY <1>1 DEF PeersOK
  <2>1. /\ conn[peers[k]].stage = "open" /\ Due(peers[k])
        /\ \A j \in Occupied : peers[j] = peers[k] => j = k
    BY DEF DeliveryInv, PeersOK
  <2>2. Same(peers[k])
    BY <1>1
  <2> QED
    BY <2>1, <2>2 DEF Same, Due
<1>3. RequestsOK'
  BY DEF DeliveryInv, RequestsOK, Same
<1>4. MessagesOK'
  BY DEF DeliveryInv, MessagesOK
<1> QED
  BY <1>2, <1>3, <1>4

(* A request's connection comes up, in a slot that was free, or is refused. *)
LEMMA DeliveryRegister ==
  ASSUME DeliveryInv, NEW c \in Conns, Register(c), conn[c].stage = "asked", done' = done
  PROVE  /\ PeersOK' /\ \A d \in Conns : d # c => conn'[d] = conn[d]
<1> USE DEF DeliveryInv
<1>1. \A k \in Occupied : peers[k] \in Conns /\ peers[k] # c
  BY PeerConn DEF PeersOK
<1>2. \A k \in Occupied : conn[peers[k]].stage = "open" /\ Due(peers[k])
                          /\ \A j \in Occupied : peers[j] = peers[k] => j = k
  BY DEF PeersOK
<1>3. CASE NextKey >= MaxPeers
  <2>1. conn' = [conn EXCEPT ![c].stage = "refused"] /\ peers' = peers
    BY <1>3 DEF Register, slabVars
  <2>2. \A d \in Conns : d # c => conn'[d] = conn[d]
    BY <2>1, FieldsOf
  <2>3. Occupied' = Occupied
    BY <2>1 DEF Occupied
  <2> QED
    BY <1>1, <1>2, <2>1, <2>2, <2>3 DEF PeersOK, Due
<1>4. CASE ~ (NextKey >= MaxPeers)
  <2>0. NextKey < MaxPeers
    <3>1. NextKey \in Nat
      <4>1. CASE vacant = <<>>
        <5>1. PICK n \in 0..MaxPeers : DOMAIN peers = 0..(n - 1)
          BY DEF SlabOK
        <5>2. Cardinality(0..(n - 1)) \in Nat
          BY <5>1, ServerAssumption, FS_Interval, FS_CardinalityType DEF ServerAssumption
        <5> QED
          BY <4>1, <5>1, <5>2 DEF NextKey
      <4>2. CASE vacant # <<>>
        BY <4>2 DEF NextKey, SlabOK
      <4> QED
        BY <4>1, <4>2
    <3> QED
      BY <1>4, <3>1, ServerAssumption DEF ServerAssumption
  <2>1. PICK k : k = NextKey
    OBVIOUS
  <2>2. k \notin Occupied
    BY <2>0, <2>1, NextKeyOK
  <2> DEFINE r == [NewConn EXCEPT !.stage = "open", !.armed = TRUE, !.joined = done]
  <2>3. /\ peers' = [j \in DOMAIN peers \cup {k} |-> IF j = k THEN c ELSE peers[j]]
        /\ conn' = [conn EXCEPT ![c] = r]
    BY <1>4, <2>1 DEF Register
  <2>4. r.stage = "open" /\ r.joined = done /\ r.got = <<>>
    BY DEF NewConn
  <2> HIDE DEF r
  <2>5. conn'[c] = r /\ \A d \in Conns : d # c => conn'[d] = conn[d]
    BY <2>3, FieldsOf
  <2>6. Occupied' = Occupied \cup {k} /\ peers'[k] = c /\ \A j \in Occupied : peers'[j] = peers[j]
    BY <2>2, <2>3, ServerAssumption DEF Occupied, ServerAssumption
  <2>7. Due(c)'
    <3>1. done \in Nat /\ 1..(done - done) = {}
      BY DEF MessagesOK
    <3>2. <<>> = [i \in 1..(done - done) |-> done + i]
      BY <3>1
    <3> QED
      BY <3>1, <3>2, <2>4, <2>5 DEF Due
  <2>8. \A j \in Occupied : conn'[peers[j]] = conn[peers[j]]
    BY <1>1, <2>5
  <2>9. \A j \in Occupied : Due(peers[j])'
    BY <1>2, <2>6, <2>8 DEF Due
  <2> QED
    BY <1>1, <1>2, <2>2, <2>4, <2>5, <2>6, <2>7, <2>8, <2>9 DEF PeersOK
<1> QED
  BY <1>3, <1>4

(* A connection this node asked for comes up. *)
LEMMA DeliveryConnect == ASSUME DeliveryInv, ProcessConnect PROVE PeersOK' /\ RequestsOK' /\ MessagesOK'
<1> USE DEF DeliveryInv
<1> DEFINE c == Head(control)
<1>1. /\ control # <<>> /\ c \in Conns /\ Register(c) /\ done' = done
      /\ control' = Tail(control) /\ backlog' = backlog /\ asked' = asked
  BY DEF ProcessConnect, Take
<1>2. control \in Seq(Conns \cup Nat)
  BY DEF RequestsOK
<1>3. /\ control' \in Seq(Conns \cup Nat) /\ c = control[1] /\ 1 \in DOMAIN control
      /\ \A i \in DOMAIN control' : control'[i] = control[i + 1] /\ i + 1 \in DOMAIN control
      /\ \A i \in DOMAIN control : i # 1 => i - 1 \in DOMAIN control' /\ control'[i - 1] = control[i]
      /\ DOMAIN control \subseteq Nat /\ DOMAIN control' \subseteq Nat /\ 0 \notin DOMAIN control'
  BY <1>1, <1>2, TailIs
<1>4. conn[c].stage = "asked" /\ c \notin backlog /\ \A j \in DOMAIN control : control[j] = c => j = 1
  BY <1>1, <1>3 DEF RequestsOK
<1> HIDE DEF c
<1>5. PeersOK' /\ \A d \in Conns : d # c => conn'[d] = conn[d]
  BY <1>1, <1>4, DeliveryRegister
<1>6. \A i \in DOMAIN control' : i + 1 # 1 /\ control'[i] # c
  BY <1>3, <1>4
<1>7. RequestsOK'
  <2>1. \A d \in backlog' : conn'[d].stage = "asked"
    BY <1>1, <1>4, <1>5 DEF RequestsOK
  <2>2. ASSUME NEW i \in DOMAIN control', control'[i] \in Conns
        PROVE  /\ conn'[control'[i]].stage = "asked" /\ control'[i] \notin backlog'
               /\ \A j \in DOMAIN control' : control'[j] = control'[i] => j = i
    <3>1. i + 1 \in DOMAIN control /\ control[i + 1] = control'[i] /\ control'[i] # c
      BY <1>3, <1>6
    <3>2. /\ conn[control[i + 1]].stage = "asked" /\ control[i + 1] \notin backlog
          /\ \A j \in DOMAIN control : control[j] = control[i + 1] => j = i + 1
      BY <3>1, <2>2 DEF RequestsOK
    <3>3. ASSUME NEW j \in DOMAIN control', control'[j] = control'[i] PROVE j = i
      <4>1. j + 1 \in DOMAIN control /\ control[j + 1] = control[i + 1]
        BY <3>1, <3>3, <1>3
      <4>2. j + 1 = i + 1 /\ i \in Nat /\ j \in Nat
        BY <4>1, <3>2, <1>3
      <4> QED
        BY <4>2
    <3> QED
      BY <3>1, <3>2, <3>3, <2>2, <1>1, <1>5
  <2>3. backlog' \subseteq Conns
    BY <1>1 DEF RequestsOK
  <2> QED
    BY <1>3, <2>1, <2>2, <2>3 DEF RequestsOK
<1>8. MessagesOK'
  <2>1. done' \in Nat /\ asked' \in Nat /\ done' <= asked'
    BY <1>1 DEF MessagesOK
  <2>2. ASSUME NEW i \in DOMAIN control', control'[i] \notin Conns
        PROVE  /\ control'[i] \in (done' + 1)..asked'
               /\ \A j \in DOMAIN control' : j > i /\ control'[j] \notin Conns => control'[i] < control'[j]
    <3>1. i + 1 \in DOMAIN control /\ control[i + 1] = control'[i] /\ i \in Nat
      BY <1>3
    <3>2. /\ control[i + 1] \in (done + 1)..asked
          /\ \A j \in DOMAIN control : j > i + 1 /\ control[j] \notin Conns => control[i + 1] < control[j]
      BY <3>1, <2>2 DEF MessagesOK
    <3>3. ASSUME NEW j \in DOMAIN control', j > i, control'[j] \notin Conns PROVE control'[i] < control'[j]
      <4>1. j + 1 \in DOMAIN control /\ control[j + 1] = control'[j] /\ j \in Nat
        BY <1>3
      <4>2. j + 1 > i + 1
        BY <3>1, <3>3, <4>1
      <4> QED
        BY <4>1, <4>2, <3>1, <3>2, <3>3
    <3> QED
      BY <3>1, <3>2, <3>3, <1>1
  <2>3. ASSUME NEW m \in (done' + 1)..asked' PROVE \E i \in DOMAIN control' : control'[i] = m
    <3>1. PICK i \in DOMAIN control : control[i] = m
      BY <1>1, <2>3 DEF MessagesOK
    <3>2. m \notin Conns
      <4>0. m \in (done + 1)..asked /\ done \in Nat /\ asked \in Nat
        BY <1>1, <2>3 DEF MessagesOK
      <4>1. m \in Nat
        BY <4>0
      <4> QED
        BY <4>1, ServerAssumption DEF ServerAssumption
    <3>3. i # 1
      BY <1>1, <1>3, <3>1, <3>2
    <3> QED
      BY <1>3, <3>1, <3>3
  <2> QED
    BY <2>1, <2>2, <2>3 DEF MessagesOK
<1> QED
  BY <1>5, <1>7, <1>8

(* One that another node asked for is accepted. *)
LEMMA DeliveryAccept ==
  ASSUME DeliveryInv, NEW c \in Conns, AcceptOne(c) PROVE PeersOK' /\ RequestsOK' /\ MessagesOK'
<1> USE DEF DeliveryInv
<1>1. /\ c \in backlog /\ Register(c) /\ done' = done
      /\ control' = control /\ backlog' = backlog \ {c} /\ asked' = asked
  BY DEF AcceptOne
<1>2. conn[c].stage = "asked" /\ \A i \in DOMAIN control : control[i] # c
  BY <1>1 DEF RequestsOK
<1>3. PeersOK' /\ \A d \in Conns : d # c => conn'[d] = conn[d]
  BY <1>1, <1>2, DeliveryRegister
<1>4. RequestsOK'
  BY <1>1, <1>2, <1>3 DEF RequestsOK
<1>5. MessagesOK'
  BY <1>1 DEF MessagesOK
<1> QED
  BY <1>3, <1>4, <1>5

(* A peer is removed: the others keep what they were given.                 *)
LEMMA DeliveryRemove ==
  ASSUME DeliveryInv, NEW k \in Occupied, RemovePeer(k),
         UNCHANGED <<control, backlog, asked, done>>
  PROVE  PeersOK' /\ RequestsOK' /\ MessagesOK'
<1> USE DEF DeliveryInv
<1> DEFINE c == peers[k]
<1>1. /\ peers' = [peers EXCEPT ![k] = None]
      /\ conn' = [conn EXCEPT ![c].stage = "gone"]
  BY DEF RemovePeer
<1>2. c \in Conns /\ conn[c].stage = "open"
  BY PeerConn DEF PeersOK
<1>3. Occupied' = Occupied \ {k} /\ \A j \in Occupied' : peers'[j] = peers[j]
  BY <1>1 DEF Occupied
<1>4. \A d \in Conns : d # c => conn'[d] = conn[d]
  BY <1>1, FieldsOf
<1>5. \A j \in Occupied' : j \in Occupied /\ peers[j] # c /\ peers[j] \in Conns
  BY <1>3, PeerConn DEF PeersOK
<1> HIDE DEF c
<1>6. PeersOK'
  <2> SUFFICES ASSUME NEW j \in Occupied'
               PROVE  /\ conn'[peers'[j]].stage = "open" /\ Due(peers[j])'
                      /\ \A i \in Occupied' : peers'[i] = peers'[j] => i = j
    BY DEF PeersOK
  <2>1. /\ conn[peers[j]].stage = "open" /\ Due(peers[j])
        /\ \A i \in Occupied : peers[i] = peers[j] => i = j
    BY <1>5 DEF PeersOK
  <2>2. peers'[j] = peers[j] /\ conn'[peers[j]] = conn[peers[j]]
    BY <1>3, <1>4, <1>5
  <2> QED
    BY <2>1, <2>2, <1>3 DEF Due
<1>7. RequestsOK'
  <2>1. c \notin backlog /\ \A i \in DOMAIN control : control[i] # c
    BY <1>2 DEF RequestsOK
  <2> QED
    BY <2>1, <1>4 DEF RequestsOK
<1>8. MessagesOK'
  BY DEF MessagesOK
<1> QED
  BY <1>6, <1>7, <1>8

(* The next message is given to every peer of the list.                     *)
LEMMA DeliveryBroadcast ==
  ASSUME DeliveryInv, ProcessBroadcast PROVE PeersOK' /\ RequestsOK' /\ MessagesOK'
<1> USE DEF DeliveryInv
<1>1. /\ control # <<>> /\ Head(control) \notin Conns /\ done' = Head(control)
      /\ control' = Tail(control) /\ backlog' = backlog /\ asked' = asked
      /\ peers' = peers
  BY DEF ProcessBroadcast, Take, slabVars
<1>2. done' = done + 1 /\ done + 1 <= asked /\ Head(control) = done + 1
  BY <1>1, NextMessage
<1>3. \A c \in Conns : conn'[c] = IF \E i \in DOMAIN peer_list : peers[peer_list[i]] = c
                                  THEN Given(c, done + 1) ELSE conn[c]
  BY <1>2 DEF ProcessBroadcast
<1>4. control \in Seq(Conns \cup Nat)
  BY DEF RequestsOK
<1>5. /\ control' \in Seq(Conns \cup Nat) /\ done + 1 = control[1] /\ 1 \in DOMAIN control
      /\ \A i \in DOMAIN control' : control'[i] = control[i + 1] /\ i + 1 \in DOMAIN control
      /\ \A i \in DOMAIN control : i # 1 => i - 1 \in DOMAIN control' /\ control'[i - 1] = control[i]
      /\ DOMAIN control \subseteq Nat /\ DOMAIN control' \subseteq Nat /\ 0 \notin DOMAIN control'
  BY <1>1, <1>2, <1>4, TailIs
<1>6. \A c \in Conns : conn'[c].stage = conn[c].stage
  BY <1>3, FieldsOf DEF Given
<1>7. Occupied' = Occupied
  BY <1>1 DEF Occupied
<1>8. PeersOK'
  <2> SUFFICES ASSUME NEW k \in Occupied
               PROVE  /\ conn'[peers[k]].stage = "open" /\ Due(peers[k])'
                      /\ \A j \in Occupied : peers[j] = peers[k] => j = k
    BY <1>1, <1>7 DEF PeersOK
  <2>1. /\ conn[peers[k]].stage = "open" /\ Due(peers[k])
        /\ \A j \in Occupied : peers[j] = peers[k] => j = k
    BY DEF PeersOK
  <2>2. PICK c \in Conns : c = peers[k]
    BY PeerConn
  <2>3. k \in ToSet(peer_list)
    BY DEF SlabOK, PeerListMatches
  <2>4. \E i \in DOMAIN peer_list : peers[peer_list[i]] = c
    BY <2>2, <2>3 DEF ToSet
  <2>5. conn'[c] = Given(c, done + 1)
    BY <1>3, <2>4
  <2>6. conn'[c].joined = conn[c].joined /\ conn'[c].got = Append(conn[c].got, done + 1)
    BY <2>5, FieldsOf DEF Given
  <2>7. conn[c].joined \in 0..done /\ conn[c].got = [i \in 1..(done - conn[c].joined) |-> conn[c].joined + i]
    BY <2>1, <2>2 DEF Due
  <2> DEFINE j == conn[c].joined
             g == conn[c].got
             h == [i \in 1..((done + 1) - j) |-> j + i]
  <2>8. Append(g, done + 1) = h
    <3>1. done \in Nat /\ j \in 0..done /\ g = [i \in 1..(done - j) |-> j + i]
      BY <2>7 DEF MessagesOK
    <3> HIDE DEF j, g
    <3>2. g \in Seq(Nat) /\ Len(g) = done - j
      BY <3>1
    <3>3. /\ Append(g, done + 1) \in Seq(Nat) /\ Len(Append(g, done + 1)) = (done - j) + 1
          /\ \A i \in 1..((done - j) + 1) : Append(g, done + 1)[i] = IF i <= done - j THEN g[i] ELSE done + 1
      BY <3>1, <3>2
    <3>4. h \in Seq(Nat) /\ Len(h) = (done - j) + 1
      BY <3>1
    <3>5. \A i \in 1..((done - j) + 1) : Append(g, done + 1)[i] = h[i]
      BY <3>1, <3>3
    <3> HIDE DEF h
    <3> QED
      BY <3>1, <3>3, <3>4, <3>5
  <2>9. Due(c)'
    <3>1. done \in Nat
      BY DEF MessagesOK
    <3> QED
      BY <1>2, <2>6, <2>7, <2>8, <3>1 DEF Due
  <2> QED
    BY <1>1, <1>6, <2>1, <2>2, <2>9
<1>9. RequestsOK'
  <2>1. \A d \in backlog' : conn'[d].stage = "asked"
    BY <1>1, <1>6 DEF RequestsOK
  <2>2. ASSUME NEW i \in DOMAIN control', control'[i] \in Conns
        PROVE  /\ conn'[control'[i]].stage = "asked" /\ control'[i] \notin backlog'
               /\ \A j \in DOMAIN control' : control'[j] = control'[i] => j = i
    <3>1. i + 1 \in DOMAIN control /\ control[i + 1] = control'[i]
      BY <1>5
    <3>2. /\ conn[control[i + 1]].stage = "asked" /\ control[i + 1] \notin backlog
          /\ \A j \in DOMAIN control : control[j] = control[i + 1] => j = i + 1
      BY <3>1, <2>2 DEF RequestsOK
    <3>3. ASSUME NEW j \in DOMAIN control', control'[j] = control'[i] PROVE j = i
      <4>1. j + 1 \in DOMAIN control /\ control[j + 1] = control[i + 1]
        BY <3>1, <3>3, <1>5
      <4>2. j + 1 = i + 1 /\ i \in Nat /\ j \in Nat
        BY <4>1, <3>2, <1>5
      <4> QED
        BY <4>2
    <3> QED
      BY <3>1, <3>2, <3>3, <2>2, <1>1, <1>6
  <2>3. backlog' \subseteq Conns
    BY <1>1 DEF RequestsOK
  <2> QED
    BY <1>5, <2>1, <2>2, <2>3 DEF RequestsOK
<1>10. MessagesOK'
  <2>1. done' \in Nat /\ asked' \in Nat /\ done' <= asked' /\ done \in Nat
    BY <1>1, <1>2 DEF MessagesOK
  <2>2. ASSUME NEW i \in DOMAIN control', control'[i] \notin Conns
        PROVE  /\ control'[i] \in (done' + 1)..asked'
               /\ \A j \in DOMAIN control' : j > i /\ control'[j] \notin Conns => control'[i] < control'[j]
    <3>1. i + 1 \in DOMAIN control /\ control[i + 1] = control'[i] /\ i \in Nat /\ i # 0
      BY <1>5
    <3>2. /\ control[i + 1] \in (done + 1)..asked
          /\ \A j \in DOMAIN control : j > i + 1 /\ control[j] \notin Conns => control[i + 1] < control[j]
      BY <3>1, <2>2 DEF MessagesOK
    <3>3. ASSUME NEW j \in DOMAIN control', j > i, control'[j] \notin Conns PROVE control'[i] < control'[j]
      <4>1. j + 1 \in DOMAIN control /\ control[j + 1] = control'[j] /\ j \in Nat
        BY <1>5
      <4>2. j + 1 > i + 1
        BY <3>1, <3>3, <4>1
      <4> QED
        BY <4>1, <4>2, <3>1, <3>2, <3>3
    <3>4. control[1] < control[i + 1]
      <4>1. control[1] \notin Conns /\ i + 1 > 1
        BY <1>1, <1>2, <1>5, <3>1
      <4> QED
        BY <4>1, <3>1, <2>2, <1>5 DEF MessagesOK
    <3>5. control'[i] \in (done' + 1)..asked'
      BY <3>1, <3>2, <3>4, <1>1, <1>2, <1>5, <2>1
    <3> QED
      BY <3>3, <3>5
  <2>3. ASSUME NEW m \in (done' + 1)..asked' PROVE \E i \in DOMAIN control' : control'[i] = m
    <3>1. m \in (done + 1)..asked /\ m # done + 1
      BY <1>1, <1>2, <2>1, <2>3
    <3>2. PICK i \in DOMAIN control : control[i] = m
      BY <3>1 DEF MessagesOK
    <3>3. i # 1
      BY <1>5, <3>1, <3>2
    <3> QED
      BY <1>5, <3>2, <3>3
  <2> QED
    BY <2>1, <2>2, <2>3 DEF MessagesOK
<1> QED
  BY <1>8, <1>9, <1>10

(* A broadcast is asked for. *)
LEMMA DeliveryAsked == ASSUME DeliveryInv, CallBroadcast PROVE PeersOK' /\ RequestsOK' /\ MessagesOK'
<1> USE DEF DeliveryInv
<1>1. /\ asked' = asked + 1 /\ control' = Append(control, asked + 1)
      /\ peers' = peers /\ backlog' = backlog /\ conn' = conn /\ done' = done
  BY DEF CallBroadcast, slabVars
<1>2. asked \in Nat /\ done \in Nat /\ done <= asked /\ asked + 1 \notin Conns
  BY ServerAssumption DEF MessagesOK, ServerAssumption
<1>3. /\ control \in Seq(Conns \cup Nat) /\ control' \in Seq(Conns \cup Nat)
      /\ DOMAIN control = 1..Len(control) /\ Len(control) \in Nat
      /\ DOMAIN control' = 1..(Len(control) + 1)
      /\ \A i \in DOMAIN control : control'[i] = control[i] /\ i \in DOMAIN control'
      /\ control'[Len(control) + 1] = asked + 1
  BY <1>1, <1>2 DEF RequestsOK
<1>4. \A i \in DOMAIN control' : i \in DOMAIN control \/ (i = Len(control) + 1 /\ control'[i] = asked + 1)
  BY <1>3
<1>5. PeersOK'
  BY <1>1 DEF PeersOK, Due, Occupied
<1>6. RequestsOK'
  <2>1. \A i \in DOMAIN control' : control'[i] \in Conns => i \in DOMAIN control
    BY <1>2, <1>4
  <2>2. ASSUME NEW i \in DOMAIN control', control'[i] \in Conns
        PROVE  /\ conn[control'[i]].stage = "asked" /\ control'[i] \notin backlog
               /\ \A j \in DOMAIN control' : control'[j] = control'[i] => j = i
    BY <2>1, <2>2, <1>2, <1>3, <1>4 DEF RequestsOK
  <2> QED
    BY <2>2, <1>1, <1>3 DEF RequestsOK
<1>7. MessagesOK'
  <2>1. ASSUME NEW i \in DOMAIN control', control'[i] \notin Conns
        PROVE  /\ control'[i] \in (done + 1)..(asked + 1)
               /\ \A j \in DOMAIN control' : j > i /\ control'[j] \notin Conns => control'[i] < control'[j]
    <3>1. CASE i \in DOMAIN control
      <4>1. /\ control[i] \in (done + 1)..asked /\ control'[i] = control[i]
            /\ \A j \in DOMAIN control : j > i /\ control[j] \notin Conns => control[i] < control[j]
        BY <2>1, <3>1, <1>3 DEF MessagesOK
      <4>2. control[i] < asked + 1
        BY <4>1, <1>2
      <4> QED
        BY <4>1, <4>2, <1>2, <1>3, <1>4
    <3>2. CASE i = Len(control) + 1
      BY <3>2, <1>2, <1>3
    <3> QED
      BY <3>1, <3>2, <1>4
  <2>2. ASSUME NEW m \in (done + 1)..(asked + 1) PROVE \E i \in DOMAIN control' : control'[i] = m
    <3>1. CASE m = asked + 1
      BY <3>1, <1>3
    <3>2. CASE m # asked + 1
      <4>1. m \in (done + 1)..asked
        BY <3>2, <1>2
      <4> QED
        BY <4>1, <1>3 DEF MessagesOK
    <3> QED
      BY <3>1, <3>2
  <2>3. done' \in Nat /\ asked' \in Nat /\ done' <= asked'
    BY <1>1, <1>2
  <2> QED
    BY <1>1, <2>1, <2>2, <2>3 DEF MessagesOK
<1> QED
  BY <1>5, <1>6, <1>7

(* A connection is asked for, here or at another node. *)
LEMMA DeliveryNew ==
  ASSUME DeliveryInv, NEW c \in Conns, CallConnect(c) \/ Arrive(c)
  PROVE  PeersOK' /\ RequestsOK' /\ MessagesOK'
<1> USE DEF DeliveryInv
<1>1. /\ conn[c].stage = "new" /\ conn' = [conn EXCEPT ![c].stage = "asked"]
      /\ peers' = peers /\ asked' = asked /\ done' = done
  BY DEF CallConnect, Arrive, slabVars
<1>2. conn'[c].stage = "asked" /\ \A d \in Conns : d # c => conn'[d] = conn[d]
  BY <1>1, FieldsOf
<1>3. \A k \in Occupied : peers[k] \in Conns /\ peers[k] # c
  BY <1>1, PeerConn DEF PeersOK
<1>4. PeersOK'
  BY <1>1, <1>2, <1>3 DEF PeersOK, Due, Occupied
<1>5. c \notin backlog /\ \A i \in DOMAIN control : control[i] # c
  BY <1>1 DEF RequestsOK
<1>6. CASE Arrive(c)
  <2>1. backlog' = backlog \cup {c} /\ control' = control
    BY <1>6 DEF Arrive
  <2>2. RequestsOK'
    BY <2>1, <1>2, <1>5 DEF RequestsOK
  <2>3. MessagesOK'
    BY <2>1, <1>1 DEF MessagesOK
  <2> QED
    BY <2>2, <2>3, <1>4
<1>7. CASE CallConnect(c)
  <2>1. backlog' = backlog /\ control' = Append(control, c)
    BY <1>7 DEF CallConnect
  <2>2. /\ control \in Seq(Conns \cup Nat) /\ control' \in Seq(Conns \cup Nat)
        /\ \A i \in DOMAIN control : control'[i] = control[i] /\ i \in DOMAIN control'
        /\ control'[Len(control) + 1] = c
        /\ \A i \in DOMAIN control' : i \in DOMAIN control \/ i = Len(control) + 1
    BY <2>1 DEF RequestsOK
  <2>3. ASSUME NEW i \in DOMAIN control', control'[i] \in Conns
        PROVE  /\ conn'[control'[i]].stage = "asked" /\ control'[i] \notin backlog
               /\ \A j \in DOMAIN control' : control'[j] = control'[i] => j = i
    <3>1. CASE i \in DOMAIN control
      <4>1. /\ conn[control[i]].stage = "asked" /\ control[i] \notin backlog /\ control[i] # c
            /\ \A j \in DOMAIN control : control[j] = control[i] => j = i
        BY <2>2, <2>3, <3>1, <1>5 DEF RequestsOK
      <4> QED
        BY <4>1, <2>2, <2>3, <3>1, <1>2
    <3>2. CASE i \notin DOMAIN control
      BY <3>2, <2>2, <1>2, <1>5
    <3> QED
      BY <3>1, <3>2
  <2>4. \A d \in backlog : conn'[d].stage = "asked"
    BY <1>2, <1>5 DEF RequestsOK
  <2>5. RequestsOK'
    BY <2>1, <2>2, <2>3, <2>4 DEF RequestsOK
  <2>6. MessagesOK'
    <3>1. \A i \in DOMAIN control' : control'[i] \notin Conns => i \in DOMAIN control
      BY <2>2
    <3>2. \A m \in (done + 1)..asked : \E i \in DOMAIN control' : control'[i] = m
      BY <2>2 DEF MessagesOK
    <3> QED
      BY <2>2, <3>1, <3>2, <1>1 DEF MessagesOK
  <2> QED
    BY <2>5, <2>6, <1>4
<1> QED
  BY <1>6, <1>7

(* poll() and the sockets' and queues' own events. *)
LEMMA DeliveryOthers ==
  ASSUME DeliveryInv,
         \/ Poll \/ WriteAll \/ RegisterWriteInterest
         \/ \E c \in Conns, e \in {"readable", "writable"} : SocketEvent(c, e)
  PROVE  PeersOK' /\ RequestsOK' /\ MessagesOK'
<1> USE DEF DeliveryInv
<1>1. UNCHANGED <<peers, control, backlog, asked, done>>
  BY DEF Poll, WriteAll, RegisterWriteInterest, SocketEvent, Quiet, slabVars
<1>2. \A c \in Conns : Same(c)
  <2>1. CASE Poll
    BY <2>1, FieldsOf DEF Poll, Same
  <2>2. CASE WriteAll
    BY <2>2, FieldsOf DEF WriteAll, Same
  <2>3. CASE RegisterWriteInterest
    BY <2>3, FieldsOf DEF RegisterWriteInterest, Same
  <2>4. CASE \E c \in Conns, e \in {"readable", "writable"} : SocketEvent(c, e)
    BY <2>4, FieldsOf DEF SocketEvent, Same
  <2> QED
    BY <2>1, <2>2, <2>3, <2>4
<1> QED
  BY <1>1, <1>2, DeliverySame

(* Every step, by the cases above. *)
LEMMA DeliveryStep == ASSUME DeliveryInv, [ServerNext]_serverVars PROVE DeliveryInv'
<1> USE DEF DeliveryInv
<1>1. SlabOK' /\ ConnsOK'
  BY SlabStep, ConnStepOK DEF ConnStep
<1>2. CASE ProcessConnect
  BY <1>1, <1>2, DeliveryConnect
<1>3. CASE \E c \in Conns : AcceptOne(c)
  BY <1>1, <1>3, DeliveryAccept
<1>4. CASE ReadEnd \/ WriteEnd
  <2>1. PICK k \in Occupied : RemovePeer(k) /\ UNCHANGED <<control, backlog, asked, done>>
    BY <1>4 DEF ReadEnd, WriteEnd, Readable, Writable, Quiet
  <2> QED
    BY <1>1, <2>1, DeliveryRemove
<1>5. CASE ProcessBroadcast
  BY <1>1, <1>5, DeliveryBroadcast
<1>6. CASE CallBroadcast
  BY <1>1, <1>6, DeliveryAsked
<1>7. CASE \E c \in Conns : CallConnect(c) \/ Arrive(c)
  BY <1>1, <1>7, DeliveryNew
<1>8. CASE \/ Poll \/ WriteAll \/ RegisterWriteInterest
           \/ \E c \in Conns, e \in {"readable", "writable"} : SocketEvent(c, e)
  BY <1>1, <1>8, DeliveryOthers
<1>9. CASE UNCHANGED <<peers, control, backlog, conn, asked, done>>
  <2>1. \A c \in Conns : Same(c)
    BY <1>9 DEF Same
  <2> QED
    BY <1>1, <1>9, <2>1, DeliverySame
<1>10. \/ ProcessConnect \/ (\E c \in Conns : AcceptOne(c)) \/ ReadEnd \/ WriteEnd
       \/ ProcessBroadcast \/ CallBroadcast \/ (\E c \in Conns : CallConnect(c) \/ Arrive(c))
       \/ Poll \/ WriteAll \/ RegisterWriteInterest
       \/ (\E c \in Conns, e \in {"readable", "writable"} : SocketEvent(c, e))
       \/ UNCHANGED <<peers, control, backlog, conn, asked, done>>
  BY DEF ServerNext, LoopStep, Environment, ControlStep, IncomingStep, SocketStep,
         ControlDrained, AcceptBlocks, AcceptFails, SkipSocket, ReadSome, WriteBlocks,
         QueuePanics, Quiet, slabVars, serverVars
<1> QED
  BY <1>2, <1>3, <1>4, <1>5, <1>6, <1>7, <1>8, <1>9, <1>10

(* At the start there are no peers and no requests. *)
LEMMA DeliveryStart == ServerInit => DeliveryInv
<1> SUFFICES ASSUME ServerInit PROVE DeliveryInv
  OBVIOUS
<1>1. SlabOK /\ ConnsOK
  BY SlabStart DEF ServerInit, ConnsOK
<1>2. control = <<>> /\ backlog = {} /\ asked = 0 /\ done = 0 /\ peers = [k \in {} |-> None]
  BY DEF ServerInit
<1>3. PeersOK
  BY <1>2 DEF PeersOK, Occupied
<1>4. RequestsOK
  BY <1>2 DEF RequestsOK
<1>5. MessagesOK
  BY <1>2 DEF MessagesOK
<1> QED
  BY <1>1, <1>3, <1>4, <1>5 DEF DeliveryInv

(* For any connections, any limit, any number of messages and any batches   *)
(* of events, a peer that is open has been given every message that was     *)
(* broadcast since its registration, each once and in order, although keys  *)
(* are used again and swap_remove moves the list about under the broadcast  *)
(* loop (server.rs:134-139).                                                *)
THEOREM BroadcastsReachAllCorrect == ServerSpec => []BroadcastsReachAll
<1>1. DeliveryInv => BroadcastsReachAll
  BY DEF DeliveryInv, PeersOK, Due, BroadcastsReachAll
<1> QED
  BY <1>1, DeliveryStart, DeliveryStep, PTL DEF ServerSpec
=============================================================================
