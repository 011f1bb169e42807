---------------------------- MODULE GossipProofs ----------------------------
(***************************************************************************)
(* However many nodes tell each other their addresses and however many     *)
(* workers hear of them, a node has its own addresses once and a foreign   *)
(* one at most as often as it has workers, and so has every ICO.           *)
(***************************************************************************)
EXTENDS Gossip, FiniteSetTheorems, TLAPS

(* An address that has left its owner's hands is in the owner's all_addr.   *)
Told == {a \in Addresses : \A n \in Nodes : a \in ToSet(Own[n]) => a \in ToSet(all_addr[n])}

(* The lists of addresses that all_addr, messages and ledgers consist of.   *)
Lists == {s \in Seq(Told) : \A a \in Addresses : Times(a, s) <= Cardinality(Workers)}

GenPCs == {"key", "announce", "paused", "ico", "ico_send"}
WorkerPCs == {"recv", "contains", "push", "relay", "ico", "ico_relay"}
Msg(F) == [type : {"NewAddr", "ICO"}, addrs : F]
Signal(F) == [signal : {"ConnectNewPeer"}, arg : Nodes]
        \cup [signal : {"BroadcastMessage"}, arg : Msg(F)]

(* Everything that is said, heard or kept consists of such lists. *)
AddrOK(F) == all_addr \in [Nodes -> F]
IcoOK(F) == ico_state \in [Nodes -> F]
ControlOK(F) ==
    /\ connector \in [Nodes -> [todo : Seq(Nodes), waits : BOOLEAN]]
    /\ control \in [Nodes -> Seq(Signal(F))]
LinkOK(F) == link \in [Pairs -> Seq(Msg(F))]
GenOK(F) == generator \in [Nodes -> [pc : GenPCs, made : Nat, coins : F]]
LocalOK(F, v) ==
    /\ v.pc \in {"contains", "push", "relay"} => v.todo # <<>>
    /\ v.pc \in {"ico", "ico_relay"} => v.todo \in F
WorkersOK(T, F) ==
    /\ worker \in [Nodes -> [Workers -> [pc : WorkerPCs, todo : Seq(T)]]]
    /\ \A n \in Nodes, w \in Workers : LocalOK(F, worker[n][w])
Carried(T, F) == IcoOK(F) /\ ControlOK(F) /\ LinkOK(F) /\ GenOK(F) /\ WorkersOK(T, F)

(* A generator's addresses: those made so far are in all_addr, at one place *)
(* each, the others nowhere.                                                *)
OwnOK ==
    \A n \in Nodes :
        /\ generator[n].made <= Len(Own[n])
        /\ GenPc(n) = "key" => generator[n].made < Len(Own[n])
        /\ \A i \in 1..Len(Own[n]) :
              Own[n][i] \in ToSet(all_addr[n]) <=> i <= generator[n].made
        /\ \A i \in 1..Len(Own[n]), j, k \in DOMAIN all_addr[n] :
              all_addr[n][j] = Own[n][i] /\ all_addr[n][k] = Own[n][i] => j = k

(* A worker about to push has a foreign address in hand.  With those that   *)
(* are there already its copies are no more than there are workers.         *)
Pushers(n, a) == {w \in Workers : worker[n][w].pc = "push" /\ Head(worker[n][w].todo) = a}
PushOK == \A n \in Nodes : \A a \in ToSet(Own[n]) : Pushers(n, a) = {}
CountOK ==
    \A n \in Nodes, a \in Addresses :
        a \notin ToSet(Own[n]) =>
            Times(a, all_addr[n]) + Cardinality(Pushers(n, a)) <= Cardinality(Workers)

GInv == AddrOK(Lists) /\ Carried(Told, Lists) /\ OwnOK /\ PushOK /\ CountOK
-----------------------------------------------------------------------------
(* How often an element occurs is a number.                                 *)
LEMMA TimesNat ==
  ASSUME NEW S, NEW s \in Seq(S), NEW a
  PROVE  /\ IsFiniteSet({i \in DOMAIN s : s[i] = a})
         /\ Times(a, s) \in Nat
         /\ Times(a, s) = 0 <=> a \notin ToSet(s)
<1>1. IsFiniteSet(1..Len(s)) /\ {i \in DOMAIN s : s[i] = a} \subseteq 1..Len(s)
  BY FS_Interval
<1>2. IsFiniteSet({i \in DOMAIN s : s[i] = a})
  BY <1>1, FS_Subset
<1>3. Times(a, s) \in Nat
  BY <1>2, FS_CardinalityType DEF Times
<1>4. Times(a, s) = 0 <=> {i \in DOMAIN s : s[i] = a} = {}
  BY <1>2, FS_EmptySet DEF Times
<1> QED
  BY <1>2, <1>3, <1>4 DEF ToSet

(* Vec::push adds one occurrence of what is pushed. *)
LEMMA TimesAppend ==
  ASSUME NEW S, NEW s \in Seq(S), NEW x, NEW a
  PROVE  /\ x # a => Times(a, Append(s, x)) = Times(a, s)
         /\ x = a => Times(a, Append(s, x)) = Times(a, s) + 1
<1> DEFINE At == {i \in DOMAIN s : s[i] = a}
           After == {i \in DOMAIN Append(s, x) : Append(s, x)[i] = a}
<1>1. IsFiniteSet(At)
  BY TimesNat
<1>2. x # a => After = At
  OBVIOUS
<1>3. x = a => After = At \cup {Len(s) + 1} /\ Len(s) + 1 \notin At
  OBVIOUS
<1>4. x = a => Cardinality(After) = Cardinality(At) + 1
  BY <1>1, <1>3, FS_AddElement
<1> QED
  BY <1>2, <1>4 DEF Times

(* Elements at one place occur once.                                        *)
LEMMA TimesOne ==
  ASSUME NEW S, NEW s \in Seq(S), NEW a \in ToSet(s),
         \A j, k \in DOMAIN s : s[j] = a /\ s[k] = a => j = k
  PROVE  Times(a, s) = 1
<1>1. PICK i \in DOMAIN s : s[i] = a
  BY DEF ToSet
<1>2. {j \in DOMAIN s : s[j] = a} = {i}
  BY <1>1
<1> QED
  BY <1>2, FS_Singleton DEF Times

(* What ToSet is of a longer vector. *)
LEMMA ToSetAppend ==
  ASSUME NEW S, NEW s \in Seq(S), NEW x
  PROVE  ToSet(Append(s, x)) = ToSet(s) \cup {x}
<1>1. \A a : a \in ToSet(Append(s, x)) <=> \E i \in 1..(Len(s) + 1) : Append(s, x)[i] = a
  BY DEF ToSet
<1>2. \A a : a \in ToSet(s) <=> \E i \in 1..Len(s) : s[i] = a
  BY DEF ToSet
<1> QED
  BY <1>1, <1>2

(* There is a worker, and their number is a number. *)
LEMMA SomeWorkers == Cardinality(Workers) \in Nat \ {0}
  BY GossipAssumption, FS_EmptySet, FS_CardinalityType DEF GossipAssumption

(* Addresses of different nodes differ, and the set of a node's is made of  *)
(* addresses.                                                               *)
LEMMA Owners ==
  /\ \A n \in Nodes : Own[n] \in Seq(Addresses) /\ ToSet(Own[n]) \subseteq Addresses
  /\ \A n, m \in Nodes : \A a \in ToSet(Own[n]) : a \in ToSet(Own[m]) => n = m
<1>1. \A n \in Nodes : Own[n] \in Seq(Addresses)
  BY GossipAssumption DEF GossipAssumption
<1>2. \A n \in Nodes : ToSet(Own[n]) \subseteq Addresses
  BY <1>1 DEF ToSet
<1>3. ASSUME NEW n \in Nodes, NEW m \in Nodes, n # m
      PROVE  ToSet(Own[n]) \cap ToSet(Own[m]) = {}
  <2>1. <<n, m>> \in Pairs /\ <<n, m>>[1] = n /\ <<n, m>>[2] = m
    BY <1>3 DEF Pairs
  <2>2. \A p \in Pairs : ToSet(Own[p[1]]) \cap ToSet(Own[p[2]]) = {}
    BY GossipAssumption DEF GossipAssumption
  <2> HIDE DEF Pairs
  <2> QED
    BY <2>1, <2>2
<1> QED
  BY <1>1, <1>2, <1>3
-----------------------------------------------------------------------------
(* A sequence over a set is one over a larger set.                          *)
LEMMA SeqGrows ==
  ASSUME NEW S, NEW T, S \subseteq T
  PROVE  Seq(S) \subseteq Seq(T)
  OBVIOUS

(* Nothing learns or forgets an address: what may be said stays the same.   *)
LEMMA SameLists ==
  ASSUME all_addr' = all_addr
  PROVE  Told' = Told /\ Lists' = Lists
<1>1. Told' = Told
  BY DEF Told
<1> QED
  BY <1>1 DEF Lists

(* A node learns an address that its owner knows: more may be said.         *)
LEMMA MoreLists ==
  ASSUME NEW n \in Nodes, NEW a, AddrOK(Lists),
         all_addr' = [all_addr EXCEPT ![n] = Append(@, a)]
  PROVE  /\ Told \subseteq Told' /\ Lists \subseteq Lists'
         /\ \A m \in Nodes : ToSet(all_addr'[m]) =
                IF m = n THEN ToSet(all_addr[n]) \cup {a} ELSE ToSet(all_addr[m])
<1>1. \A m \in Nodes : all_addr[m] \in Seq(Told)
  BY DEF AddrOK, Lists
<1>2. \A m \in Nodes : all_addr'[m] = IF m = n THEN Append(all_addr[n], a) ELSE all_addr[m]
  BY DEF AddrOK
<1>3. ToSet(Append(all_addr[n], a)) = ToSet(all_addr[n]) \cup {a}
  BY <1>1, ToSetAppend
<1>4. \A m \in Nodes : ToSet(all_addr'[m]) =
          IF m = n THEN ToSet(all_addr[n]) \cup {a} ELSE ToSet(all_addr[m])
  <2> TAKE m \in Nodes
  <2>1. CASE m = n
    <3>1. all_addr'[m] = Append(all_addr[n], a)
      BY <1>2, <2>1
    <3> QED
      BY <3>1, <1>3, <2>1
  <2>2. CASE m # n
    <3>1. all_addr'[m] = all_addr[m]
      BY <1>2, <2>2
    <3> QED
      BY <3>1, <2>2
  <2> QED
    BY <2>1, <2>2
<1>5. Told \subseteq Told'
  BY <1>4 DEF Told
<1>6. Lists \subseteq Lists'
  BY <1>5, SeqGrows DEF Lists
<1> QED
  BY <1>4, <1>5, <1>6

(* The set of the workers about to push is finite.                          *)
LEMMA PushersFinite ==
  ASSUME NEW n \in Nodes, NEW a, NEW P, P \subseteq Workers
  PROVE  /\ IsFiniteSet(P) /\ Cardinality(P) \in Nat /\ Cardinality(P) <= Cardinality(Workers)
         /\ \A w \in P : Cardinality(P \ {w}) = Cardinality(P) - 1
         /\ \A Q \in SUBSET P : Cardinality(Q) \in Nat /\ Cardinality(Q) <= Cardinality(P)
<1>1. IsFiniteSet(Workers)
  BY GossipAssumption DEF GossipAssumption
<1>2. IsFiniteSet(P) /\ Cardinality(P) \in Nat /\ Cardinality(P) <= Cardinality(Workers)
  BY <1>1, FS_Subset, FS_CardinalityType
<1>3. \A w \in P : Cardinality(P \ {w}) = Cardinality(P) - 1
  BY <1>2, FS_RemoveElement
<1>4. \A Q \in SUBSET P : Cardinality(Q) \in Nat /\ Cardinality(Q) <= Cardinality(P)
  BY <1>2, FS_Subset, FS_CardinalityType
<1> QED
  BY <1>2, <1>3, <1>4
-----------------------------------------------------------------------------
(* What is left alone stays right when as much may be said as before.       *)
LEMMA Kept ==
  ASSUME all_addr' = all_addr
  PROVE  /\ AddrOK(Lists) => AddrOK(Lists)'
         /\ IcoOK(Lists) /\ ico_state' = ico_state => IcoOK(Lists)'
         /\ ControlOK(Lists) /\ connector' = connector /\ control' = control => ControlOK(Lists)'
         /\ LinkOK(Lists) /\ link' = link => LinkOK(Lists)'
         /\ GenOK(Lists) /\ generator' = generator => GenOK(Lists)'
         /\ WorkersOK(Told, Lists) /\ worker' = worker => WorkersOK(Told, Lists)'
<1>1. Told' = Told /\ Lists' = Lists
  BY SameLists
<1> QED
  BY <1>1 DEF AddrOK, IcoOK, ControlOK, LinkOK, GenOK, WorkersOK

(* Handle::broadcast puts a message of such a list into control_chan.       *)
LEMMA SendOK ==
  ASSUME all_addr' = all_addr, ControlOK(Lists), NEW n \in Nodes,
         NEW sig \in Signal(Lists), Send(n, sig), connector' = connector
  PROVE  ControlOK(Lists)'
<1>1. Lists' = Lists
  BY SameLists
<1>2. control' \in [Nodes -> Seq(Signal(Lists))]
  BY DEF Send, ControlOK
<1> QED
  BY <1>1, <1>2 DEF ControlOK, Signal, Msg

(* A worker that does not go on to push. *)
LEMMA BecomeOK ==
  ASSUME all_addr' = all_addr, WorkersOK(Told, Lists), NEW n \in Nodes, NEW w \in Workers,
         NEW pc \in WorkerPCs, NEW todo \in Seq(Told), Become(n, w, pc, todo),
         pc \in {"contains", "push", "relay"} => todo # <<>>,
         pc \in {"ico", "ico_relay"} => todo \in Lists
  PROVE  /\ WorkersOK(Told, Lists)'
         /\ \A m \in Nodes, v \in Workers :
               worker'[m][v] = IF m = n /\ v = w THEN [pc |-> pc, todo |-> todo] ELSE worker[m][v]
<1>1. Told' = Told /\ Lists' = Lists
  BY SameLists
<1>2. worker' \in [Nodes -> [Workers -> [pc : WorkerPCs, todo : Seq(Told)]]]
  BY DEF Become, WorkersOK
<1>3. \A m \in Nodes, v \in Workers :
          worker'[m][v] = IF m = n /\ v = w THEN [pc |-> pc, todo |-> todo] ELSE worker[m][v]
  BY DEF Become, WorkersOK
<1>4. \A m \in Nodes, v \in Workers : LocalOK(Lists, worker'[m][v])
  BY <1>3 DEF WorkersOK, LocalOK
<1> QED
  BY <1>1, <1>2, <1>3, <1>4 DEF WorkersOK, LocalOK

(* Then no more workers are about to push than before.                      *)
LEMMA BecomeKeepsPushers ==
  ASSUME all_addr' = all_addr, WorkersOK(Told, Lists), NEW n \in Nodes, NEW w \in Workers,
         NEW pc \in WorkerPCs \ {"push"}, NEW todo \in Seq(Told), Become(n, w, pc, todo),
         pc \in {"contains", "push", "relay"} => todo # <<>>,
         pc \in {"ico", "ico_relay"} => todo \in Lists
  PROVE  /\ WorkersOK(Told, Lists)'
         /\ \A m \in Nodes, a \in Addresses : Pushers(m, a)' \subseteq Pushers(m, a)
<1>1. WorkersOK(Told, Lists)'
  BY BecomeOK
<1>2. \A m \in Nodes, v \in Workers :
          worker'[m][v] = IF m = n /\ v = w THEN [pc |-> pc, todo |-> todo] ELSE worker[m][v]
  BY BecomeOK
<1> QED
  BY <1>1, <1>2 DEF Pushers

(* Loop goes on with the addresses that are left. *)
LEMMA LoopOK ==
  ASSUME all_addr' = all_addr, WorkersOK(Told, Lists), NEW n \in Nodes, NEW w \in Workers,
         NEW todo \in Seq(Told), Loop(n, w, todo)
  PROVE  /\ WorkersOK(Told, Lists)'
         /\ \A m \in Nodes, a \in Addresses : Pushers(m, a)' \subseteq Pushers(m, a)
<1> DEFINE pc == IF todo = <<>> THEN "recv" ELSE "contains"
<1>1. pc \in WorkerPCs \ {"push"} /\ Become(n, w, pc, todo)
  BY DEF WorkerPCs, Loop
<1>2. pc \in {"contains", "push", "relay"} => todo # <<>>
  OBVIOUS
<1>3. pc \notin {"ico", "ico_relay"}
  OBVIOUS
<1> HIDE DEF pc
<1> QED
  BY <1>1, <1>2, <1>3, BecomeKeepsPushers

(* The threads other than a worker about to push, and other than one that   *)
(* makes an address, keep the counts.                                       *)
LEMMA QuietKeeps ==
  ASSUME GInv, all_addr' = all_addr, Carried(Told, Lists)',
         \A n \in Nodes : /\ generator'[n].made = generator[n].made
                          /\ generator'[n].pc = "key" => generator[n].made < Len(Own[n]),
         \A n \in Nodes, a \in Addresses : Pushers(n, a)' \subseteq Pushers(n, a)
  PROVE  GInv'
<1>1. AddrOK(Lists)'
  BY Kept DEF GInv
<1>2. OwnOK'
  BY DEF OwnOK, GInv, GenPc
<1>3. PushOK'
  BY Owners DEF PushOK, GInv
<1>4. CountOK'
  <2> SUFFICES ASSUME NEW n \in Nodes, NEW a \in Addresses, a \notin ToSet(Own[n])
               PROVE  Times(a, all_addr[n]) + Cardinality(Pushers(n, a)') <= Cardinality(Workers)
    BY DEF CountOK
  <2>1. Times(a, all_addr[n]) + Cardinality(Pushers(n, a)) <= Cardinality(Workers)
    BY DEF GInv, CountOK
  <2>2. Pushers(n, a) \subseteq Workers /\ Pushers(n, a)' \in SUBSET Pushers(n, a)
    BY DEF Pushers
  <2>3. /\ Cardinality(Pushers(n, a)) \in Nat /\ Cardinality(Pushers(n, a)') \in Nat
        /\ Cardinality(Pushers(n, a)') <= Cardinality(Pushers(n, a))
    BY <2>2, PushersFinite
  <2>4. Times(a, all_addr[n]) \in Nat
    BY TimesNat DEF GInv, AddrOK, Lists
  <2> QED
    BY <2>1, <2>3, <2>4, SomeWorkers
<1> QED
  BY <1>1, <1>2, <1>3, <1>4 DEF GInv
-----------------------------------------------------------------------------
(* An action that leaves the workers and generators alone.                  *)
LEMMA NetStepKeeps ==
  ASSUME GInv, NEW n \in Nodes, RequestConnect(n) \/ ServerStep(n) \/ AcceptStep(n)
  PROVE  GInv'
<1>1. all_addr' = all_addr /\ ico_state' = ico_state /\ worker' = worker /\ generator' = generator
  BY DEF RequestConnect, ServerStep, AcceptStep, Listen, ProcessConnect, ProcessBroadcast,
         Accept, Serving
<1>2. IcoOK(Lists)' /\ GenOK(Lists)' /\ WorkersOK(Told, Lists)'
  BY <1>1, Kept DEF GInv, Carried
<1>3. Lists' = Lists /\ ControlOK(Lists) /\ LinkOK(Lists)
  BY <1>1, SameLists DEF GInv, Carried
<1>4. ControlOK(Lists)' /\ LinkOK(Lists)'
  <2>1. CASE RequestConnect(n)
    <3>1. ConnectNewPeer(Head(connector[n].todo)) \in Signal(Lists)
      BY <2>1, <1>3 DEF RequestConnect, ControlOK, Signal, ConnectNewPeer
    <3>2. control' \in [Nodes -> Seq(Signal(Lists))] /\ link' = link
      BY <2>1, <3>1, <1>3 DEF RequestConnect, Send, ControlOK
    <3>3. connector' \in [Nodes -> [todo : Seq(Nodes), waits : BOOLEAN]]
      BY <2>1, <1>3 DEF RequestConnect, ControlOK
    <3> QED
      BY <1>1, <1>3, <3>2, <3>3, Kept DEF ControlOK, Signal, Msg
  <2>2. CASE Listen(n) \/ AcceptStep(n)
    BY <2>2, <1>1, <1>3, Kept DEF Listen, AcceptStep, Accept
  <2>3. CASE ProcessConnect(n) \/ ProcessBroadcast(n)
    <3>1. control[n] \in Seq(Signal(Lists)) /\ control[n] # <<>>
          /\ control' = [control EXCEPT ![n] = Tail(@)]
      BY <2>3, <1>3 DEF ProcessConnect, ProcessBroadcast, Serving, ControlOK
    <3>2. control' \in [Nodes -> Seq(Signal(Lists))] /\ Request(n) \in Signal(Lists)
      BY <3>1, <1>3 DEF ControlOK, Request
    <3>3. CASE ProcessConnect(n)
      <4>1. link' = link
        BY <3>3 DEF ProcessConnect
      <4>2. \A s \in Seq(Nodes) : Tail(s) \in Seq(Nodes)
        <5> TAKE s \in Seq(Nodes)
        <5>1. CASE s = <<>>
          BY <5>1
        <5>2. CASE s # <<>>
          BY <5>2
        <5> QED
          BY <5>1, <5>2
      <4>3. connector' \in [Nodes -> [todo : Seq(Nodes), waits : BOOLEAN]]
        <5>1. connector[n] \in [todo : Seq(Nodes), waits : BOOLEAN] /\ FALSE \in BOOLEAN
          BY <1>3 DEF ControlOK
        <5>2. PICK c \in [todo : Seq(Nodes), waits : BOOLEAN] :
                  connector' = [connector EXCEPT ![n] = c]
          <6>1. CASE Request(n).arg \in listening
            <7>1. connector' = [connector EXCEPT ![n] = [todo |-> Tail(connector[n].todo),
                                                         waits |-> FALSE]]
              BY <3>3, <6>1 DEF ProcessConnect
            <7>2. [todo |-> Tail(connector[n].todo), waits |-> FALSE]
                      \in [todo : Seq(Nodes), waits : BOOLEAN]
              BY <4>2, <5>1
            <7> QED
              BY <7>1, <7>2
          <6>2. CASE Request(n).arg \notin listening
            <7>1. connector' = [connector EXCEPT ![n] = [connector[n] EXCEPT !.waits = FALSE]]
              BY <3>3, <6>2 DEF ProcessConnect
            <7>2. [connector[n] EXCEPT !.waits = FALSE] \in [todo : Seq(Nodes), waits : BOOLEAN]
              BY <5>1
            <7> QED
              BY <7>1, <7>2
          <6> QED
            BY <6>1, <6>2
        <5> QED
          BY <5>2, <1>3 DEF ControlOK
      <4> QED
        BY <4>1, <4>3, <3>2, <1>1, <1>3, Kept DEF ControlOK, Signal, Msg
    <3>4. CASE ProcessBroadcast(n)
      <4>1. connector' = connector
        BY <3>4 DEF ProcessBroadcast
      <4>2. Request(n).arg \in Msg(Lists)
        BY <3>4, <3>2 DEF ProcessBroadcast, Serving, Signal
      <4>3. link' \in [Pairs -> Seq(Msg(Lists))]
        BY <3>4, <4>2, <1>3 DEF ProcessBroadcast, LinkOK
      <4> QED
        BY <4>1, <4>3, <3>2, <1>3 DEF ControlOK, LinkOK, Signal, Msg
    <3> QED
      BY <2>3, <3>3, <3>4
  <2> QED
    BY <2>1, <2>2, <2>3 DEF ServerStep
<1>5. \A m \in Nodes, a \in Addresses : Pushers(m, a)' \subseteq Pushers(m, a)
  BY <1>1 DEF Pushers
<1>6. \A m \in Nodes : /\ generator'[m].made = generator[m].made
                       /\ generator'[m].pc = "key" => generator[m].made < Len(Own[m])
  BY <1>1 DEF GInv, OwnOK, GenPc
<1> QED
  BY <1>1, <1>2, <1>4, <1>5, <1>6, QuietKeeps DEF Carried

(* What is left of a sequence, and its head. *)
LEMMA TailSeq ==
  ASSUME NEW S, NEW s \in Seq(S)
  PROVE  Tail(s) \in Seq(S) /\ (s # <<>> => Head(s) \in S)
<1>1. CASE s = <<>>
  BY <1>1
<1>2. CASE s # <<>>
  BY <1>2
<1> QED
  BY <1>1, <1>2

(* A worker's step that leaves the generators alone and after which no more *)
(* workers are about to push.                                               *)
LEMMA WorkerKeeps ==
  ASSUME GInv, all_addr' = all_addr, generator' = generator,
         IcoOK(Lists)', ControlOK(Lists)', LinkOK(Lists)', WorkersOK(Told, Lists)',
         \A m \in Nodes, a \in Addresses : Pushers(m, a)' \subseteq Pushers(m, a)
  PROVE  GInv'
<1>1. GenOK(Lists)'
  BY Kept DEF GInv, Carried
<1>2. \A m \in Nodes : /\ generator'[m].made = generator[m].made
                       /\ generator'[m].pc = "key" => generator[m].made < Len(Own[m])
  BY DEF GInv, OwnOK, GenPc
<1> QED
  BY <1>1, <1>2, QuietKeeps DEF Carried

(* A worker takes a message of a peer. *)
LEMMA ReceiveKeeps ==
  ASSUME GInv, NEW n \in Nodes, NEW w \in Workers, NEW m \in Nodes, m # n, Receive(n, w, m)
  PROVE  GInv'
<1> DEFINE msg == Head(link[<<m, n>>])
<1>1. /\ all_addr' = all_addr /\ generator' = generator /\ connector' = connector
      /\ ico_state' = ico_state /\ control' = control
  BY DEF Receive, netVars
<1>2. <<m, n>> \in Pairs
  BY DEF Pairs
<1>3. link \in [Pairs -> Seq(Msg(Lists))] /\ link[<<m, n>>] # <<>>
      /\ link' = [link EXCEPT ![<<m, n>>] = Tail(@)]
  BY DEF GInv, Carried, LinkOK, Receive
<1>4. link[<<m, n>>] \in Seq(Msg(Lists))
  BY <1>2, <1>3
<1>5. msg \in Msg(Lists) /\ Tail(link[<<m, n>>]) \in Seq(Msg(Lists))
  BY <1>3, <1>4, TailSeq
<1>6. link' \in [Pairs -> Seq(Msg(Lists))]
  BY <1>2, <1>3, <1>5
<1>7. LinkOK(Lists)'
  BY <1>1, <1>6, SameLists DEF LinkOK, Msg
<1>8. IcoOK(Lists)' /\ ControlOK(Lists)' /\ WorkersOK(Told, Lists)
  BY <1>1, Kept DEF GInv, Carried
<1>9. msg.type \in {"NewAddr", "ICO"} /\ msg.addrs \in Lists /\ msg.addrs \in Seq(Told)
  BY <1>5 DEF Msg, Lists
<1>10. \/ Loop(n, w, msg.addrs)
       \/ Become(n, w, "ico", msg.addrs)
       \/ worker' = worker
  BY <1>9 DEF Receive
<1> HIDE DEF msg
<1>11. /\ WorkersOK(Told, Lists)'
       /\ \A k \in Nodes, a \in Addresses : Pushers(k, a)' \subseteq Pushers(k, a)
  <2>1. CASE Loop(n, w, msg.addrs)
    BY <2>1, <1>1, <1>8, <1>9, LoopOK
  <2>2. CASE Become(n, w, "ico", msg.addrs)
    <3>1. "ico" \in WorkerPCs \ {"push"}
      BY DEF WorkerPCs
    <3> QED
      BY <2>2, <3>1, <1>1, <1>8, <1>9, BecomeKeepsPushers
  <2>3. CASE worker' = worker
    BY <2>3, <1>1, <1>8, Kept DEF Pushers
  <2> QED
    BY <1>10, <2>1, <2>2, <2>3
<1> QED
  BY <1>1, <1>7, <1>8, <1>11, WorkerKeeps

(* A worker passes on all the addresses of its node. *)
LEMMA RelayAddressesKeeps ==
  ASSUME GInv, NEW n \in Nodes, NEW w \in Workers, RelayAddresses(n, w)
  PROVE  GInv'
<1>1. /\ all_addr' = all_addr /\ generator' = generator /\ connector' = connector
      /\ ico_state' = ico_state /\ link' = link
  BY DEF RelayAddresses, netVars
<1>2. IcoOK(Lists)' /\ LinkOK(Lists)' /\ WorkersOK(Told, Lists) /\ ControlOK(Lists)
  BY <1>1, Kept DEF GInv, Carried
<1>3. all_addr[n] \in Lists
  BY DEF GInv, AddrOK
<1>4. BroadcastMessage(NewAddr(all_addr[n])) \in Signal(Lists)
  BY <1>3 DEF BroadcastMessage, NewAddr, Signal, Msg
<1>5. Send(n, BroadcastMessage(NewAddr(all_addr[n])))
  BY DEF RelayAddresses, Broadcast
<1>6. ControlOK(Lists)'
  BY <1>1, <1>2, <1>4, <1>5, SendOK
<1>7. worker[n][w].todo \in Seq(Told)
  BY <1>2 DEF WorkersOK
<1>8. Tail(worker[n][w].todo) \in Seq(Told)
  BY <1>7, TailSeq
<1>9. Loop(n, w, Tail(worker[n][w].todo))
  BY DEF RelayAddresses, Local
<1>10. /\ WorkersOK(Told, Lists)'
       /\ \A k \in Nodes, a \in Addresses : Pushers(k, a)' \subseteq Pushers(k, a)
  BY <1>1, <1>2, <1>8, <1>9, LoopOK
<1> QED
  BY <1>1, <1>2, <1>6, <1>10, WorkerKeeps

(* A worker stores the ICO it was sent. *)
LEMMA StoreIcoKeeps ==
  ASSUME GInv, NEW n \in Nodes, NEW w \in Workers, StoreIco(n, w)
  PROVE  GInv'
<1>1. /\ all_addr' = all_addr /\ generator' = generator /\ connector' = connector
      /\ control' = control /\ link' = link
  BY DEF StoreIco, netVars
<1>2. ControlOK(Lists)' /\ LinkOK(Lists)' /\ WorkersOK(Told, Lists) /\ IcoOK(Lists)
  BY <1>1, Kept DEF GInv, Carried
<1>3. worker[n][w].todo \in Seq(Told) /\ worker[n][w].todo \in Lists
  BY <1>2 DEF WorkersOK, LocalOK, StoreIco, Local
<1>4. IcoOK(Lists)'
  BY <1>1, <1>2, <1>3, SameLists DEF IcoOK, StoreIco, Local
<1>5. "ico_relay" \in WorkerPCs \ {"push"} /\ Become(n, w, "ico_relay", worker[n][w].todo)
  BY DEF StoreIco, WorkerPCs, Local
<1>6. /\ WorkersOK(Told, Lists)'
      /\ \A k \in Nodes, a \in Addresses : Pushers(k, a)' \subseteq Pushers(k, a)
  BY <1>1, <1>2, <1>3, <1>5, BecomeKeepsPushers
<1> QED
  BY <1>1, <1>2, <1>4, <1>6, WorkerKeeps

(* A worker passes on the ICO it was sent. *)
LEMMA RelayIcoKeeps ==
  ASSUME GInv, NEW n \in Nodes, NEW w \in Workers, RelayIco(n, w)
  PROVE  GInv'
<1>1. /\ all_addr' = all_addr /\ generator' = generator /\ connector' = connector
      /\ ico_state' = ico_state /\ link' = link
  BY DEF RelayIco, netVars
<1>2. IcoOK(Lists)' /\ LinkOK(Lists)' /\ WorkersOK(Told, Lists) /\ ControlOK(Lists)
  BY <1>1, Kept DEF GInv, Carried
<1>3. worker[n][w].todo \in Lists
  BY <1>2 DEF WorkersOK, LocalOK, RelayIco, Local
<1>4. BroadcastMessage(IcoMsg(worker[n][w].todo)) \in Signal(Lists)
  BY <1>3 DEF BroadcastMessage, IcoMsg, Signal, Msg
<1>5. Send(n, BroadcastMessage(IcoMsg(worker[n][w].todo)))
  BY DEF RelayIco, Broadcast, Local
<1>6. ControlOK(Lists)'
  BY <1>1, <1>2, <1>4, <1>5, SendOK
<1>7. "recv" \in WorkerPCs \ {"push"} /\ <<>> \in Seq(Told) /\ Become(n, w, "recv", <<>>)
  BY DEF RelayIco, WorkerPCs
<1>8. /\ WorkersOK(Told, Lists)'
      /\ \A k \in Nodes, a \in Addresses : Pushers(k, a)' \subseteq Pushers(k, a)
  BY <1>1, <1>2, <1>7, BecomeKeepsPushers
<1> QED
  BY <1>1, <1>2, <1>6, <1>8, WorkerKeeps

(* A generator's step that leaves the workers alone and makes no address.   *)
LEMMA GeneratorKeeps ==
  ASSUME GInv, all_addr' = all_addr, worker' = worker,
         IcoOK(Lists)', ControlOK(Lists)', LinkOK(Lists)', GenOK(Lists)',
         \A m \in Nodes : /\ generator'[m].made = generator[m].made
                          /\ generator'[m].pc = "key" => generator[m].made < Len(Own[m])
  PROVE  GInv'
<1>1. WorkersOK(Told, Lists)'
  BY Kept DEF GInv, Carried
<1>2. \A m \in Nodes, a \in Addresses : Pushers(m, a)' \subseteq Pushers(m, a)
  BY DEF Pushers
<1> QED
  BY <1>1, <1>2, QuietKeeps DEF Carried

(* A generator tells its addresses. *)
LEMMA AnnounceKeeps ==
  ASSUME GInv, NEW n \in Nodes, Announce(n)
  PROVE  GInv'
<1>1. /\ all_addr' = all_addr /\ worker' = worker /\ connector' = connector
      /\ ico_state' = ico_state /\ link' = link
  BY DEF Announce, netVars
<1>2. IcoOK(Lists)' /\ LinkOK(Lists)' /\ GenOK(Lists) /\ ControlOK(Lists)
  BY <1>1, Kept DEF GInv, Carried
<1>3. all_addr[n] \in Lists
  BY DEF GInv, AddrOK
<1>4. BroadcastMessage(NewAddr(all_addr[n])) \in Signal(Lists)
  BY <1>3 DEF BroadcastMessage, NewAddr, Signal, Msg
<1>5. Send(n, BroadcastMessage(NewAddr(all_addr[n])))
  BY DEF Announce, Broadcast
<1>6. ControlOK(Lists)'
  BY <1>1, <1>2, <1>4, <1>5, SendOK
<1>7. PICK pc \in GenPCs : /\ pc = "key" => generator[n].made < Len(Own[n])
                           /\ generator' = [generator EXCEPT ![n].pc = pc]
  BY DEF Announce, GenPCs
<1>8. generator' \in [Nodes -> [pc : GenPCs, made : Nat, coins : Lists]]
  BY <1>2, <1>7 DEF GenOK
<1>9. GenOK(Lists)'
  BY <1>1, <1>8, SameLists DEF GenOK
<1>10. \A m \in Nodes : /\ generator'[m].made = generator[m].made
                        /\ generator'[m].pc = "key" => generator[m].made < Len(Own[m])
  BY <1>2, <1>7 DEF GInv, OwnOK, GenPc, GenOK
<1> QED
  BY <1>1, <1>2, <1>6, <1>9, <1>10, GeneratorKeeps

(* The ICO: the coins are those addresses, for this node and for the others. *)
LEMMA IcoKeeps ==
  ASSUME GInv, NEW n \in Nodes, StartIco(n) \/ WriteIco(n) \/ SendIco(n)
  PROVE  GInv'
<1>1. /\ all_addr' = all_addr /\ worker' = worker /\ connector' = connector /\ link' = link
  BY DEF StartIco, WriteIco, SendIco, netVars
<1>2. IcoOK(Lists) /\ LinkOK(Lists)' /\ GenOK(Lists) /\ ControlOK(Lists) /\ Lists' = Lists
  BY <1>1, Kept, SameLists DEF GInv, Carried
<1>3. all_addr[n] \in Lists /\ generator[n].coins \in Lists
  BY <1>2 DEF GInv, AddrOK, GenOK
<1>4. IcoOK(Lists)'
  <2>1. ico_state' \in [Nodes -> Lists]
    BY <1>2, <1>3 DEF IcoOK, StartIco, WriteIco, SendIco
  <2> QED
    BY <1>2, <2>1 DEF IcoOK
<1>5. ControlOK(Lists)'
  <2>1. CASE StartIco(n) \/ WriteIco(n)
    BY <2>1, <1>1, <1>2, Kept DEF StartIco, WriteIco
  <2>2. CASE SendIco(n)
    <3>1. BroadcastMessage(IcoMsg(generator[n].coins)) \in Signal(Lists)
      BY <1>3 DEF BroadcastMessage, IcoMsg, Signal, Msg
    <3>2. Send(n, BroadcastMessage(IcoMsg(generator[n].coins)))
      BY <2>2 DEF SendIco, Broadcast
    <3> QED
      BY <1>1, <1>2, <3>1, <3>2, SendOK
  <2> QED
    BY <2>1, <2>2
<1>6. <<>> \in Lists
  BY SomeWorkers, FS_EmptySet DEF Lists, Times
<1>7. PICK g \in [pc : GenPCs, made : Nat, coins : Lists] :
          /\ generator' = [generator EXCEPT ![n] = g]
          /\ g.made = generator[n].made /\ g.pc # "key"
  <2>1. generator[n] \in [pc : GenPCs, made : Nat, coins : Lists]
    BY <1>2 DEF GenOK
  <2>2. {"ico", "ico_send", "paused"} \subseteq GenPCs \ {"key"}
    BY DEF GenPCs
  <2>3. CASE StartIco(n)
    <3> DEFINE g == [generator[n] EXCEPT !.pc = "ico", !.coins = all_addr[n]]
    <3>1. generator' = [generator EXCEPT ![n] = g]
      BY <2>3, <1>2 DEF StartIco, GenOK
    <3>2. g \in [pc : GenPCs, made : Nat, coins : Lists] /\ g.made = generator[n].made
          /\ g.pc # "key"
      BY <2>1, <2>2, <1>3
    <3> QED
      BY <3>1, <3>2
  <2>4. CASE WriteIco(n)
    <3> DEFINE g == [generator[n] EXCEPT !.pc = "ico_send"]
    <3>1. generator' = [generator EXCEPT ![n] = g]
      BY <2>4, <1>2 DEF WriteIco, GenOK
    <3>2. g \in [pc : GenPCs, made : Nat, coins : Lists] /\ g.made = generator[n].made
          /\ g.pc # "key"
      BY <2>1, <2>2
    <3> QED
      BY <3>1, <3>2
  <2>5. CASE SendIco(n)
    <3> DEFINE g == [generator[n] EXCEPT !.pc = "paused", !.coins = <<>>]
    <3>1. generator' = [generator EXCEPT ![n] = g]
      BY <2>5, <1>2 DEF SendIco, GenOK
    <3>2. g \in [pc : GenPCs, made : Nat, coins : Lists] /\ g.made = generator[n].made
          /\ g.pc # "key"
      BY <2>1, <2>2, <1>6
    <3> QED
      BY <3>1, <3>2
  <2> QED
    BY <2>3, <2>4, <2>5
<1>8. generator' \in [Nodes -> [pc : GenPCs, made : Nat, coins : Lists]]
  BY <1>2, <1>7 DEF GenOK
<1>9. GenOK(Lists)'
  BY <1>2, <1>8 DEF GenOK
<1>10. \A m \in Nodes : /\ generator'[m].made = generator[m].made
                        /\ generator'[m].pc = "key" => generator[m].made < Len(Own[m])
  BY <1>2, <1>7 DEF GInv, OwnOK, GenPc, GenOK
<1> QED
  BY <1>1, <1>2, <1>4, <1>5, <1>9, <1>10, GeneratorKeeps
-----------------------------------------------------------------------------
(* contains: an address that is there is passed over; one that is not gets  *)
(* the worker ready to push it.                                             *)
LEMMA CheckAddressKeeps ==
  ASSUME GInv, NEW n \in Nodes, NEW w \in Workers, CheckAddress(n, w)
  PROVE  GInv'
<1> DEFINE todo == worker[n][w].todo
<1>1. /\ all_addr' = all_addr /\ generator' = generator /\ connector' = connector
      /\ ico_state' = ico_state /\ link' = link /\ control' = control
  BY DEF CheckAddress, netVars
<1>2. /\ IcoOK(Lists)' /\ LinkOK(Lists)' /\ ControlOK(Lists)' /\ GenOK(Lists)' /\ AddrOK(Lists)'
      /\ WorkersOK(Told, Lists) /\ Told' = Told
  BY <1>1, Kept, SameLists DEF GInv, Carried
<1>3. todo \in Seq(Told) /\ todo # <<>>
  BY <1>2 DEF WorkersOK, LocalOK, CheckAddress, Local
<1>4. Tail(todo) \in Seq(Told) /\ Head(todo) \in Told
  BY <1>3, TailSeq
<1> HIDE DEF todo
<1>5. CASE Head(todo) \in ToSet(all_addr[n])
  <2>1. Loop(n, w, Tail(todo))
    BY <1>5 DEF CheckAddress, todo, Local
  <2>2. /\ WorkersOK(Told, Lists)'
        /\ \A m \in Nodes, a \in Addresses : Pushers(m, a)' \subseteq Pushers(m, a)
    BY <2>1, <1>1, <1>2, <1>4, LoopOK
  <2> QED
    BY <2>2, <1>1, <1>2, WorkerKeeps
<1>6. CASE Head(todo) \notin ToSet(all_addr[n])
  <2>1. Become(n, w, "push", todo) /\ "push" \in WorkerPCs
    BY <1>6 DEF CheckAddress, todo, Local, WorkerPCs
  <2>2. /\ WorkersOK(Told, Lists)'
        /\ \A m \in Nodes, v \in Workers :
              worker'[m][v] = IF m = n /\ v = w THEN [pc |-> "push", todo |-> todo]
                              ELSE worker[m][v]
    BY <2>1, <1>1, <1>2, <1>3, BecomeOK
  <2>3. \A m \in Nodes, a \in Addresses :
            m # n \/ a # Head(todo) => Pushers(m, a)' \subseteq Pushers(m, a)
    BY <2>2 DEF Pushers
  <2>4. Head(todo) \notin ToSet(Own[n])
    BY <1>4, <1>6 DEF Told
  <2>5. PushOK'
    BY <2>3, <2>4, Owners DEF GInv, PushOK
  <2>6. OwnOK'
    BY <1>1 DEF GInv, OwnOK, GenPc
  <2>7. CountOK'
    <3> SUFFICES ASSUME NEW m \in Nodes, NEW a \in Addresses, a \notin ToSet(Own[m])
                 PROVE  Times(a, all_addr[m]) + Cardinality(Pushers(m, a)')
                            <= Cardinality(Workers)
      BY <1>1 DEF CountOK
    <3>1. Pushers(m, a) \subseteq Workers /\ Pushers(m, a)' \subseteq Workers
      BY DEF Pushers
    <3>2. Cardinality(Pushers(m, a)) \in Nat /\ Cardinality(Pushers(m, a)') \in Nat
          /\ Cardinality(Pushers(m, a)') <= Cardinality(Workers)
      BY <3>1, PushersFinite
    <3>3. Times(a, all_addr[m]) \in Nat
          /\ (Times(a, all_addr[m]) = 0 <=> a \notin ToSet(all_addr[m]))
      BY TimesNat DEF GInv, AddrOK, Lists
    <3>4. CASE m = n /\ a = Head(todo)
      BY <3>2, <3>3, <3>4, <1>6, SomeWorkers
    <3>5. CASE m # n \/ a # Head(todo)
      <4>1. Pushers(m, a)' \in SUBSET Pushers(m, a)
        BY <3>5, <2>3
      <4>2. Cardinality(Pushers(m, a)') <= Cardinality(Pushers(m, a))
        BY <4>1, <3>1, PushersFinite
      <4>3. Times(a, all_addr[m]) + Cardinality(Pushers(m, a)) <= Cardinality(Workers)
        BY DEF GInv, CountOK
      <4> QED
        BY <4>2, <4>3, <3>2, <3>3, SomeWorkers
    <3> QED
      BY <3>4, <3>5
  <2> QED
    BY <1>2, <2>2, <2>5, <2>6, <2>7 DEF GInv, Carried
<1> QED
  BY <1>5, <1>6

(* What is said stays right when more may be said.                          *)
LEMMA GrowKeeps ==
  ASSUME Told \subseteq Told', Lists \subseteq Lists', Carried(Told, Lists)
  PROVE  /\ ico_state' = ico_state => IcoOK(Lists)'
         /\ connector' = connector /\ control' = control => ControlOK(Lists)'
         /\ link' = link => LinkOK(Lists)'
         /\ generator' = generator => GenOK(Lists)'
         /\ WorkersOK(Told', Lists')
<1>1. Seq(Told) \subseteq Seq(Told')
  BY SeqGrows
<1>2. Msg(Lists) \subseteq Msg(Lists') /\ Signal(Lists) \subseteq Signal(Lists')
  BY DEF Msg, Signal
<1>3. Seq(Msg(Lists)) \subseteq Seq(Msg(Lists')) /\ Seq(Signal(Lists)) \subseteq Seq(Signal(Lists'))
  BY <1>2, SeqGrows
<1>4. ico_state' = ico_state => IcoOK(Lists)'
  BY DEF Carried, IcoOK
<1>5. connector' = connector /\ control' = control => ControlOK(Lists)'
  <2> SUFFICES ASSUME connector' = connector, control' = control PROVE ControlOK(Lists)'
    OBVIOUS
  <2>1. control \in [Nodes -> Seq(Signal(Lists'))]
    BY <1>3 DEF Carried, ControlOK
  <2> QED
    BY <2>1 DEF Carried, ControlOK, Signal, Msg
<1>6. link' = link => LinkOK(Lists)'
  <2> SUFFICES ASSUME link' = link PROVE LinkOK(Lists)'
    OBVIOUS
  <2>1. link \in [Pairs -> Seq(Msg(Lists'))]
    BY <1>3 DEF Carried, LinkOK
  <2> QED
    BY <2>1 DEF LinkOK, Msg
<1>7. generator' = generator => GenOK(Lists)'
  BY DEF Carried, GenOK
<1>8. WorkersOK(Told', Lists')
  <2>1. worker \in [Nodes -> [Workers -> [pc : WorkerPCs, todo : Seq(Told')]]]
    BY <1>1 DEF Carried, WorkersOK
  <2>2. \A n \in Nodes, w \in Workers : LocalOK(Lists', worker[n][w])
    BY DEF Carried, WorkersOK, LocalOK
  <2> QED
    BY <2>1, <2>2 DEF WorkersOK
<1> QED
  BY <1>4, <1>5, <1>6, <1>7, <1>8

(* A node with one more address, of which there are not too many, still has *)
(* a list of told addresses.                                                *)
LEMMA LearnOK ==
  ASSUME GInv, NEW n \in Nodes, NEW a \in Addresses,
         all_addr' = [all_addr EXCEPT ![n] = Append(@, a)],
         a \in Told \/ a \in ToSet(Own[n]),
         Times(a, all_addr[n]) + 1 <= Cardinality(Workers)
  PROVE  AddrOK(Lists)' /\ a \in Told'
<1>1. /\ Told \subseteq Told' /\ Lists \subseteq Lists'
      /\ \A m \in Nodes : ToSet(all_addr'[m]) =
             IF m = n THEN ToSet(all_addr[n]) \cup {a} ELSE ToSet(all_addr[m])
  BY MoreLists DEF GInv
<1>2. a \in Told'
  <2>1. CASE a \in Told
    BY <1>1, <2>1
  <2>2. CASE a \in ToSet(Own[n])
    <3>1. \A m \in Nodes : a \in ToSet(Own[m]) => m = n
      BY <2>2, Owners
    <3> QED
      BY <3>1, <1>1 DEF Told
  <2> QED
    BY <2>1, <2>2
<1>3. all_addr[n] \in Seq(Told) /\ all_addr[n] \in Seq(Told')
  BY <1>1, SeqGrows DEF GInv, AddrOK, Lists
<1>4. Append(all_addr[n], a) \in Seq(Told')
  BY <1>2, <1>3
<1>5. \A b \in Addresses : Times(b, Append(all_addr[n], a)) <= Cardinality(Workers)
  <2> TAKE b \in Addresses
  <2>1. CASE b = a
    BY <2>1, <1>3, TimesAppend
  <2>2. CASE b # a
    <3>1. Times(b, all_addr[n]) <= Cardinality(Workers)
      BY DEF GInv, AddrOK, Lists
    <3> QED
      BY <2>2, <3>1, <1>3, TimesAppend
  <2> QED
    BY <2>1, <2>2
<1>6. Append(all_addr[n], a) \in Lists'
  BY <1>4, <1>5 DEF Lists
<1>7. all_addr' \in [Nodes -> Lists']
  BY <1>1, <1>6 DEF GInv, AddrOK
<1> QED
  BY <1>2, <1>7 DEF AddrOK

(* push: the worker's turn is over, its copy is there. *)
LEMMA PushAddressKeeps ==
  ASSUME GInv, NEW n \in Nodes, NEW w \in Workers, PushAddress(n, w)
  PROVE  GInv'
<1>0. PICK todo, a : todo = worker[n][w].todo /\ a = Head(worker[n][w].todo)
  OBVIOUS
<1>1. /\ generator' = generator /\ connector' = connector
      /\ ico_state' = ico_state /\ link' = link /\ control' = control
      /\ all_addr' = [all_addr EXCEPT ![n] = Append(@, a)]
      /\ worker[n][w].pc = "push" /\ Become(n, w, "relay", todo)
  BY <1>0 DEF PushAddress, netVars, Local
<1>2. WorkersOK(Told, Lists) /\ AddrOK(Lists) /\ Carried(Told, Lists) /\ GenOK(Lists)
  BY DEF GInv, Carried
<1>3. todo \in Seq(Told) /\ todo # <<>> /\ LocalOK(Lists, worker[n][w])
  BY <1>0, <1>1, <1>2 DEF WorkersOK, LocalOK
<1>4. a \in Told /\ a \in Addresses
  BY <1>0, <1>3, TailSeq DEF Told
<1>5. w \in Pushers(n, a)
  BY <1>0, <1>1 DEF Pushers
<1>6. a \notin ToSet(Own[n])
  BY <1>5 DEF GInv, PushOK
<1>7. \A m \in Nodes : \A b :
        /\ Pushers(m, b) \subseteq Workers
        /\ Cardinality(Pushers(m, b)) \in Nat
        /\ \A v \in Pushers(m, b) :
              Cardinality(Pushers(m, b) \ {v}) = Cardinality(Pushers(m, b)) - 1
  <2> TAKE m \in Nodes
  <2> TAKE b
  <2>1. Pushers(m, b) \subseteq Workers
    BY DEF Pushers
  <2> QED
    BY <2>1, PushersFinite
<1>8. \A m \in Nodes : \A b : Times(b, all_addr[m]) \in Nat
  BY TimesNat DEF GInv, AddrOK, Lists
<1>9. \A m \in Nodes, b \in Addresses : b \notin ToSet(Own[m]) =>
          Times(b, all_addr[m]) + Cardinality(Pushers(m, b)) <= Cardinality(Workers)
  BY DEF GInv, CountOK
<1>10. Times(a, all_addr[n]) + 1 <= Cardinality(Workers)
  <2>1. Cardinality(Pushers(n, a)) # 0
    <3>1. IsFiniteSet(Pushers(n, a))
      BY <1>7, PushersFinite
    <3> QED
      BY <3>1, <1>5, FS_EmptySet
  <2>2. Cardinality(Pushers(n, a)) \in Nat /\ Times(a, all_addr[n]) \in Nat
    BY <1>7, <1>8
  <2>3. Times(a, all_addr[n]) + Cardinality(Pushers(n, a)) <= Cardinality(Workers)
    BY <1>4, <1>6, <1>9
  <2> QED
    BY <2>1, <2>2, <2>3, SomeWorkers
<1>11. AddrOK(Lists)'
  BY <1>1, <1>4, <1>10, LearnOK
<1>12. /\ Told \subseteq Told' /\ Lists \subseteq Lists'
       /\ \A m \in Nodes : ToSet(all_addr'[m]) =
              IF m = n THEN ToSet(all_addr[n]) \cup {a} ELSE ToSet(all_addr[m])
  BY <1>1, <1>2, MoreLists
<1>13. \A m \in Nodes, v \in Workers :
          worker'[m][v] = IF m = n /\ v = w THEN [pc |-> "relay", todo |-> todo] ELSE worker[m][v]
  BY <1>1, <1>2 DEF Become, WorkersOK
<1>14. Carried(Told, Lists)'
  <2>1. IcoOK(Lists)' /\ ControlOK(Lists)' /\ LinkOK(Lists)' /\ GenOK(Lists)'
        /\ WorkersOK(Told', Lists')
    BY <1>1, <1>2, <1>12, GrowKeeps
  <2>2. todo \in Seq(Told') /\ "relay" \in WorkerPCs
    BY <1>3, <1>12, SeqGrows DEF WorkerPCs
  <2>3. worker' \in [Nodes -> [Workers -> [pc : WorkerPCs, todo : Seq(Told')]]]
    <3>1. [pc |-> "relay", todo |-> todo] \in [pc : WorkerPCs, todo : Seq(Told')]
      BY <2>2
    <3>2. worker \in [Nodes -> [Workers -> [pc : WorkerPCs, todo : Seq(Told')]]]
      BY <2>1 DEF WorkersOK
    <3>3. worker' = [worker EXCEPT ![n][w] = [pc |-> "relay", todo |-> todo]]
      BY <1>1 DEF Become
    <3> QED
      BY <3>1, <3>2, <3>3
  <2>4. \A m \in Nodes, v \in Workers : LocalOK(Lists', worker'[m][v])
    <3>1. LocalOK(Lists', [pc |-> "relay", todo |-> todo])
      BY <1>3 DEF LocalOK
    <3>2. \A m \in Nodes, v \in Workers : LocalOK(Lists', worker[m][v])
      BY <2>1 DEF WorkersOK
    <3> TAKE m \in Nodes, v \in Workers
    <3>3. worker'[m][v] = [pc |-> "relay", todo |-> todo] \/ worker'[m][v] = worker[m][v]
      BY <1>13
    <3> QED
      BY <3>1, <3>2, <3>3
  <2>5. WorkersOK(Told, Lists)'
    BY <2>3, <2>4 DEF WorkersOK, LocalOK
  <2> QED
    BY <2>1, <2>5 DEF Carried
<1>15. \A m \in Nodes : \A b : Pushers(m, b)' \subseteq Pushers(m, b)
  BY <1>13 DEF Pushers
<1>16. Pushers(n, a)' \subseteq Pushers(n, a) \ {w}
  <2>1. worker'[n][w].pc = "relay"
    BY <1>13
  <2>2. w \notin Pushers(n, a)'
    BY <2>1 DEF Pushers
  <2> QED
    BY <1>15, <2>2
<1>17. PushOK'
  BY <1>15, Owners DEF GInv, PushOK
<1>18. \A m \in Nodes : all_addr'[m] = IF m = n THEN Append(all_addr[n], a) ELSE all_addr[m]
  BY <1>1, <1>2 DEF AddrOK
<1>19. \A m \in Nodes : all_addr[m] \in Seq(Told)
  BY <1>2 DEF AddrOK, Lists
<1>20. OwnOK'
  <2> SUFFICES ASSUME NEW m \in Nodes
               PROVE  /\ \A i \in 1..Len(Own[m]) :
                            Own[m][i] \in ToSet(all_addr'[m]) <=> i <= generator[m].made
                      /\ \A i \in 1..Len(Own[m]), j, k \in DOMAIN all_addr'[m] :
                            all_addr'[m][j] = Own[m][i] /\ all_addr'[m][k] = Own[m][i] => j = k
    BY <1>1 DEF GInv, OwnOK, GenPc
  <2>1. \A i \in 1..Len(Own[m]) : m = n => Own[m][i] # a
    BY <1>6, Owners DEF ToSet
  <2>2. \A i \in 1..Len(Own[m]) : Own[m][i] \in ToSet(all_addr'[m]) <=> i <= generator[m].made
    <3>1. \A i \in 1..Len(Own[m]) : Own[m][i] \in ToSet(all_addr[m]) <=> i <= generator[m].made
      BY DEF GInv, OwnOK
    <3> QED
      BY <1>12, <2>1, <3>1
  <2>3. \A i \in 1..Len(Own[m]), j, k \in DOMAIN all_addr'[m] :
            all_addr'[m][j] = Own[m][i] /\ all_addr'[m][k] = Own[m][i] => j = k
    <3>1. \A i \in 1..Len(Own[m]), j, k \in DOMAIN all_addr[m] :
              all_addr[m][j] = Own[m][i] /\ all_addr[m][k] = Own[m][i] => j = k
      BY DEF GInv, OwnOK
    <3>2. CASE m = n
      <4>1. all_addr'[m] = Append(all_addr[m], a) /\ all_addr[m] \in Seq(Told)
        BY <3>2, <1>18, <1>19
      <4>2. \A i \in 1..Len(Own[m]) : Own[m][i] # a
        BY <3>2, <2>1
      <4> QED
        BY <4>1, <4>2, <3>1
    <3>3. CASE m # n
      <4>1. all_addr'[m] = all_addr[m]
        BY <3>3, <1>18
      <4> QED
        BY <4>1, <3>1
    <3> QED
      BY <3>2, <3>3
  <2> QED
    BY <2>2, <2>3
<1>21. CountOK'
  <2> SUFFICES ASSUME NEW m \in Nodes, NEW b \in Addresses, b \notin ToSet(Own[m])
               PROVE  Times(b, all_addr'[m]) + Cardinality(Pushers(m, b)') <= Cardinality(Workers)
    BY DEF CountOK
  <2>1. Cardinality(Pushers(m, b)') \in Nat /\ Cardinality(Pushers(m, b)') <= Cardinality(Pushers(m, b))
    BY <1>7, <1>15, PushersFinite
  <2>2. CASE m = n /\ b = a
    <3>1. all_addr'[m] = Append(all_addr[n], a)
      BY <2>2, <1>18
    <3>2. Times(b, all_addr'[m]) = Times(a, all_addr[n]) + 1
      BY <3>1, <1>19, <2>2, TimesAppend
    <3>3. Pushers(n, a) \ {w} \subseteq Workers /\ Pushers(n, a)' \in SUBSET (Pushers(n, a) \ {w})
      BY <1>7, <1>16
    <3>4. Cardinality(Pushers(n, a)') <= Cardinality(Pushers(n, a) \ {w})
      BY <3>3, PushersFinite
    <3>5. Cardinality(Pushers(n, a) \ {w}) = Cardinality(Pushers(n, a)) - 1
      BY <1>5, <1>7
    <3>6. Cardinality(Pushers(n, a)') \in Nat /\ Cardinality(Pushers(n, a)) \in Nat
          /\ Times(a, all_addr[n]) \in Nat
      BY <2>1, <2>2, <1>7, <1>8
    <3>7. Times(a, all_addr[n]) + Cardinality(Pushers(n, a)) <= Cardinality(Workers)
      BY <1>4, <1>6, <1>9
    <3>8. Times(a, all_addr[n]) + 1 + Cardinality(Pushers(n, a)') <= Cardinality(Workers)
      BY <3>4, <3>5, <3>6, <3>7, SomeWorkers
    <3> QED
      BY <2>2, <3>2, <3>8
  <2>3. CASE ~ (m = n /\ b = a)
    <3>1. Times(b, all_addr'[m]) = Times(b, all_addr[m])
      <4>1. CASE m = n
        <5>1. all_addr'[m] = Append(all_addr[m], a) /\ b # a
          BY <4>1, <2>3, <1>18
        <5> QED
          BY <5>1, <1>19, TimesAppend
      <4>2. CASE m # n
        <5>1. all_addr'[m] = all_addr[m]
          BY <4>2, <1>18
        <5> QED
          BY <5>1
      <4> QED
        BY <4>1, <4>2
    <3>2. Cardinality(Pushers(m, b)) \in Nat /\ Times(b, all_addr[m]) \in Nat
      BY <1>7, <1>8
    <3>3. Times(b, all_addr[m]) + Cardinality(Pushers(m, b)) <= Cardinality(Workers)
      BY <1>9
    <3> QED
      BY <2>1, <3>1, <3>2, <3>3, SomeWorkers
  <2> QED
    BY <2>2, <2>3
<1> QED
  BY <1>11, <1>14, <1>17, <1>20, <1>21 DEF GInv

(* The generator makes an address nobody has heard of. *)
LEMMA MakeAddressKeeps ==
  ASSUME GInv, NEW n \in Nodes, MakeAddress(n)
  PROVE  GInv'
<1>0. generator[n].made \in Nat
  BY DEF GInv, Carried, GenOK
<1>j. PICK j \in Nat : j = generator[n].made + 1
  BY <1>0
<1>a. PICK a : a = Own[n][generator[n].made + 1]
  OBVIOUS
<1>1. j = generator[n].made + 1 /\ a = Own[n][generator[n].made + 1]
  BY <1>j, <1>a
<1>2. /\ connector' = connector /\ ico_state' = ico_state /\ link' = link /\ control' = control
      /\ worker' = worker
      /\ all_addr' = [all_addr EXCEPT ![n] = Append(@, a)]
      /\ generator' = [generator EXCEPT ![n].pc = "announce", ![n].made = @ + 1]
      /\ generator[n].pc = "key"
  BY <1>1 DEF MakeAddress, netVars, GenPc
<1>3. Carried(Told, Lists) /\ GenOK(Lists) /\ AddrOK(Lists)
  BY DEF GInv, Carried
<1>4. generator[n].made \in Nat /\ j \in 1..Len(Own[n]) /\ a = Own[n][j] /\ j = generator[n].made + 1
  <2>1. generator[n].made \in Nat /\ generator[n].made < Len(Own[n]) /\ Len(Own[n]) \in Nat
    BY <1>2, <1>3, Owners DEF GInv, OwnOK, GenOK, GenPc
  <2> QED
    BY <2>1, <1>1
<1>5. a \in ToSet(Own[n]) /\ a \in Addresses
  BY <1>4, Owners DEF ToSet
<1>6. a \notin ToSet(all_addr[n])
  <2>1. Own[n][j] \in ToSet(all_addr[n]) <=> j <= generator[n].made
    BY <1>4 DEF GInv, OwnOK
  <2>2. ~ (j <= generator[n].made)
    BY <1>4
  <2> QED
    BY <1>4, <2>1, <2>2
<1>7. \A m \in Nodes : all_addr[m] \in Seq(Told)
  BY <1>3 DEF AddrOK, Lists
<1>8. Times(a, all_addr[n]) + 1 <= Cardinality(Workers)
  <2>1. Times(a, all_addr[n]) = 0
    BY <1>6, <1>7, TimesNat
  <2> QED
    BY <2>1, SomeWorkers
<1>9. AddrOK(Lists)'
  BY <1>2, <1>5, <1>8, LearnOK
<1>10. /\ Told \subseteq Told' /\ Lists \subseteq Lists'
       /\ \A m \in Nodes : ToSet(all_addr'[m]) =
              IF m = n THEN ToSet(all_addr[n]) \cup {a} ELSE ToSet(all_addr[m])
  BY <1>2, <1>3, MoreLists
<1>11. Carried(Told, Lists)'
  <2>1. IcoOK(Lists)' /\ ControlOK(Lists)' /\ LinkOK(Lists)' /\ WorkersOK(Told', Lists')
    BY <1>2, <1>3, <1>10, GrowKeeps
  <2>2. WorkersOK(Told, Lists)'
    BY <1>2, <2>1 DEF WorkersOK, LocalOK
  <2>3. generator' \in [Nodes -> [pc : GenPCs, made : Nat, coins : Lists']]
    <3>1. generator \in [Nodes -> [pc : GenPCs, made : Nat, coins : Lists']]
      BY <1>3, <1>10 DEF GenOK
    <3> QED
      BY <1>2, <3>1 DEF GenPCs
  <2> QED
    BY <2>1, <2>2, <2>3 DEF Carried, GenOK
<1>12. PushOK'
  <2>1. \A m \in Nodes : \A b : Pushers(m, b)' = Pushers(m, b)
    BY <1>2 DEF Pushers
  <2> QED
    BY <2>1 DEF GInv, PushOK
<1>13. \A m \in Nodes : all_addr'[m] = IF m = n THEN Append(all_addr[n], a) ELSE all_addr[m]
  BY <1>2, <1>3 DEF AddrOK
<1>14. \A m \in Nodes : generator'[m].made = IF m = n THEN j ELSE generator[m].made
  BY <1>2, <1>3, <1>4 DEF GenOK
<1>15. \A m \in Nodes : generator'[m].pc = IF m = n THEN "announce" ELSE generator[m].pc
  BY <1>2, <1>3 DEF GenOK
<1>16. OwnOK'
  <2> SUFFICES ASSUME NEW m \in Nodes
               PROVE  /\ generator'[m].made <= Len(Own[m])
                      /\ generator'[m].pc = "key" => generator'[m].made < Len(Own[m])
                      /\ \A i \in 1..Len(Own[m]) :
                            Own[m][i] \in ToSet(all_addr'[m]) <=> i <= generator'[m].made
                      /\ \A i \in 1..Len(Own[m]), k, l \in DOMAIN all_addr'[m] :
                            all_addr'[m][k] = Own[m][i] /\ all_addr'[m][l] = Own[m][i] => k = l
    BY DEF OwnOK, GenPc
  <2>1. /\ generator[m].made <= Len(Own[m])
        /\ generator[m].pc = "key" => generator[m].made < Len(Own[m])
        /\ \A i \in 1..Len(Own[m]) : Own[m][i] \in ToSet(all_addr[m]) <=> i <= generator[m].made
        /\ \A i \in 1..Len(Own[m]), k, l \in DOMAIN all_addr[m] :
              all_addr[m][k] = Own[m][i] /\ all_addr[m][l] = Own[m][i] => k = l
    BY DEF GInv, OwnOK, GenPc
  <2>2. CASE m # n
    <3>1. /\ all_addr'[m] = all_addr[m] /\ generator'[m].made = generator[m].made
          /\ generator'[m].pc = generator[m].pc
      BY <2>2, <1>13, <1>14, <1>15
    <3> QED
      BY <2>1, <3>1
  <2>3. CASE m = n
    <3>1. /\ all_addr'[m] = Append(all_addr[m], a) /\ all_addr[m] \in Seq(Told)
          /\ generator'[m].made = j /\ generator'[m].pc = "announce"
          /\ ToSet(all_addr'[m]) = ToSet(all_addr[m]) \cup {a}
      BY <2>3, <1>7, <1>10, <1>13, <1>14, <1>15
    <3>2. \A i \in 1..Len(Own[m]) : Own[m][i] = a <=> i = j
      BY <1>4, <2>3, GossipAssumption DEF GossipAssumption, IsInjective
    <3>3. \A i \in 1..Len(Own[m]) : Own[m][i] \in ToSet(all_addr'[m]) <=> i <= j
      <4> TAKE i \in 1..Len(Own[m])
      <4>1. Own[m][i] \in ToSet(all_addr'[m]) <=> Own[m][i] \in ToSet(all_addr[m]) \/ i = j
        BY <3>1, <3>2
      <4>2. Own[m][i] \in ToSet(all_addr[m]) <=> i <= generator[m].made
        BY <2>1
      <4>3. i <= j <=> i <= generator[m].made \/ i = j
        BY <1>4, <2>3
      <4> QED
        BY <4>1, <4>2, <4>3
    <3>4. \A k \in DOMAIN all_addr[m] : all_addr[m][k] # a
      BY <1>6, <2>3, <3>1 DEF ToSet
    <3>5. ASSUME NEW i \in 1..Len(Own[m]), NEW k \in DOMAIN all_addr'[m],
                 NEW l \in DOMAIN all_addr'[m],
                 all_addr'[m][k] = Own[m][i], all_addr'[m][l] = Own[m][i]
          PROVE  k = l
      <4>1. \A q \in DOMAIN all_addr'[m] :
                \/ q = Len(all_addr[m]) + 1 /\ all_addr'[m][q] = a
                \/ q \in DOMAIN all_addr[m] /\ all_addr'[m][q] = all_addr[m][q]
        BY <3>1
      <4> QED
        BY <2>1, <3>4, <3>5, <4>1
    <3>6. generator'[m].made <= Len(Own[m]) /\ generator'[m].pc # "key"
      BY <1>4, <2>3, <3>1
    <3>7. \A i \in 1..Len(Own[m]) : Own[m][i] \in ToSet(all_addr'[m]) <=> i <= generator'[m].made
      BY <3>1, <3>3
    <3> QED
      BY <3>5, <3>6, <3>7
  <2> QED
    BY <2>2, <2>3
<1>17. CountOK'
  <2> SUFFICES ASSUME NEW m \in Nodes, NEW b \in Addresses, b \notin ToSet(Own[m])
               PROVE  Times(b, all_addr'[m]) + Cardinality(Pushers(m, b)') <= Cardinality(Workers)
    BY DEF CountOK
  <2>1. Pushers(m, b)' = Pushers(m, b)
    BY <1>2 DEF Pushers
  <2>2. Times(b, all_addr'[m]) = Times(b, all_addr[m])
    <3>1. CASE m = n
      <4>1. all_addr'[m] = Append(all_addr[m], a) /\ b # a /\ all_addr[m] \in Seq(Told)
        BY <3>1, <1>5, <1>7, <1>13
      <4> QED
        BY <4>1, TimesAppend
    <3>2. CASE m # n
      <4>1. all_addr'[m] = all_addr[m]
        BY <3>2, <1>13
      <4> QED
        BY <4>1
    <3> QED
      BY <3>1, <3>2
  <2>3. Times(b, all_addr[m]) + Cardinality(Pushers(m, b)) <= Cardinality(Workers)
    BY DEF GInv, CountOK
  <2> QED
    BY <2>1, <2>2, <2>3
<1> QED
  BY <1>9, <1>11, <1>12, <1>16, <1>17 DEF GInv
-----------------------------------------------------------------------------
(* The invariant contains the properties.                                   *)
LEMMA Counted == GInv => OwnAddressOnce /\ CopiesBounded
<1> SUFFICES ASSUME GInv PROVE OwnAddressOnce /\ CopiesBounded
  OBVIOUS
<1>1. ASSUME NEW n \in Nodes, NEW i \in 1..generator[n].made PROVE Times(Own[n][i], all_addr[n]) = 1
  <2>1. i \in 1..Len(Own[n]) /\ i <= generator[n].made /\ all_addr[n] \in Seq(Told)
    BY Owners DEF GInv, OwnOK, AddrOK, Carried, Lists, GenOK
  <2>2. Own[n][i] \in ToSet(all_addr[n])
    BY <2>1 DEF GInv, OwnOK
  <2> QED
    BY <2>1, <2>2, TimesOne DEF GInv, OwnOK
<1>2. CopiesBounded
  BY DEF GInv, AddrOK, Carried, IcoOK, Lists, CopiesBounded
<1> QED
  BY <1>1, <1>2 DEF OwnAddressOnce

(* The start: the addresses of a settled node are told, the others' are not. *)
LEMMA GossipStart == GossipInit => GInv
<1> SUFFICES ASSUME GossipInit PROVE GInv
  OBVIOUS
<1>1. \A n \in Nodes : all_addr[n] = IF n \in Settled THEN Own[n] ELSE <<>>
  BY DEF GossipInit
<1>2. \A n \in Nodes : /\ Own[n] \in Seq(Addresses)
                       /\ \A i, j \in 1..Len(Own[n]) : Own[n][i] = Own[n][j] => i = j
                       /\ \A i \in 1..Len(Own[n]) : Own[n][i] \in ToSet(Own[n])
  BY Owners, GossipAssumption DEF GossipAssumption, IsInjective, ToSet
<1>3. \A n \in Nodes : n \in Settled => Own[n] \in Seq(Told)
  <2> SUFFICES ASSUME NEW n \in Nodes, n \in Settled PROVE Own[n] \in Seq(Told)
    OBVIOUS
  <2>1. \A a \in ToSet(Own[n]) : a \in Told
    BY <1>1, Owners DEF Told
  <2> QED
    BY <1>2, <2>1
<1>4. \A n \in Nodes, a \in Addresses : Times(a, Own[n]) <= 1
  <2> TAKE n \in Nodes, a \in Addresses
  <2>1. CASE a \in ToSet(Own[n])
    <3>1. \A j, k \in DOMAIN Own[n] : Own[n][j] = a /\ Own[n][k] = a => j = k
      BY <1>2
    <3> QED
      BY <2>1, <3>1, <1>2, TimesOne
  <2>2. CASE a \notin ToSet(Own[n])
    <3>1. Times(a, Own[n]) = 0
      BY <2>2, <1>2, TimesNat
    <3> QED
      BY <3>1
  <2> QED
    BY <2>1, <2>2
<1>5. <<>> \in Lists /\ \A a : Times(a, <<>>) = 0
  <2>1. \A a : Times(a, <<>>) = 0
    BY FS_EmptySet DEF Times
  <2> QED
    BY <2>1, SomeWorkers DEF Lists
<1>6. \A n \in Nodes : n \in Settled => Own[n] \in Lists
  <2>1. \A n \in Nodes, a \in Addresses : Times(a, Own[n]) \in Nat
    BY <1>2, TimesNat
  <2>2. \A n \in Nodes, a \in Addresses : Times(a, Own[n]) <= Cardinality(Workers)
    BY <2>1, <1>4, SomeWorkers
  <2> QED
    BY <1>3, <2>2 DEF Lists
<1>7. AddrOK(Lists)
  <2>1. \A n \in Nodes : (IF n \in Settled THEN Own[n] ELSE <<>>) \in Lists
    BY <1>5, <1>6
  <2> QED
    BY <2>1 DEF GossipInit, AddrOK
<1>8. Carried(Told, Lists)
  <2>1. IcoOK(Lists) /\ LinkOK(Lists)
    BY <1>5 DEF GossipInit, IcoOK, LinkOK
  <2>2. ControlOK(Lists)
    <3>1. connector \in [Nodes -> [todo : Seq(Nodes), waits : BOOLEAN]]
      <4>1. \A n \in Nodes : KnownPeers[n] \in Seq(Nodes)
        <5> TAKE n \in Nodes
        <5>1. KnownPeers[n] \in Seq(Nodes \ {n}) /\ Nodes \ {n} \subseteq Nodes
          BY GossipAssumption DEF GossipAssumption
        <5> QED
          BY <5>1, SeqGrows
      <4>2. \A n \in Nodes : connector[n] \in [todo : Seq(Nodes), waits : BOOLEAN]
        <5> TAKE n \in Nodes
        <5>1. PICK t \in Seq(Nodes) : connector[n] = [todo |-> t, waits |-> FALSE]
          <6>1. connector[n] = [todo |-> IF Linked THEN <<>> ELSE KnownPeers[n], waits |-> FALSE]
            BY DEF GossipInit
          <6>2. CASE Linked
            <7>1. connector[n] = [todo |-> <<>>, waits |-> FALSE]
              BY <6>1, <6>2
            <7>2. <<>> \in Seq(Nodes)
              OBVIOUS
            <7> QED
              BY <7>1, <7>2
          <6>3. CASE ~ Linked
            <7>1. connector[n] = [todo |-> KnownPeers[n], waits |-> FALSE]
              BY <6>1, <6>3
            <7> QED
              BY <4>1, <7>1
          <6> QED
            BY <6>2, <6>3
        <5> QED
          BY <5>1
      <4> QED
        BY <4>2 DEF GossipInit
    <3> QED
      BY <3>1 DEF GossipInit, ControlOK
  <2>3. GenOK(Lists)
    <3>1. \A n \in Nodes : Len(Own[n]) \in Nat
      BY <1>2
    <3> QED
      BY <1>5, <3>1 DEF GossipInit, GenOK, GenPCs
  <2>4. WorkersOK(Told, Lists)
    BY DEF GossipInit, WorkersOK, LocalOK, Idle, WorkerPCs
  <2> QED
    BY <2>1, <2>2, <2>3, <2>4 DEF Carried
<1>9. OwnOK
  <2> SUFFICES ASSUME NEW n \in Nodes
               PROVE  /\ generator[n].made <= Len(Own[n])
                      /\ GenPc(n) = "key" => generator[n].made < Len(Own[n])
                      /\ \A i \in 1..Len(Own[n]) :
                            Own[n][i] \in ToSet(all_addr[n]) <=> i <= generator[n].made
                      /\ \A i \in 1..Len(Own[n]), j, k \in DOMAIN all_addr[n] :
                            all_addr[n][j] = Own[n][i] /\ all_addr[n][k] = Own[n][i] => j = k
    BY DEF OwnOK
  <2>1. Own[n] # <<>> /\ Len(Own[n]) \in Nat /\ Len(Own[n]) # 0
    BY <1>2, GossipAssumption DEF GossipAssumption
  <2>2. CASE n \in Settled
    <3>1. generator[n].made = Len(Own[n]) /\ generator[n].pc = "paused" /\ all_addr[n] = Own[n]
      BY <2>2, <1>1 DEF GossipInit
    <3> QED
      BY <3>1, <2>1, <1>2 DEF GenPc
  <2>3. CASE n \notin Settled
    <3>1. generator[n].made = 0 /\ all_addr[n] = <<>>
      BY <2>3, <1>1 DEF GossipInit
    <3>2. ToSet(<<>>) = {}
      BY DEF ToSet
    <3> QED
      BY <3>1, <3>2, <2>1
  <2> QED
    BY <2>2, <2>3
<1>10. \A n \in Nodes : \A a : Pushers(n, a) = {}
  BY DEF GossipInit, Idle, Pushers
<1>11. PushOK
  BY <1>10, Owners DEF PushOK
<1>12. CountOK
  <2> SUFFICES ASSUME NEW n \in Nodes, NEW a \in Addresses
               PROVE  Times(a, all_addr[n]) + Cardinality(Pushers(n, a)) <= Cardinality(Workers)
    BY DEF CountOK
  <2>1. Cardinality(Pushers(n, a)) = 0
    BY <1>10, FS_EmptySet
  <2>2. Times(a, all_addr[n]) \in Nat /\ Times(a, all_addr[n]) <= Cardinality(Workers)
    BY <1>7, TimesNat DEF AddrOK, Lists
  <2> QED
    BY <2>1, <2>2
<1> QED
  BY <1>7, <1>8, <1>9, <1>11, <1>12 DEF GInv

(* Every action keeps the invariant. *)
LEMMA GossipStep == GInv /\ [GossipNext]_gossipVars => GInv'
<1> SUFFICES ASSUME GInv, [GossipNext]_gossipVars PROVE GInv'
  OBVIOUS
<1>1. CASE GossipNext
  <2> SUFFICES ASSUME NEW n \in Nodes,
                      \/ RequestConnect(n) \/ ServerStep(n) \/ AcceptStep(n)
                      \/ \E w \in Workers : WorkerStep(n, w)
                      \/ GeneratorStep(n) \/ StartIco(n)
               PROVE  GInv'
    BY <1>1 DEF GossipNext
  <2>1. CASE RequestConnect(n) \/ ServerStep(n) \/ AcceptStep(n)
    BY <2>1, NetStepKeeps
  <2>2. CASE \E w \in Workers : WorkerStep(n, w)
    <3>1. PICK w \in Workers : WorkerStep(n, w)
      BY <2>2
    <3> QED
      BY <3>1, ReceiveKeeps, CheckAddressKeeps, PushAddressKeeps, RelayAddressesKeeps,
         StoreIcoKeeps, RelayIcoKeeps DEF WorkerStep
  <2>3. CASE GeneratorStep(n) \/ StartIco(n)
    BY <2>3, MakeAddressKeeps, AnnounceKeeps, IcoKeeps DEF GeneratorStep
  <2> QED
    BY <2>1, <2>2, <2>3
<1>2. CASE UNCHANGED gossipVars
  <2>1. /\ all_addr' = all_addr /\ ico_state' = ico_state /\ worker' = worker
        /\ generator' = generator /\ connector' = connector /\ control' = control /\ link' = link
    BY <1>2 DEF gossipVars
  <2>2. IcoOK(Lists)' /\ ControlOK(Lists)' /\ LinkOK(Lists)' /\ WorkersOK(Told, Lists)'
    BY <2>1, Kept DEF GInv, Carried
  <2>3. \A m \in Nodes, a \in Addresses : Pushers(m, a)' \subseteq Pushers(m, a)
    BY <2>1 DEF Pushers
  <2> QED
    BY <2>1, <2>2, <2>3, WorkerKeeps
<1> QED
  BY <1>1, <1>2

(* A node's own addresses are once in all_addr however often its peers send *)
(* them back (generator.rs:229, worker.rs:181): for every network.          *)
THEOREM OwnAddressOnceCorrect == GossipSpec => []OwnAddressOnce
<1>1. GossipSpec => []GInv
  BY GossipStart, GossipStep, PTL DEF GossipSpec
<1>2. GInv => OwnAddressOnce
  BY Counted
<1> QED
  BY <1>1, <1>2, PTL

(* A foreign address is at most as often in all_addr, and in the ledger the *)
(* ICO makes of it, as the node has workers.                                *)
THEOREM CopiesBoundedCorrect == GossipSpec => []CopiesBounded
<1>1. GossipSpec => []GInv
  BY GossipStart, GossipStep, PTL DEF GossipSpec
<1>2. GInv => CopiesBounded
  BY Counted
<1> QED
  BY <1>1, <1>2, PTL
=============================================================================
