------------------------------- MODULE Gossip -------------------------------
(***************************************************************************)
(* How nodes that start one after the other come to know each other's      *)
(* addresses and agree on the initial coin offering: the connect thread    *)
(* (main.rs), the server's control queue and its peers                     *)
(* (network/server.rs), the start and the ICO of the generator thread      *)
(* (generator.rs) and the two messages NewAddr and ICO                     *)
(* (network/worker.rs).  Nothing is mined yet: the tip is the genesis      *)
(* block and glob_state has one entry at most.                             *)
(*                                                                         *)
(* A thread's action is what it does from one lock acquisition to the      *)
(* next.  A connection is a pair of queues; what a peer has read of a      *)
(* socket and put into msg_chan is still in the queue here.                *)
(***************************************************************************)
EXTENDS Naturals, Sequences, SequencesExt, FiniteSets

CONSTANTS
    Nodes,
    Workers,    \* the worker threads of every node
    Own,        \* the addresses a node's generator makes, in order
    KnownPeers, \* the option known_peer of a node
    Linked,     \* at the start the connections are there already
    Settled,    \* the nodes whose generator has told its addresses, to nobody
    MaxIco      \* bound: the ICO commands that operators give in all

Pairs == {p \in Nodes \X Nodes : p[1] # p[2]}
Connections == {p \in Pairs : \/ p[2] \in ToSet(KnownPeers[p[1]])
                               \/ p[1] \in ToSet(KnownPeers[p[2]])}
Addresses == UNION {ToSet(Own[n]) : n \in Nodes}

(* Keys are random: no two are equal.  Two nodes have one connection.       *)
ASSUME GossipAssumption ==
    /\ IsFiniteSet(Workers) /\ Workers # {}
    /\ \A n \in Nodes : Own[n] \in Seq(Addresses) /\ Own[n] # <<>> /\ IsInjective(Own[n])
    /\ \A p \in Pairs : ToSet(Own[p[1]]) \cap ToSet(Own[p[2]]) = {}
    /\ \A n \in Nodes : /\ KnownPeers[n] \in Seq(Nodes \ {n})
                        /\ IsInjective(KnownPeers[n])
    /\ \A p \in Pairs : ~ ( /\ p[1] \in ToSet(KnownPeers[p[2]])
                            /\ p[2] \in ToSet(KnownPeers[p[1]]) )
    /\ Linked \in BOOLEAN /\ Settled \subseteq Nodes /\ MaxIco \in Nat

VARIABLES
    listening,  \* the nodes whose server thread has bound its socket
    connector,  \* the connect thread: peers to come, waiting for an answer?
    control,    \* the server's control_chan
    backlog,    \* connections the operating system holds for accept()
    peer_list,  \* the peers of a server
    link,       \* what is on its way from one node to another
    all_addr,
    ico_state,  \* the genesis block's ledger, by coin; <<>>: no entry yet
    worker,     \* the worker threads: pc and locals
    generator,  \* the generator thread: pc and locals
    icos        \* the ICO commands still to come
gossipVars == <<listening, connector, control, backlog, peer_list, link, all_addr,
                ico_state, worker, generator, icos>>
netVars == <<listening, connector, backlog, peer_list>>

NewAddr(addrs) == [type |-> "NewAddr", addrs |-> addrs]
IcoMsg(state) == [type |-> "ICO", addrs |-> state]

Idle == [pc |-> "recv", todo |-> <<>>]

GossipInit ==
    /\ listening = IF Linked THEN Nodes ELSE {}
    /\ connector = [n \in Nodes |-> [todo |-> IF Linked THEN <<>> ELSE KnownPeers[n],
                                     waits |-> FALSE]]
    /\ control = [n \in Nodes |-> <<>>]
    /\ backlog = [n \in Nodes |-> {}]
    /\ peer_list = [n \in Nodes |-> {m \in Nodes : Linked /\ <<n, m>> \in Connections}]
    /\ link = [p \in Pairs |-> <<>>]
    /\ all_addr = [n \in Nodes |-> IF n \in Settled THEN Own[n] ELSE <<>>]
    /\ ico_state = [n \in Nodes |-> <<>>]
    /\ worker = [n \in Nodes |-> [w \in Workers |-> Idle]]
    /\ generator = [n \in Nodes |->
          IF n \in Settled THEN [pc |-> "paused", made |-> Len(Own[n]), coins |-> <<>>]
          ELSE [pc |-> "key", made |-> 0, coins |-> <<>>]]
    /\ icos = MaxIco
-----------------------------------------------------------------------------
(* Handle::broadcast and Handle::connect. *)
ConnectNewPeer(m) == [signal |-> "ConnectNewPeer", arg |-> m]
BroadcastMessage(msg) == [signal |-> "BroadcastMessage", arg |-> msg]
Send(n, signal) == control' = [control EXCEPT ![n] = Append(@, signal)]
Broadcast(n, msg) == Send(n, BroadcastMessage(msg))

(* The connect thread goes through the known peers, each until it answers.  *)
RequestConnect(n) ==
    /\ connector[n].todo # <<>> /\ ~ connector[n].waits
    /\ connector' = [connector EXCEPT ![n].waits = TRUE]
    /\ Send(n, ConnectNewPeer(Head(connector[n].todo)))
    /\ UNCHANGED <<listening, backlog, peer_list, link, all_addr, ico_state, worker,
                   generator, icos>>

(* The server thread: bind, then control requests and accept.               *)
Listen(n) ==
    /\ n \notin listening
    /\ listening' = listening \cup {n}
    /\ UNCHANGED <<connector, control, backlog, peer_list, link, all_addr, ico_state,
                   worker, generator, icos>>

Request(n) == Head(control[n])
Serving(n, signal) ==
    /\ n \in listening /\ control[n] # <<>> /\ Request(n).signal = signal
    /\ control' = [control EXCEPT ![n] = Tail(@)]
    /\ UNCHANGED <<listening, all_addr, ico_state, worker, generator, icos>>

(* A peer that does not listen yet: one second later the thread tries again. *)
ProcessConnect(n) ==
    LET m == Request(n).arg
    IN  /\ Serving(n, "ConnectNewPeer")
        /\ IF m \in listening
             THEN /\ peer_list' = [peer_list EXCEPT ![n] = @ \cup {m}]
                  /\ backlog' = [backlog EXCEPT ![m] = @ \cup {n}]
                  /\ connector' = [connector EXCEPT ![n] = [todo |-> Tail(@.todo), waits |-> FALSE]]
             ELSE /\ connector' = [connector EXCEPT ![n].waits = FALSE]
                  /\ UNCHANGED <<peer_list, backlog>>
        /\ UNCHANGED link
ProcessBroadcast(n) ==
    /\ Serving(n, "BroadcastMessage")
    /\ link' = [p \in Pairs |-> IF p[1] = n /\ p[2] \in peer_list[n]
                                THEN Append(link[p], Request(n).arg) ELSE link[p]]
    /\ UNCHANGED <<connector, backlog, peer_list>>

Accept(n, m) ==
    /\ n \in listening /\ m \in backlog[n]
    /\ backlog' = [backlog EXCEPT ![n] = @ \ {m}]
    /\ peer_list' = [peer_list EXCEPT ![n] = @ \cup {m}]
    /\ UNCHANGED <<listening, connector, control, link, all_addr, ico_state, worker,
                   generator, icos>>
-----------------------------------------------------------------------------
(* Worker w of node n. *)
Local(n, w) == worker[n][w]
Become(n, w, pc, todo) == worker' = [worker EXCEPT ![n][w] = [pc |-> pc, todo |-> todo]]
Loop(n, w, todo) == Become(n, w, IF todo = <<>> THEN "recv" ELSE "contains", todo)

Receive(n, w, m) ==
    /\ Local(n, w).pc = "recv"
    /\ m \in peer_list[n] /\ link[<<m, n>>] # <<>>
    /\ link' = [link EXCEPT ![<<m, n>>] = Tail(@)]
    /\ LET msg == Head(link[<<m, n>>])
       IN  CASE msg.type = "NewAddr" -> Loop(n, w, msg.addrs)
             [] msg.type = "ICO" -> IF ico_state[n] = <<>> THEN Become(n, w, "ico", msg.addrs)
                                    ELSE UNCHANGED worker
    /\ UNCHANGED <<netVars, control, all_addr, ico_state, generator, icos>>

(* NewAddr: contains, push and to_vec under three acquisitions, the last    *)
(* one held while the message is handed to the server.                      *)
CheckAddress_Not(n, w) ==   \* slip: pushed without looking
    /\ Local(n, w).pc = "contains"
    /\ Become(n, w, "push", Local(n, w).todo)
    /\ UNCHANGED <<netVars, control, link, all_addr, ico_state, generator, icos>>
CheckAddress(n, w) ==
    LET todo == Local(n, w).todo
    IN  /\ Local(n, w).pc = "contains"
        /\ IF Head(todo) \in ToSet(all_addr[n]) THEN Loop(n, w, Tail(todo))
           ELSE Become(n, w, "push", todo)
        /\ UNCHANGED <<netVars, control, link, all_addr, ico_state, generator, icos>>
PushAddress(n, w) ==
    /\ Local(n, w).pc = "push"
    /\ all_addr' = [all_addr EXCEPT ![n] = Append(@, Head(Local(n, w).todo))]
    /\ Become(n, w, "relay", Local(n, w).todo)
    /\ UNCHANGED <<netVars, control, link, ico_state, generator, icos>>
RelayAddresses_Not(n, w) == \* slip: what was learnt is not passed on
    /\ Local(n, w).pc = "relay"
    /\ Loop(n, w, Tail(Local(n, w).todo))
    /\ UNCHANGED <<netVars, control, link, all_addr, ico_state, generator, icos>>
RelayAddresses(n, w) ==
    /\ Local(n, w).pc = "relay"
    /\ Broadcast(n, NewAddr(all_addr[n]))
    /\ Loop(n, w, Tail(Local(n, w).todo))
    /\ UNCHANGED <<netVars, link, all_addr, ico_state, generator, icos>>

(* ICO: is_empty, insert, then the broadcast. *)
StoreIco(n, w) ==
    /\ Local(n, w).pc = "ico"
    /\ ico_state' = [ico_state EXCEPT ![n] = Local(n, w).todo]
    /\ Become(n, w, "ico_relay", Local(n, w).todo)
    /\ UNCHANGED <<netVars, control, link, all_addr, generator, icos>>
RelayIco_Not(n, w) ==       \* slip: the ICO is not passed on
    /\ Local(n, w).pc = "ico_relay"
    /\ Become(n, w, "recv", <<>>)
    /\ UNCHANGED <<netVars, control, link, all_addr, ico_state, generator, icos>>
RelayIco(n, w) ==
    /\ Local(n, w).pc = "ico_relay"
    /\ Broadcast(n, IcoMsg(Local(n, w).todo))
    /\ Become(n, w, "recv", <<>>)
    /\ UNCHANGED <<netVars, link, all_addr, ico_state, generator, icos>>
-----------------------------------------------------------------------------
(* The generator thread of node n.  It makes its addresses one by one; each *)
(* time it tells everyone all the addresses it knows.                       *)
GenPc(n) == generator[n].pc
MakeAddress(n) ==
    /\ GenPc(n) = "key"
    /\ all_addr' = [all_addr EXCEPT ![n] = Append(@, Own[n][generator[n].made + 1])]
    /\ generator' = [generator EXCEPT ![n].pc = "announce", ![n].made = @ + 1]
    /\ UNCHANGED <<netVars, control, link, ico_state, worker, icos>>
Announce(n) ==
    /\ GenPc(n) = "announce"
    /\ Broadcast(n, NewAddr(all_addr[n]))
    /\ generator' = [generator EXCEPT ![n].pc = IF generator[n].made < Len(Own[n])
                                                THEN "key" ELSE "paused"]
    /\ UNCHANGED <<netVars, link, all_addr, ico_state, worker, icos>>

(* ControlSignal::ICO.  all_addr is locked once for its length and once for *)
(* every element: as it only grows, that is one look at it.                 *)
StartIco(n) ==
    /\ GenPc(n) = "paused" /\ icos > 0
    /\ icos' = icos - 1
    /\ generator' = [generator EXCEPT ![n].pc = "ico", ![n].coins = all_addr[n]]
    /\ UNCHANGED <<netVars, control, link, all_addr, ico_state, worker>>
WriteIco(n) ==
    /\ GenPc(n) = "ico"
    /\ ico_state' = [ico_state EXCEPT ![n] = generator[n].coins]
    /\ generator' = [generator EXCEPT ![n].pc = "ico_send"]
    /\ UNCHANGED <<netVars, control, link, all_addr, worker, icos>>
SendIco(n) ==
    /\ GenPc(n) = "ico_send"
    /\ Broadcast(n, IcoMsg(generator[n].coins))
    /\ generator' = [generator EXCEPT ![n].pc = "paused", ![n].coins = <<>>]
    /\ UNCHANGED <<netVars, link, all_addr, ico_state, worker, icos>>
-----------------------------------------------------------------------------
ServerStep(n) == Listen(n) \/ ProcessConnect(n) \/ ProcessBroadcast(n)
AcceptStep(n) == \E m \in Nodes : Accept(n, m)
WorkerStep(n, w) ==
    \/ \E m \in Nodes \ {n} : Receive(n, w, m)
    \/ CheckAddress(n, w) \/ PushAddress(n, w) \/ RelayAddresses(n, w)
    \/ StoreIco(n, w) \/ RelayIco(n, w)
GeneratorStep(n) == MakeAddress(n) \/ Announce(n) \/ WriteIco(n) \/ SendIco(n)

GossipNext ==
    \E n \in Nodes :
        \/ RequestConnect(n) \/ ServerStep(n) \/ AcceptStep(n)
        \/ \E w \in Workers : WorkerStep(n, w)
        \/ GeneratorStep(n) \/ StartIco(n)

GossipSpec == GossipInit /\ [][GossipNext]_gossipVars

(* Every thread of every node is scheduled; a server finds its control      *)
(* queue and its listener in the batches of poll().  Operators owe nothing. *)
GossipFairness ==
    \A n \in Nodes :
        /\ WF_gossipVars(RequestConnect(n))
        /\ WF_gossipVars(ServerStep(n)) /\ WF_gossipVars(AcceptStep(n))
        /\ WF_gossipVars(GeneratorStep(n))
        /\ \A w \in Workers : WF_gossipVars(WorkerStep(n, w))
FairGossipSpec == GossipSpec /\ GossipFairness
-----------------------------------------------------------------------------
Times(a, s) == Cardinality({i \in DOMAIN s : s[i] = a})

(* A node has each address it made exactly once in all_addr although its    *)
(* peers send them back to it (generator.rs:229 pushes without looking): it *)
(* tells nobody an address before it has pushed it.                         *)
OwnAddressOnce ==
    \A n \in Nodes : \A i \in 1..generator[n].made : Times(Own[n][i], all_addr[n]) = 1

(* Of an address of a peer a node has as many copies as it has workers at   *)
(* most: contains and push are under two locks (worker.rs:181-182), but     *)
(* each worker makes the mistake once.  The ICO gives every copy a coin.    *)
CopiesBounded ==
    \A n \in Nodes, a \in Addresses :
        /\ Times(a, all_addr[n]) <= Cardinality(Workers)
        /\ Times(a, ico_state[n]) <= Cardinality(Workers)

(* All the connections that the command lines ask for are there.            *)
AllConnected == \A p \in Connections : p[2] \in peer_list[p[1]]
EverybodyKnows == \A n \in Nodes : Addresses \subseteq ToSet(all_addr[n])

(* If a generator still has an address to make when the connections are     *)
(* there, everybody learns all the addresses, those told before to nobody   *)
(* too: a node that learns one passes on all it knows (worker.rs:183).  An  *)
(* address made but not yet told is not enough: a worker may have told it.  *)
AddressesSpread ==
    \A n \in Nodes : (AllConnected /\ GenPc(n) = "key") ~> EverybodyKnows

(* An ICO on a connected network reaches every node. *)
IcoSpreads ==
    \A n \in Nodes : (AllConnected /\ GenPc(n) = "ico") ~> \A m \in Nodes : ico_state[m] # <<>>
=============================================================================
