------------------------------- MODULE Network -------------------------------
(***************************************************************************)
(* Several nodes, each with one worker thread (--p2p-workers 1) and a      *)
(* miner, exchange blocks: announcements go through the server's control   *)
(* queue to every peer, requests and answers straight to one peer          *)
(* (src/src/network/worker.rs, server.rs), a connection keeps their order. *)
(* Node takes a block through its critical sections one by one and shows   *)
(* that it joins the maps as if under one lock: here that is one step.     *)
(* What is stored is announced in a step of its own, and the miner's look  *)
(* at the tip, its scan of the pool and its block are steps of their own:  *)
(* the two threads interleave.                                             *)
(* The nodes are warm: ICO and start of the miner threads are over.        *)
(***************************************************************************)
EXTENDS Block

CONSTANTS
    Nodes,
    Edges,      \* the connections: pairs of nodes, both ways round
    Linked,     \* those that are there at the start
    MinedBy,    \* block -> the node whose miner may find it
    Miners,     \* the nodes whose miner was told to start
    Attackers,  \* the nodes that run miner_loop_attacker
    NumRef,     \* num_ref_in_proposer_block
    AnyNode     \* one of the nodes: whatever holds of its tree, holds of all

(* A miner keeps what meets the difficulty and lies in its sortition.       *)
ASSUME NetworkAssumption ==
    /\ Edges \subseteq {e \in Nodes \X Nodes : e[1] # e[2]}
    /\ \A e \in Edges : <<e[2], e[1]>> \in Edges
    /\ Linked \subseteq Edges
    /\ MinedBy \in [Children \cup TxBlocks -> Nodes]
    /\ Children \cup TxBlocks \subseteq InSortition
    /\ Miners \subseteq Nodes /\ Attackers \subseteq Nodes
    /\ NumRef \in Nat
    /\ AnyNode \in Nodes

VARIABLES
    tree,           \* node -> its Blockchain
    orphan_handler, \* node -> missing parent -> the blocks that wait for it
    tx_block_pool,  \* node -> transaction blocks
    todo,           \* node -> orphans that the worker takes up in new_parent
    miner,          \* node -> where its miner is, and what it has in hand
    news,           \* thread -> what it has stored and is about to announce
    alive,          \* the nodes whose worker has not panicked
    control,        \* node -> messages to broadcast
    linked,         \* the connections that are there
    link,           \* connection -> messages on their way
    early           \* history: a block announced before a reference of its chain
netVars == <<tree, orphan_handler, tx_block_pool, todo, miner, news, alive, control,
             linked, link, early>>
workerVars == <<orphan_handler, todo, alive>>
queueVars == <<control, early>>

Msg(type, i) == [type |-> type, item |-> i]

(* The threads of a node that announce.  Each announces what it has stored  *)
(* before it goes on: what it has in hand is one message or none.           *)
Threads == {"worker", "miner"}
InHand(n) == news[<<n, "worker">>] \cup news[<<n, "miner">>]
Stored(n, w, type, i) == news' = [news EXCEPT ![<<n, w>>] = {Msg(type, i)}]

IdleMiner == [pc |-> "tip", base |-> Genesis, refs |-> {}, block |-> Genesis]

(* A node's tree is a Blockchain. *)
Tree == INSTANCE Blockchain WITH
    blocks <- tree[AnyNode].blocks, heights <- tree[AnyNode].heights,
    longest <- tree[AnyNode].longest, tip_node_hash <- tree[AnyNode].tip

NetworkInit ==
    /\ tree = [n \in Nodes |-> [blocks |-> {Genesis}, heights |-> [b \in {Genesis} |-> 0],
                                longest |-> 0, tip |-> Genesis]]
    /\ orphan_handler = [n \in Nodes |-> [p \in {} |-> <<>>]]
    /\ tx_block_pool = [n \in Nodes |-> {}]
    /\ todo = [n \in Nodes |-> <<>>]
    /\ miner = [n \in Nodes |-> IdleMiner]
    /\ news = [w \in Nodes \X Threads |-> {}]
    /\ alive = Nodes
    /\ control = [n \in Nodes |-> <<>>]
    /\ linked = Linked
    /\ link = [e \in Edges |-> <<>>]
    /\ early = {}
-----------------------------------------------------------------------------
(* What a tree is after Blockchain::insert of b. *)
TreeWith_LastWins(r, b) ==  \* slip: >= for >
    LET h == r.heights[Parent[b]] + 1
    IN  [blocks |-> r.blocks \cup {b}, heights |-> Put(r.heights, b, h),
         longest |-> IF h >= r.longest THEN h ELSE r.longest,
         tip |-> IF h >= r.longest THEN b ELSE r.tip]
TreeWith(r, b) ==
    LET h == r.heights[Parent[b]] + 1
    IN  [blocks |-> r.blocks \cup {b}, heights |-> Put(r.heights, b, h),
         longest |-> IF h > r.longest THEN h ELSE r.longest,
         tip |-> IF h > r.longest THEN b ELSE r.tip]
Insert(n, b) == tree' = [tree EXCEPT ![n] = TreeWith(@, b)]
RefsUpTo[b \in ProposerBlocks] ==
    IF b = Genesis THEN {} ELSE Refs(b) \cup RefsUpTo[Parent[b]]

(* The server: connections, and broadcasts to those that are there.         *)
Connect(n, m) ==
    /\ <<n, m>> \in Edges \ linked
    /\ linked' = linked \cup {<<n, m>>, <<m, n>>}
    /\ UNCHANGED <<tree, tx_block_pool, workerVars, miner, news, queueVars, link>>
ProcessBroadcast(n) ==
    /\ control[n] # <<>>
    /\ control' = [control EXCEPT ![n] = Tail(@)]
    /\ link' = [e \in Edges |-> IF e[1] = n /\ e \in linked
                                THEN Append(link[e], Head(control[n])) ELSE link[e]]
    /\ UNCHANGED <<tree, tx_block_pool, workerVars, miner, news, linked, early>>

(* A thread announces what it has stored.  If that is a proposer block, the *)
(* transaction blocks of its chain that the other thread has yet to         *)
(* announce come too late.                                                  *)
Overtakes(n, msg) ==
    {e \in ProposerBlocks \X TxBlocks :
        /\ msg = Msg("NewProposerBlockHashes", e[1]) /\ e[2] \in RefsUpTo[e[1]]
        /\ Msg("NewTransactionBlockHashes", e[2]) \in InHand(n)}
Broadcast(n, w) ==
    /\ \E msg \in news[<<n, w>>] : /\ control' = [control EXCEPT ![n] = Append(@, msg)]
                                  /\ early' = early \cup Overtakes(n, msg)
    /\ news' = [news EXCEPT ![<<n, w>>] = {}]
    /\ UNCHANGED <<tree, tx_block_pool, workerVars, miner, linked, link>>

(* The miner reads the tip; later it scans the pool, in the order of a      *)
(* HashMap, for transaction blocks that the chain of that tip does not      *)
(* reference, NumRef at most.  The attacker's block references none and     *)
(* needs no scan.  A worker that panics poisons the pool, and the miner     *)
(* stops where it next locks it.                                            *)
ReadTip(n) ==
    /\ n \in Miners /\ miner[n].pc = "tip" /\ news[<<n, "miner">>] = {}
    /\ miner' = [miner EXCEPT ![n].pc = IF n \in Attackers THEN "seal" ELSE "pool",
                              ![n].base = tree[n].tip]
    /\ UNCHANGED <<tree, tx_block_pool, workerVars, news, queueVars, linked, link>>
PickTxBlocks(n) ==
    LET new == tx_block_pool[n] \ RefsUpTo[miner[n].base]
    IN  /\ n \in alive /\ miner[n].pc = "pool"
        /\ \E refs \in SUBSET new :
              /\ Cardinality(refs) <= NumRef
              /\ refs = new \/ Cardinality(refs) = NumRef
              /\ miner' = [miner EXCEPT ![n].pc = "seal", ![n].refs = refs]
        /\ UNCHANGED <<tree, tx_block_pool, workerVars, news, queueVars, linked, link>>

(* The hash is no block's, or a transaction block's, or a proposer block's, *)
(* which is then inserted; a block without content is the attacker's, and   *)
(* only he makes it.                                                        *)
MineNothing(n) ==
    /\ miner[n].pc = "seal"
    /\ miner' = [miner EXCEPT ![n] = IdleMiner]
    /\ UNCHANGED <<tree, tx_block_pool, workerVars, news, queueVars, linked, link>>
MineTxBlock(n, t) ==
    /\ n \in alive /\ miner[n].pc = "seal" /\ MinedBy[t] = n /\ t \notin tx_block_pool[n]
    /\ n \in Attackers <=> ContentOf[t] = <<>>
    /\ tx_block_pool' = [tx_block_pool EXCEPT ![n] = @ \cup {t}]
    /\ Stored(n, "miner", "NewTransactionBlockHashes", t)
    /\ miner' = [miner EXCEPT ![n] = IdleMiner]
    /\ UNCHANGED <<tree, workerVars, queueVars, linked, link>>
MineProposerBlock(n, b) ==
    /\ miner[n].pc = "seal" /\ MinedBy[b] = n /\ b \notin tree[n].blocks
    /\ Parent[b] = miner[n].base /\ Refs(b) = miner[n].refs
    /\ n \in Attackers \/ (Refs(b) # {} /\ n \in alive)
    /\ miner' = [miner EXCEPT ![n].pc = "insert", ![n].block = b]
    /\ UNCHANGED <<tree, tx_block_pool, workerVars, news, queueVars, linked, link>>
InsertMined_Silent(n) ==  \* slip: not announced
    /\ miner[n].pc = "insert"
    /\ Insert(n, miner[n].block)
    /\ miner' = [miner EXCEPT ![n] = IdleMiner]
    /\ UNCHANGED <<tx_block_pool, workerVars, news, queueVars, linked, link>>
InsertMined(n) ==
    /\ miner[n].pc = "insert"
    /\ Insert(n, miner[n].block)
    /\ Stored(n, "miner", "NewProposerBlockHashes", miner[n].block)
    /\ miner' = [miner EXCEPT ![n] = IdleMiner]
    /\ UNCHANGED <<tx_block_pool, workerVars, queueVars, linked, link>>
-----------------------------------------------------------------------------
(* The worker of n and the message of m at the head of their connection.    *)
Receives(n, m, type) ==
    /\ n \in alive /\ todo[n] = <<>> /\ news[<<n, "worker">>] = {}
    /\ <<m, n>> \in linked /\ link[<<m, n>>] # <<>>
    /\ Head(link[<<m, n>>]).type = type
Received(n, m) == Head(link[<<m, n>>]).item
Taken(n, m) == [link EXCEPT ![<<m, n>>] = Tail(@)]
Discard(n, m) == link' = Taken(n, m)
Answer(n, m, type, b) == link' = [Taken(n, m) EXCEPT ![<<n, m>>] = Append(@, Msg(type, b))]

(* Announcements and requests: what is missing is asked for, what is there  *)
(* is sent.                                                                 *)
WriteIf(n, m, condition, type) ==
    /\ IF condition THEN Answer(n, m, type, Received(n, m)) ELSE Discard(n, m)
    /\ UNCHANGED <<tree, tx_block_pool, workerVars, miner, news, queueVars, linked>>
NewProposerBlockHashes(n, m) ==
    /\ Receives(n, m, "NewProposerBlockHashes")
    /\ WriteIf(n, m, Received(n, m) \notin tree[n].blocks, "GetProposerBlocks")
GetProposerBlocks(n, m) ==
    /\ Receives(n, m, "GetProposerBlocks")
    /\ WriteIf(n, m, Received(n, m) \in tree[n].blocks, "ProposerBlocks")
NewTransactionBlockHashes(n, m) ==
    /\ Receives(n, m, "NewTransactionBlockHashes")
    /\ WriteIf(n, m, Received(n, m) \notin tx_block_pool[n], "GetTransactionBlocks")
GetTransactionBlocks(n, m) ==
    /\ Receives(n, m, "GetTransactionBlocks")
    /\ WriteIf(n, m, Received(n, m) \in tx_block_pool[n], "TransactionBlocks")

TransactionBlocks_NoRelay(n, m) ==  \* slip: not announced
    LET t == Received(n, m)
    IN  /\ Receives(n, m, "TransactionBlocks")
        /\ Discard(n, m)
        /\ IF t \in tx_block_pool[n] \/ t \notin InSortition
             THEN UNCHANGED tx_block_pool
             ELSE tx_block_pool' = [tx_block_pool EXCEPT ![n] = @ \cup {t}]
        /\ UNCHANGED <<tree, workerVars, miner, news, queueVars, linked>>
TransactionBlocks(n, m) ==
    LET t == Received(n, m)
    IN  /\ Receives(n, m, "TransactionBlocks")
        /\ Discard(n, m)
        /\ IF t \in tx_block_pool[n] \/ t \notin InSortition
             THEN UNCHANGED <<tx_block_pool, news>>
             ELSE /\ tx_block_pool' = [tx_block_pool EXCEPT ![n] = @ \cup {t}]
                  /\ Stored(n, "worker", "NewTransactionBlockHashes", t)
        /\ UNCHANGED <<tree, workerVars, miner, queueVars, linked>>

(* Block b, whose parent is in the tree: checked and inserted; it is        *)
(* announced next, and then its orphans are taken up before rest.  A        *)
(* transaction block that is missing makes the worker panic.                *)
Orphans(n, p) == IF p \in DOMAIN orphan_handler[n] THEN orphan_handler[n][p] ELSE <<>>
Without(f, p) == [x \in DOMAIN f \ {p} |-> f[x]]
Process(n, b, rest) ==
    IF ~ Verified(tx_block_pool[n], b)
    THEN /\ alive' = IF RefMissing(tx_block_pool[n], b) THEN alive \ {n} ELSE alive
         /\ todo' = [todo EXCEPT ![n] = rest]
         /\ UNCHANGED <<tree, orphan_handler, news>>
    ELSE /\ Insert(n, b)
         /\ Stored(n, "worker", "NewProposerBlockHashes", b)
         /\ orphan_handler' = [orphan_handler EXCEPT ![n] = Without(@, b)]
         /\ todo' = [todo EXCEPT ![n] = Orphans(n, b) \o rest]
         /\ UNCHANGED alive

KnownBlock(n, m) ==
    LET b == Received(n, m)
    IN  /\ Receives(n, m, "ProposerBlocks")
        /\ b \in tree[n].blocks \/ b \notin InSortition
        /\ Discard(n, m)
        /\ UNCHANGED <<tree, tx_block_pool, workerVars, miner, news, queueVars, linked>>
OrphanBlock_Waits(n, m) ==  \* slip: the parent is not asked for
    LET b == Received(n, m)
    IN  /\ Receives(n, m, "ProposerBlocks")
        /\ b \notin tree[n].blocks /\ b \in InSortition /\ Parent[b] \notin tree[n].blocks
        /\ orphan_handler' = [orphan_handler EXCEPT ![n] =
                                Put(@, Parent[b], Append(Orphans(n, Parent[b]), b))]
        /\ Discard(n, m)
        /\ UNCHANGED <<tree, tx_block_pool, todo, alive, miner, news, queueVars, linked>>
OrphanBlock(n, m) ==
    LET b == Received(n, m)
    IN  /\ Receives(n, m, "ProposerBlocks")
        /\ b \notin tree[n].blocks /\ b \in InSortition /\ Parent[b] \notin tree[n].blocks
        /\ orphan_handler' = [orphan_handler EXCEPT ![n] =
                                Put(@, Parent[b], Append(Orphans(n, Parent[b]), b))]
        /\ Answer(n, m, "GetProposerBlocks", Parent[b])
        /\ UNCHANGED <<tree, tx_block_pool, todo, alive, miner, news, queueVars, linked>>
NewBlock(n, m) ==
    LET b == Received(n, m)
    IN  /\ Receives(n, m, "ProposerBlocks")
        /\ b \notin tree[n].blocks /\ b \in InSortition /\ Parent[b] \in tree[n].blocks
        /\ Process(n, b, <<>>)
        /\ Discard(n, m)
        /\ UNCHANGED <<tx_block_pool, miner, queueVars, linked>>
Adopt(n) ==
    /\ n \in alive /\ todo[n] # <<>> /\ news[<<n, "worker">>] = {}
    /\ Process(n, Head(todo[n]), Tail(todo[n]))
    /\ UNCHANGED <<tx_block_pool, miner, queueVars, linked, link>>
-----------------------------------------------------------------------------
Handle(n, m) ==
    \/ NewProposerBlockHashes(n, m) \/ GetProposerBlocks(n, m)
    \/ NewTransactionBlockHashes(n, m) \/ GetTransactionBlocks(n, m)
    \/ TransactionBlocks(n, m) \/ KnownBlock(n, m) \/ OrphanBlock(n, m) \/ NewBlock(n, m)
Mine(n) ==
    \/ ReadTip(n) \/ PickTxBlocks(n) \/ MineNothing(n) \/ InsertMined(n)
    \/ \E t \in TxBlocks : MineTxBlock(n, t)
    \/ \E b \in Children : MineProposerBlock(n, b)
NetworkNext ==
    \E n \in Nodes :
        \/ ProcessBroadcast(n) \/ Adopt(n) \/ Mine(n)
        \/ \E w \in Threads : Broadcast(n, w)
        \/ \E m \in Nodes : Handle(n, m) \/ Connect(n, m)
NetworkSpec == NetworkInit /\ [][NetworkNext]_netVars

(* Servers and threads are scheduled: what is stored is announced, and a    *)
(* worker takes what came first, so that no peer is passed over for ever.   *)
(* Nobody has to mine or connect.                                           *)
FairNetworkSpec ==
    /\ NetworkSpec
    /\ \A n \in Nodes :
          /\ WF_netVars(ProcessBroadcast(n)) /\ WF_netVars(Broadcast(n, "miner"))
          /\ WF_netVars(Adopt(n) \/ Broadcast(n, "worker"))
    /\ \A e \in Edges : WF_netVars(Handle(e[1], e[2]))
-----------------------------------------------------------------------------
(* The tree of a node grows as the block tree specifies: blocks are        *)
(* inserted one at a time under a parent that is there, in whatever order  *)
(* the network brings them and in which new_parent takes up the orphans.   *)
TreeGrowsAsSpecified == Tree!ChainSpec

(* On connections that are there from the start a transaction block is      *)
(* overtaken by a proposer block that references it in one place only: at a *)
(* node whose one thread announces the proposer block between the other's   *)
(* insertion of the transaction block (worker.rs:331, miner.rs:322) and its *)
(* announcement (worker.rs:334, miner.rs:325).  Queues, connections, relays *)
(* and requests keep the order, by every route: a worker that panics at the *)
(* index of worker.rs:396 lacks a reference that was announced late so.  It *)
(* needs one worker; two of them race with each other too.                  *)
TxBlocksComeFirst ==
    \A n \in Nodes \ alive : \E e \in early : e[2] \in Refs(e[1]) \ tx_block_pool[n]

(* A block that a node has, each of its peers gets, with all its ancestors, *)
(* unless the worker of one of the two panics; so when no more blocks are   *)
(* found, peers whose workers live have equal trees.                        *)
BlocksSpread ==
    \A b \in Children :
        (\E n \in Nodes : b \in tree[n].blocks)
           ~> \A e \in Edges :
                {e[1], e[2]} \subseteq alive /\ b \in tree[e[1]].blocks => b \in tree[e[2]].blocks

(* A node that is connected late hears of no old block; but the next block  *)
(* that is found brings it all the others, ancestor by ancestor, by way of  *)
(* the nodes in between, if no transaction block is missing.                *)
LateNodeCatchesUp ==
    \A b \in Children :
        (/\ linked = Edges
         /\ \E n \in Nodes : /\ Msg("NewProposerBlockHashes", b) \in ToSet(control[n])
                           /\ \A m \in Nodes \ {n} : b \notin tree[m].blocks)
           ~> \A n \in alive : b \in tree[n].blocks
=============================================================================
