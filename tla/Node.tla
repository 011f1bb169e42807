-------------------------------- MODULE Node --------------------------------
(***************************************************************************)
(* One node: the worker threads (src/src/network/worker.rs) and the miner  *)
(* thread (src/src/miner.rs) over the structures they share.               *)
(*                                                                         *)
(* Every structure has a mutex of its own and every statement that needs   *)
(* it locks it, uses it and unlocks it, so an action of the model is what  *)
(* a thread does from one acquisition to the next; the pc of a thread      *)
(* names the acquisition that comes next.  Acquisitions are merged into    *)
(* one action only where the structure just grows, or where a contains_key *)
(* is followed by a remove of the same key.                                *)
(*                                                                         *)
(* An index into a map without the key panics.  The thread dies, and as it *)
(* holds the guard the mutex is poisoned: every later lock().unwrap() of   *)
(* it panics too.                                                          *)
(*                                                                         *)
(* Peers are TCP connections, and several workers take messages from one   *)
(* channel on either side: messages are handled in any order.  A message   *)
(* carries one hash, block or transaction, as in every call that sends one.*)
(***************************************************************************)
EXTENDS Blockchain

CONSTANTS
    Workers,        \* the worker threads of Context::start
    Miner,          \* the miner thread
    InFlight,       \* the messages that peers have sent, with their number
    StartedUp,      \* the ICO and the start of the miner thread are over
    MayMine,        \* a miner that has started up may get ControlSignal::Start
    Attacking,      \* the miner runs miner_loop_attacker: its blocks are empty
    Mineable,       \* the blocks whose nonce this miner may find
    PooledTxs,      \* tx_pool at the start
    PooledTxBlocks, \* tx_block_pool at the start
    NumTx,          \* num_trans_in_trans_block
    NumRef          \* num_ref_in_proposer_block

Threads == Workers \cup {Miner}

Message == [type : {"NewProposerBlockHashes", "ProposerBlocks"}, item : Children]
      \cup [type : {"NewTransactionBlockHashes", "TransactionBlocks"}, item : TxBlocks]
      \cup [type : {"NewTransactionHashes", "GetTransactions", "Transactions"}, item : Txs]
      \cup [type : {"ICO"}, item : {Genesis}]
Msg(type, i) == [type |-> type, item |-> i]

Mutexes == {"blockchain", "orphan_handler", "tx_pool", "glob_state",
            "tx_block_pool", "tx_block_ref"}

ASSUME NodeAssumption ==
    /\ Miner \notin Workers
    /\ InFlight \in [Message -> Nat]
    /\ {StartedUp, MayMine, Attacking} \subseteq BOOLEAN
    /\ Mineable \subseteq Children \cup TxBlocks
    /\ PooledTxs \subseteq Txs /\ PooledTxBlocks \subseteq TxBlocks
    /\ NumTx \in Nat /\ NumRef \in Nat

VARIABLES
    orphan_handler, \* missing parent -> the blocks that wait for it
    tx_pool,        \* pending transactions
    glob_state,     \* proposer block -> ledger state after it
    tx_block_pool,  \* transaction blocks
    tx_block_ref,   \* proposer block -> tx blocks referenced up to it
    poisoned,       \* the poisoned mutexes
    inbox,          \* msg_chan and what peers have in flight: message -> count
    local           \* thread -> its program counter and local variables
nodeVars == <<chainVars, orphan_handler, tx_pool, glob_state, tx_block_pool,
              tx_block_ref, poisoned, inbox, local>>

(* The locals of a thread at the head of its loop; Genesis, the empty set   *)
(* and the empty sequence stand for "no value".                             *)
Blank(l) ==
    [pc      |-> l,
     item    |-> Genesis,   \* the block or transaction in hand
     todo    |-> <<>>,      \* the rest of the vectors it is looping over
     base    |-> Genesis,   \* tip, read by Message::Transactions and miner_loop
     refs    |-> {},        \* new_ref; pointed_tx_blocks of the miner
     state   |-> {},        \* curr_state
     content |-> {},        \* new_trans_block_content of the miner
     props   |-> {}]        \* new_props_block_content of the miner

WorkerPCs == {"recv", "tx_known", "tx_state", "tx_add", "gt_take", "ico", "parent",
    "orphan", "orphan_push", "orphan_new", "verify", "ref_read", "state_read",
    "np_check", "np_take", "np_remove"}
MinerPCs == {"boot", "paused", "idle", "tip", "m_state", "m_pool", "m_refs", "m_blocks",
    "seal", "apply"}
CommonPCs == {"clear", "store", "ref_write", "prune", "state_write", "insert", "dead"}

NodeInit ==
    LET genesis == IF StartedUp THEN {Genesis} ELSE {}
    IN  /\ ChainInit
        /\ orphan_handler = [p \in {} |-> <<>>]
        /\ tx_pool = PooledTxs
        /\ tx_block_pool = PooledTxBlocks
        /\ glob_state = [b \in genesis |-> IcoState]
        /\ tx_block_ref = [b \in genesis |-> {}]
        /\ poisoned = {}
        /\ inbox = InFlight
        /\ local = [t \in Threads |-> Blank(IF t # Miner THEN "recv"
                                            ELSE IF ~ StartedUp THEN "boot"
                                            ELSE IF MayMine THEN "paused" ELSE "idle")]
-----------------------------------------------------------------------------
Pc(t) == local[t].pc
Item(t) == local[t].item
ParentOf(t) == Parent[local[t].item]

(* The mutexes that the next action of thread t locks.  The loops over the  *)
(* references of a block lock nothing if there are none, and the ledger     *)
(* update reads the parent's state before it locks the pool.                *)
PoolIfRefs(b) == IF b \in Children /\ RefsOf[b] # <<>> THEN {"tx_block_pool"} ELSE {}
Locks(t) ==
    CASE Pc(t) \in {"parent", "insert", "tip", "seal"} -> {"blockchain"}
      [] Pc(t) \in {"orphan", "orphan_push", "orphan_new", "np_check", "np_take",
                    "np_remove"} -> {"orphan_handler"}
      [] Pc(t) \in {"tx_known", "tx_add", "gt_take", "clear", "prune", "m_pool"} -> {"tx_pool"}
      [] Pc(t) \in {"tx_state", "ico", "state_write", "m_state"} -> {"glob_state"}
      [] Pc(t) \in {"store", "m_blocks"} -> {"tx_block_pool"}
      [] Pc(t) \in {"ref_read", "ref_write", "m_refs", "boot"} -> {"tx_block_ref"}
      [] Pc(t) \in {"verify", "apply"} -> PoolIfRefs(Item(t))
      [] Pc(t) = "state_read" ->
            {"glob_state"} \cup
            (IF ParentOf(t) \in DOMAIN glob_state THEN PoolIfRefs(Item(t)) ELSE {})
      [] OTHER -> {}

(* The next action of t indexes the map of mutex m with a key it lacks. *)
Lacks(t, m) ==
    \/ m = "tx_pool" /\ Pc(t) = "gt_take" /\ Item(t) \notin tx_pool
    \/ m = "glob_state" /\ Pc(t) \in {"tx_state", "m_state"} /\ local[t].base \notin DOMAIN glob_state
    \/ m = "glob_state" /\ Pc(t) = "state_read" /\ ParentOf(t) \notin DOMAIN glob_state
    \/ m = "tx_block_ref" /\ Pc(t) = "m_refs" /\ local[t].base \notin DOMAIN tx_block_ref
    \/ m = "tx_block_ref" /\ Pc(t) = "ref_read" /\ ParentOf(t) \notin DOMAIN tx_block_ref
    \/ m = "tx_block_pool" /\ Pc(t) = "verify" /\ RefMissing(tx_block_pool, Item(t))
    \/ m = "tx_block_pool" /\ Pc(t) = "apply" /\ ~ (Refs(Item(t)) \subseteq tx_block_pool)
    \/ m = "blockchain" /\ Pc(t) = "insert" /\ ParentOf(t) \notin blocks
    \/ m = "orphan_handler" /\ Pc(t) = "np_take" /\ Item(t) \notin DOMAIN orphan_handler
KeyMissing(t) == {m \in Mutexes : Lacks(t, m)}

(* Thread t is at acquisition l, and gets what it locks and indexes. *)
At(t, l) == Pc(t) = l /\ Locks(t) \cap poisoned = {} /\ KeyMissing(t) = {}

Become(t, r) == local' = [local EXCEPT ![t] = r]
Goto(t, l) == local' = [local EXCEPT ![t].pc = l]

(* Back to the head of the loop, the locals out of scope. *)
Done(t) == Become(t, Blank(IF t = Miner THEN "tip" ELSE "recv"))

(* What an action leaves alone. *)
OnlyLocal == UNCHANGED <<chainVars, orphan_handler, tx_pool, glob_state, tx_block_pool,
                         tx_block_ref, poisoned, inbox>>
OnlyInbox == UNCHANGED <<chainVars, orphan_handler, tx_pool, glob_state, tx_block_pool,
                         tx_block_ref, poisoned>>
OnlyOrphans == UNCHANGED <<chainVars, tx_pool, glob_state, tx_block_pool, tx_block_ref, poisoned>>
OnlyTxPool == UNCHANGED <<chainVars, orphan_handler, glob_state, tx_block_pool,
                          tx_block_ref, poisoned, inbox>>
OnlyState == UNCHANGED <<chainVars, orphan_handler, tx_pool, tx_block_pool, tx_block_ref,
                         poisoned, inbox>>
OnlyTxBlockPool == UNCHANGED <<chainVars, orphan_handler, tx_pool, glob_state, tx_block_ref,
                               poisoned, inbox>>
OnlyRefs == UNCHANGED <<chainVars, orphan_handler, tx_pool, glob_state, tx_block_pool,
                        poisoned, inbox>>
OnlyPoison == UNCHANGED <<chainVars, orphan_handler, tx_pool, glob_state, tx_block_pool,
                          tx_block_ref, inbox>>

(* lock().unwrap()[&key] without the key. *)
IndexPanics(t) ==
    /\ Locks(t) \cap poisoned = {}
    /\ KeyMissing(t) # {}
    /\ poisoned' = poisoned \cup KeyMissing(t)
    /\ Become(t, Blank("dead")) /\ OnlyPoison

(* lock().unwrap() of a poisoned mutex. *)
LockPanics(t) ==
    /\ Locks(t) \cap poisoned # {}
    /\ Become(t, Blank("dead")) /\ OnlyLocal
-----------------------------------------------------------------------------
(* Taking a message from the channel, and the handler's first acquisition.  *)
FirstMutex(type) ==
    CASE type \in {"NewProposerBlockHashes", "ProposerBlocks", "Transactions"} -> "blockchain"
      [] type \in {"NewTransactionBlockHashes", "TransactionBlocks"} -> "tx_block_pool"
      [] type \in {"NewTransactionHashes", "GetTransactions"} -> "tx_pool"
      [] type = "ICO" -> "glob_state"

Arrived(w, m) == Pc(w) = "recv" /\ inbox[m] > 0
Receives(w, m) == Arrived(w, m) /\ FirstMutex(m.type) \notin poisoned
Consume(m) == inbox' = [inbox EXCEPT ![m] = @ - 1]

ReceivePanics(w, m) ==
    /\ Arrived(w, m) /\ FirstMutex(m.type) \in poisoned
    /\ Consume(m) /\ Become(w, Blank("dead")) /\ OnlyInbox

(* An announcement: the node asks its peer for what it does not have.  A    *)
(* peer keeps its blocks, so its answer is on the way.                      *)
Announcement(w, m, have, answer) ==
    /\ Receives(w, m)
    /\ LET rest == [inbox EXCEPT ![m] = @ - 1]
       IN  inbox' = IF have THEN rest ELSE [rest EXCEPT ![answer] = @ + 1]
    /\ UNCHANGED local /\ OnlyInbox

NewProposerBlockHashes(w, b) ==
    Announcement(w, Msg("NewProposerBlockHashes", b), b \in blocks, Msg("ProposerBlocks", b))
NewTransactionBlockHashes(w, b) ==
    Announcement(w, Msg("NewTransactionBlockHashes", b), b \in tx_block_pool,
                 Msg("TransactionBlocks", b))

(* A peer may have dropped the transaction: answered or not.                *)
NewTransactionHashes(w, x) ==
    \E dropped \in BOOLEAN :
        Announcement(w, Msg("NewTransactionHashes", x), x \in tx_pool \/ dropped,
                     Msg("Transactions", x))

(* The other handlers: worker w goes on with locals r. *)
Handle(w, m, r) == Receives(w, m) /\ Consume(m) /\ Become(w, r) /\ OnlyInbox
Holding(i, l) == [Blank(l) EXCEPT !.item = i]

(* GetTransactions: contains_key, then the index, under two acquisitions.   *)
(* GetProposerBlocks and GetTransactionBlocks only read maps that grow.     *)
GetTransactions(w, x) ==
    Handle(w, Msg("GetTransactions", x),
           IF x \in tx_pool THEN Holding(x, "gt_take") ELSE Blank("recv"))
SendTransaction(w) == At(w, "gt_take") /\ Done(w) /\ OnlyLocal

(* ICO: is_empty, then insert, under two acquisitions. *)
ICO(w) ==
    Handle(w, Msg("ICO", Genesis), Blank(IF DOMAIN glob_state = {} THEN "ico" ELSE "recv"))
StoreIco(w) ==
    /\ At(w, "ico")
    /\ glob_state' = Put(glob_state, Genesis, IcoState)
    /\ Done(w) /\ OnlyState

(* Transactions: the tip, the pool, the tip's state, the pool. *)
Transactions(w, x) ==
    Handle(w, Msg("Transactions", x), [Holding(x, "tx_known") EXCEPT !.base = tip_node_hash])
CheckTransaction(w) ==
    /\ At(w, "tx_known")
    /\ IF Item(w) \in tx_pool \/ Item(w) \notin WellSigned THEN Done(w) ELSE Goto(w, "tx_state")
    /\ OnlyLocal
CheckInputs(w) ==
    /\ At(w, "tx_state")
    /\ IF Admissible(glob_state[local[w].base], Item(w)) THEN Goto(w, "tx_add") ELSE Done(w)
    /\ OnlyLocal
AddTransaction(w) ==
    /\ At(w, "tx_add")
    /\ tx_pool' = tx_pool \cup {Item(w)}
    /\ Done(w) /\ OnlyTxPool
-----------------------------------------------------------------------------
(* TransactionBlocks, and the end of a mined transaction block: its         *)
(* transactions leave the pool one by one, then it is stored.               *)
Clearing(b) ==
    [Holding(b, IF ContentOf[b] = <<>> THEN "store" ELSE "clear") EXCEPT !.todo = ContentOf[b]]
TransactionBlocks(w, b) ==
    Handle(w, Msg("TransactionBlocks", b),
           IF b \in tx_block_pool \/ b \notin InSortition THEN Blank("recv") ELSE Clearing(b))
ClearTransaction(t) ==
    /\ At(t, "clear")
    /\ tx_pool' = tx_pool \ {Head(local[t].todo)}
    /\ local' = [local EXCEPT ![t].todo = Tail(@),
                              ![t].pc = IF Len(local[t].todo) = 1 THEN "store" ELSE "clear"]
    /\ OnlyTxPool
StoreTxBlock_IfRefd(t) ==   \* slip: only a block that is referenced already is stored
    /\ At(t, "store")
    /\ tx_block_pool' = IF \E b \in DOMAIN tx_block_ref : Item(t) \in tx_block_ref[b]
                        THEN tx_block_pool \cup {Item(t)} ELSE tx_block_pool
    /\ Done(t) /\ OnlyTxBlockPool
StoreTxBlock(t) ==
    /\ At(t, "store")
    /\ tx_block_pool' = tx_block_pool \cup {Item(t)}
    /\ Done(t) /\ OnlyTxBlockPool
-----------------------------------------------------------------------------
(* ProposerBlocks. *)
ReceiveProposerBlock(w, b) ==
    Handle(w, Msg("ProposerBlocks", b),
           IF b \in blocks \/ b \notin InSortition THEN Blank("recv") ELSE Holding(b, "parent"))
FindParent_Assumed(w) ==    \* slip: the parent is taken to be there
    At(w, "parent") /\ Goto(w, "verify") /\ OnlyLocal
FindParent(w) ==
    /\ At(w, "parent")
    /\ Goto(w, IF ParentOf(w) \in blocks THEN "verify" ELSE "orphan")
    /\ OnlyLocal

(* The orphan buffer: contains_key, then get_mut and push, or insert.  The  *)
(* peer is asked for the parent.                                            *)
FindOrphans(w) ==
    /\ At(w, "orphan")
    /\ Goto(w, IF ParentOf(w) \in DOMAIN orphan_handler THEN "orphan_push" ELSE "orphan_new")
    /\ OnlyLocal
RequestParent(w) == inbox' = [inbox EXCEPT ![Msg("ProposerBlocks", ParentOf(w))] = @ + 1]
PushOrphan(w) ==
    /\ At(w, "orphan_push")
    /\ orphan_handler' = [p \in DOMAIN orphan_handler |->
                            IF p = ParentOf(w) THEN Append(orphan_handler[p], Item(w))
                            ELSE orphan_handler[p]]
    /\ RequestParent(w) /\ Done(w) /\ OnlyOrphans
NewOrphan_Waits(w) ==       \* slip: nobody is asked for the parent
    /\ At(w, "orphan_new")
    /\ orphan_handler' = Put(orphan_handler, ParentOf(w), <<Item(w)>>)
    /\ UNCHANGED inbox /\ Done(w) /\ OnlyOrphans
NewOrphan(w) ==
    /\ At(w, "orphan_new")
    /\ orphan_handler' = Put(orphan_handler, ParentOf(w), <<Item(w)>>)
    /\ RequestParent(w) /\ Done(w) /\ OnlyOrphans

(* The next block of the vectors, the innermost first: new_parent calls     *)
(* itself after each block it inserts.                                      *)
NextBlock(w) ==
    LET vec == local[w].todo
    IN  Become(w, IF vec = <<>> THEN Blank("recv")
                  ELSE [Holding(Head(vec), "verify") EXCEPT !.todo = Tail(vec)])

(* The signature loop.  tx_block_pool only grows, so that its acquisitions  *)
(* one by one see what one acquisition sees at the time of the last.        *)
Verify(w) ==
    /\ At(w, "verify")
    /\ IF Verified(tx_block_pool, Item(w)) THEN Goto(w, "ref_read") ELSE NextBlock(w)
    /\ OnlyLocal
ReadRefs(w) ==
    /\ At(w, "ref_read")
    /\ local' = [local EXCEPT ![w].refs = RefsAfter(tx_block_ref[ParentOf(w)], Item(w)),
                              ![w].pc = "ref_write"]
    /\ OnlyLocal

(* From here on a mined block goes the same way; its state was read before. *)
WriteRefs(t) ==
    /\ At(t, "ref_write")
    /\ tx_block_ref' = Put(tx_block_ref, Item(t), local[t].refs)
    /\ Goto(t, IF t = Miner THEN "apply" ELSE "state_read")
    /\ OnlyRefs
ReadState_OfTip(w) ==       \* slip: the state of the tip, not of the parent
    /\ At(w, "state_read")
    /\ local' = [local EXCEPT ![w].state = LedgerAfter(glob_state[tip_node_hash], Item(w)),
                              ![w].pc = "prune"]
    /\ OnlyLocal
ReadState(w) ==
    /\ At(w, "state_read")
    /\ local' = [local EXCEPT ![w].state = LedgerAfter(glob_state[ParentOf(w)], Item(w)),
                              ![w].pc = "prune"]
    /\ OnlyLocal

(* The transactions in conflict with the new state leave the pool. *)
Prune_ThenInsert(t) ==      \* slip: the new state is not stored
    /\ At(t, "prune")
    /\ tx_pool' = {x \in tx_pool : Unspent(local[t].state, x)}
    /\ Goto(t, "insert") /\ OnlyTxPool
Prune(t) ==
    /\ At(t, "prune")
    /\ tx_pool' = {x \in tx_pool : Unspent(local[t].state, x)}
    /\ Goto(t, "state_write") /\ OnlyTxPool
WriteState_ByRef(t) ==      \* slip: stored under the hash of a reference
    /\ At(t, "state_write")
    /\ glob_state' = Put(glob_state, Head(RefsOf[Item(t)]), local[t].state)
    /\ Goto(t, "insert") /\ OnlyState
WriteState(t) ==
    /\ At(t, "state_write")
    /\ glob_state' = Put(glob_state, Item(t), local[t].state)
    /\ Goto(t, "insert") /\ OnlyState

(* A worker goes on to new_parent, the miner back to its loop. *)
InsertBlock(t) ==
    /\ At(t, "insert")
    /\ Insert(Item(t))
    /\ IF t = Miner THEN Done(t) ELSE Goto(t, "np_check")
    /\ UNCHANGED <<orphan_handler, tx_pool, glob_state, tx_block_pool, tx_block_ref,
                   poisoned, inbox>>

(* new_parent: contains_key, then the index, then remove. *)
NewParent_Ignored(w) ==     \* slip: new_parent is not called
    At(w, "np_check") /\ NextBlock(w) /\ OnlyLocal
NewParent(w) ==
    /\ At(w, "np_check")
    /\ IF Item(w) \in DOMAIN orphan_handler THEN Goto(w, "np_take") ELSE NextBlock(w)
    /\ OnlyLocal
TakeOrphans(w) ==
    /\ At(w, "np_take")
    /\ local' = [local EXCEPT ![w].todo = orphan_handler[Item(w)] \o @, ![w].pc = "np_remove"]
    /\ OnlyLocal
RemoveOrphans(w) ==
    /\ At(w, "np_remove")
    /\ orphan_handler' = [p \in DOMAIN orphan_handler \ {Item(w)} |-> orphan_handler[p]]
    /\ NextBlock(w)
    /\ UNCHANGED inbox /\ OnlyOrphans
-----------------------------------------------------------------------------
(* miner_loop and miner_loop_attacker.  The second looks at neither pool,   *)
(* so that its candidate stays empty, mines it nevertheless, and prunes     *)
(* nothing.  Before the loop: the tip, still the genesis block, references  *)
(* nothing.                                                                 *)
Loop(honest, attacker) == IF Attacking THEN attacker ELSE honest

BootMiner ==
    /\ At(Miner, "boot")
    /\ tx_block_ref' = Put(tx_block_ref, tip_node_hash, {})
    /\ Goto(Miner, "paused") /\ OnlyRefs

(* ControlSignal::Start; a miner that nobody gives it stays idle. *)
StartMiner == At(Miner, "paused") /\ Goto(Miner, "tip") /\ OnlyLocal

ReadTip ==
    /\ At(Miner, "tip")
    /\ Become(Miner, [Blank("m_state") EXCEPT !.base = tip_node_hash])
    /\ OnlyLocal
ReadTipState_Again ==       \* slip: the tip is read a second time
    /\ At(Miner, "m_state")
    /\ local' = [local EXCEPT ![Miner].state = glob_state[tip_node_hash],
                              ![Miner].pc = Loop("m_pool", "m_refs")]
    /\ OnlyLocal
ReadTipState ==
    /\ At(Miner, "m_state")
    /\ local' = [local EXCEPT ![Miner].state = glob_state[local[Miner].base],
                              ![Miner].pc = Loop("m_pool", "m_refs")]
    /\ OnlyLocal

(* A HashMap is iterated in any order: n of its elements, or all. *)
Pick(S, n) == IF Cardinality(S) <= n THEN {S} ELSE {P \in SUBSET S : Cardinality(P) = n}

PickTransactions ==
    /\ At(Miner, "m_pool")
    /\ \E P \in Pick({x \in tx_pool : Unspent(local[Miner].state, x)}, NumTx) :
          local' = [local EXCEPT ![Miner].content = P, ![Miner].pc = "m_refs"]
    /\ OnlyLocal
ReadTipRefs ==
    /\ At(Miner, "m_refs")
    /\ local' = [local EXCEPT ![Miner].refs = tx_block_ref[local[Miner].base],
                              ![Miner].pc = Loop("m_blocks", "seal")]
    /\ OnlyLocal
PickTxBlocks ==
    /\ At(Miner, "m_blocks")
    /\ \E P \in Pick(tx_block_pool \ local[Miner].refs, NumRef) :
          local' = [local EXCEPT ![Miner].props = P, ![Miner].pc = "seal"]
    /\ OnlyLocal

(* The header is hashed.  Too high a hash, or (miner_loop) an empty block:  *)
(* try again.                                                               *)
MineNothing == At(Miner, "seal") /\ Done(Miner) /\ OnlyLocal

Lists(seq, S) == ToSet(seq) = S /\ IsInjective(seq)

MineProposerBlock_OnTip(b) == \* slip: the header takes the tip of now
    /\ At(Miner, "seal")
    /\ b \notin DOMAIN tx_block_ref
    /\ Parent[b] = tip_node_hash
    /\ RefsOf[b] # <<>> \/ Attacking
    /\ Lists(RefsOf[b], local[Miner].props)
    /\ local' = [local EXCEPT ![Miner].item = b, ![Miner].refs = RefsAfter(@, b),
                              ![Miner].pc = "ref_write"]
    /\ OnlyLocal
MineProposerBlock(b) ==
    /\ At(Miner, "seal")
    /\ b \notin DOMAIN tx_block_ref       \* a hash nobody has seen
    /\ Parent[b] = local[Miner].base
    /\ RefsOf[b] # <<>> \/ Attacking
    /\ Lists(RefsOf[b], local[Miner].props)
    /\ local' = [local EXCEPT ![Miner].item = b, ![Miner].refs = RefsAfter(@, b),
                              ![Miner].pc = "ref_write"]
    /\ OnlyLocal
ApplyMined ==
    /\ At(Miner, "apply")
    /\ local' = [local EXCEPT ![Miner].state = LedgerAfter(@, Item(Miner)),
                              ![Miner].pc = Loop("prune", "state_write")]
    /\ OnlyLocal
MineTxBlock(b) ==
    /\ At(Miner, "seal")
    /\ b \notin tx_block_pool
    /\ ContentOf[b] # <<>> \/ Attacking
    /\ Lists(ContentOf[b], local[Miner].content)
    /\ Become(Miner, Clearing(b)) /\ OnlyLocal
-----------------------------------------------------------------------------
ReceiveStep(w) ==
    \/ \E b \in Children : NewProposerBlockHashes(w, b) \/ ReceiveProposerBlock(w, b)
    \/ \E b \in TxBlocks : NewTransactionBlockHashes(w, b) \/ TransactionBlocks(w, b)
    \/ \E x \in Txs : NewTransactionHashes(w, x) \/ GetTransactions(w, x) \/ Transactions(w, x)
    \/ ICO(w)
    \/ \E m \in Message : ReceivePanics(w, m)

ProposerBlockStep(w) ==
    \/ FindParent(w) \/ FindOrphans(w) \/ PushOrphan(w) \/ NewOrphan(w) \/ Verify(w)
    \/ ReadRefs(w) \/ ReadState(w) \/ NewParent(w) \/ TakeOrphans(w) \/ RemoveOrphans(w)

TransactionStep(w) ==
    \/ SendTransaction(w) \/ StoreIco(w)
    \/ CheckTransaction(w) \/ CheckInputs(w) \/ AddTransaction(w)

MinerStep ==
    \/ BootMiner \/ StartMiner \/ ReadTip \/ ReadTipState \/ PickTransactions
    \/ ReadTipRefs \/ PickTxBlocks \/ MineNothing \/ ApplyMined
    \/ \E b \in Mineable \cap Children : MineProposerBlock(b)
    \/ \E b \in Mineable \cap TxBlocks : MineTxBlock(b)

CommonStep(t) ==
    \/ ClearTransaction(t) \/ StoreTxBlock(t) \/ WriteRefs(t) \/ Prune(t)
    \/ WriteState(t) \/ InsertBlock(t) \/ IndexPanics(t) \/ LockPanics(t)

WorkerStep(w) == ReceiveStep(w) \/ ProposerBlockStep(w) \/ TransactionStep(w) \/ CommonStep(w)

NodeNext ==
    \/ \E w \in Workers : WorkerStep(w)
    \/ MinerStep
    \/ CommonStep(Miner)

NodeSpec == NodeInit /\ [][NodeNext]_nodeVars

(* The operating system schedules every worker: a worker that can go on     *)
(* does.  Nothing is assumed of the miner, nor of the operator.             *)
FairNodeSpec == NodeSpec /\ \A w \in Workers : WF_nodeVars(WorkerStep(w))
=============================================================================
