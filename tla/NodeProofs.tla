----------------------------- MODULE NodeProofs -----------------------------
(***************************************************************************)
(* A node's shared maps stay consistent for any number of workers, blocks  *)
(* and messages.  The argument: a thread carries a block from one mutex to *)
(* the next, and what it has read or written on the way stays true because *)
(* the tree, the transaction blocks, the references and the ledger states  *)
(* only grow, and two threads with the same block write the same values.   *)
(***************************************************************************)
EXTENDS NodeProperties, StructureProofs

(* Program counters: a block on its way into the tree; a block just in it.  *)
Joining == {"verify", "ref_read", "ref_write", "state_read", "apply", "prune",
            "state_write", "insert"}
Joined == {"np_check", "np_take", "np_remove"}

(* What a thread at r.pc has read, written or checked before. *)
BlockInHand(r) ==
    /\ r.pc \in {"parent", "orphan", "orphan_push", "orphan_new"} =>
          r.item \in Children /\ r.todo = <<>>
    /\ r.pc \in Joining \cup Joined =>
          /\ r.item \in Children
          /\ r.todo \in Seq(Children)
          /\ \A i \in DOMAIN r.todo : Parent[r.todo[i]] \in blocks
    /\ r.pc \in Joining => Parent[r.item] \in blocks
    /\ r.pc \in Joining \ {"verify"} => Refs(r.item) \subseteq tx_block_pool
    /\ r.pc = "ref_write" =>
          /\ Parent[r.item] \in DOMAIN tx_block_ref
          /\ r.refs = RefsAfter(tx_block_ref[Parent[r.item]], r.item)
    /\ r.pc \in {"state_read", "apply", "prune", "state_write", "insert"} =>
          r.item \in DOMAIN tx_block_ref
    /\ r.pc \in {"prune", "state_write"} =>
          /\ Parent[r.item] \in DOMAIN glob_state
          /\ r.state = LedgerAfter(glob_state[Parent[r.item]], r.item)
    /\ r.pc = "insert" => r.item \in DOMAIN glob_state
    /\ r.pc \in Joined => r.item \in blocks

TransactionInHand(r) ==
    /\ r.pc \in {"tx_known", "tx_state", "tx_add", "gt_take"} => r.item \in Txs
    /\ r.pc \in {"tx_known", "tx_state", "tx_add"} => r.base \in blocks
    /\ r.pc = "tx_add" =>
          r.base \in DOMAIN glob_state /\ Admissible(glob_state[r.base], r.item)
    /\ r.pc \in {"clear", "store"} => r.item \in TxBlocks
    /\ r.pc = "clear" => r.todo \in Seq(Txs) /\ r.todo # <<>>

Picking == {"m_pool", "m_refs", "m_blocks", "seal"}
CandidateInHand(t, r) ==
    /\ r.pc \in Picking \cup {"m_state"} => r.base \in blocks /\ r.todo = <<>>
    /\ r.pc \in Picking => r.base \in DOMAIN glob_state /\ r.state = glob_state[r.base]
    /\ r.pc \in {"m_state", "m_pool"} => r.content = {}
    /\ r.pc \in Picking => \A x \in r.content : Unspent(r.state, x)
    /\ r.pc \in {"m_blocks", "seal"} =>
          r.base \in DOMAIN tx_block_ref /\ r.refs = tx_block_ref[r.base]
    /\ r.pc \in Picking \cup {"m_state"} => r.props \subseteq tx_block_pool
    /\ t = Miner /\ r.pc \in {"ref_write", "apply"} =>
          Parent[r.item] \in DOMAIN glob_state /\ r.state = glob_state[Parent[r.item]]

LocalInv(t, r) ==
    /\ LocalTypeOK(r)
    /\ BlockInHand(r)
    /\ TransactionInHand(r)
    /\ CandidateInHand(t, r)

Locals == /\ local = [t \in Threads |-> local[t]]
          /\ \A t \in Threads : LocalInv(t, local[t])

(* The shared maps.  An entry is what the entry of the parent makes it.     *)
OrphansOK ==
    \A p \in DOMAIN orphan_handler :
        /\ p \in ProposerBlocks
        /\ orphan_handler[p] \in Seq(Children)
        /\ \A i \in DOMAIN orphan_handler[p] : Parent[orphan_handler[p][i]] = p

RefsOK ==
    \A b \in DOMAIN tx_block_ref :
        /\ b \in ProposerBlocks
        /\ tx_block_ref[b] \subseteq TxBlocks
        /\ b = Genesis => tx_block_ref[b] = {}
        /\ b # Genesis => /\ Parent[b] \in DOMAIN tx_block_ref
                          /\ tx_block_ref[b] = RefsAfter(tx_block_ref[Parent[b]], b)

StatesOK ==
    \A b \in DOMAIN glob_state :
        /\ b \in ProposerBlocks /\ Genesis \in DOMAIN glob_state
        /\ b = Genesis => glob_state[b] = IcoState
        /\ b # Genesis => /\ Parent[b] \in DOMAIN glob_state
                          /\ glob_state[b] = LedgerAfter(glob_state[Parent[b]], b)

PoolsOK ==
    /\ tx_pool \subseteq Txs
    /\ tx_block_pool \subseteq TxBlocks
    /\ poisoned \subseteq Mutexes
    /\ inbox \in [Message -> Nat]

SharedInv ==
    /\ ChainInv /\ OrphansOK /\ RefsOK /\ StatesOK /\ PoolsOK
    /\ PublishedComplete

(* Nothing has references before the miner thread has started. *)
BootInv == Pc(Miner) = "boot" => DOMAIN tx_block_ref = {}

IInv == SharedInv /\ BootInv /\ Locals

(* No step takes anything from the maps that matter to a reader. *)
Grow ==
    /\ blocks \subseteq blocks'
    /\ tx_block_pool \subseteq tx_block_pool'
    /\ \A b \in DOMAIN glob_state :
          b \in DOMAIN glob_state' /\ glob_state'[b] = glob_state[b]
    /\ \A b \in DOMAIN tx_block_ref :
          b \in DOMAIN tx_block_ref' /\ tx_block_ref'[b] = tx_block_ref[b]

(* Only thread t moves. *)
Others(t) == local' = [u \in Threads |-> IF u = t THEN local'[t] ELSE local[u]]

(* What every step of a thread t is shown to do. *)
Admits ==
    \A x \in tx_pool' \ tx_pool :
        \E b \in blocks \cap DOMAIN glob_state : Admissible(glob_state[b], x)
Effect(t) ==
    /\ Grow /\ Admits /\ LedgersSpared /\ SharedInv' /\ BootInv'
    /\ Others(t) /\ LocalInv(t, local[t])'
-----------------------------------------------------------------------------
(* Helpers on data. *)
LEMMA RefsType == ASSUME NEW b \in Children PROVE Refs(b) \subseteq TxBlocks
  BY BlockAssumption DEF Refs, ToSet

LEMMA RefsAfterType ==
  ASSUME NEW R \in SUBSET TxBlocks, NEW b \in Children
  PROVE  RefsAfter(R, b) \in SUBSET TxBlocks
  BY RefsType DEF RefsAfter

(* What the other threads know survives the step of thread t. *)
LEMMA LocalsKept ==
  ASSUME Locals, Grow, NEW t \in Threads, Others(t), LocalInv(t, local[t])'
  PROVE  Locals'
<1>1. ASSUME NEW u \in Threads, u # t PROVE LocalInv(u, local[u])'
  <2>1. local'[u] = local[u]
    BY <1>1 DEF Others
  <2>2. LocalInv(u, local[u])
    BY <1>1 DEF Locals
  <2>3. LocalTypeOK(local[u])'
    BY <2>1, <2>2 DEF LocalInv, LocalTypeOK
  <2>4. BlockInHand(local[u])'
    BY <2>1, <2>2 DEF LocalInv, BlockInHand, Grow
  <2>5. TransactionInHand(local[u])'
    BY <2>1, <2>2 DEF LocalInv, TransactionInHand, Grow
  <2>6. CandidateInHand(u, local[u])'
    BY <2>1, <2>2 DEF LocalInv, CandidateInHand, Grow
  <2> QED
    BY <2>3, <2>4, <2>5, <2>6 DEF LocalInv
<1>2. local' = [u \in Threads |-> local'[u]]
  BY DEF Others
<1> QED
  BY <1>1, <1>2 DEF Locals

(* What is known of a key that an action is about to index. *)
LEMMA Indexable ==
  ASSUME NEW t \in Threads, KeyMissing(t) = {}
  PROVE  /\ Pc(t) \in {"tx_state", "m_state"} => local[t].base \in DOMAIN glob_state
         /\ Pc(t) = "m_refs" => local[t].base \in DOMAIN tx_block_ref
         /\ Pc(t) = "ref_read" => ParentOf(t) \in DOMAIN tx_block_ref
         /\ Pc(t) = "state_read" => ParentOf(t) \in DOMAIN glob_state
         /\ Pc(t) = "np_take" => Item(t) \in DOMAIN orphan_handler
<1>1. \A m \in Mutexes : ~ Lacks(t, m)
  BY DEF KeyMissing
<1>2. ~ Lacks(t, "glob_state") /\ ~ Lacks(t, "tx_block_ref") /\ ~ Lacks(t, "orphan_handler")
  BY <1>1 DEF Mutexes
<1> QED
  BY <1>2 DEF Lacks

(* A step in which nothing but the locals of t changes. *)
LEMMA LocalStep ==
  ASSUME IInv, NEW t \in Threads, OnlyLocal, Others(t), LocalInv(t, local[t])',
         t = Miner => local'[t].pc # "boot"
  PROVE  Effect(t)
<1>1. Grow /\ Admits /\ LedgersSpared
  BY DEF OnlyLocal, Grow, Admits, LedgersSpared, chainVars
<1>2. SharedInv'
  BY DEF OnlyLocal, chainVars, IInv, SharedInv, ChainInv, ChainTypeOK, TipIsHighest,
         HeightsAddUp, OrphansOK, RefsOK, StatesOK, PoolsOK, PublishedComplete
<1>3. BootInv'
  BY DEF OnlyLocal, IInv, BootInv, Pc, Others, Threads
<1> QED
  BY <1>1, <1>2, <1>3 DEF Effect
-----------------------------------------------------------------------------
(* Changes of the locals. *)
LEMMA Becomes ==
  ASSUME Locals, NEW t \in Threads, NEW r, Become(t, r)
  PROVE  Others(t) /\ local'[t] = r
  BY DEF Locals, Become, Others

LEMMA Goes ==
  ASSUME Locals, NEW t \in Threads, NEW l, Goto(t, l)
  PROVE  Others(t) /\ local'[t] = [local[t] EXCEPT !.pc = l] /\ local'[t].pc = l
  BY DEF Locals, Goto, Others, LocalInv, LocalTypeOK

(* Program counters at which a thread has nothing in hand. *)
Idle == {"recv", "ico", "boot", "paused", "idle", "tip", "dead"}

LEMMA BlankInv ==
  ASSUME NEW t \in Threads, NEW l \in Idle, local[t] = Blank(l)
  PROVE  LocalInv(t, local[t])
<1>1. LocalTypeOK(local[t])
  BY BlockAssumption DEF LocalTypeOK, Blank, Idle, PCs, WorkerPCs, MinerPCs, CommonPCs
<1>2. BlockInHand(local[t])
  BY DEF BlockInHand, Blank, Idle, Joining, Joined
<1>3. TransactionInHand(local[t]) /\ CandidateInHand(t, local[t])
  BY DEF TransactionInHand, CandidateInHand, Blank, Idle, Picking
<1> QED
  BY <1>1, <1>2, <1>3 DEF LocalInv

LEMMA BlankOK ==
  ASSUME NEW t \in Threads, NEW l \in Idle, local'[t] = Blank(l)
  PROVE  LocalInv(t, local[t])' /\ local'[t].pc = l
<1>1. LocalTypeOK(local[t])'
  BY BlockAssumption DEF LocalTypeOK, Blank, Idle, PCs, WorkerPCs, MinerPCs, CommonPCs
<1>2. BlockInHand(local[t])'
  BY DEF BlockInHand, Blank, Idle, Joining, Joined
<1>3. TransactionInHand(local[t])' /\ CandidateInHand(t, local[t])'
  BY DEF TransactionInHand, CandidateInHand, Blank, Idle, Picking
<1> QED
  BY <1>1, <1>2, <1>3 DEF LocalInv, Blank

LEMMA DoneOK ==
  ASSUME Locals, NEW t \in Threads, Done(t)
  PROVE  Others(t) /\ LocalInv(t, local[t])' /\ local'[t].pc # "boot"
<1> DEFINE l == IF t = Miner THEN "tip" ELSE "recv"
<1>1. Others(t) /\ local'[t] = Blank(l)
  BY Becomes DEF Done
<1>2. l \in Idle /\ l # "boot"
  BY DEF Idle
<1> HIDE DEF l
<1> QED
  BY <1>1, <1>2, BlankOK

LEMMA NextBlockOK ==
  ASSUME Locals, UNCHANGED blocks, NEW w \in Workers, Pc(w) \in Joining \cup Joined, NextBlock(w)
  PROVE  Others(w) /\ LocalInv(w, local[w])'
<1> DEFINE vec == local[w].todo
<1>1. /\ w \in Threads /\ w # Miner
      /\ vec \in Seq(Children)
      /\ \A i \in DOMAIN vec : Parent[vec[i]] \in blocks
  BY NodeAssumption DEF Threads, Locals, LocalInv, BlockInHand, Pc
<1>2. CASE vec = <<>>
  <2>1. Others(w) /\ local'[w] = Blank("recv")
    BY <1>1, <1>2, Becomes DEF NextBlock
  <2> QED
    BY <1>1, <2>1, BlankOK DEF Idle
<1>3. CASE vec # <<>>
  <2>1. Others(w) /\ local'[w] = [Holding(Head(vec), "verify") EXCEPT !.todo = Tail(vec)]
    BY <1>1, <1>3, Becomes DEF NextBlock
  <2>2. /\ local'[w].pc = "verify" /\ local'[w].item = vec[1] /\ local'[w].todo = Tail(vec)
        /\ LocalTypeOK(local[w])'
    <3>1. Head(vec) \in Children /\ Tail(vec) \in Seq(Children) /\ Head(vec) = vec[1]
      BY <1>1, <1>3
    <3> QED
      BY <2>1, <3>1, BlockAssumption
      DEF LocalTypeOK, Blank, Holding, PCs, CommonPCs, WorkerPCs, MinerPCs, Children
  <2>3. /\ vec[1] \in Children /\ Parent[vec[1]] \in blocks
        /\ Tail(vec) \in Seq(Children)
        /\ \A i \in DOMAIN Tail(vec) : Parent[Tail(vec)[i]] \in blocks
    BY <1>1, <1>3
  <2>4. BlockInHand(local[w])'
    BY <2>2, <2>3 DEF BlockInHand, Joining, Joined
  <2>5. TransactionInHand(local[w])' /\ CandidateInHand(w, local[w])'
    BY <2>2 DEF TransactionInHand, CandidateInHand, Picking
  <2> QED
    BY <2>1, <2>2, <2>4, <2>5 DEF LocalInv
<1> QED
  BY <1>2, <1>3
-----------------------------------------------------------------------------
(* The steps of a worker that change its locals only. *)
LEMMA LocalFacts ==
  ASSUME IInv, NEW w \in Workers
  PROVE  w \in Threads /\ w # Miner /\ LocalInv(w, local[w]) /\ Locals
  BY NodeAssumption DEF Threads, IInv, Locals

(* A block in hand goes to the next acquisition. *)
LEMMA FindParentStep == ASSUME IInv, NEW w \in Workers, FindParent(w) PROVE Effect(w)
<1> DEFINE l == IF ParentOf(w) \in blocks THEN "verify" ELSE "orphan"
<1>1. w \in Threads /\ w # Miner /\ LocalInv(w, local[w]) /\ Locals /\ Pc(w) = "parent" /\ OnlyLocal
  BY LocalFacts DEF FindParent, At
<1>2. Others(w) /\ local'[w] = [local[w] EXCEPT !.pc = l]
  BY <1>1, Goes DEF FindParent
<1>3. LocalInv(w, local[w])'
  BY <1>1, <1>2 DEF OnlyLocal, chainVars, Pc, ParentOf, LocalInv, LocalTypeOK, BlockInHand, TransactionInHand,
     CandidateInHand, Joining, Joined, Picking, PCs, WorkerPCs, CommonPCs
<1> QED
  BY <1>1, <1>2, <1>3, LocalStep

LEMMA FindOrphansStep == ASSUME IInv, NEW w \in Workers, FindOrphans(w) PROVE Effect(w)
<1> DEFINE l == IF ParentOf(w) \in DOMAIN orphan_handler THEN "orphan_push" ELSE "orphan_new"
<1>1. w \in Threads /\ w # Miner /\ LocalInv(w, local[w]) /\ Locals /\ Pc(w) = "orphan" /\ OnlyLocal
  BY LocalFacts DEF FindOrphans, At
<1>2. Others(w) /\ local'[w] = [local[w] EXCEPT !.pc = l]
  BY <1>1, Goes DEF FindOrphans
<1>3. LocalInv(w, local[w])'
  BY <1>1, <1>2 DEF OnlyLocal, chainVars, Pc, LocalInv, LocalTypeOK, BlockInHand, TransactionInHand,
     CandidateInHand, Joining, Joined, Picking, PCs, WorkerPCs, CommonPCs
<1> QED
  BY <1>1, <1>2, <1>3, LocalStep

LEMMA VerifyStep == ASSUME IInv, NEW w \in Workers, Verify(w) PROVE Effect(w)
<1>1. /\ w \in Threads /\ w # Miner /\ LocalInv(w, local[w]) /\ Locals
      /\ Pc(w) = "verify" /\ OnlyLocal
  BY LocalFacts DEF Verify, At
<1>2. CASE Verified(tx_block_pool, Item(w)) /\ Goto(w, "ref_read")
  <2>1. Others(w) /\ local'[w] = [local[w] EXCEPT !.pc = "ref_read"]
    BY <1>1, <1>2, Goes
  <2>2. Refs(local[w].item) \subseteq tx_block_pool
    BY <1>2 DEF Verified, GoodRef, Item
  <2>3. LocalInv(w, local[w])'
    BY <1>1, <2>1, <2>2 DEF OnlyLocal, chainVars, Pc, LocalInv, LocalTypeOK, BlockInHand, TransactionInHand,
       CandidateInHand, Joining, Joined, Picking, PCs, WorkerPCs, CommonPCs
  <2> QED
    BY <1>1, <2>1, <2>3, LocalStep
<1>3. CASE NextBlock(w)
  <2>1. Pc(w) \in Joining \cup Joined /\ UNCHANGED blocks
    BY <1>1 DEF Joining, OnlyLocal, chainVars
  <2> QED
    BY <1>1, <1>3, <2>1, NextBlockOK, LocalStep
<1> QED
  BY <1>2, <1>3 DEF Verify

LEMMA ReadRefsStep == ASSUME IInv, NEW w \in Workers, ReadRefs(w) PROVE Effect(w)
<1> DEFINE R == RefsAfter(tx_block_ref[ParentOf(w)], Item(w))
<1>1. /\ w \in Threads /\ w # Miner /\ LocalInv(w, local[w]) /\ Locals
      /\ Pc(w) = "ref_read" /\ OnlyLocal /\ KeyMissing(w) = {}
  BY LocalFacts DEF ReadRefs, At
<1>2. Others(w) /\ local'[w] = [local[w] EXCEPT !.refs = R, !.pc = "ref_write"]
  BY <1>1 DEF ReadRefs, Locals, Others
<1>3. /\ Parent[local[w].item] \in DOMAIN tx_block_ref
      /\ tx_block_ref[Parent[local[w].item]] \in SUBSET TxBlocks
      /\ local[w].item \in Children
  BY <1>1, Indexable DEF ParentOf, IInv, SharedInv, RefsOK, LocalInv, BlockInHand, Joining, Pc
<1>4. R \in SUBSET TxBlocks /\ R = RefsAfter(tx_block_ref[Parent[local[w].item]], local[w].item)
  BY <1>3, RefsAfterType DEF ParentOf, Item
<1> HIDE DEF R
<1>5. LocalInv(w, local[w])'
  BY <1>1, <1>2, <1>3, <1>4 DEF OnlyLocal, chainVars, Pc, LocalInv, LocalTypeOK, BlockInHand,
     TransactionInHand, CandidateInHand, Joining, Joined, Picking, PCs, WorkerPCs, CommonPCs
<1> QED
  BY <1>1, <1>2, <1>5, LocalStep

LEMMA ReadStateStep == ASSUME IInv, NEW w \in Workers, ReadState(w) PROVE Effect(w)
<1> DEFINE S == LedgerAfter(glob_state[ParentOf(w)], Item(w))
<1>1. /\ w \in Threads /\ w # Miner /\ LocalInv(w, local[w]) /\ Locals
      /\ Pc(w) = "state_read" /\ OnlyLocal /\ KeyMissing(w) = {}
  BY LocalFacts DEF ReadState, At
<1>2. Others(w) /\ local'[w] = [local[w] EXCEPT !.state = S, !.pc = "prune"]
  BY <1>1 DEF ReadState, Locals, Others
<1>3. /\ Parent[local[w].item] \in DOMAIN glob_state
      /\ S = LedgerAfter(glob_state[Parent[local[w].item]], local[w].item)
  BY <1>1, Indexable DEF ParentOf, Item
<1> HIDE DEF S
<1>4. LocalInv(w, local[w])'
  BY <1>1, <1>2, <1>3 DEF OnlyLocal, chainVars, Pc, LocalInv, LocalTypeOK, BlockInHand,
     TransactionInHand, CandidateInHand, Joining, Joined, Picking, PCs, WorkerPCs, CommonPCs
<1> QED
  BY <1>1, <1>2, <1>4, LocalStep

LEMMA NewParentStep == ASSUME IInv, NEW w \in Workers, NewParent(w) PROVE Effect(w)
<1>1. /\ w \in Threads /\ w # Miner /\ LocalInv(w, local[w]) /\ Locals
      /\ Pc(w) = "np_check" /\ OnlyLocal
  BY LocalFacts DEF NewParent, At
<1>2. CASE Goto(w, "np_take")
  <2>1. Others(w) /\ local'[w] = [local[w] EXCEPT !.pc = "np_take"]
    BY <1>1, <1>2, Goes
  <2>2. LocalInv(w, local[w])'
    BY <1>1, <2>1 DEF OnlyLocal, chainVars, Pc, LocalInv, LocalTypeOK, BlockInHand, TransactionInHand,
       CandidateInHand, Joining, Joined, Picking, PCs, WorkerPCs, CommonPCs
  <2> QED
    BY <1>1, <2>1, <2>2, LocalStep
<1>3. CASE NextBlock(w)
  <2>1. Pc(w) \in Joining \cup Joined /\ UNCHANGED blocks
    BY <1>1 DEF Joined, OnlyLocal, chainVars
  <2> QED
    BY <1>1, <1>3, <2>1, NextBlockOK, LocalStep
<1> QED
  BY <1>2, <1>3 DEF NewParent

LEMMA TakeOrphansStep == ASSUME IInv, NEW w \in Workers, TakeOrphans(w) PROVE Effect(w)
<1> DEFINE vec == orphan_handler[Item(w)] \o local[w].todo
<1>1. /\ w \in Threads /\ w # Miner /\ LocalInv(w, local[w]) /\ Locals
      /\ Pc(w) = "np_take" /\ OnlyLocal /\ KeyMissing(w) = {}
  BY LocalFacts DEF TakeOrphans, At
<1>2. Others(w) /\ local'[w] = [local[w] EXCEPT !.todo = vec, !.pc = "np_remove"]
  BY <1>1 DEF TakeOrphans, Locals, Others
<1>3. /\ Item(w) \in DOMAIN orphan_handler /\ Item(w) \in blocks
      /\ orphan_handler[Item(w)] \in Seq(Children)
      /\ \A i \in DOMAIN orphan_handler[Item(w)] : Parent[orphan_handler[Item(w)][i]] \in blocks
  <2>1. Item(w) \in DOMAIN orphan_handler
    BY <1>1, Indexable
  <2>2. Item(w) \in blocks
    BY <1>1 DEF LocalInv, BlockInHand, Joined, Pc, Item
  <2> QED
    BY <2>1, <2>2 DEF IInv, SharedInv, OrphansOK
<1>4. /\ local[w].todo \in Seq(Children)
      /\ \A i \in DOMAIN local[w].todo : Parent[local[w].todo[i]] \in blocks
  BY <1>1 DEF LocalInv, BlockInHand, Joined, Pc
<1>5. vec \in Seq(Children) /\ \A i \in DOMAIN vec : Parent[vec[i]] \in blocks
  BY <1>3, <1>4
<1> HIDE DEF vec
<1>6. LocalInv(w, local[w])'
  BY <1>1, <1>2, <1>5 DEF OnlyLocal, chainVars, Pc, LocalInv, LocalTypeOK, BlockInHand,
     TransactionInHand, CandidateInHand, Joining, Joined, Picking, PCs, WorkerPCs, CommonPCs
<1> QED
  BY <1>1, <1>2, <1>6, LocalStep

(* A transaction in hand. *)
LEMMA SendTransactionStep == ASSUME IInv, NEW w \in Workers, SendTransaction(w) PROVE Effect(w)
  BY LocalFacts, DoneOK, LocalStep DEF SendTransaction

LEMMA CheckTransactionStep == ASSUME IInv, NEW w \in Workers, CheckTransaction(w) PROVE Effect(w)
<1>1. /\ w \in Threads /\ w # Miner /\ LocalInv(w, local[w]) /\ Locals
      /\ Pc(w) = "tx_known" /\ OnlyLocal
  BY LocalFacts DEF CheckTransaction, At
<1>2. CASE Goto(w, "tx_state")
  <2>1. Others(w) /\ local'[w] = [local[w] EXCEPT !.pc = "tx_state"]
    BY <1>1, <1>2, Goes
  <2>2. LocalInv(w, local[w])'
    BY <1>1, <2>1 DEF OnlyLocal, chainVars, Pc, LocalInv, LocalTypeOK, BlockInHand, TransactionInHand,
       CandidateInHand, Joining, Joined, Picking, PCs, WorkerPCs, CommonPCs
  <2> QED
    BY <1>1, <2>1, <2>2, LocalStep
<1>3. CASE Done(w)
  BY <1>1, <1>3, DoneOK, LocalStep
<1> QED
  BY <1>2, <1>3 DEF CheckTransaction

LEMMA CheckInputsStep == ASSUME IInv, NEW w \in Workers, CheckInputs(w) PROVE Effect(w)
<1>1. /\ w \in Threads /\ w # Miner /\ LocalInv(w, local[w]) /\ Locals
      /\ Pc(w) = "tx_state" /\ OnlyLocal /\ KeyMissing(w) = {}
  BY LocalFacts DEF CheckInputs, At
<1>2. CASE Admissible(glob_state[local[w].base], Item(w)) /\ Goto(w, "tx_add")
  <2>1. Others(w) /\ local'[w] = [local[w] EXCEPT !.pc = "tx_add"]
    BY <1>1, <1>2, Goes
  <2>2. local[w].base \in DOMAIN glob_state
    BY <1>1, Indexable
  <2>3. LocalInv(w, local[w])'
    BY <1>1, <1>2, <2>1, <2>2 DEF OnlyLocal, chainVars, Pc, Item, LocalInv, LocalTypeOK, BlockInHand,
       TransactionInHand, CandidateInHand, Joining, Joined, Picking, PCs, WorkerPCs, CommonPCs
  <2> QED
    BY <1>1, <2>1, <2>3, LocalStep
<1>3. CASE Done(w)
  BY <1>1, <1>3, DoneOK, LocalStep
<1> QED
  BY <1>2, <1>3 DEF CheckInputs
-----------------------------------------------------------------------------
(* Steps that change the pools, the orphan buffer, the inbox or the         *)
(* poisoned mutexes, but neither the tree nor what is known of its blocks.  *)
LEMMA QuietStep ==
  ASSUME IInv, NEW t \in Threads, UNCHANGED <<chainVars, glob_state, tx_block_ref>>,
         tx_block_pool \subseteq tx_block_pool', Admits,
         OrphansOK', PoolsOK', LedgersSpared,
         Others(t), LocalInv(t, local[t])', t = Miner => local'[t].pc # "boot"
  PROVE  Effect(t)
<1>1. Grow
  BY DEF Grow, chainVars
<1>2. SharedInv'
  <2>1. ChainInv' /\ RefsOK' /\ StatesOK'
    BY DEF chainVars, IInv, SharedInv, ChainInv, ChainTypeOK, TipIsHighest, HeightsAddUp,
           RefsOK, StatesOK
  <2>2. PublishedComplete'
    BY DEF chainVars, IInv, SharedInv, PublishedComplete
  <2> QED
    BY <2>1, <2>2 DEF SharedInv
<1>3. BootInv'
  BY DEF IInv, BootInv, Pc, Others, Threads
<1> QED
  BY <1>1, <1>2, <1>3 DEF Effect

LEMMA AddTransactionStep == ASSUME IInv, NEW w \in Workers, AddTransaction(w) PROVE Effect(w)
<1>1. /\ w \in Threads /\ w # Miner /\ LocalInv(w, local[w]) /\ Locals
      /\ Pc(w) = "tx_add" /\ OnlyTxPool /\ Done(w) /\ tx_pool' = tx_pool \cup {Item(w)}
  BY LocalFacts DEF AddTransaction, At
<1>2. /\ local[w].item \in Txs /\ local[w].base \in blocks \cap DOMAIN glob_state
      /\ Admissible(glob_state[local[w].base], local[w].item)
  BY <1>1 DEF LocalInv, TransactionInHand, Pc
<1>3. Admits /\ PoolsOK'
  BY <1>1, <1>2 DEF Admits, PoolsOK, IInv, SharedInv, OnlyTxPool, Item
<1>4. OrphansOK' /\ LedgersSpared
  BY <1>1 DEF OnlyTxPool, IInv, SharedInv, OrphansOK, LedgersSpared
<1>5. UNCHANGED <<chainVars, glob_state, tx_block_ref>> /\ tx_block_pool \subseteq tx_block_pool'
  BY <1>1 DEF OnlyTxPool
<1> QED
  BY <1>1, <1>3, <1>4, <1>5, DoneOK, QuietStep

LEMMA RemoveOrphansStep == ASSUME IInv, NEW w \in Workers, RemoveOrphans(w) PROVE Effect(w)
<1>1. /\ w \in Threads /\ w # Miner /\ LocalInv(w, local[w]) /\ Locals
      /\ Pc(w) = "np_remove" /\ OnlyOrphans /\ UNCHANGED inbox /\ NextBlock(w)
      /\ orphan_handler' = [p \in DOMAIN orphan_handler \ {Item(w)} |-> orphan_handler[p]]
  BY LocalFacts DEF RemoveOrphans, At
<1>2. Pc(w) \in Joining \cup Joined /\ UNCHANGED blocks
  BY <1>1 DEF Joined, OnlyOrphans, chainVars
<1>3. OrphansOK'
  BY <1>1 DEF IInv, SharedInv, OrphansOK
<1>4. Admits /\ PoolsOK' /\ LedgersSpared
  BY <1>1 DEF OnlyOrphans, IInv, SharedInv, Admits, PoolsOK, LedgersSpared
<1>5. UNCHANGED <<chainVars, glob_state, tx_block_ref>> /\ tx_block_pool \subseteq tx_block_pool'
  BY <1>1 DEF OnlyOrphans
<1> QED
  BY <1>1, <1>2, <1>3, <1>4, <1>5, NextBlockOK, QuietStep

LEMMA Counted ==
  ASSUME NEW S, NEW f \in [S -> Nat], NEW m, NEW v, m \in S => v \in Nat
  PROVE  [f EXCEPT ![m] = v] \in [S -> Nat]
<1> DEFINE g == [f EXCEPT ![m] = v]
<1>1. DOMAIN g = S /\ g = [x \in S |-> g[x]]
  OBVIOUS
<1>2. ASSUME NEW x \in S PROVE g[x] \in Nat
  BY DEF g
<1>3. g \in [S -> Nat]
  <2> HIDE DEF g
  <2> QED
    BY <1>1, <1>2
<1> QED
  BY <1>3

LEMMA OneMore ==
  ASSUME NEW S, NEW f \in [S -> Nat], NEW m
  PROVE  [f EXCEPT ![m] = @ + 1] \in [S -> Nat]
<1>1. m \in S => f[m] + 1 \in Nat
  <2>1. m \in S => f[m] \in Nat
    OBVIOUS
  <2> QED
    BY <2>1
<1> QED
  BY <1>1, Counted

LEMMA OneLess ==
  ASSUME NEW S, NEW f \in [S -> Nat], NEW m, f[m] > 0
  PROVE  [f EXCEPT ![m] = @ - 1] \in [S -> Nat]
<1>1. m \in S => f[m] - 1 \in Nat
  <2>1. m \in S => f[m] \in Nat
    OBVIOUS
  <2> QED
    BY <2>1
<1> QED
  BY <1>1, Counted

LEMMA BufferStep ==
  ASSUME IInv, NEW w \in Workers, Pc(w) \in {"orphan_push", "orphan_new"},
         RequestParent(w), Done(w), OnlyOrphans,
         NEW vec \in Seq(Children), \A i \in DOMAIN vec : Parent[vec[i]] = ParentOf(w),
         \/ orphan_handler' = Put(orphan_handler, ParentOf(w), vec)
         \/ orphan_handler' = [p \in DOMAIN orphan_handler |->
                                 IF p = ParentOf(w) THEN vec ELSE orphan_handler[p]]
  PROVE  Effect(w)
<1>1. w \in Threads /\ w # Miner /\ Locals /\ LocalInv(w, local[w])
  BY LocalFacts
<1>2. Item(w) \in Children /\ ParentOf(w) \in ProposerBlocks
  BY <1>1, BlockAssumption DEF LocalInv, BlockInHand, Item, ParentOf, Pc
<1>3. OrphansOK'
  BY <1>2 DEF IInv, SharedInv, OrphansOK, Put
<1>4. inbox' \in [Message -> Nat]
  BY OneMore DEF RequestParent, IInv, SharedInv, PoolsOK
<1>5. Admits /\ PoolsOK' /\ LedgersSpared
  BY <1>4 DEF OnlyOrphans, IInv, SharedInv, Admits, PoolsOK, LedgersSpared
<1>6. UNCHANGED <<chainVars, glob_state, tx_block_ref>> /\ tx_block_pool \subseteq tx_block_pool'
  BY DEF OnlyOrphans
<1> QED
  BY <1>1, <1>3, <1>5, <1>6, DoneOK, QuietStep

LEMMA PushOrphanStep == ASSUME IInv, NEW w \in Workers, PushOrphan(w) PROVE Effect(w)
<1>1. /\ w \in Threads /\ LocalInv(w, local[w]) /\ Pc(w) = "orphan_push"
  BY LocalFacts DEF PushOrphan, At
<1>2. local[w].item \in Children
  BY <1>1 DEF LocalInv, BlockInHand, Pc
<1>3. CASE ParentOf(w) \in DOMAIN orphan_handler
  <2> DEFINE vec == Append(orphan_handler[ParentOf(w)], Item(w))
  <2>1. /\ orphan_handler[ParentOf(w)] \in Seq(Children)
        /\ \A i \in DOMAIN orphan_handler[ParentOf(w)] :
              Parent[orphan_handler[ParentOf(w)][i]] = ParentOf(w)
    BY <1>3 DEF IInv, SharedInv, OrphansOK
  <2>2. vec \in Seq(Children) /\ \A i \in DOMAIN vec : Parent[vec[i]] = ParentOf(w)
    BY <1>2, <2>1 DEF Item, ParentOf
  <2>3. orphan_handler' = [p \in DOMAIN orphan_handler |->
                                 IF p = ParentOf(w) THEN vec ELSE orphan_handler[p]]
    BY DEF PushOrphan
  <2> HIDE DEF vec
  <2> QED
    BY <1>1, <2>2, <2>3, BufferStep DEF PushOrphan
<1>4. CASE ParentOf(w) \notin DOMAIN orphan_handler
  <2>1. orphan_handler' = [p \in DOMAIN orphan_handler |->
                                 IF p = ParentOf(w) THEN <<>> ELSE orphan_handler[p]]
    BY <1>4 DEF PushOrphan
  <2>2. <<>> \in Seq(Children) /\ DOMAIN <<>> = {}
    OBVIOUS
  <2> QED
    BY <1>1, <2>1, <2>2, BufferStep DEF PushOrphan
<1> QED
  BY <1>3, <1>4

LEMMA NewOrphanStep == ASSUME IInv, NEW w \in Workers, NewOrphan(w) PROVE Effect(w)
<1> DEFINE vec == <<Item(w)>>
<1>1. /\ w \in Threads /\ LocalInv(w, local[w]) /\ Pc(w) = "orphan_new"
  BY LocalFacts DEF NewOrphan, At
<1>2. local[w].item \in Children
  BY <1>1 DEF LocalInv, BlockInHand, Pc
<1>3. vec \in Seq(Children) /\ \A i \in DOMAIN vec : Parent[vec[i]] = ParentOf(w)
  BY <1>2 DEF Item, ParentOf
<1>4. orphan_handler' = Put(orphan_handler, ParentOf(w), vec)
  BY DEF NewOrphan
<1> HIDE DEF vec
<1> QED
  BY <1>1, <1>3, <1>4, BufferStep DEF NewOrphan
-----------------------------------------------------------------------------
(* Receiving a message. *)
LEMMA InboxStep ==
  ASSUME IInv, NEW w \in Workers, OnlyInbox, inbox' \in [Message -> Nat],
         Others(w), LocalInv(w, local[w])'
  PROVE  Effect(w)
<1>1. w \in Threads /\ w # Miner
  BY LocalFacts
<1>2. UNCHANGED <<chainVars, glob_state, tx_block_ref>> /\ tx_block_pool \subseteq tx_block_pool'
  BY DEF OnlyInbox
<1>3. Admits /\ PoolsOK' /\ OrphansOK' /\ LedgersSpared
  BY DEF OnlyInbox, IInv, SharedInv, Admits, PoolsOK, OrphansOK, LedgersSpared
<1> QED
  BY <1>1, <1>2, <1>3, QuietStep

LEMMA ConsumeStep ==
  ASSUME IInv, NEW w \in Workers, NEW m, NEW r,
         Arrived(w, m), Consume(m), Become(w, r), OnlyInbox, LocalInv(w, local[w])'
  PROVE  Effect(w)
<1>1. inbox' \in [Message -> Nat]
  BY OneLess DEF IInv, SharedInv, PoolsOK, Arrived, Consume
<1>2. Others(w)
  BY LocalFacts, Becomes
<1> QED
  BY <1>1, <1>2, InboxStep

LEMMA ConsumeBlank ==
  ASSUME IInv, NEW w \in Workers, NEW m, NEW l \in {"recv", "ico", "dead"},
         Arrived(w, m), Consume(m), Become(w, Blank(l)), OnlyInbox
  PROVE  Effect(w)
<1>1. w \in Threads /\ Locals /\ l \in Idle
  BY LocalFacts DEF Idle
<1>2. local'[w] = Blank(l)
  BY <1>1, Becomes
<1>3. LocalInv(w, local[w])'
  BY <1>1, <1>2, BlankOK
<1> HIDE DEF Blank
<1> QED
  BY <1>3, ConsumeStep

LEMMA ReceivePanicsStep ==
  ASSUME IInv, NEW w \in Workers, NEW m \in Message, ReceivePanics(w, m) PROVE Effect(w)
  BY ConsumeBlank DEF ReceivePanics

LEMMA AnnouncementStep ==
  ASSUME IInv, NEW w \in Workers, NEW m, NEW have, NEW answer, Announcement(w, m, have, answer)
  PROVE  Effect(w)
<1>1. w \in Threads /\ Locals /\ LocalInv(w, local[w])
  BY LocalFacts
<1>2. inbox \in [Message -> Nat] /\ inbox[m] > 0
  BY DEF IInv, SharedInv, PoolsOK, Announcement, Receives, Arrived
<1>3. inbox' \in [Message -> Nat]
  <2> DEFINE less == [inbox EXCEPT ![m] = @ - 1]
  <2>1. less \in [Message -> Nat]
    BY <1>2, OneLess
  <2>2. CASE inbox' = less
    BY <2>1, <2>2
  <2>3. CASE inbox' = [less EXCEPT ![answer] = @ + 1]
    <3> HIDE DEF less
    <3> QED
      BY <2>1, <2>3, OneMore
  <2> QED
    BY <2>2, <2>3 DEF Announcement
<1>4. Others(w) /\ local'[w] = local[w]
  BY <1>1 DEF Announcement, Others, Locals
<1>5. LocalInv(w, local[w])'
  BY <1>1, <1>4 DEF Announcement, OnlyInbox, chainVars, LocalInv, LocalTypeOK, BlockInHand,
     TransactionInHand, CandidateInHand
<1> QED
  BY <1>3, <1>4, <1>5, InboxStep DEF Announcement

(* A block or a transaction taken in hand. *)
LEMMA HoldingOK ==
  ASSUME NEW t \in Threads, NEW i, NEW l \in PCs, local'[t] = Holding(i, l),
         \/ l = "parent" /\ i \in Children
         \/ l = "gt_take" /\ i \in Txs
  PROVE  LocalInv(t, local[t])'
<1>1. /\ LocalTypeOK(local[t])'
      /\ local'[t].pc = l /\ local'[t].item = i /\ local'[t].todo = <<>>
  <2>1. local'[t] = [pc |-> l, item |-> i, todo |-> <<>>, base |-> Genesis,
                     refs |-> {}, state |-> {}, content |-> {}, props |-> {}]
    BY DEF Holding, Blank
  <2>2. i \in ProposerBlocks \cup TxBlocks \cup Txs /\ <<>> \in Seq(Txs)
    BY DEF Children
  <2> QED
    BY <2>1, <2>2, BlockAssumption DEF LocalTypeOK
<1>2. BlockInHand(local[t])'
  BY <1>1 DEF BlockInHand, Joining, Joined
<1>3. TransactionInHand(local[t])' /\ CandidateInHand(t, local[t])'
  BY <1>1 DEF TransactionInHand, CandidateInHand, Picking
<1> QED
  BY <1>1, <1>2, <1>3 DEF LocalInv

LEMMA ReceiveProposerBlockStep ==
  ASSUME IInv, NEW w \in Workers, NEW b \in Children, ReceiveProposerBlock(w, b) PROVE Effect(w)
<1> DEFINE m == Msg("ProposerBlocks", b)
<1>1. w \in Threads /\ w # Miner /\ Locals /\ Arrived(w, m) /\ Consume(m) /\ OnlyInbox
  BY LocalFacts DEF ReceiveProposerBlock, Handle, Receives
<1> HIDE DEF m
<1>2. CASE Become(w, Blank("recv"))
  BY <1>1, <1>2, ConsumeBlank
<1>3. CASE Become(w, Holding(b, "parent"))
  <2>1. local'[w] = Holding(b, "parent")
    BY <1>1, <1>3, Becomes
  <2>2. LocalInv(w, local[w])'
    BY <1>1, <2>1, HoldingOK DEF PCs, WorkerPCs
  <2> QED
    BY <1>1, <1>3, <2>2, ConsumeStep
<1> QED
  BY <1>2, <1>3 DEF ReceiveProposerBlock, Handle

LEMMA ClearingOK ==
  ASSUME NEW t \in Threads, NEW b \in TxBlocks, local'[t] = Clearing(b)
  PROVE  LocalInv(t, local[t])' /\ local'[t].pc # "boot"
<1>1. ContentOf[b] \in Seq(Txs)
  BY BlockAssumption
<1>2. /\ local'[t].pc \in {"clear", "store"} /\ local'[t].item = b
      /\ local'[t].todo = ContentOf[b] /\ (local'[t].pc = "clear" => ContentOf[b] # <<>>)
  BY DEF Clearing, Holding, Blank
<1>3. LocalTypeOK(local[t])'
  <2>1. local'[t] = [pc |-> local'[t].pc, item |-> b, todo |-> ContentOf[b], base |-> Genesis,
                     refs |-> {}, state |-> {}, content |-> {}, props |-> {}]
    BY DEF Clearing, Holding, Blank
  <2> QED
    BY <1>1, <1>2, <2>1, BlockAssumption DEF LocalTypeOK, PCs, CommonPCs
<1>4. BlockInHand(local[t])' /\ CandidateInHand(t, local[t])'
  BY <1>2 DEF BlockInHand, CandidateInHand, Joining, Joined, Picking
<1>5. TransactionInHand(local[t])'
  BY <1>1, <1>2 DEF TransactionInHand
<1> QED
  BY <1>2, <1>3, <1>4, <1>5 DEF LocalInv

LEMMA TransactionBlocksStep ==
  ASSUME IInv, NEW w \in Workers, NEW b \in TxBlocks, TransactionBlocks(w, b) PROVE Effect(w)
<1> DEFINE m == Msg("TransactionBlocks", b)
<1>1. w \in Threads /\ w # Miner /\ Locals /\ Arrived(w, m) /\ Consume(m) /\ OnlyInbox
  BY LocalFacts DEF TransactionBlocks, Handle, Receives
<1> HIDE DEF m
<1>2. CASE Become(w, Blank("recv"))
  BY <1>1, <1>2, ConsumeBlank
<1>3. CASE Become(w, Clearing(b))
  <2>1. local'[w] = Clearing(b)
    BY <1>1, <1>3, Becomes
  <2> QED
    BY <1>1, <1>3, <2>1, ClearingOK, ConsumeStep
<1> QED
  BY <1>2, <1>3 DEF TransactionBlocks, Handle

LEMMA GetTransactionsStep ==
  ASSUME IInv, NEW w \in Workers, NEW x \in Txs, GetTransactions(w, x) PROVE Effect(w)
<1> DEFINE m == Msg("GetTransactions", x)
<1>1. w \in Threads /\ w # Miner /\ Locals /\ Arrived(w, m) /\ Consume(m) /\ OnlyInbox
  BY LocalFacts DEF GetTransactions, Handle, Receives
<1> HIDE DEF m
<1>2. CASE Become(w, Blank("recv"))
  BY <1>1, <1>2, ConsumeBlank
<1>3. CASE Become(w, Holding(x, "gt_take"))
  <2>1. local'[w] = Holding(x, "gt_take")
    BY <1>1, <1>3, Becomes
  <2>2. LocalInv(w, local[w])'
    BY <1>1, <2>1, HoldingOK DEF PCs, WorkerPCs
  <2> QED
    BY <1>1, <1>3, <2>2, ConsumeStep
<1> QED
  BY <1>2, <1>3 DEF GetTransactions, Handle

LEMMA TransactionsStep ==
  ASSUME IInv, NEW w \in Workers, NEW x \in Txs, Transactions(w, x) PROVE Effect(w)
<1> DEFINE m == Msg("Transactions", x)
           r == [Holding(x, "tx_known") EXCEPT !.base = tip_node_hash]
<1>1. w \in Threads /\ w # Miner /\ Locals /\ Arrived(w, m) /\ Consume(m) /\ OnlyInbox
  BY LocalFacts DEF Transactions, Handle, Receives
<1> HIDE DEF m
<1>2. Become(w, r) /\ local'[w] = r
  BY <1>1, Becomes DEF Transactions, Handle
<1>3. tip_node_hash \in blocks /\ blocks' = blocks /\ blocks \subseteq ProposerBlocks
  BY <1>1 DEF IInv, SharedInv, ChainInv, ChainTypeOK, OnlyInbox, chainVars
<1>4. LocalInv(w, local[w])'
  <2>1. /\ LocalTypeOK(local[w])' /\ local'[w].pc = "tx_known"
        /\ local'[w].item = x /\ local'[w].base \in blocks'
    <3>1. local'[w] = [pc |-> "tx_known", item |-> x, todo |-> <<>>, base |-> tip_node_hash,
                       refs |-> {}, state |-> {}, content |-> {}, props |-> {}]
      BY <1>2 DEF Holding, Blank
    <3>2. "tx_known" \in PCs /\ <<>> \in Seq(Txs)
      BY DEF PCs, WorkerPCs
    <3> QED
      BY <1>3, <3>1, <3>2 DEF LocalTypeOK
  <2> QED
    BY <2>1 DEF LocalInv, BlockInHand, TransactionInHand, CandidateInHand, Joining, Joined, Picking
<1> HIDE DEF r
<1> QED
  BY <1>1, <1>2, <1>4, ConsumeStep

LEMMA ICOStep == ASSUME IInv, NEW w \in Workers, ICO(w) PROVE Effect(w)
<1> DEFINE l == IF DOMAIN glob_state = {} THEN "ico" ELSE "recv"
<1>1. /\ Arrived(w, Msg("ICO", Genesis)) /\ Consume(Msg("ICO", Genesis))
      /\ Become(w, Blank(l)) /\ OnlyInbox /\ l \in {"recv", "ico", "dead"}
  BY DEF ICO, Handle, Receives
<1> HIDE DEF l
<1> QED
  BY <1>1, ConsumeBlank
-----------------------------------------------------------------------------
(* Panics. *)
LEMMA LockPanicsStep == ASSUME IInv, NEW t \in Threads, LockPanics(t) PROVE Effect(t)
<1>1. Locals /\ OnlyLocal /\ Become(t, Blank("dead")) /\ "dead" \in Idle
  BY DEF IInv, LockPanics, Idle
<1>2. Others(t) /\ local'[t] = Blank("dead")
  BY <1>1, Becomes
<1> QED
  BY <1>1, <1>2, BlankOK, LocalStep

(* A warm node has what it indexes in these maps for every block of its tree. *)
LEMMA Covered ==
  ASSUME IInv, GenesisKnown, NEW b \in blocks
  PROVE  b \in DOMAIN glob_state /\ b \in DOMAIN tx_block_ref
  BY DEF IInv, SharedInv, PublishedComplete, GenesisKnown

LEMMA IndexPanicsStep == ASSUME IInv, NEW t \in Threads, IndexPanics(t) PROVE Effect(t)
<1>1. /\ Locals /\ OnlyPoison /\ Become(t, Blank("dead")) /\ "dead" \in Idle
      /\ poisoned' = poisoned \cup KeyMissing(t) /\ LocalInv(t, local[t])
  BY DEF IInv, Locals, IndexPanics, Idle
<1>2. Others(t) /\ local'[t] = Blank("dead")
  BY <1>1, Becomes
<1>3. ASSUME GenesisKnown PROVE KeyMissing(t) \cap Ledgers = {}
  <2>1. Pc(t) \in {"tx_state", "m_state", "m_refs"} => local[t].base \in blocks
    BY <1>1 DEF LocalInv, TransactionInHand, CandidateInHand, Picking, Pc
  <2>2. Pc(t) \in {"ref_read", "state_read", "insert"} => ParentOf(t) \in blocks
    BY <1>1 DEF LocalInv, BlockInHand, Joining, Pc, ParentOf
  <2>3. ~ Lacks(t, "glob_state")
    BY <1>3, <2>1, <2>2, Covered DEF Lacks
  <2>4. ~ Lacks(t, "tx_block_ref")
    BY <1>3, <2>1, <2>2, Covered DEF Lacks
  <2>5. ~ Lacks(t, "blockchain")
    BY <2>2 DEF Lacks
  <2> QED
    BY <2>3, <2>4, <2>5 DEF KeyMissing, Ledgers
<1>4. LedgersSpared
  BY <1>1, <1>3 DEF LedgersSpared
<1>5. Admits /\ PoolsOK' /\ OrphansOK'
  BY <1>1 DEF OnlyPoison, Admits, IInv, SharedInv, PoolsOK, OrphansOK, KeyMissing
<1>6. UNCHANGED <<chainVars, glob_state, tx_block_ref>> /\ tx_block_pool \subseteq tx_block_pool'
  BY <1>1 DEF OnlyPoison
<1> QED
  BY <1>1, <1>2, <1>4, <1>5, <1>6, BlankOK, QuietStep
-----------------------------------------------------------------------------
(* The steps that workers and the miner have in common. *)
LEMMA TailRest ==
  ASSUME NEW S, NEW q \in Seq(S), q # <<>>
  PROVE  Tail(q) \in Seq(S) /\ (Len(q) # 1 => Tail(q) # <<>>)
<1>1. Len(q) \in Nat /\ Len(q) # 0 /\ Tail(q) \in Seq(S) /\ Len(Tail(q)) = Len(q) - 1
  OBVIOUS
<1>2. ASSUME Tail(q) = <<>> PROVE Len(Tail(q)) = 0
  <2>1. Len(<<>>) = 0
    OBVIOUS
  <2> QED
    BY <1>2, <2>1, Zenon
<1> QED
  BY <1>1, <1>2

LEMMA ClearTransactionStep == ASSUME IInv, NEW t \in Threads, ClearTransaction(t) PROVE Effect(t)
<1> DEFINE l == IF Len(local[t].todo) = 1 THEN "store" ELSE "clear"
<1>1. /\ Locals /\ LocalInv(t, local[t]) /\ Pc(t) = "clear" /\ OnlyTxPool
      /\ tx_pool' = tx_pool \ {Head(local[t].todo)}
  BY DEF IInv, Locals, ClearTransaction, At
<1>2. /\ local[t].item \in TxBlocks /\ local[t].todo \in Seq(Txs) /\ local[t].todo # <<>>
  BY <1>1 DEF LocalInv, TransactionInHand, Pc
<1>3. Others(t) /\ local'[t] = [local[t] EXCEPT !.todo = Tail(local[t].todo), !.pc = l]
  BY <1>1 DEF ClearTransaction, Locals, Others
<1>4. /\ Tail(local[t].todo) \in Seq(Txs)
      /\ l \in {"clear", "store"} /\ (l = "clear" => Tail(local[t].todo) # <<>>)
  BY <1>2, TailRest
<1> HIDE DEF l
<1>5. /\ LocalTypeOK(local[t])' /\ local'[t].pc = l
      /\ local'[t].todo = Tail(local[t].todo) /\ local'[t].item = local[t].item
  BY <1>1, <1>3, <1>4 DEF LocalInv, LocalTypeOK, PCs, CommonPCs
<1>6. BlockInHand(local[t])' /\ CandidateInHand(t, local[t])'
  BY <1>4, <1>5 DEF BlockInHand, CandidateInHand, Joining, Joined, Picking
<1>7. TransactionInHand(local[t])'
  BY <1>2, <1>4, <1>5 DEF TransactionInHand
<1>8. Admits /\ PoolsOK' /\ OrphansOK' /\ LedgersSpared
  BY <1>1 DEF OnlyTxPool, Admits, IInv, SharedInv, PoolsOK, OrphansOK, LedgersSpared
<1>9. UNCHANGED <<chainVars, glob_state, tx_block_ref>> /\ tx_block_pool \subseteq tx_block_pool'
  BY <1>1 DEF OnlyTxPool
<1> QED
  BY <1>3, <1>4, <1>5, <1>6, <1>7, <1>8, <1>9, QuietStep DEF LocalInv

LEMMA StoreTxBlockStep == ASSUME IInv, NEW t \in Threads, StoreTxBlock(t) PROVE Effect(t)
<1>1. /\ Locals /\ LocalInv(t, local[t]) /\ Pc(t) = "store" /\ OnlyTxBlockPool
      /\ tx_block_pool' = tx_block_pool \cup {Item(t)} /\ Done(t)
  BY DEF IInv, Locals, StoreTxBlock, At
<1>2. Item(t) \in TxBlocks
  BY <1>1 DEF LocalInv, TransactionInHand, Pc, Item
<1>3. Admits /\ PoolsOK' /\ OrphansOK' /\ LedgersSpared
  BY <1>1, <1>2 DEF OnlyTxBlockPool, Admits, IInv, SharedInv, PoolsOK, OrphansOK, LedgersSpared
<1>4. UNCHANGED <<chainVars, glob_state, tx_block_ref>> /\ tx_block_pool \subseteq tx_block_pool'
  BY <1>1 DEF OnlyTxBlockPool
<1> QED
  BY <1>1, <1>3, <1>4, DoneOK, QuietStep

LEMMA PruneStep == ASSUME IInv, NEW t \in Threads, Prune(t) PROVE Effect(t)
<1>1. /\ Locals /\ LocalInv(t, local[t]) /\ Pc(t) = "prune" /\ OnlyTxPool
      /\ tx_pool' \subseteq tx_pool /\ Goto(t, "state_write")
  BY DEF IInv, Locals, Prune, At
<1>2. Others(t) /\ local'[t] = [local[t] EXCEPT !.pc = "state_write"]
  BY <1>1, Goes
<1>3. LocalInv(t, local[t])' /\ local'[t].pc # "boot"
  BY <1>1, <1>2 DEF OnlyTxPool, chainVars, Pc, LocalInv, LocalTypeOK, BlockInHand, TransactionInHand,
     CandidateInHand, Joining, Joined, Picking, PCs, CommonPCs
<1>4. Admits /\ PoolsOK' /\ OrphansOK' /\ LedgersSpared
  BY <1>1 DEF OnlyTxPool, Admits, IInv, SharedInv, PoolsOK, OrphansOK, LedgersSpared
<1>5. UNCHANGED <<chainVars, glob_state, tx_block_ref>> /\ tx_block_pool \subseteq tx_block_pool'
  BY <1>1 DEF OnlyTxPool
<1> QED
  BY <1>2, <1>3, <1>4, <1>5, QuietStep

(* Steps that write an entry of glob_state or of tx_block_ref. *)
LEMMA WriteStep ==
  ASSUME IInv, NEW t \in Threads,
         UNCHANGED <<chainVars, orphan_handler, tx_pool, tx_block_pool, poisoned, inbox>>,
         \A b \in DOMAIN glob_state : b \in DOMAIN glob_state' /\ glob_state'[b] = glob_state[b],
         \A b \in DOMAIN tx_block_ref :
             b \in DOMAIN tx_block_ref' /\ tx_block_ref'[b] = tx_block_ref[b],
         RefsOK', StatesOK', BootInv', Others(t), LocalInv(t, local[t])'
  PROVE  Effect(t)
<1>1. Grow /\ Admits
  BY DEF Grow, Admits, chainVars
<1>2. ChainInv' /\ OrphansOK' /\ PoolsOK' /\ LedgersSpared
  BY DEF chainVars, IInv, SharedInv, ChainInv, ChainTypeOK, TipIsHighest, HeightsAddUp,
         OrphansOK, PoolsOK, LedgersSpared
<1>3. PublishedComplete'
  BY DEF chainVars, IInv, SharedInv, PublishedComplete
<1> QED
  BY <1>1, <1>2, <1>3 DEF Effect, SharedInv

LEMMA WriteRefsStep == ASSUME IInv, NEW t \in Threads, WriteRefs(t) PROVE Effect(t)
<1> DEFINE b == local[t].item
           R == local[t].refs
           l == IF t = Miner THEN "apply" ELSE "state_read"
<1>1. /\ Locals /\ LocalInv(t, local[t]) /\ Pc(t) = "ref_write" /\ OnlyRefs
      /\ tx_block_ref' = Put(tx_block_ref, b, R) /\ Goto(t, l)
  BY DEF IInv, Locals, WriteRefs, At, Item
<1>2. /\ b \in Children /\ Parent[b] \in DOMAIN tx_block_ref
      /\ R = RefsAfter(tx_block_ref[Parent[b]], b)
  BY <1>1 DEF LocalInv, BlockInHand, Joining, Pc
<1>3. b # Genesis /\ b \in ProposerBlocks /\ RefsOK
  BY <1>2 DEF Children, IInv, SharedInv
<1>4. b \in DOMAIN tx_block_ref => tx_block_ref[b] = R
  BY <1>2, <1>3 DEF RefsOK
<1>5. R \in SUBSET TxBlocks
  BY <1>2, <1>3, RefsAfterType DEF RefsOK
<1>6. Others(t) /\ local'[t] = [local[t] EXCEPT !.pc = l] /\ local'[t].pc = l
  BY <1>1, Goes
<1> HIDE DEF b, R
<1>7. /\ DOMAIN tx_block_ref' = DOMAIN tx_block_ref \cup {b} /\ tx_block_ref'[b] = R
      /\ \A c \in DOMAIN tx_block_ref : tx_block_ref'[c] = tx_block_ref[c]
  BY <1>1, <1>4 DEF Put
<1>8. RefsOK'
  BY <1>2, <1>3, <1>5, <1>7 DEF RefsOK
<1>9. StatesOK'
  BY <1>1 DEF OnlyRefs, IInv, SharedInv, StatesOK
<1>10. BootInv'
  <2>1. Miner \in Threads /\ l # "boot" /\ local[Miner].pc # "boot"
    BY <1>2 DEF IInv, BootInv, Threads, Pc
  <2>2. local'[Miner].pc # "boot"
    BY <1>6, <2>1 DEF Others
  <2> QED
    BY <2>2 DEF BootInv, Pc
<1>11. LocalInv(t, local[t])'
  <2> USE DEF b
  <2>1. /\ local'[t].pc = l /\ local'[t].item = b /\ local'[t].todo = local[t].todo
        /\ local'[t].state = local[t].state /\ LocalTypeOK(local[t])'
    BY <1>1, <1>6 DEF LocalInv, LocalTypeOK, PCs, WorkerPCs, MinerPCs
  <2>2. BlockInHand(local[t])'
    BY <1>1, <1>7, <2>1 DEF LocalInv, BlockInHand, Joining, Joined, Pc, OnlyRefs, chainVars
  <2>3. TransactionInHand(local[t])' /\ CandidateInHand(t, local[t])'
    BY <1>1, <2>1 DEF LocalInv, TransactionInHand, CandidateInHand, Picking, Pc, OnlyRefs
  <2> QED
    BY <2>1, <2>2, <2>3 DEF LocalInv
<1> QED
  BY <1>1, <1>6, <1>7, <1>8, <1>9, <1>10, <1>11, WriteStep DEF OnlyRefs

LEMMA WriteStateStep == ASSUME IInv, NEW t \in Threads, WriteState(t) PROVE Effect(t)
<1> DEFINE b == local[t].item
           S == local[t].state
<1>1. /\ Locals /\ LocalInv(t, local[t]) /\ Pc(t) = "state_write" /\ OnlyState
      /\ glob_state' = Put(glob_state, b, S) /\ Goto(t, "insert")
  BY DEF IInv, Locals, WriteState, At, Item
<1>2. /\ b \in Children /\ Parent[b] \in DOMAIN glob_state
      /\ S = LedgerAfter(glob_state[Parent[b]], b)
  BY <1>1 DEF LocalInv, BlockInHand, Joining, Pc
<1>3. b # Genesis /\ b \in ProposerBlocks /\ StatesOK
  BY <1>2 DEF Children, IInv, SharedInv
<1>4. b \in DOMAIN glob_state => glob_state[b] = S
  BY <1>2, <1>3 DEF StatesOK
<1>5. Others(t) /\ local'[t] = [local[t] EXCEPT !.pc = "insert"] /\ local'[t].pc = "insert"
  BY <1>1, Goes
<1> HIDE DEF b, S
<1>6. /\ DOMAIN glob_state' = DOMAIN glob_state \cup {b} /\ glob_state'[b] = S
      /\ \A c \in DOMAIN glob_state : glob_state'[c] = glob_state[c]
  BY <1>1, <1>4 DEF Put
<1>7. StatesOK'
  BY <1>2, <1>3, <1>6 DEF StatesOK
<1>8. RefsOK'
  BY <1>1 DEF OnlyState, IInv, SharedInv, RefsOK
<1>9. BootInv'
  <2>1. Miner \in Threads
    BY DEF Threads
  <2>2. local'[Miner].pc = local[Miner].pc \/ local'[Miner].pc = "insert"
    BY <1>5, <2>1 DEF Others
  <2> QED
    BY <1>1, <2>2 DEF IInv, BootInv, Pc, OnlyState
<1>10. LocalInv(t, local[t])'
  <2> USE DEF b
  <2>1. /\ local'[t].pc = "insert" /\ local'[t].item = b /\ local'[t].todo = local[t].todo
        /\ LocalTypeOK(local[t])'
    BY <1>1, <1>5 DEF LocalInv, LocalTypeOK, PCs, CommonPCs
  <2>2. BlockInHand(local[t])'
    BY <1>1, <1>6, <2>1 DEF LocalInv, BlockInHand, Joining, Joined, Pc, OnlyState, chainVars
  <2>3. TransactionInHand(local[t])' /\ CandidateInHand(t, local[t])'
    BY <2>1 DEF TransactionInHand, CandidateInHand, Picking
  <2> QED
    BY <2>1, <2>2, <2>3 DEF LocalInv
<1> QED
  BY <1>1, <1>5, <1>6, <1>7, <1>8, <1>9, <1>10, WriteStep DEF OnlyState

LEMMA StoreIcoStep == ASSUME IInv, NEW w \in Workers, StoreIco(w) PROVE Effect(w)
<1>1. /\ w \in Threads /\ w # Miner /\ Locals /\ OnlyState /\ Done(w)
      /\ glob_state' = Put(glob_state, Genesis, IcoState)
  BY LocalFacts DEF StoreIco
<1>2. Others(w) /\ LocalInv(w, local[w])'
  BY <1>1, DoneOK
<1>3. Genesis \in DOMAIN glob_state => glob_state[Genesis] = IcoState
  BY DEF IInv, SharedInv, StatesOK
<1>4. /\ DOMAIN glob_state' = DOMAIN glob_state \cup {Genesis} /\ glob_state'[Genesis] = IcoState
      /\ \A b \in DOMAIN glob_state : glob_state'[b] = glob_state[b]
  BY <1>1, <1>3 DEF Put
<1>5. StatesOK'
  BY <1>4, BlockAssumption DEF IInv, SharedInv, StatesOK
<1>6. RefsOK'
  BY <1>1 DEF OnlyState, IInv, SharedInv, RefsOK
<1>7. BootInv'
  BY <1>1, <1>2 DEF IInv, BootInv, Pc, OnlyState, Others, Threads
<1> QED
  BY <1>1, <1>2, <1>4, <1>5, <1>6, <1>7, WriteStep DEF OnlyState

LEMMA InsertBlockStep == ASSUME IInv, NEW t \in Threads, InsertBlock(t) PROVE Effect(t)
<1> DEFINE b == local[t].item
<1>1. /\ Locals /\ LocalInv(t, local[t]) /\ Pc(t) = "insert" /\ Insert(b)
      /\ UNCHANGED <<orphan_handler, tx_pool, glob_state, tx_block_pool, tx_block_ref,
                     poisoned, inbox>>
  BY DEF IInv, Locals, InsertBlock, At, Item
<1>2. /\ b \in Children /\ Parent[b] \in blocks
      /\ b \in DOMAIN glob_state /\ b \in DOMAIN tx_block_ref /\ Refs(b) \subseteq tx_block_pool
  BY <1>1 DEF LocalInv, BlockInHand, Joining, Pc
<1>3. ChainInv' /\ blocks' = blocks \cup {b}
  BY <1>1, <1>2, InsertInv DEF IInv, SharedInv, Insert
<1> HIDE DEF b
<1>4. Grow /\ Admits
  BY <1>1, <1>3 DEF Grow, Admits
<1>5. PublishedComplete'
  BY <1>1, <1>2, <1>3 DEF IInv, SharedInv, PublishedComplete
<1>6. OrphansOK' /\ RefsOK' /\ StatesOK' /\ PoolsOK' /\ LedgersSpared
  BY <1>1 DEF IInv, SharedInv, OrphansOK, RefsOK, StatesOK, PoolsOK, LedgersSpared
<1>7. SharedInv'
  BY <1>3, <1>5, <1>6 DEF SharedInv
<1>8. CASE t = Miner
  <2>1. Others(t) /\ LocalInv(t, local[t])' /\ local'[t].pc # "boot"
    BY <1>1, <1>8, DoneOK DEF InsertBlock
  <2>2. BootInv'
    BY <1>8, <2>1 DEF BootInv, Pc
  <2> QED
    BY <1>4, <1>6, <1>7, <2>1, <2>2 DEF Effect
<1>9. CASE t # Miner
  <2>1. Others(t) /\ local'[t] = [local[t] EXCEPT !.pc = "np_check"] /\ local'[t].pc = "np_check"
    BY <1>1, <1>9, Goes DEF InsertBlock
  <2>2. /\ local'[t].item = b /\ local'[t].todo = local[t].todo /\ LocalTypeOK(local[t])'
    BY <1>1, <2>1 DEF b, LocalInv, LocalTypeOK, PCs, WorkerPCs
  <2>3. BlockInHand(local[t])'
    BY <1>1, <1>2, <1>3, <2>1, <2>2 DEF LocalInv, BlockInHand, Joining, Joined, Pc
  <2>4. TransactionInHand(local[t])' /\ CandidateInHand(t, local[t])'
    BY <2>1 DEF TransactionInHand, CandidateInHand, Picking
  <2>5. BootInv'
    BY <1>1, <1>9, <2>1 DEF IInv, BootInv, Pc, Others, Threads
  <2> QED
    BY <1>4, <1>6, <1>7, <2>1, <2>2, <2>3, <2>4, <2>5 DEF Effect, LocalInv
<1> QED
  BY <1>8, <1>9
-----------------------------------------------------------------------------
(* The miner. *)
LEMMA MinerFacts ==
  ASSUME IInv
  PROVE  Miner \in Threads /\ LocalInv(Miner, local[Miner]) /\ Locals
  BY DEF Threads, IInv, Locals

LEMMA BootMinerStep == ASSUME IInv, BootMiner PROVE Effect(Miner)
<1>1. /\ Miner \in Threads /\ LocalInv(Miner, local[Miner]) /\ Locals
      /\ Pc(Miner) = "boot" /\ OnlyRefs /\ Goto(Miner, "paused")
      /\ tx_block_ref' = Put(tx_block_ref, tip_node_hash, {})
  BY MinerFacts DEF BootMiner, At
<1>2. DOMAIN tx_block_ref = {}
  BY <1>1 DEF IInv, BootInv
<1>3. blocks \ {Genesis} = {} /\ tip_node_hash \in blocks
  BY <1>2 DEF IInv, SharedInv, ChainInv, ChainTypeOK, PublishedComplete
<1>4. tip_node_hash = Genesis
  BY <1>3
<1>5. DOMAIN tx_block_ref' = {Genesis} /\ tx_block_ref'[Genesis] = {}
  BY <1>1, <1>2, <1>4 DEF Put
<1>6. RefsOK'
  BY <1>5, BlockAssumption DEF RefsOK
<1>7. StatesOK'
  BY <1>1 DEF OnlyRefs, IInv, SharedInv, StatesOK
<1>8. Others(Miner) /\ local'[Miner] = [local[Miner] EXCEPT !.pc = "paused"] /\ local'[Miner].pc = "paused"
  BY <1>1, Goes
<1>9. BootInv'
  BY <1>8 DEF BootInv, Pc
<1>10. LocalInv(Miner, local[Miner])'
  BY <1>1, <1>8 DEF LocalInv, LocalTypeOK, BlockInHand, TransactionInHand, CandidateInHand,
     Joining, Joined, Picking, PCs, MinerPCs
<1> QED
  BY <1>1, <1>2, <1>6, <1>7, <1>8, <1>9, <1>10, WriteStep DEF OnlyRefs

LEMMA StartMinerStep == ASSUME IInv, StartMiner PROVE Effect(Miner)
<1>1. /\ Miner \in Threads /\ LocalInv(Miner, local[Miner]) /\ Locals
      /\ OnlyLocal /\ Goto(Miner, "tip")
  BY MinerFacts DEF StartMiner
<1>2. Others(Miner) /\ local'[Miner] = [local[Miner] EXCEPT !.pc = "tip"] /\ local'[Miner].pc = "tip"
  BY <1>1, Goes
<1>3. LocalInv(Miner, local[Miner])'
  BY <1>1, <1>2 DEF LocalInv, LocalTypeOK, BlockInHand, TransactionInHand, CandidateInHand,
     Joining, Joined, Picking, PCs, MinerPCs
<1> QED
  BY <1>1, <1>2, <1>3, LocalStep

LEMMA ReadTipStep == ASSUME IInv, ReadTip PROVE Effect(Miner)
<1> DEFINE r == [Blank("m_state") EXCEPT !.base = tip_node_hash]
<1>1. Miner \in Threads /\ Locals /\ OnlyLocal /\ Become(Miner, r)
  BY MinerFacts DEF ReadTip
<1>2. Others(Miner) /\ local'[Miner] = r
  BY <1>1, Becomes
<1>3. tip_node_hash \in blocks /\ blocks' = blocks /\ blocks \subseteq ProposerBlocks
  BY <1>1 DEF IInv, SharedInv, ChainInv, ChainTypeOK, OnlyLocal, chainVars
<1>4. /\ LocalTypeOK(local[Miner])' /\ local'[Miner].pc = "m_state"
      /\ local'[Miner].base \in blocks' /\ local'[Miner].todo = <<>>
      /\ local'[Miner].content = {} /\ local'[Miner].props = {}
  <2>1. local'[Miner] = [pc |-> "m_state", item |-> Genesis, todo |-> <<>>, base |-> tip_node_hash,
                         refs |-> {}, state |-> {}, content |-> {}, props |-> {}]
    BY <1>2 DEF Blank
  <2>2. "m_state" \in PCs /\ <<>> \in Seq(Txs)
    BY DEF PCs, MinerPCs
  <2> QED
    BY <1>3, <2>1, <2>2, BlockAssumption DEF LocalTypeOK
<1>5. LocalInv(Miner, local[Miner])'
  BY <1>4 DEF LocalInv, BlockInHand, TransactionInHand, CandidateInHand, Joining, Joined, Picking
<1> QED
  BY <1>1, <1>2, <1>4, <1>5, LocalStep

LEMMA ReadTipStateStep == ASSUME IInv, ReadTipState PROVE Effect(Miner)
<1> DEFINE l == Loop("m_pool", "m_refs")
<1> DEFINE S == glob_state[local[Miner].base]
<1>1. /\ Miner \in Threads /\ LocalInv(Miner, local[Miner]) /\ Locals
      /\ Pc(Miner) = "m_state" /\ OnlyLocal /\ KeyMissing(Miner) = {}
  BY MinerFacts DEF ReadTipState, At
<1>2. Others(Miner) /\ local'[Miner] = [local[Miner] EXCEPT !.state = S, !.pc = l]
  BY <1>1 DEF ReadTipState, Locals, Others
<1>3. local[Miner].base \in DOMAIN glob_state
  BY <1>1, Indexable
<1>6. l \in {"m_refs", "m_pool"}
  BY DEF Loop
<1> HIDE DEF S, l
<1>4. /\ LocalTypeOK(local[Miner])' /\ local'[Miner].pc = l /\ local'[Miner].state = S
      /\ local'[Miner].base = local[Miner].base /\ local'[Miner].todo = local[Miner].todo
      /\ local'[Miner].content = local[Miner].content /\ local'[Miner].props = local[Miner].props
  BY <1>1, <1>2, <1>6 DEF LocalInv, LocalTypeOK, PCs, MinerPCs
<1>5. LocalInv(Miner, local[Miner])'
  BY <1>1, <1>3, <1>4, <1>6 DEF S, LocalInv, BlockInHand, TransactionInHand, CandidateInHand, Joining, Joined,
     Picking, Pc, OnlyLocal, chainVars
<1> QED
  BY <1>1, <1>2, <1>4, <1>5, <1>6, LocalStep

LEMMA PickSubset == ASSUME NEW S, NEW n, NEW P \in Pick(S, n) PROVE P \subseteq S
  BY DEF Pick

LEMMA PickTransactionsStep == ASSUME IInv, PickTransactions PROVE Effect(Miner)
<1> DEFINE Offered == {x \in tx_pool : Unspent(local[Miner].state, x)}
<1>1. /\ Miner \in Threads /\ LocalInv(Miner, local[Miner]) /\ Locals
      /\ Pc(Miner) = "m_pool" /\ OnlyLocal
  BY MinerFacts DEF PickTransactions, At
<1>2. PICK P \in Pick(Offered, NumTx) :
          local' = [local EXCEPT ![Miner].content = P, ![Miner].pc = "m_refs"]
  BY DEF PickTransactions
<1>3. P \subseteq Txs /\ \A x \in P : Unspent(local[Miner].state, x)
  <2>1. P \subseteq Offered
    BY <1>2, PickSubset
  <2> QED
    BY <2>1 DEF IInv, SharedInv, PoolsOK
<1>4. Others(Miner) /\ local'[Miner] = [local[Miner] EXCEPT !.content = P, !.pc = "m_refs"]
  BY <1>1, <1>2 DEF Locals, Others
<1>5. /\ LocalTypeOK(local[Miner])' /\ local'[Miner].pc = "m_refs" /\ local'[Miner].content = P
      /\ local'[Miner].state = local[Miner].state /\ local'[Miner].props = local[Miner].props
      /\ local'[Miner].base = local[Miner].base /\ local'[Miner].todo = local[Miner].todo
  BY <1>1, <1>3, <1>4 DEF LocalInv, LocalTypeOK, PCs, MinerPCs
<1>6. LocalInv(Miner, local[Miner])'
  BY <1>1, <1>3, <1>5 DEF LocalInv, BlockInHand, TransactionInHand, CandidateInHand, Joining, Joined,
     Picking, Pc, OnlyLocal, chainVars
<1> QED
  BY <1>1, <1>4, <1>5, <1>6, LocalStep

LEMMA ReadTipRefsStep == ASSUME IInv, ReadTipRefs PROVE Effect(Miner)
<1> DEFINE l == Loop("m_blocks", "seal")
<1> DEFINE R == tx_block_ref[local[Miner].base]
<1>1. /\ Miner \in Threads /\ LocalInv(Miner, local[Miner]) /\ Locals
      /\ Pc(Miner) = "m_refs" /\ OnlyLocal /\ KeyMissing(Miner) = {}
  BY MinerFacts DEF ReadTipRefs, At
<1>2. Others(Miner) /\ local'[Miner] = [local[Miner] EXCEPT !.refs = R, !.pc = l]
  BY <1>1 DEF ReadTipRefs, Locals, Others
<1>3. local[Miner].base \in DOMAIN tx_block_ref /\ R \in SUBSET TxBlocks
  BY <1>1, Indexable DEF IInv, SharedInv, RefsOK
<1>6. l \in {"seal", "m_blocks"}
  BY DEF Loop
<1> HIDE DEF R, l
<1>4. /\ LocalTypeOK(local[Miner])' /\ local'[Miner].pc = l /\ local'[Miner].refs = R
      /\ local'[Miner].content = local[Miner].content /\ local'[Miner].state = local[Miner].state
      /\ local'[Miner].base = local[Miner].base /\ local'[Miner].todo = local[Miner].todo
      /\ local'[Miner].props = local[Miner].props
  BY <1>1, <1>2, <1>3, <1>6 DEF LocalInv, LocalTypeOK, PCs, MinerPCs
<1>5. LocalInv(Miner, local[Miner])'
  BY <1>1, <1>3, <1>4, <1>6 DEF R, LocalInv, BlockInHand, TransactionInHand, CandidateInHand, Joining, Joined,
     Picking, Pc, OnlyLocal, chainVars
<1> QED
  BY <1>1, <1>2, <1>4, <1>5, <1>6, LocalStep

LEMMA PickTxBlocksStep == ASSUME IInv, PickTxBlocks PROVE Effect(Miner)
<1>1. /\ Miner \in Threads /\ LocalInv(Miner, local[Miner]) /\ Locals
      /\ Pc(Miner) = "m_blocks" /\ OnlyLocal
  BY MinerFacts DEF PickTxBlocks, At
<1>2. PICK P \in Pick(tx_block_pool \ local[Miner].refs, NumRef) :
          local' = [local EXCEPT ![Miner].props = P, ![Miner].pc = "seal"]
  BY DEF PickTxBlocks
<1>3. P \subseteq tx_block_pool /\ P \subseteq TxBlocks
  BY <1>2, PickSubset DEF IInv, SharedInv, PoolsOK
<1>4. Others(Miner) /\ local'[Miner] = [local[Miner] EXCEPT !.props = P, !.pc = "seal"]
  BY <1>1, <1>2 DEF Locals, Others
<1>5. /\ LocalTypeOK(local[Miner])' /\ local'[Miner].pc = "seal" /\ local'[Miner].props = P
      /\ local'[Miner].refs = local[Miner].refs
      /\ local'[Miner].content = local[Miner].content /\ local'[Miner].state = local[Miner].state
      /\ local'[Miner].base = local[Miner].base /\ local'[Miner].todo = local[Miner].todo
  BY <1>1, <1>3, <1>4 DEF LocalInv, LocalTypeOK, PCs, MinerPCs
<1>6. LocalInv(Miner, local[Miner])'
  BY <1>1, <1>3, <1>5 DEF LocalInv, BlockInHand, TransactionInHand, CandidateInHand, Joining, Joined,
     Picking, Pc, OnlyLocal, chainVars
<1> QED
  BY <1>1, <1>4, <1>5, <1>6, LocalStep

LEMMA MineNothingStep == ASSUME IInv, MineNothing PROVE Effect(Miner)
  BY MinerFacts, DoneOK, LocalStep DEF MineNothing

LEMMA MineTxBlockStep ==
  ASSUME IInv, NEW b \in TxBlocks, MineTxBlock(b) PROVE Effect(Miner)
<1>1. Miner \in Threads /\ Locals /\ OnlyLocal /\ Become(Miner, Clearing(b))
  BY MinerFacts DEF MineTxBlock
<1>2. Others(Miner) /\ local'[Miner] = Clearing(b)
  BY <1>1, Becomes
<1> QED
  BY <1>1, <1>2, ClearingOK, LocalStep

LEMMA MineProposerBlockStep ==
  ASSUME IInv, NEW b \in Children, MineProposerBlock(b) PROVE Effect(Miner)
<1> DEFINE R == RefsAfter(local[Miner].refs, b)
<1>1. /\ Miner \in Threads /\ LocalInv(Miner, local[Miner]) /\ Locals
      /\ Pc(Miner) = "seal" /\ OnlyLocal /\ Parent[b] = local[Miner].base
      /\ Refs(b) = local[Miner].props
  BY MinerFacts DEF MineProposerBlock, At, Lists, Refs
<1>2. Others(Miner) /\ local'[Miner] = [local[Miner] EXCEPT !.item = b, !.refs = R, !.pc = "ref_write"]
  BY <1>1 DEF MineProposerBlock, Locals, Others
<1>3. /\ Parent[b] \in blocks /\ Refs(b) \subseteq tx_block_pool /\ local[Miner].todo = <<>>
      /\ Parent[b] \in DOMAIN glob_state /\ local[Miner].state = glob_state[Parent[b]]
      /\ Parent[b] \in DOMAIN tx_block_ref /\ local[Miner].refs = tx_block_ref[Parent[b]]
  BY <1>1 DEF LocalInv, CandidateInHand, Picking, Pc
<1>4. R \in SUBSET TxBlocks /\ R = RefsAfter(tx_block_ref[Parent[b]], b)
  BY <1>1, <1>3, RefsAfterType DEF LocalInv, LocalTypeOK
<1> HIDE DEF R
<1>5. /\ LocalTypeOK(local[Miner])' /\ local'[Miner].pc = "ref_write" /\ local'[Miner].item = b
      /\ local'[Miner].refs = R /\ local'[Miner].state = local[Miner].state
      /\ local'[Miner].todo = local[Miner].todo
  BY <1>1, <1>2, <1>4 DEF LocalInv, LocalTypeOK, PCs, CommonPCs, Children
<1>6. BlockInHand(local[Miner])'
  <2>1. <<>> \in Seq(Children) /\ DOMAIN <<>> = {}
    OBVIOUS
  <2> QED
    BY <1>1, <1>3, <1>4, <1>5, <2>1 DEF BlockInHand, Joining, Joined, OnlyLocal, chainVars
<1>7. TransactionInHand(local[Miner])' /\ CandidateInHand(Miner, local[Miner])'
  BY <1>1, <1>3, <1>5 DEF TransactionInHand, CandidateInHand, Picking, OnlyLocal
<1> QED
  BY <1>1, <1>2, <1>5, <1>6, <1>7, LocalStep DEF LocalInv

LEMMA ApplyMinedStep == ASSUME IInv, ApplyMined PROVE Effect(Miner)
<1> DEFINE l == Loop("prune", "state_write")
<1> DEFINE S == LedgerAfter(local[Miner].state, Item(Miner))
<1>1. /\ Miner \in Threads /\ LocalInv(Miner, local[Miner]) /\ Locals
      /\ Pc(Miner) = "apply" /\ OnlyLocal
  BY MinerFacts DEF ApplyMined, At
<1>2. Others(Miner) /\ local'[Miner] = [local[Miner] EXCEPT !.state = S, !.pc = l]
  BY <1>1 DEF ApplyMined, Locals, Others
<1>3. /\ Parent[local[Miner].item] \in DOMAIN glob_state
      /\ S = LedgerAfter(glob_state[Parent[local[Miner].item]], local[Miner].item)
  BY <1>1 DEF LocalInv, CandidateInHand, Pc, Item
<1>6. l \in {"state_write", "prune"}
  BY DEF Loop
<1> HIDE DEF S, l
<1>4. /\ LocalTypeOK(local[Miner])' /\ local'[Miner].pc = l /\ local'[Miner].state = S
      /\ local'[Miner].item = local[Miner].item /\ local'[Miner].todo = local[Miner].todo
  BY <1>1, <1>2, <1>6 DEF LocalInv, LocalTypeOK, PCs, CommonPCs
<1>5. LocalInv(Miner, local[Miner])'
  BY <1>1, <1>3, <1>4, <1>6 DEF LocalInv, BlockInHand, TransactionInHand, CandidateInHand, Joining, Joined,
     Picking, Pc, OnlyLocal, chainVars
<1> QED
  BY <1>1, <1>2, <1>4, <1>5, <1>6, LocalStep
-----------------------------------------------------------------------------
(* Every thread, every step. *)
LEMMA ReceiveStepOK == ASSUME IInv, NEW w \in Workers, ReceiveStep(w) PROVE Effect(w)
  BY ReceivePanicsStep, AnnouncementStep, ReceiveProposerBlockStep, TransactionBlocksStep,
     GetTransactionsStep, TransactionsStep, ICOStep
  DEF ReceiveStep, NewProposerBlockHashes, NewTransactionBlockHashes, NewTransactionHashes

LEMMA CommonStepOK == ASSUME IInv, NEW t \in Threads, CommonStep(t) PROVE Effect(t)
  BY ClearTransactionStep, StoreTxBlockStep, WriteRefsStep, PruneStep, WriteStateStep,
     InsertBlockStep, IndexPanicsStep, LockPanicsStep DEF CommonStep

LEMMA WorkerStepOK == ASSUME IInv, NEW w \in Workers, WorkerStep(w) PROVE Effect(w)
<1>1. CASE ReceiveStep(w)
  BY <1>1, ReceiveStepOK
<1>2. CASE ProposerBlockStep(w)
  BY <1>2, FindParentStep, FindOrphansStep, PushOrphanStep, NewOrphanStep, VerifyStep,
     ReadRefsStep, ReadStateStep, NewParentStep, TakeOrphansStep, RemoveOrphansStep
  DEF ProposerBlockStep
<1>3. CASE TransactionStep(w)
  BY <1>3, SendTransactionStep, StoreIcoStep, CheckTransactionStep, CheckInputsStep,
     AddTransactionStep DEF TransactionStep
<1>4. CASE CommonStep(w)
  BY <1>4, CommonStepOK DEF Threads
<1> QED
  BY <1>1, <1>2, <1>3, <1>4 DEF WorkerStep

LEMMA MinerStepOK == ASSUME IInv, MinerStep PROVE Effect(Miner)
  BY BootMinerStep, StartMinerStep, ReadTipStep, ReadTipStateStep, PickTransactionsStep,
     ReadTipRefsStep, PickTxBlocksStep, MineNothingStep, ApplyMinedStep, MineProposerBlockStep,
     MineTxBlockStep DEF MinerStep

LEMMA StepEffect == ASSUME IInv, NodeNext PROVE \E t \in Threads : Effect(t)
  BY WorkerStepOK, MinerStepOK, CommonStepOK DEF NodeNext, Threads

(* The invariant is inductive. *)
LEMMA InitInv == NodeInit => IInv
<1> SUFFICES ASSUME NodeInit PROVE IInv
  OBVIOUS
<1>1. ChainInv /\ blocks = {Genesis}
  BY ChainInitInv DEF NodeInit, ChainInit
<1>2. OrphansOK /\ PoolsOK
  BY NodeAssumption DEF NodeInit, OrphansOK, PoolsOK
<1>3. RefsOK /\ StatesOK
  BY BlockAssumption DEF NodeInit, RefsOK, StatesOK
<1>4. PublishedComplete
  BY <1>1 DEF NodeInit, PublishedComplete
<1>5. \A t \in Threads : local[t] = Blank(IF t # Miner THEN "recv"
                                          ELSE IF ~ StartedUp THEN "boot"
                                          ELSE IF MayMine THEN "paused" ELSE "idle")
  BY DEF NodeInit
<1>6. BootInv
  <2>1. ASSUME StartedUp PROVE local[Miner] \in {Blank("paused"), Blank("idle")}
    BY <1>5, <2>1 DEF Threads
  <2>2. StartedUp => Pc(Miner) # "boot"
    BY <2>1 DEF Pc, Blank
  <2> QED
    BY <2>2 DEF NodeInit, BootInv
<1>7. ASSUME NEW t \in Threads PROVE LocalInv(t, local[t])
  <2>1. PICK l \in Idle : local[t] = Blank(l)
    BY <1>5 DEF Idle
  <2> QED
    BY <2>1, BlankInv
<1>8. Locals
  BY <1>7 DEF NodeInit, Locals
<1> QED
  BY <1>1, <1>2, <1>3, <1>4, <1>6, <1>8 DEF IInv, SharedInv

LEMMA NextInv == ASSUME IInv, [NodeNext]_nodeVars PROVE IInv'
<1>1. CASE NodeNext
  <2>1. PICK t \in Threads : Effect(t)
    BY <1>1, StepEffect
  <2>2. Locals'
    BY <2>1, LocalsKept DEF Effect, IInv
  <2> QED
    BY <2>1, <2>2 DEF Effect, IInv
<1>2. CASE UNCHANGED nodeVars
  BY <1>2 DEF nodeVars, chainVars, IInv, SharedInv, ChainInv, ChainTypeOK, TipIsHighest,
     HeightsAddUp, OrphansOK, RefsOK, StatesOK, PoolsOK, PublishedComplete,
     BootInv, Pc, Locals, LocalInv, LocalTypeOK, BlockInHand,
     TransactionInHand, CandidateInHand
<1> QED
  BY <1>1, <1>2

(* IInv holds throughout: the tree, the maps and what every thread has in   *)
(* hand fit each other after every step of every thread.                    *)
THEOREM Consistent == NodeSpec => []IInv
  BY InitInv, NextInv, PTL DEF NodeSpec
-----------------------------------------------------------------------------
(* A node's variables keep their types, for any number of threads. *)
THEOREM NodeTypeCorrect == NodeSpec => []NodeTypeOK
<1>1. IInv => NodeTypeOK
  BY DEF IInv, SharedInv, ChainInv, OrphansOK, RefsOK, StatesOK, PoolsOK, Locals, LocalInv, NodeTypeOK
<1> QED
  BY <1>1, Consistent, PTL

(* A block in the tree has its ledger state, its references, and the        *)
(* transaction blocks it references, whatever the threads are in the middle *)
(* of, and whichever of them has died.                                      *)
THEOREM PublishedCompleteCorrect == NodeSpec => []PublishedComplete
<1>1. IInv => PublishedComplete
  BY DEF IInv, SharedInv
<1> QED
  BY <1>1, Consistent, PTL

(* Once the genesis block has its state and its references, no messages can *)
(* poison the ledger states, the references or the tree.                    *)
THEOREM WarmNodeKeepsLedgerCorrect == NodeSpec => WarmNodeKeepsLedger
<1>1. ASSUME IInv, [NodeNext]_nodeVars PROVE [LedgersSpared]_nodeVars
  BY <1>1, StepEffect DEF Effect
<1> QED
  BY <1>1, Consistent, PTL DEF NodeSpec, WarmNodeKeepsLedger

(* What the miner is about to hash is unspent in the state of its parent.   *)
THEOREM MinerSnapshotCorrect == NodeSpec => []MinerSnapshot
<1>1. IInv => MinerSnapshot
  BY DEF IInv, Locals, LocalInv, CandidateInHand, Picking, MinerSnapshot, Threads, Pc
<1> QED
  BY <1>1, Consistent, PTL

(* A ledger state or a list of references, once written, stays.             *)
THEOREM WriteOnceCorrect == NodeSpec => WriteOnce
<1>1. ASSUME IInv, NodeNext PROVE Grow
  BY <1>1, StepEffect DEF Effect
<1>2. ASSUME IInv, [NodeNext]_nodeVars
      PROVE  [ /\ \A b \in DOMAIN glob_state :
                     b \in DOMAIN glob_state' /\ glob_state'[b] = glob_state[b]
               /\ \A b \in DOMAIN tx_block_ref :
                     b \in DOMAIN tx_block_ref' /\ tx_block_ref'[b] = tx_block_ref[b] ]_nodeVars
  BY <1>1, <1>2 DEF Grow
<1> QED
  BY <1>2, Consistent, PTL DEF NodeSpec, WriteOnce

(* A transaction enters the pool only if it is admissible in the ledger     *)
(* state of some block of the tree.                                         *)
THEOREM AdmittedOnTreeCorrect == NodeSpec => AdmittedOnTree
<1>1. ASSUME IInv, NodeNext PROVE Admits
  BY <1>1, StepEffect DEF Effect
<1>2. ASSUME IInv, [NodeNext]_nodeVars
      PROVE  [ \A x \in tx_pool' \ tx_pool :
                 \E b \in blocks \cap DOMAIN glob_state : Admissible(glob_state[b], x) ]_nodeVars
  BY <1>1, <1>2 DEF Admits
<1> QED
  BY <1>2, Consistent, PTL DEF NodeSpec, AdmittedOnTree
-----------------------------------------------------------------------------
(* A node's three maps, each under a mutex of its own, implement the atomic *)
(* chain: what a reader finds for the blocks of the tree is what it would   *)
(* find if each block came with its state and references in one step.  The  *)
(* invariant says what has been written when a block joins the tree.        *)

(* The two maps as far as blocks of the tree are concerned. *)
States == [b \in DOMAIN glob_state \cap blocks |-> glob_state[b]]
References == [b \in DOMAIN tx_block_ref \cap blocks |-> tx_block_ref[b]]

(* A step that leaves the three maps alone is a stutter. *)
Hidden == UNCHANGED <<chainVars, glob_state, tx_block_ref>>

LEMMA HiddenStutters == ASSUME Hidden PROVE UNCHANGED Atomic!atomicVars
  BY DEF Hidden, chainVars, Atomic!atomicVars

(* Only five actions write the maps. *)
Writes(t) == WriteRefs(t) \/ WriteState(t) \/ InsertBlock(t)

LEMMA WorkerHides ==
  ASSUME NEW w \in Workers, WorkerStep(w) PROVE Hidden \/ Writes(w) \/ StoreIco(w)
  BY DEF WorkerStep, ReceiveStep, ProposerBlockStep, TransactionStep, CommonStep, Writes, Hidden,
     OnlyLocal, OnlyInbox, OnlyOrphans, OnlyTxPool, OnlyTxBlockPool, OnlyPoison,
     NewProposerBlockHashes, NewTransactionBlockHashes, NewTransactionHashes, Announcement,
     ReceiveProposerBlock, TransactionBlocks, GetTransactions, Transactions, ICO, Handle,
     ReceivePanics, FindParent, FindOrphans, PushOrphan, NewOrphan, Verify, ReadRefs, ReadState,
     NewParent, TakeOrphans, RemoveOrphans, SendTransaction, CheckTransaction, CheckInputs,
     AddTransaction, ClearTransaction, StoreTxBlock, Prune, IndexPanics, LockPanics

LEMMA MinerHides ==
  ASSUME MinerStep \/ CommonStep(Miner) PROVE Hidden \/ Writes(Miner) \/ BootMiner
  BY DEF MinerStep, CommonStep, Writes, Hidden, OnlyLocal, OnlyTxPool, OnlyTxBlockPool, OnlyPoison,
     StartMiner, ReadTip, ReadTipState, PickTransactions, ReadTipRefs, PickTxBlocks, MineNothing,
     ApplyMined, MineProposerBlock, MineTxBlock, ClearTransaction, StoreTxBlock, Prune,
     IndexPanics, LockPanics
-----------------------------------------------------------------------------
(* Until its block is in the tree, what a thread writes is hidden; if       *)
(* another thread has inserted it by then, it is what is there already.     *)
LEMMA WriteRefsStutters ==
  ASSUME IInv, NEW t \in Threads, WriteRefs(t) PROVE UNCHANGED Atomic!atomicVars
<1> DEFINE b == local[t].item
<1>1. /\ UNCHANGED <<chainVars, glob_state>> /\ Grow
      /\ DOMAIN tx_block_ref' = DOMAIN tx_block_ref \cup {b}
  BY WriteRefsStep DEF WriteRefs, OnlyRefs, Item, Put, Effect
<1>2. b \in blocks => b \in DOMAIN tx_block_ref
  <2>1. b \in Children
    BY DEF IInv, Locals, LocalInv, BlockInHand, Joining, WriteRefs, At, Pc
  <2> QED
    BY <2>1 DEF IInv, SharedInv, PublishedComplete, Children
<1> HIDE DEF b
<1>3. DOMAIN tx_block_ref' \cap blocks' = DOMAIN tx_block_ref \cap blocks
  BY <1>1, <1>2 DEF chainVars
<1>4. References' = References
  BY <1>1, <1>3 DEF References, Grow
<1> QED
  BY <1>1, <1>4 DEF References, chainVars, Atomic!atomicVars

LEMMA WriteStateStutters ==
  ASSUME IInv, NEW t \in Threads, WriteState(t) PROVE UNCHANGED Atomic!atomicVars
<1> DEFINE b == local[t].item
<1>1. /\ UNCHANGED <<chainVars, tx_block_ref>> /\ Grow
      /\ DOMAIN glob_state' = DOMAIN glob_state \cup {b}
  BY WriteStateStep DEF WriteState, OnlyState, Item, Put, Effect
<1>2. b \in blocks => b \in DOMAIN glob_state
  <2>1. b \in Children
    BY DEF IInv, Locals, LocalInv, BlockInHand, Joining, WriteState, At, Pc
  <2> QED
    BY <2>1 DEF IInv, SharedInv, PublishedComplete, Children
<1> HIDE DEF b
<1>3. DOMAIN glob_state' \cap blocks' = DOMAIN glob_state \cap blocks
  BY <1>1, <1>2 DEF chainVars
<1>4. States' = States
  BY <1>1, <1>3 DEF States, Grow
<1> QED
  BY <1>1, <1>4 DEF States, chainVars, Atomic!atomicVars

(* The ICO, at most once; the start of the miner thread.                    *)
LEMMA StoreIcoAbstract ==
  ASSUME IInv, NEW w \in Workers, StoreIco(w) PROVE [Atomic!AtomicNext]_Atomic!atomicVars
<1>1. /\ UNCHANGED <<chainVars, tx_block_ref>> /\ Grow
      /\ glob_state' = Put(glob_state, Genesis, IcoState)
  BY StoreIcoStep DEF StoreIco, OnlyState, Effect
<1>2. Genesis \in blocks /\ blocks' = blocks
  BY <1>1 DEF IInv, SharedInv, ChainInv, TipIsHighest, chainVars
<1>3. CASE Genesis \in DOMAIN glob_state
  <2>1. DOMAIN glob_state' = DOMAIN glob_state
    BY <1>1, <1>3 DEF Put
  <2>2. States' = States
    BY <1>1, <1>2, <2>1 DEF States, Grow
  <2> QED
    BY <1>1, <2>2 DEF States, chainVars, Atomic!atomicVars
<1>4. CASE Genesis \notin DOMAIN glob_state
  <2>1. DOMAIN glob_state = {}
    BY <1>4 DEF IInv, SharedInv, StatesOK
  <2>2. States = Atomic!EmptyMap
    BY <2>1 DEF States, Atomic!EmptyMap
  <2>3. DOMAIN glob_state' = {Genesis} /\ glob_state'[Genesis] = IcoState
    BY <1>1, <2>1 DEF Put
  <2>4. States' = Atomic!GenesisMap(IcoState)
    BY <1>2, <2>3 DEF States, Atomic!GenesisMap
  <2>5. Atomic!InitialCoinOffering
    BY <1>1, <2>2, <2>4 DEF States, chainVars, Atomic!InitialCoinOffering
  <2> QED
    BY <2>5 DEF Atomic!AtomicNext
<1> QED
  BY <1>3, <1>4

LEMMA BootMinerAbstract == ASSUME IInv, BootMiner PROVE Atomic!StartMining
<1>1. /\ UNCHANGED <<chainVars, glob_state>> /\ Pc(Miner) = "boot"
      /\ tx_block_ref' = Put(tx_block_ref, tip_node_hash, {})
  BY DEF BootMiner, OnlyRefs, At
<1>2. DOMAIN tx_block_ref = {}
  BY <1>1 DEF IInv, BootInv
<1>3. Genesis \in blocks /\ blocks' = blocks /\ tip_node_hash \in blocks /\ blocks \ {Genesis} = {}
  BY <1>1, <1>2 DEF IInv, SharedInv, ChainInv, ChainTypeOK, TipIsHighest, PublishedComplete, chainVars
<1>4. tip_node_hash = Genesis
  BY <1>3
<1>5. References = Atomic!EmptyMap
  BY <1>2 DEF References, Atomic!EmptyMap
<1>6. DOMAIN tx_block_ref' = {Genesis} /\ tx_block_ref'[Genesis] = {}
  BY <1>1, <1>2, <1>4 DEF Put
<1>7. References' = Atomic!GenesisMap({})
  BY <1>3, <1>6 DEF References, Atomic!GenesisMap
<1> QED
  BY <1>1, <1>5, <1>7 DEF References, chainVars, Atomic!StartMining

(* The insertion publishes the block with what was written before. *)
LEMMA InsertBlockAbstract ==
  ASSUME IInv, NEW t \in Threads, InsertBlock(t) PROVE [Atomic!AtomicNext]_Atomic!atomicVars
<1>1. /\ UNCHANGED <<glob_state, tx_block_ref>> /\ Insert(local[t].item) /\ Pc(t) = "insert"
  BY DEF InsertBlock, At, Item
<1>2. PICK b \in Children : b = local[t].item
  BY <1>1 DEF IInv, Locals, LocalInv, BlockInHand, Joining, Pc
<1>3. Insert(b)
  BY <1>1, <1>2
<1>4. Parent[b] \in blocks /\ b \in DOMAIN glob_state /\ b \in DOMAIN tx_block_ref
  BY <1>1, <1>2 DEF IInv, Locals, LocalInv, BlockInHand, Joining, Pc
<1>5. CASE b \in blocks
  <2>1. UNCHANGED chainVars
    BY <1>3, <1>5, InsertAgain DEF IInv, SharedInv
  <2> QED
    BY <1>1, <2>1, HiddenStutters DEF Hidden
<1>6. CASE b \notin blocks
  <2>1. /\ Parent[b] \in DOMAIN glob_state /\ glob_state[b] = LedgerAfter(glob_state[Parent[b]], b)
        /\ Parent[b] \in DOMAIN tx_block_ref /\ tx_block_ref[b] = RefsAfter(tx_block_ref[Parent[b]], b)
    BY <1>4 DEF IInv, SharedInv, StatesOK, RefsOK, Children
  <2>2. blocks' = blocks \cup {b} /\ heights' = Atomic!With(heights, b, heights[Parent[b]] + 1)
    BY <1>3 DEF Insert, Put, Atomic!With
  <2>3. States' = Atomic!With(States, b, LedgerAfter(States[Parent[b]], b))
    BY <1>1, <1>4, <2>1, <2>2 DEF States, Atomic!With
  <2>4. References' = Atomic!With(References, b, RefsAfter(References[Parent[b]], b))
    BY <1>1, <1>4, <2>1, <2>2 DEF References, Atomic!With
  <2>5. heights[Parent[b]] + 1 > longest <=> \A c \in blocks : heights[Parent[b]] + 1 > heights[c]
    <3>1. /\ tip_node_hash \in blocks /\ longest = heights[tip_node_hash] /\ longest \in Nat
          /\ \A c \in blocks : heights[c] \in Nat /\ heights[c] <= longest
      BY DEF IInv, SharedInv, ChainInv, ChainTypeOK, TipIsHighest
    <3> QED
      BY <1>4, <3>1
  <2>6. tip_node_hash' = IF \A c \in blocks : heights[Parent[b]] + 1 > heights[c]
                         THEN b ELSE tip_node_hash
    BY <1>3, <2>5 DEF Insert
  <2>7. Parent[b] \in blocks \cap DOMAIN States \cap DOMAIN References
    BY <1>4, <2>1 DEF States, References
  <2>8. Atomic!AddBlock(b)
    BY <1>6, <2>2, <2>3, <2>4, <2>6, <2>7 DEF States, References, Atomic!AddBlock
  <2> QED
    BY <2>8 DEF Atomic!AtomicNext
<1> QED
  BY <1>5, <1>6
-----------------------------------------------------------------------------
LEMMA StepAbstract ==
  ASSUME IInv, [NodeNext]_nodeVars PROVE [Atomic!AtomicNext]_Atomic!atomicVars
<1>1. ASSUME NEW t \in Threads, Writes(t) PROVE [Atomic!AtomicNext]_Atomic!atomicVars
  BY <1>1, WriteRefsStutters, WriteStateStutters, InsertBlockAbstract DEF Writes
<1>2. CASE \E w \in Workers : WorkerStep(w)
  <2>1. PICK w \in Workers : WorkerStep(w)
    BY <1>2
  <2> QED
    BY <1>1, <2>1, WorkerHides, HiddenStutters, StoreIcoAbstract DEF Threads
<1>3. CASE MinerStep \/ CommonStep(Miner)
  BY <1>1, <1>3, MinerHides, HiddenStutters, BootMinerAbstract DEF Threads, Atomic!AtomicNext
<1>4. CASE UNCHANGED nodeVars
  BY <1>4, HiddenStutters DEF nodeVars, Hidden
<1> QED
  BY <1>2, <1>3, <1>4 DEF NodeNext

LEMMA InitAbstract == NodeInit => Atomic!AtomicInit
<1> SUFFICES ASSUME NodeInit PROVE Atomic!AtomicInit
  OBVIOUS
<1>1. blocks = {Genesis} /\ heights = Atomic!GenesisMap(0) /\ tip_node_hash = Genesis
  BY DEF NodeInit, ChainInit, Atomic!GenesisMap
<1>2. CASE StartedUp
  <2>1. States = Atomic!GenesisMap(IcoState) /\ References = Atomic!GenesisMap({})
    BY <1>1, <1>2 DEF NodeInit, States, References, Atomic!GenesisMap
  <2> QED
    BY <1>1, <2>1 DEF States, References, Atomic!AtomicInit
<1>3. CASE ~ StartedUp
  <2>1. States = Atomic!EmptyMap /\ References = Atomic!EmptyMap
    BY <1>1, <1>3 DEF NodeInit, States, References, Atomic!EmptyMap
  <2> QED
    BY <1>1, <2>1 DEF States, References, Atomic!AtomicInit
<1> QED
  BY <1>2, <1>3

(* A node implements the atomic chain. *)
THEOREM Refinement == NodeSpec => AtomicSpec
  BY InitAbstract, StepAbstract, Consistent, PTL DEF NodeSpec, AtomicSpec, Atomic!AtomicSpec

(* The block tree of a node is the one of Blockchain: however the threads   *)
(* interleave, insert is called for children of blocks of the tree only,    *)
(* so that heights[&parent] never panics under the mutex.                   *)
LEMMA StepInserts == ASSUME IInv, [NodeNext]_nodeVars PROVE [ChainNext]_chainVars
<1>1. ASSUME NEW t \in Threads, InsertBlock(t) PROVE ChainNext
  <2>1. Insert(local[t].item) /\ Pc(t) = "insert"
    BY <1>1 DEF InsertBlock, At, Item
  <2>2. PICK b \in Children : b = local[t].item /\ Parent[b] \in blocks
    BY <2>1 DEF IInv, Locals, LocalInv, BlockInHand, Joining, Pc
  <2>3. Insert(b)
    BY <2>1, <2>2
  <2> QED
    BY <2>2, <2>3 DEF ChainNext
<1>2. ASSUME NEW t \in Threads, Writes(t) PROVE ChainNext \/ UNCHANGED chainVars
  BY <1>1, <1>2 DEF Writes, WriteRefs, WriteState, OnlyRefs, OnlyState
<1>3. CASE \E w \in Workers : WorkerStep(w)
  BY <1>2, <1>3, WorkerHides DEF Threads, Hidden, StoreIco, OnlyState
<1>4. CASE MinerStep \/ CommonStep(Miner)
  BY <1>2, <1>4, MinerHides DEF Threads, Hidden, BootMiner, OnlyRefs
<1>5. CASE UNCHANGED nodeVars
  BY <1>5 DEF nodeVars
<1> QED
  BY <1>3, <1>4, <1>5 DEF NodeNext

THEOREM TreeRefinement == NodeSpec => ChainSpec
<1>1. NodeInit => ChainInit
  BY DEF NodeInit
<1> QED
  BY <1>1, StepInserts, Consistent, PTL DEF NodeSpec, ChainSpec

(* A node's tip moves to a strictly higher new block only.                  *)
THEOREM NodeForkChoice == NodeSpec => ForkChoice
  BY TreeRefinement, ForkChoiceCorrect
-----------------------------------------------------------------------------
(* The tip's chain leads to the genesis block at the height it claims.      *)
THEOREM NodeChainReachesGenesis == NodeSpec => []ChainReachesGenesis
  BY TreeRefinement, ChainReachesGenesisCorrect, PTL
-----------------------------------------------------------------------------
(* The ancestors satisfy the equation that defines them, also where the     *)
(* parents do not lead to the genesis block.                                *)
LEMMA AncestorsAre ==
  /\ Ancestors[Genesis] = {}
  /\ \A b \in Children : Ancestors[b] = {Parent[b]} \cup Ancestors[Parent[b]]
<1> DEFINE F == [b \in Children |-> {Parent[b]}]
<1>0. Genesis \in ProposerBlocks /\ Parent \in [ProposerBlocks \ {Genesis} -> ProposerBlocks]
  BY BlockAssumption DEF Children
<1> HIDE DEF F
<1>1. PICK f : Climb!Collects(ProposerBlocks, Genesis, Parent, F, f)
  BY <1>0, Climb!CollectExists
<1> USE DEF F
<1>2. \A b \in ProposerBlocks : f[b] = IF b = Genesis THEN {} ELSE {Parent[b]} \cup f[Parent[b]]
  BY <1>1 DEF Children, Climb!Collects
<1>3. f = [b \in ProposerBlocks |-> IF b = Genesis THEN {} ELSE {Parent[b]} \cup f[Parent[b]]]
  BY <1>1, <1>2 DEF Climb!Collects
<1>4. Ancestors = [b \in ProposerBlocks |-> IF b = Genesis THEN {} ELSE {Parent[b]} \cup Ancestors[Parent[b]]]
  BY <1>3 DEF Ancestors
<1> HIDE DEF Ancestors
<1> QED
  BY <1>4, BlockAssumption DEF Children
-----------------------------------------------------------------------------
(* A block gets its ledger state from its parent's; the genesis block has   *)
(* the ICO's.                                                               *)
StatesGrow ==
    \A b \in DOMAIN glob_state' \ DOMAIN glob_state :
        b # Genesis => /\ b \in Children
                       /\ Parent[b] \in DOMAIN glob_state
                       /\ glob_state'[b] = LedgerAfter(glob_state[Parent[b]], b)

LEMMA StepGrows == ASSUME IInv, [NodeNext]_nodeVars PROVE Grow
<1>1. CASE NodeNext
  BY <1>1, StepEffect DEF Effect
<1> QED
  BY <1>1 DEF nodeVars, chainVars, Grow

LEMMA StepGrowsStates == ASSUME IInv, [NodeNext]_nodeVars PROVE StatesGrow
<1>1. ASSUME NEW t \in Threads, WriteState(t) PROVE StatesGrow
  <2> DEFINE b == local[t].item
  <2>1. glob_state' = Put(glob_state, b, local[t].state) /\ Pc(t) = "state_write"
    BY <1>1 DEF WriteState, At, Item
  <2>2. /\ b \in Children /\ Parent[b] \in DOMAIN glob_state
        /\ local[t].state = LedgerAfter(glob_state[Parent[b]], b)
    BY <2>1 DEF IInv, Locals, LocalInv, BlockInHand, Joining, Pc
  <2> HIDE DEF b
  <2>3. DOMAIN glob_state' = DOMAIN glob_state \cup {b} /\ glob_state'[b] = local[t].state
    BY <2>1 DEF Put
  <2> QED
    BY <2>2, <2>3 DEF StatesGrow
<1>2. ASSUME NEW t \in Threads, Writes(t) PROVE StatesGrow
  <2>1. CASE WriteState(t)
    BY <1>1, <2>1
  <2>2. CASE UNCHANGED glob_state
    BY <2>2 DEF StatesGrow
  <2> QED
    BY <1>2, <2>1, <2>2 DEF Writes, WriteRefs, InsertBlock, OnlyRefs
<1>3. ASSUME NEW w \in Workers, StoreIco(w) PROVE StatesGrow
  BY <1>3 DEF StoreIco, Put, StatesGrow
<1>4. ASSUME UNCHANGED glob_state PROVE StatesGrow
  BY <1>4 DEF StatesGrow
<1>5. CASE \E w \in Workers : WorkerStep(w)
  BY <1>2, <1>3, <1>4, <1>5, WorkerHides DEF Threads, Hidden
<1>6. CASE MinerStep \/ CommonStep(Miner)
  BY <1>2, <1>4, <1>6, MinerHides DEF Threads, Hidden, BootMiner, OnlyRefs
<1> QED
  BY <1>4, <1>5, <1>6 DEF NodeNext, nodeVars
-----------------------------------------------------------------------------
(* The coins in the states of the ancestors are in the state of the block,  *)
(* or were spent on the way to it and then stay spent.                      *)
HistoryOf(b) ==
    /\ glob_state[b] \in SUBSET RealCoins
    /\ \E D : /\ SpendInv(glob_state[b], D)
              /\ \A a \in Ancestors[b] : /\ a \in DOMAIN glob_state
                                         /\ glob_state[a] \subseteq glob_state[b] \cup D
History == \A b \in DOMAIN glob_state : HistoryOf(b)

LEMMA InitHistory == NodeInit => History
  BY IcoSpends, AncestorsAre DEF NodeInit, History, HistoryOf

LEMMA HistoryStep == ASSUME IInv, History, [NodeNext]_nodeVars PROVE History'
<1>1. Grow /\ StatesGrow /\ IInv'
  BY StepGrows, StepGrowsStates, NextInv
<1>2. ASSUME NEW b \in DOMAIN glob_state PROVE HistoryOf(b)'
  BY <1>1 DEF History, HistoryOf, Grow
<1>3. ASSUME NEW b \in DOMAIN glob_state', b \notin DOMAIN glob_state, b # Genesis PROVE HistoryOf(b)'
  <2> DEFINE p == Parent[b]
             S == glob_state[p]
             T == glob_state'[b]
  <2>1. /\ b \in Children /\ p \in DOMAIN glob_state /\ T = LedgerAfter(S, b)
        /\ p \in DOMAIN glob_state' /\ glob_state'[p] = S
    BY <1>1, <1>3 DEF StatesGrow, Grow
  <2>2. Ancestors[b] = {p} \cup Ancestors[p]
    BY <2>1, AncestorsAre
  <2>3. PICK D : /\ SpendInv(S, D) /\ S \in SUBSET RealCoins
                 /\ \A a \in Ancestors[p] : /\ a \in DOMAIN glob_state
                                            /\ glob_state[a] \subseteq S \cup D
    BY <2>1 DEF History, HistoryOf
  <2>4. T \in Later(S, D)
    BY <2>1, <2>3, LedgerIsLater
  <2>5. PICK E : D \subseteq E /\ SpendInv(T, E) /\ S \subseteq T \cup E
    BY <2>4 DEF Later
  <2>6. ASSUME NEW a \in Ancestors[b] PROVE a \in DOMAIN glob_state' /\ glob_state'[a] \subseteq T \cup E
    <3>1. a \in DOMAIN glob_state /\ glob_state[a] \subseteq S \cup D
      BY <2>1, <2>2, <2>3
    <3>2. a \in DOMAIN glob_state' /\ glob_state'[a] = glob_state[a]
      BY <1>1, <3>1 DEF Grow
    <3> QED
      BY <2>5, <3>1, <3>2
  <2>7. T \in SUBSET RealCoins
    BY <2>4 DEF Later
  <2> HIDE DEF T
  <2> QED
    BY <2>5, <2>6, <2>7 DEF HistoryOf, T
<1>4. ASSUME Genesis \in DOMAIN glob_state' PROVE HistoryOf(Genesis)'
  <2>1. glob_state'[Genesis] = IcoState
    BY <1>1, <1>4 DEF IInv, SharedInv, StatesOK
  <2> QED
    BY <2>1, IcoSpends, AncestorsAre DEF HistoryOf
<1> QED
  BY <1>2, <1>3, <1>4 DEF History

(* A coin spent on a chain stays out of the states of its later blocks,     *)
(* whatever the blocks of the chain confirm and whichever thread computed   *)
(* their states.                                                            *)
THEOREM SpentOnChainCorrect == NodeSpec => []SpentOnChain
<1>1. ASSUME IInv, History, NEW b \in blocks \ {Genesis}, NEW a \in Ancestors[Parent[b]]
      PROVE  (glob_state[a] \ glob_state[Parent[b]]) \cap glob_state[b] = {}
  <2> DEFINE S == glob_state[Parent[b]]
  <2>1. /\ b \in DOMAIN glob_state /\ b \in Children /\ Parent[b] \in DOMAIN glob_state
        /\ glob_state[b] = LedgerAfter(S, b)
    BY <1>1 DEF IInv, SharedInv, PublishedComplete, StatesOK, Children
  <2>2. PICK D : SpendInv(S, D) /\ S \in SUBSET RealCoins /\ glob_state[a] \subseteq S \cup D
    BY <1>1, <2>1 DEF History, HistoryOf
  <2>3. glob_state[b] \in Later(S, D)
    BY <2>1, <2>2, LedgerIsLater
  <2> QED
    BY <2>2, <2>3 DEF Later, SpendInv
<1>2. IInv /\ History => SpentOnChain
  BY <1>1 DEF SpentOnChain
<1> QED
  BY <1>2, InitInv, NextInv, InitHistory, HistoryStep, PTL DEF NodeSpec
-----------------------------------------------------------------------------
(* Every ledger state is worth what the ICO's is. *)
Worthy == \A b \in DOMAIN glob_state : glob_state[b] \in Worth(TotalValue(IcoState))
GeneratedTxs == \A t \in TxBlocks : \A x \in ToSet(ContentOf[t]) : Balanced(x)

LEMMA WorthyStep == ASSUME GeneratedTxs, IInv, Worthy, [NodeNext]_nodeVars PROVE Worthy'
<1>1. Grow /\ StatesGrow /\ IInv'
  BY StepGrows, StepGrowsStates, NextInv
<1> DEFINE v == TotalValue(IcoState)
<1>2. ASSUME NEW b \in DOMAIN glob_state PROVE glob_state'[b] \in Worth(v)
  BY <1>1, <1>2 DEF Worthy, Grow
<1>3. ASSUME NEW b \in DOMAIN glob_state', b \notin DOMAIN glob_state, b # Genesis
      PROVE  glob_state'[b] \in Worth(v)
  <2>1. /\ b \in Children /\ Parent[b] \in DOMAIN glob_state
        /\ glob_state'[b] = LedgerAfter(glob_state[Parent[b]], b)
    BY <1>1, <1>3 DEF StatesGrow
  <2>2. glob_state[Parent[b]] \in Worth(v)
    BY <2>1 DEF Worthy
  <2>3. \A t \in Refs(b) : \A x \in ToSet(ContentOf[t]) : Balanced(x)
    BY <2>1, RefsType DEF GeneratedTxs
  <2> HIDE DEF v
  <2> QED
    BY <2>1, <2>2, <2>3, LedgerIsWorth
<1>4. ASSUME Genesis \in DOMAIN glob_state' PROVE glob_state'[Genesis] \in Worth(v)
  <2>1. glob_state'[Genesis] = IcoState
    BY <1>1, <1>4 DEF IInv, SharedInv, StatesOK
  <2> QED
    BY <2>1, IcoIsWorth
<1>5. \A b \in DOMAIN glob_state' : glob_state'[b] \in Worth(v)
  BY <1>2, <1>3, <1>4
<1> QED
  BY <1>5 DEF Worthy

(* The total amount of money is what the ICO paid out, in the ledger state  *)
(* of every block of every fork, as long as every transaction that a block  *)
(* may contain pays out what it takes, as those of the generator do: none   *)
(* is ever made or lost when a block confirms a transaction twice, or two   *)
(* that spend one coin.                                                     *)
THEOREM MoneyKeptCorrect == ASSUME GeneratedTxs PROVE NodeSpec => []MoneyKept
<1>1. NodeInit => Worthy
  BY IcoIsWorth DEF NodeInit, Worthy
<1>2. IInv /\ Worthy /\ [NodeNext]_nodeVars => Worthy'
  BY WorthyStep
<1>3. Worthy => MoneyKept
  BY DEF Worthy, Worth, MoneyKept
<1> QED
  BY <1>1, <1>2, <1>3, InitInv, NextInv, PTL DEF NodeSpec
-----------------------------------------------------------------------------
(* Where blocks come from: F holds what peers have, with its ancestors.  A  *)
(* block of a peer that this miner could have made is an empty one of its   *)
(* own, sent before.                                                        *)
PeersBlocks(F) ==
    /\ F \subseteq Children
    /\ \A b \in F : Parent[b] \in F \cup {Genesis}
    /\ \A b \in Children :
          (InFlight[Msg("NewProposerBlockHashes", b)] > 0 \/ InFlight[Msg("ProposerBlocks", b)] > 0)
            => b \in F
    /\ \A b \in F \cap Mineable : RefsOf[b] = <<>>

HandPCs == {"parent", "orphan", "orphan_push", "orphan_new"} \cup Joining \cup Joined
Held(F, r) ==
    /\ r.pc \in HandPCs => r.item \in F
    /\ r.pc \in Joining \cup Joined => \A i \in DOMAIN r.todo : r.todo[i] \in F

MailFrom(F) ==
    \A b \in Children :
        (inbox[Msg("NewProposerBlockHashes", b)] > 0 \/ inbox[Msg("ProposerBlocks", b)] > 0) => b \in F
OrphansFrom(F) ==
    \A p \in DOMAIN orphan_handler : \A i \in DOMAIN orphan_handler[p] : orphan_handler[p][i] \in F

(* A worker only handles blocks of peers. *)
WorkersHold(F) == MailFrom(F) /\ OrphansFrom(F) /\ \A w \in Workers : Held(F, local[w])

(* What a step of worker w does to the blocks in hand. *)
Carries(F, w) == MailFrom(F)' /\ OrphansFrom(F)' /\ Others(w) /\ Held(F, local[w])'

LEMMA BlankHeld == ASSUME NEW F, NEW l \in Idle, NEW r, r = Blank(l) PROVE Held(F, r)
  BY DEF Held, HandPCs, Joining, Joined, Idle, Blank

LEMMA Messages ==
  /\ \A b \in Children : /\ Msg("NewProposerBlockHashes", b) \in Message
                         /\ Msg("ProposerBlocks", b) \in Message
                         /\ Msg("ProposerBlocks", b) # Msg("NewProposerBlockHashes", b)
  /\ \A b \in Children : \A t \in {"NewTransactionBlockHashes", "TransactionBlocks", "NewTransactionHashes",
                                   "GetTransactions", "Transactions", "ICO"} :
        \A i : Msg(t, i) # Msg("NewProposerBlockHashes", b) /\ Msg(t, i) # Msg("ProposerBlocks", b)
  BY DEF Message, Msg

LEMMA ConsumeKeeps ==
  ASSUME NEW F, MailFrom(F), PoolsOK, NEW m \in Message, inbox[m] > 0, Consume(m)
  PROVE  MailFrom(F)'
<1>1. \A n \in Message : inbox'[n] \in Int /\ inbox[n] \in Int /\ inbox'[n] <= inbox[n]
  BY DEF Consume, PoolsOK
<1> QED
  BY <1>1, Messages DEF MailFrom

(* A message is handled: the worker goes on with locals that hold a block   *)
(* of a peer, or none.                                                      *)
LEMMA HandleCarries ==
  ASSUME NEW F, IInv, WorkersHold(F), NEW w \in Workers, NEW m \in Message, NEW r, Held(F, r),
         Handle(w, m, r)
  PROVE  Carries(F, w)
<1>1. Others(w) /\ local'[w] = r
  BY LocalFacts, Becomes DEF Handle
<1>2. MailFrom(F)'
  BY ConsumeKeeps DEF IInv, SharedInv, Handle, Receives, Arrived, WorkersHold
<1> QED
  BY <1>1, <1>2 DEF Carries, Handle, OnlyInbox, WorkersHold, OrphansFrom

LEMMA ReceiveCarries ==
  ASSUME NEW F, IInv, WorkersHold(F), NEW w \in Workers, ReceiveStep(w)
  PROVE  Carries(F, w)
<1>0. Held(F, Blank("recv")) /\ Held(F, Blank("ico")) /\ Held(F, Blank("dead"))
  BY BlankHeld DEF Idle
<1>1. ASSUME NEW m, NEW have, NEW b \in Children, NEW a, Announcement(w, m, have, a),
             m = Msg("NewProposerBlockHashes", b), a = Msg("ProposerBlocks", b)
      PROVE  Carries(F, w)
  <2>1. m \in Message /\ a \in Message /\ inbox[m] > 0 /\ b \in F
    BY <1>1, Messages DEF Announcement, Receives, Arrived, WorkersHold, MailFrom
  <2>2. \A n \in Message : /\ inbox'[n] \in Int /\ inbox[n] \in Int
                           /\ n # a => inbox'[n] <= inbox[n]
    BY <1>1, <2>1 DEF Announcement, IInv, SharedInv, PoolsOK
  <2>3. ASSUME NEW c \in Children, c # b
        PROVE  Msg("ProposerBlocks", c) # a /\ Msg("NewProposerBlockHashes", c) # a
    BY <1>1, <2>3 DEF Msg
  <2>4. MailFrom(F)'
    BY <2>1, <2>2, <2>3, Messages DEF WorkersHold, MailFrom
  <2> QED
    BY <1>1, <2>4, LocalFacts DEF Announcement, OnlyInbox, Carries, WorkersHold, OrphansFrom, Others, Locals
<1>2. ASSUME NEW m \in Message, NEW have, NEW a, Announcement(w, m, have, a),
             \A c \in Children : a # Msg("ProposerBlocks", c) /\ a # Msg("NewProposerBlockHashes", c)
      PROVE  Carries(F, w)
  <2>1. inbox[m] > 0
    BY <1>2 DEF Announcement, Receives, Arrived
  <2>2. \A n \in Message : /\ inbox'[n] \in Int /\ inbox[n] \in Int
                           /\ n # a => inbox'[n] <= inbox[n]
    BY <1>2, <2>1 DEF Announcement, IInv, SharedInv, PoolsOK
  <2>3. MailFrom(F)'
    BY <1>2, <2>2, Messages DEF WorkersHold, MailFrom
  <2> QED
    BY <1>2, <2>3, LocalFacts DEF Announcement, OnlyInbox, Carries, WorkersHold, OrphansFrom, Others, Locals
<1>3. ASSUME NEW b \in Children, NewProposerBlockHashes(w, b) PROVE Carries(F, w)
  BY <1>1, <1>3 DEF NewProposerBlockHashes
<1>4. ASSUME NEW b \in TxBlocks, NewTransactionBlockHashes(w, b) PROVE Carries(F, w)
  <2>1. Msg("NewTransactionBlockHashes", b) \in Message
    BY DEF Message, Msg
  <2> QED
    BY <1>2, <1>4, <2>1, Messages DEF NewTransactionBlockHashes
<1>5. ASSUME NEW x \in Txs, NewTransactionHashes(w, x) PROVE Carries(F, w)
  <2>1. Msg("NewTransactionHashes", x) \in Message
    BY DEF Message, Msg
  <2> QED
    BY <1>2, <1>5, <2>1, Messages DEF NewTransactionHashes
<1>6. ASSUME NEW b \in Children, ReceiveProposerBlock(w, b) PROVE Carries(F, w)
  <2> DEFINE m == Msg("ProposerBlocks", b)
             r == IF b \in blocks \/ b \notin InSortition THEN Blank("recv") ELSE Holding(b, "parent")
  <2>1. Handle(w, m, r) /\ m \in Message
    BY <1>6, Messages DEF ReceiveProposerBlock
  <2>2. b \in F
    BY <2>1 DEF Handle, Receives, Arrived, WorkersHold, MailFrom
  <2>3. Held(F, r)
    BY <1>0, <2>2 DEF Held, HandPCs, Joining, Joined, Holding, Blank
  <2> HIDE DEF m, r
  <2> QED
    BY <2>1, <2>3, HandleCarries
<1>7. ASSUME NEW b \in TxBlocks, TransactionBlocks(w, b) PROVE Carries(F, w)
  <2> DEFINE m == Msg("TransactionBlocks", b)
             r == IF b \in tx_block_pool \/ b \notin InSortition THEN Blank("recv") ELSE Clearing(b)
  <2>1. Handle(w, m, r) /\ m \in Message
    BY <1>7 DEF TransactionBlocks, Message, Msg
  <2>2. Held(F, r)
    BY <1>0 DEF Held, HandPCs, Joining, Joined, Holding, Clearing, Blank
  <2> HIDE DEF m, r
  <2> QED
    BY <2>1, <2>2, HandleCarries
<1>8. ASSUME NEW x \in Txs, GetTransactions(w, x) PROVE Carries(F, w)
  <2> DEFINE m == Msg("GetTransactions", x)
             r == IF x \in tx_pool THEN Holding(x, "gt_take") ELSE Blank("recv")
  <2>1. Handle(w, m, r) /\ m \in Message
    BY <1>8 DEF GetTransactions, Message, Msg
  <2>2. Held(F, r)
    BY <1>0 DEF Held, HandPCs, Joining, Joined, Holding, Blank
  <2> HIDE DEF m, r
  <2> QED
    BY <2>1, <2>2, HandleCarries
<1>9. ASSUME NEW x \in Txs, Transactions(w, x) PROVE Carries(F, w)
  <2> DEFINE m == Msg("Transactions", x)
             r == [Holding(x, "tx_known") EXCEPT !.base = tip_node_hash]
  <2>1. Handle(w, m, r) /\ m \in Message
    BY <1>9 DEF Transactions, Message, Msg
  <2>2. Held(F, r)
    BY DEF Held, HandPCs, Joining, Joined, Holding, Blank
  <2> HIDE DEF m, r
  <2> QED
    BY <2>1, <2>2, HandleCarries
<1>10. ASSUME ICO(w) PROVE Carries(F, w)
  <2> DEFINE m == Msg("ICO", Genesis)
             r == Blank(IF DOMAIN glob_state = {} THEN "ico" ELSE "recv")
  <2>1. Handle(w, m, r) /\ m \in Message
    BY <1>10 DEF ICO, Message, Msg
  <2>2. Held(F, r)
    BY <1>0
  <2> HIDE DEF m, r
  <2> QED
    BY <2>1, <2>2, HandleCarries
<1>11. ASSUME NEW m \in Message, ReceivePanics(w, m) PROVE Carries(F, w)
  <2>1. Others(w) /\ local'[w] = Blank("dead")
    BY <1>11, LocalFacts, Becomes DEF ReceivePanics
  <2>2. MailFrom(F)'
    BY <1>11, ConsumeKeeps DEF IInv, SharedInv, ReceivePanics, Arrived, WorkersHold
  <2> QED
    BY <1>0, <1>11, <2>1, <2>2 DEF Carries, ReceivePanics, OnlyInbox, WorkersHold, OrphansFrom
<1> QED
  BY <1>3, <1>4, <1>5, <1>6, <1>7, <1>8, <1>9, <1>10, <1>11 DEF ReceiveStep
-----------------------------------------------------------------------------
(* A thread that leaves the mail and the buffer alone. *)
LEMMA LocalCarries ==
  ASSUME NEW F, WorkersHold(F), NEW w \in Workers, UNCHANGED <<inbox, orphan_handler>>,
         Others(w), Held(F, local[w])'
  PROVE  Carries(F, w)
  BY DEF WorkersHold, MailFrom, OrphansFrom, Carries

LEMMA NextBlockHolds ==
  ASSUME NEW F, IInv, WorkersHold(F), NEW w \in Workers, Pc(w) \in Joining \cup Joined, NextBlock(w)
  PROVE  Others(w) /\ Held(F, local[w])'
<1> DEFINE vec == local[w].todo
<1>1. /\ Locals /\ w \in Threads /\ vec \in Seq(Children) /\ \A i \in DOMAIN vec : vec[i] \in F
  BY LocalFacts DEF WorkersHold, Held, LocalInv, BlockInHand, Pc
<1>2. CASE vec = <<>>
  <2>1. Others(w) /\ local'[w] = Blank("recv")
    BY <1>1, <1>2, Becomes DEF NextBlock
  <2> QED
    BY <2>1, BlankHeld DEF Idle
<1>3. CASE vec # <<>>
  <2>1. Others(w) /\ local'[w] = [Holding(Head(vec), "verify") EXCEPT !.todo = Tail(vec)]
    BY <1>1, <1>3, Becomes DEF NextBlock
  <2>2. local'[w].item = vec[1] /\ local'[w].todo = Tail(vec)
    <3>1. Head(vec) = vec[1]
      BY <1>1, <1>3
    <3> QED
      BY <2>1, <3>1 DEF Blank, Holding
  <2>3. vec[1] \in F /\ \A i \in DOMAIN Tail(vec) : Tail(vec)[i] \in F
    BY <1>1, <1>3
  <2> QED
    BY <2>1, <2>2, <2>3 DEF Held
<1> QED
  BY <1>2, <1>3

LEMMA DoneHolds ==
  ASSUME NEW F, IInv, NEW w \in Workers, Done(w) PROVE Others(w) /\ Held(F, local[w])'
<1>1. Others(w) /\ local'[w] = Blank("recv")
  BY LocalFacts, Becomes DEF Done
<1> QED
  BY <1>1, BlankHeld DEF Idle

LEMMA GoesOn ==
  ASSUME NEW F, IInv, WorkersHold(F), NEW w \in Workers, NEW l, Goto(w, l),
         l \in HandPCs => Pc(w) \in HandPCs,
         l \in Joining \cup Joined => Pc(w) \in Joining \cup Joined \/ local[w].todo = <<>>
  PROVE  Others(w) /\ Held(F, local[w])'
<1>1. Others(w) /\ local'[w] = [local[w] EXCEPT !.pc = l] /\ LocalInv(w, local[w])
  BY LocalFacts, Goes
<1>2. local'[w].pc = l /\ local'[w].item = local[w].item /\ local'[w].todo = local[w].todo
  BY <1>1 DEF LocalInv, LocalTypeOK
<1>3. l \in HandPCs => local[w].item \in F
  BY DEF WorkersHold, Held, Pc
<1>4. l \in Joining \cup Joined => \A i \in DOMAIN local[w].todo : local[w].todo[i] \in F
  BY DEF WorkersHold, Held, Pc
<1> QED
  BY <1>1, <1>2, <1>3, <1>4 DEF Held

LEMMA RequestKeeps ==
  ASSUME NEW F, PeersBlocks(F), IInv, WorkersHold(F), NEW w \in Workers, Item(w) \in F, RequestParent(w)
  PROVE  MailFrom(F)'
<1> DEFINE a == Msg("ProposerBlocks", ParentOf(w))
<1>1. \A n \in Message : n # a => inbox'[n] = inbox[n]
  BY DEF RequestParent, IInv, SharedInv, PoolsOK
<1>2. ASSUME NEW c \in Children, c # ParentOf(w)
      PROVE  Msg("ProposerBlocks", c) # a /\ Msg("NewProposerBlockHashes", c) # a
  BY <1>2 DEF Msg
<1>3. ParentOf(w) \in Children => ParentOf(w) \in F
  BY DEF PeersBlocks, ParentOf, Item, Children
<1> HIDE DEF a
<1> QED
  BY <1>1, <1>2, <1>3, Messages DEF WorkersHold, MailFrom

LEMMA PushOrphanCarries ==
  ASSUME NEW F, PeersBlocks(F), IInv, WorkersHold(F), NEW w \in Workers, PushOrphan(w) \/ NewOrphan(w)
  PROVE  Carries(F, w)
<1>1. Item(w) \in F
  BY DEF WorkersHold, Held, HandPCs, PushOrphan, NewOrphan, At, Pc, Item
<1>2. RequestParent(w) /\ Done(w)
  BY DEF PushOrphan, NewOrphan
<1>3. MailFrom(F)' /\ Others(w) /\ Held(F, local[w])'
  BY <1>1, <1>2, RequestKeeps, DoneHolds
<1>4. OrphansFrom(F)'
  <2>1. CASE PushOrphan(w)
    <3> DEFINE p == ParentOf(w)
    <3>1. /\ DOMAIN orphan_handler' = DOMAIN orphan_handler
          /\ \A q \in DOMAIN orphan_handler :
                orphan_handler'[q] = IF q = p THEN Append(orphan_handler[q], Item(w)) ELSE orphan_handler[q]
      BY <2>1 DEF PushOrphan
    <3>2. ASSUME NEW q \in DOMAIN orphan_handler
          PROVE \A i \in DOMAIN Append(orphan_handler[q], Item(w)) : Append(orphan_handler[q], Item(w))[i] \in F
      <4>1. orphan_handler[q] \in Seq(Children) /\ \A i \in DOMAIN orphan_handler[q] : orphan_handler[q][i] \in F
        BY DEF IInv, SharedInv, OrphansOK, WorkersHold, OrphansFrom
      <4> HIDE DEF p
      <4> QED
        BY <1>1, <4>1
    <3> HIDE DEF p
    <3> QED
      BY <3>1, <3>2 DEF WorkersHold, OrphansFrom
  <2>2. CASE NewOrphan(w)
    <3> DEFINE s == <<Item(w)>>
    <3>1. \A i \in DOMAIN s : s[i] \in F
      BY <1>1
    <3> HIDE DEF s
    <3>2. orphan_handler' = Put(orphan_handler, ParentOf(w), s)
      BY <2>2 DEF NewOrphan, s
    <3> QED
      BY <3>1, <3>2 DEF Put, WorkersHold, OrphansFrom
  <2> QED
    BY <2>1, <2>2
<1> QED
  BY <1>3, <1>4 DEF Carries

LEMMA TakeOrphansCarries ==
  ASSUME NEW F, IInv, WorkersHold(F), NEW w \in Workers, TakeOrphans(w)
  PROVE  Carries(F, w)
<1> DEFINE vec == orphan_handler[Item(w)]  r == local[w]  s == local[w].todo
<1>1. /\ w \in Threads /\ LocalInv(w, r) /\ Locals /\ Pc(w) = "np_take" /\ OnlyLocal
      /\ Item(w) \in DOMAIN orphan_handler
  BY LocalFacts, Indexable DEF TakeOrphans, At
<1>2. Others(w) /\ local'[w] = [r EXCEPT !.todo = vec \o s, !.pc = "np_remove"]
  BY <1>1 DEF TakeOrphans, Locals, Others
<1>3. local'[w].item = r.item /\ local'[w].todo = vec \o s
  BY <1>1, <1>2 DEF LocalInv, LocalTypeOK
<1>4. r.item \in F /\ \A i \in DOMAIN s : s[i] \in F
  BY <1>1 DEF WorkersHold, Held, Pc, HandPCs, Joined
<1>5. vec \in Seq(Children) /\ s \in Seq(Children) /\ \A i \in DOMAIN vec : vec[i] \in F
  BY <1>1 DEF WorkersHold, OrphansFrom, IInv, SharedInv, OrphansOK, LocalInv, BlockInHand, Joined, Pc
<1> HIDE DEF vec, s, r
<1>6. \A i \in DOMAIN (vec \o s) : (vec \o s)[i] \in F
  BY <1>4, <1>5
<1>7. Held(F, local[w])'
  BY <1>3, <1>4, <1>6 DEF Held
<1> QED
  BY <1>1, <1>2, <1>7, LocalCarries DEF OnlyLocal

LEMMA ProposerCarries ==
  ASSUME NEW F, PeersBlocks(F), IInv, WorkersHold(F), NEW w \in Workers, ProposerBlockStep(w)
  PROVE  Carries(F, w)
<1>1. LocalInv(w, local[w]) /\ Locals
  BY LocalFacts
<1>2. ASSUME FindParent(w) PROVE Carries(F, w)
  <2> DEFINE l == IF ParentOf(w) \in blocks THEN "verify" ELSE "orphan"
  <2>1. Pc(w) = "parent" /\ local[w].todo = <<>> /\ Goto(w, l) /\ OnlyLocal
    BY <1>1, <1>2 DEF FindParent, At, LocalInv, BlockInHand, Pc
  <2>2. Pc(w) \in HandPCs
    BY <2>1 DEF HandPCs
  <2> HIDE DEF l
  <2> QED
    BY <2>1, <2>2, GoesOn, LocalCarries DEF OnlyLocal
<1>3. ASSUME FindOrphans(w) PROVE Carries(F, w)
  <2> DEFINE l == IF ParentOf(w) \in DOMAIN orphan_handler THEN "orphan_push" ELSE "orphan_new"
  <2>1. Pc(w) = "orphan" /\ local[w].todo = <<>> /\ Goto(w, l) /\ OnlyLocal
    BY <1>1, <1>3 DEF FindOrphans, At, LocalInv, BlockInHand, Pc
  <2>2. Pc(w) \in HandPCs
    BY <2>1 DEF HandPCs
  <2> HIDE DEF l
  <2> QED
    BY <2>1, <2>2, GoesOn, LocalCarries DEF OnlyLocal
<1>4. ASSUME Verify(w) PROVE Carries(F, w)
  <2>1. Pc(w) \in Joining \cup Joined /\ Pc(w) \in HandPCs /\ OnlyLocal
    BY <1>4 DEF Verify, At, Joining, HandPCs
  <2>2. CASE Goto(w, "ref_read")
    BY <2>1, <2>2, GoesOn, LocalCarries DEF OnlyLocal
  <2>3. CASE NextBlock(w)
    BY <2>1, <2>3, NextBlockHolds, LocalCarries DEF OnlyLocal
  <2> QED
    BY <1>4, <2>2, <2>3 DEF Verify
<1>5. ASSUME ReadRefs(w) PROVE Carries(F, w)
  <2>1. /\ Others(w) /\ OnlyLocal /\ Pc(w) = "ref_read"
        /\ local'[w].item = local[w].item /\ local'[w].todo = local[w].todo
    BY <1>1, <1>5, LocalFacts DEF ReadRefs, At, Locals, Others, LocalInv, LocalTypeOK
  <2>2. Held(F, local[w])'
    BY <2>1 DEF WorkersHold, Held, HandPCs, Joining, Pc
  <2> QED
    BY <2>1, <2>2, LocalCarries DEF OnlyLocal
<1>6. ASSUME ReadState(w) PROVE Carries(F, w)
  <2>1. /\ Others(w) /\ OnlyLocal /\ Pc(w) = "state_read"
        /\ local'[w].item = local[w].item /\ local'[w].todo = local[w].todo
    BY <1>1, <1>6, LocalFacts DEF ReadState, At, Locals, Others, LocalInv, LocalTypeOK
  <2>2. Held(F, local[w])'
    BY <2>1 DEF WorkersHold, Held, HandPCs, Joining, Pc
  <2> QED
    BY <2>1, <2>2, LocalCarries DEF OnlyLocal
<1>7. ASSUME NewParent(w) PROVE Carries(F, w)
  <2>1. Pc(w) \in Joining \cup Joined /\ Pc(w) \in HandPCs /\ OnlyLocal
    BY <1>7 DEF NewParent, At, Joined, HandPCs
  <2>2. CASE Goto(w, "np_take")
    BY <2>1, <2>2, GoesOn, LocalCarries DEF OnlyLocal
  <2>3. CASE NextBlock(w)
    BY <2>1, <2>3, NextBlockHolds, LocalCarries DEF OnlyLocal
  <2> QED
    BY <1>7, <2>2, <2>3 DEF NewParent
<1>8. ASSUME RemoveOrphans(w) PROVE Carries(F, w)
  <2>1. Pc(w) \in Joining \cup Joined /\ NextBlock(w) /\ UNCHANGED inbox
    BY <1>8 DEF RemoveOrphans, At, Joined
  <2>2. OrphansFrom(F)'
    BY <1>8 DEF RemoveOrphans, WorkersHold, OrphansFrom
  <2>3. MailFrom(F)'
    BY <2>1 DEF WorkersHold, MailFrom
  <2> QED
    BY <2>1, <2>2, <2>3, NextBlockHolds DEF Carries
<1> QED
  BY <1>2, <1>3, <1>4, <1>5, <1>6, <1>7, <1>8, PushOrphanCarries, TakeOrphansCarries DEF ProposerBlockStep
-----------------------------------------------------------------------------
LEMMA TransactionCarries ==
  ASSUME NEW F, IInv, WorkersHold(F), NEW w \in Workers, TransactionStep(w)
  PROVE  Carries(F, w)
<1>1. UNCHANGED <<inbox, orphan_handler>>
  BY DEF TransactionStep, SendTransaction, StoreIco, CheckTransaction, CheckInputs, AddTransaction,
         OnlyLocal, OnlyState, OnlyTxPool
<1>2. ASSUME NEW l \in {"tx_state", "tx_add"}, Goto(w, l) PROVE Others(w) /\ Held(F, local[w])'
  <2>1. l \notin HandPCs
    BY DEF HandPCs, Joining, Joined
  <2> QED
    BY <1>2, <2>1, GoesOn DEF HandPCs
<1>3. Others(w) /\ Held(F, local[w])'
  BY <1>2, DoneHolds DEF TransactionStep, SendTransaction, StoreIco, CheckTransaction, CheckInputs, AddTransaction
<1> QED
  BY <1>1, <1>3, LocalCarries

LEMMA CommonCarries ==
  ASSUME NEW F, IInv, WorkersHold(F), NEW w \in Workers, CommonStep(w)
  PROVE  Carries(F, w)
<1>1. UNCHANGED <<inbox, orphan_handler>>
  BY DEF CommonStep, ClearTransaction, StoreTxBlock, WriteRefs, Prune, WriteState, InsertBlock,
         IndexPanics, LockPanics, OnlyLocal, OnlyState, OnlyTxPool, OnlyRefs, OnlyTxBlockPool, OnlyPoison
<1>2. w \in Threads /\ w # Miner /\ LocalInv(w, local[w]) /\ Locals
  BY LocalFacts
<1>3. ASSUME ClearTransaction(w) PROVE Others(w) /\ Held(F, local[w])'
  <2>1. Others(w) /\ local'[w].pc \in {"clear", "store"}
    BY <1>2, <1>3 DEF ClearTransaction, Locals, Others, LocalInv, LocalTypeOK
  <2> QED
    BY <2>1 DEF Held, HandPCs, Joining, Joined
<1>4. ASSUME NEW l \in {"state_read", "state_write", "insert", "np_check"}, Goto(w, l), Pc(w) \in Joining
      PROVE  Others(w) /\ Held(F, local[w])'
  BY <1>4, GoesOn DEF HandPCs
<1>5. ASSUME WriteRefs(w) PROVE Others(w) /\ Held(F, local[w])'
  BY <1>2, <1>4, <1>5 DEF WriteRefs, At, Joining
<1>6. ASSUME Prune(w) \/ WriteState(w) PROVE Others(w) /\ Held(F, local[w])'
  BY <1>4, <1>6 DEF Prune, WriteState, At, Joining
<1>7. ASSUME InsertBlock(w) PROVE Others(w) /\ Held(F, local[w])'
  BY <1>2, <1>4, <1>7 DEF InsertBlock, At, Joining
<1>8. ASSUME IndexPanics(w) \/ LockPanics(w) PROVE Others(w) /\ Held(F, local[w])'
  <2>1. Others(w) /\ local'[w] = Blank("dead")
    BY <1>2, <1>8, Becomes DEF IndexPanics, LockPanics
  <2> QED
    BY <2>1, BlankHeld DEF Idle
<1>9. Others(w) /\ Held(F, local[w])'
  BY <1>3, <1>5, <1>6, <1>7, <1>8, DoneHolds DEF CommonStep, StoreTxBlock
<1> QED
  BY <1>1, <1>9, LocalCarries

LEMMA WorkersKeepHolding ==
  ASSUME NEW F, PeersBlocks(F), IInv, WorkersHold(F), [NodeNext]_nodeVars
  PROVE  WorkersHold(F)'
<1>1. ASSUME NEW w \in Workers, WorkerStep(w) PROVE WorkersHold(F)'
  <2>1. Carries(F, w)
    BY <1>1, ReceiveCarries, ProposerCarries, TransactionCarries, CommonCarries DEF WorkerStep
  <2>2. ASSUME NEW v \in Workers, v # w PROVE local'[v] = local[v]
    BY <2>1, <2>2 DEF Carries, Others, Threads
  <2>3. ASSUME NEW v \in Workers PROVE Held(F, local[v])'
    BY <2>1, <2>2 DEF Carries, WorkersHold, Held
  <2> QED
    BY <2>1, <2>3 DEF Carries, WorkersHold
<1>2. CASE MinerStep \/ CommonStep(Miner)
  <2>1. UNCHANGED <<inbox, orphan_handler>>
    BY <1>2 DEF MinerStep, BootMiner, StartMiner, ReadTip, ReadTipState, PickTransactions, ReadTipRefs,
       PickTxBlocks, MineNothing, ApplyMined, MineProposerBlock, MineTxBlock,
       CommonStep, ClearTransaction, StoreTxBlock, WriteRefs, Prune, WriteState, InsertBlock,
       IndexPanics, LockPanics, OnlyLocal, OnlyState, OnlyTxPool, OnlyRefs, OnlyTxBlockPool, OnlyPoison
  <2>2. Others(Miner)
    BY <1>2, MinerStepOK, CommonStepOK DEF Effect, Threads
  <2>3. \A w \in Workers : local'[w] = local[w]
    BY <2>2, NodeAssumption DEF Others, Threads
  <2> QED
    BY <2>1, <2>3 DEF WorkersHold, MailFrom, OrphansFrom, Held
<1>3. CASE UNCHANGED nodeVars
  BY <1>3 DEF nodeVars, WorkersHold, MailFrom, OrphansFrom, Held
<1> QED
  BY <1>1, <1>2, <1>3 DEF NodeNext
-----------------------------------------------------------------------------
(* A block whose references are new to its chain, and that has none if it   *)
(* is an attacker's.                                                        *)
Confirming(b) ==
    /\ b \in Children /\ Parent[b] \in DOMAIN tx_block_ref
    /\ Refs(b) \cap tx_block_ref[Parent[b]] = {}
    /\ Attacking => Refs(b) = {}

Mining == {"ref_write", "apply", "prune", "state_write", "insert"}
Candidate(r) ==
    /\ r.pc \in {"m_state", "m_pool", "m_refs", "m_blocks"} => r.props = {}
    /\ Attacking => r.pc # "m_blocks"
    /\ r.pc = "seal" => r.props \cap r.refs = {} /\ (Attacking => r.props = {})
    /\ r.pc \in Mining => Confirming(r.item)

LEMMA ConfirmingStays == ASSUME Grow, NEW b, Confirming(b) PROVE Confirming(b)'
  BY DEF Grow, Confirming

LEMMA CandidateStep ==
  ASSUME IInv, Candidate(local[Miner]), MinerStep
  PROVE  Candidate(local[Miner])'
<1>1. /\ Miner \in Threads /\ LocalTypeOK(local[Miner]) /\ local = [t \in Threads |-> local[t]]
      /\ LocalInv(Miner, local[Miner])
  BY MinerFacts DEF LocalInv, Locals
<1>2. Grow
  BY MinerStepOK DEF Effect
<1>3. CASE BootMiner \/ StartMiner \/ MineNothing
  <2>1. local'[Miner].pc \in {"paused", "tip"}
    BY <1>1, <1>3 DEF BootMiner, StartMiner, MineNothing, Goto, Done, Become, Blank, LocalTypeOK
  <2> QED
    BY <2>1 DEF Candidate, Mining
<1>4. CASE ReadTip
  <2>1. local'[Miner] = [Blank("m_state") EXCEPT !.base = tip_node_hash]
    BY <1>1, <1>4 DEF ReadTip, Become
  <2>2. local'[Miner].pc = "m_state" /\ local'[Miner].props = {}
    BY <2>1 DEF Blank
  <2> QED
    BY <2>2 DEF Candidate, Mining
<1>5. CASE ReadTipState
  <2>1. /\ local'[Miner].pc = Loop("m_pool", "m_refs") /\ local'[Miner].props = local[Miner].props
        /\ local[Miner].pc = "m_state"
    BY <1>1, <1>5 DEF ReadTipState, At, Pc, LocalTypeOK
  <2> QED
    BY <2>1 DEF Candidate, Mining, Loop
<1>6. CASE PickTransactions
  <2>1. PICK P : local' = [local EXCEPT ![Miner].content = P, ![Miner].pc = "m_refs"]
    BY <1>6 DEF PickTransactions
  <2>2. local'[Miner].pc = "m_refs" /\ local'[Miner].props = local[Miner].props
    BY <1>1, <2>1 DEF LocalTypeOK
  <2>3. local[Miner].pc = "m_pool"
    BY <1>6 DEF PickTransactions, At, Pc
  <2> QED
    BY <2>2, <2>3 DEF Candidate, Mining
<1>7. CASE ReadTipRefs
  <2>1. /\ local'[Miner].pc = Loop("m_blocks", "seal") /\ local'[Miner].props = local[Miner].props
        /\ local[Miner].pc = "m_refs"
    BY <1>1, <1>7 DEF ReadTipRefs, At, Pc, LocalTypeOK
  <2> QED
    BY <2>1 DEF Candidate, Mining, Loop
<1>8. CASE PickTxBlocks
  <2>1. PICK P \in Pick(tx_block_pool \ local[Miner].refs, NumRef) :
          local' = [local EXCEPT ![Miner].props = P, ![Miner].pc = "seal"]
    BY <1>8 DEF PickTxBlocks
  <2>2. P \cap local[Miner].refs = {}
    BY <2>1, PickSubset
  <2>3. /\ local'[Miner].pc = "seal" /\ local'[Miner].props = P /\ local'[Miner].refs = local[Miner].refs
        /\ local[Miner].pc = "m_blocks"
    BY <1>1, <1>8, <2>1 DEF PickTxBlocks, At, Pc, LocalTypeOK
  <2> QED
    BY <2>2, <2>3 DEF Candidate, Mining
<1>9. CASE ApplyMined
  <2>1. /\ local'[Miner].pc = Loop("prune", "state_write") /\ local'[Miner].item = local[Miner].item
        /\ local[Miner].pc = "apply"
    BY <1>1, <1>9 DEF ApplyMined, At, Pc, LocalTypeOK
  <2>2. Confirming(local[Miner].item)'
    <3>1. Confirming(local[Miner].item)
      BY <2>1 DEF Candidate, Mining
    <3> QED
      BY <1>2, <2>1, <3>1, ConfirmingStays DEF Confirming, Grow
  <2> QED
    BY <2>1, <2>2 DEF Candidate, Mining, Loop
<1>10. ASSUME NEW b \in Children, MineProposerBlock(b) PROVE Candidate(local[Miner])'
  <2>1. /\ local[Miner].pc = "seal" /\ Parent[b] = local[Miner].base /\ Refs(b) = local[Miner].props
        /\ UNCHANGED tx_block_ref
        /\ local'[Miner].pc = "ref_write" /\ local'[Miner].item = b
    BY <1>1, <1>10 DEF MineProposerBlock, At, Pc, Lists, Refs, OnlyLocal, LocalTypeOK
  <2>2. Parent[b] \in DOMAIN tx_block_ref /\ local[Miner].refs = tx_block_ref[Parent[b]]
    BY <1>1, <2>1 DEF LocalInv, CandidateInHand, Picking
  <2>3. Confirming(b)'
    BY <2>1, <2>2 DEF Confirming, Candidate
  <2> QED
    BY <2>1, <2>3 DEF Candidate, Mining, Confirming
<1>11. ASSUME NEW b \in TxBlocks, MineTxBlock(b) PROVE Candidate(local[Miner])'
  <2>1. local'[Miner].pc \in {"clear", "store"}
    BY <1>1, <1>11 DEF MineTxBlock, Become, Clearing, Holding, Blank
  <2> QED
    BY <2>1 DEF Candidate, Mining
<1> QED
  BY <1>3, <1>4, <1>5, <1>6, <1>7, <1>8, <1>9, <1>10, <1>11 DEF MinerStep

LEMMA CandidateCommon ==
  ASSUME IInv, Candidate(local[Miner]), CommonStep(Miner)
  PROVE  Candidate(local[Miner])'
<1>1. /\ Miner \in Threads /\ LocalTypeOK(local[Miner]) /\ local = [t \in Threads |-> local[t]]
  BY MinerFacts DEF LocalInv, Locals
<1>2. Grow
  BY <1>1, CommonStepOK DEF Effect
<1>3. CASE WriteRefs(Miner) \/ Prune(Miner) \/ WriteState(Miner)
  <2>1. /\ local[Miner].pc \in Mining /\ local'[Miner].pc \in Mining
        /\ local'[Miner].item = local[Miner].item
    BY <1>1, <1>3 DEF WriteRefs, Prune, WriteState, At, Pc, Goto, LocalTypeOK, Mining
  <2>2. Confirming(local[Miner].item)'
    <3>1. Confirming(local[Miner].item)
      BY <2>1 DEF Candidate
    <3> QED
      BY <1>2, <2>1, <3>1 DEF Confirming, Grow
  <2> QED
    BY <2>1, <2>2 DEF Candidate, Mining
<1>4. CASE ClearTransaction(Miner) \/ StoreTxBlock(Miner) \/ InsertBlock(Miner) \/ IndexPanics(Miner) \/ LockPanics(Miner)
  <2>1. CASE ClearTransaction(Miner)
    <3>1. local'[Miner].pc \in {"clear", "store"}
      BY <1>1, <2>1 DEF ClearTransaction, LocalTypeOK
    <3> QED
      BY <3>1 DEF Candidate, Mining
  <2>2. CASE ~ ClearTransaction(Miner)
    <3>1. local'[Miner].pc \in {"tip", "dead"}
      BY <1>1, <1>4, <2>2 DEF StoreTxBlock, InsertBlock, IndexPanics, LockPanics, Done, Become, Blank
    <3> QED
      BY <3>1 DEF Candidate, Mining
  <2> QED
    BY <2>1, <2>2
<1> QED
  BY <1>3, <1>4 DEF CommonStep

(* Every block of the tree comes from a peer or from this miner. *)
TreeFrom(F) == \A b \in blocks : b = Genesis \/ b \in F \/ Confirming(b)

OriginInv(F) == WorkersHold(F) /\ Candidate(local[Miner]) /\ TreeFrom(F)

LEMMA InitOrigin == ASSUME NEW F, PeersBlocks(F), NodeInit PROVE OriginInv(F)
<1>1. MailFrom(F) /\ OrphansFrom(F)
  BY DEF NodeInit, PeersBlocks, MailFrom, OrphansFrom
<1>2. \A w \in Workers : Held(F, local[w])
  BY BlankHeld, NodeAssumption DEF NodeInit, Threads, Idle
<1>3. Candidate(local[Miner])
  <2>1. local[Miner].pc \in {"boot", "paused", "idle"}
    BY DEF NodeInit, Threads, Blank
  <2> QED
    BY <2>1 DEF Candidate, Mining
<1>4. TreeFrom(F)
  BY DEF NodeInit, ChainInit, TreeFrom
<1> QED
  BY <1>1, <1>2, <1>3, <1>4 DEF OriginInv, WorkersHold

LEMMA OriginStep ==
  ASSUME NEW F, PeersBlocks(F), IInv, OriginInv(F), [NodeNext]_nodeVars
  PROVE  OriginInv(F)'
<1>1. WorkersHold(F)'
  BY WorkersKeepHolding DEF OriginInv
<1>2. Grow
  BY StepGrows
<1>3. ASSUME local'[Miner] = local[Miner] PROVE Candidate(local[Miner])'
  BY <1>2, <1>3 DEF OriginInv, Candidate, Confirming, Grow
<1>4. Candidate(local[Miner])'
  <2>1. ASSUME NEW w \in Workers, WorkerStep(w) PROVE local'[Miner] = local[Miner]
    BY <2>1, WorkerStepOK, NodeAssumption DEF Effect, Others, Threads
  <2> QED
    BY <1>3, <2>1, CandidateStep, CandidateCommon DEF NodeNext, nodeVars, OriginInv
<1>5. TreeFrom(F)'
  <2>1. ASSUME NEW b \in blocks PROVE b = Genesis \/ b \in F \/ Confirming(b)'
    BY <1>2, ConfirmingStays DEF OriginInv, TreeFrom
  <2>2. ASSUME NEW b \in blocks', b \notin blocks PROVE b \in F \/ Confirming(b)'
    <3>1. ASSUME NEW t \in Threads, InsertBlock(t) PROVE b \in F \/ Confirming(b)'
      <4>1. Insert(local[t].item) /\ Pc(t) = "insert"
        BY <3>1 DEF InsertBlock, At, Item
      <4>2. b = local[t].item
        BY <2>2, <4>1 DEF Insert
      <4>3. CASE t = Miner
        BY <1>2, <4>1, <4>2, <4>3, ConfirmingStays DEF OriginInv, Candidate, Mining, Pc
      <4>4. CASE t \in Workers
        BY <4>1, <4>2, <4>4 DEF OriginInv, WorkersHold, Held, HandPCs, Joining, Pc
      <4> QED
        BY <4>3, <4>4 DEF Threads
    <3>2. ASSUME NEW t \in Threads, Writes(t) PROVE b \in F \/ Confirming(b)'
      BY <2>2, <3>1, <3>2 DEF Writes, WriteRefs, WriteState, OnlyRefs, OnlyState, chainVars
    <3>3. blocks' # blocks
      BY <2>2
    <3>4. CASE \E w \in Workers : WorkerStep(w)
      BY <3>2, <3>3, <3>4, WorkerHides DEF Threads, Hidden, StoreIco, OnlyState, chainVars
    <3>5. CASE MinerStep \/ CommonStep(Miner)
      BY <3>2, <3>3, <3>5, MinerHides DEF Threads, Hidden, BootMiner, OnlyRefs, chainVars
    <3>6. CASE UNCHANGED nodeVars
      BY <3>3, <3>6 DEF nodeVars, chainVars
    <3> QED
      BY <3>4, <3>5, <3>6 DEF NodeNext
  <2>3. \A b \in blocks' : b = Genesis \/ b \in F \/ Confirming(b)'
    BY <2>1, <2>2
  <2> QED
    BY <2>3 DEF TreeFrom, Confirming
<1> QED
  BY <1>1, <1>4, <1>5 DEF OriginInv

LEMMA OwnBlocks ==
  ASSUME NEW F, PeersBlocks(F), IInv, OriginInv(F), NEW b \in blocks \cap Mineable
  PROVE  /\ b \in Children /\ Refs(b) \cap tx_block_ref[Parent[b]] = {}
         /\ Attacking => Refs(b) = {}
<1>1. b \in Children
  BY NodeAssumption, BlockAssumption DEF IInv, SharedInv, ChainInv, ChainTypeOK, Children
<1>2. CASE Confirming(b)
  BY <1>1, <1>2 DEF Confirming
<1>3. CASE b \in F
  <2>1. RefsOf[b] = <<>>
    BY <1>3 DEF PeersBlocks
  <2>2. Refs(b) = {}
    BY <2>1 DEF Refs, ToSet
  <2> QED
    BY <1>1, <2>2
<1> QED
  BY <1>1, <1>2, <1>3 DEF OriginInv, TreeFrom, Children

(* No block of the miner confirms a transaction block twice: whatever came  *)
(* in while it read the tip, its references and the pool.                   *)
THEOREM MinedRefsAreNewCorrect ==
  ASSUME NEW F, PeersBlocks(F) PROVE NodeSpec => []MinedRefsAreNew
<1>1. NodeInit => OriginInv(F)
  BY InitOrigin
<1>2. IInv /\ OriginInv(F) /\ [NodeNext]_nodeVars => OriginInv(F)'
  BY OriginStep
<1>3. IInv /\ OriginInv(F) => MinedRefsAreNew
  BY OwnBlocks DEF MinedRefsAreNew
<1> QED
  BY <1>1, <1>2, <1>3, InitInv, NextInv, PTL DEF NodeSpec

(* A block without references leaves the ledger as it was. *)
LEMMA NothingConfirmed ==
  ASSUME NEW b \in Children, Refs(b) = {}, NEW S PROVE LedgerAfter(S, b) = S
<1> DEFINE M == {S}
<1>1. S \in M /\ \A T \in M : \A t \in Refs(b) : \A x \in ToSet(ContentOf[t]) : ApplyTx(T, x) \in M
  OBVIOUS
<1>2. M = {S}
  OBVIOUS
<1> HIDE DEF M
<1>3. LedgerAfter(S, b) \in M
  BY <1>1, LedgerStays
<1> QED
  BY <1>2, <1>3

(* The blocks of an attacker change neither the ledger nor the references:  *)
(* each has those of the very block it is built on.                         *)
THEOREM AttackConfirmsNothingCorrect ==
  ASSUME NEW F, PeersBlocks(F) PROVE NodeSpec => []AttackConfirmsNothing
<1>1. NodeInit => OriginInv(F)
  BY InitOrigin
<1>2. IInv /\ OriginInv(F) /\ [NodeNext]_nodeVars => OriginInv(F)'
  BY OriginStep
<1>3. ASSUME IInv, OriginInv(F), Attacking, NEW b \in blocks \cap Mineable
      PROVE  glob_state[b] = glob_state[Parent[b]] /\ tx_block_ref[b] = tx_block_ref[Parent[b]]
  <2>1. b \in Children /\ b # Genesis /\ Refs(b) = {}
    BY <1>3, OwnBlocks DEF Children
  <2>2. /\ glob_state[b] = LedgerAfter(glob_state[Parent[b]], b)
        /\ tx_block_ref[b] = RefsAfter(tx_block_ref[Parent[b]], b)
    BY <1>3, <2>1 DEF IInv, SharedInv, PublishedComplete, StatesOK, RefsOK
  <2> QED
    BY <2>1, <2>2, NothingConfirmed DEF RefsAfter
<1>4. IInv /\ OriginInv(F) => AttackConfirmsNothing
  BY <1>3 DEF AttackConfirmsNothing
<1> QED
  BY <1>1, <1>2, <1>4, InitInv, NextInv, PTL DEF NodeSpec
-----------------------------------------------------------------------------
(* A thread that clears the pool has transactions of its block to go. *)
Clears(r) ==
    r.pc = "clear" => \A i \in DOMAIN r.todo : r.todo[i] \in ToSet(ContentOf[r.item])
AllClear == \A t \in Threads : Clears(local[t])

LEMMA ClearingClears == ASSUME NEW b \in TxBlocks PROVE Clears(Clearing(b))
<1> DEFINE s == ContentOf[b]
<1>1. \A i \in DOMAIN s : s[i] \in ToSet(s)
  BY DEF ToSet
<1>2. Clearing(b).item = b /\ Clearing(b).todo = s
  BY DEF Clearing, Holding, Blank
<1> QED
  BY <1>1, <1>2 DEF Clears

LEMMA OtherReceives ==
  ASSUME IInv, NEW w \in Workers, ReceiveStep(w)
  PROVE  local' = local \/ local'[w].pc # "clear" \/ \E b \in TxBlocks : TransactionBlocks(w, b)
<1>1. w \in Threads /\ local = [t \in Threads |-> local[t]]
  BY LocalFacts DEF Locals
<1>2. ASSUME NEW m, NEW r, Handle(w, m, r) PROVE local'[w] = r
  BY <1>1, <1>2 DEF Handle, Become
<1>3. ASSUME NEW b \in Children, ReceiveProposerBlock(w, b) PROVE local'[w].pc # "clear"
  <2>1. local'[w] \in {Blank("recv"), Holding(b, "parent")}
    BY <1>2, <1>3 DEF ReceiveProposerBlock
  <2> QED
    BY <2>1 DEF Holding, Blank
<1>4. ASSUME NEW x \in Txs, GetTransactions(w, x) PROVE local'[w].pc # "clear"
  <2>1. local'[w] \in {Blank("recv"), Holding(x, "gt_take")}
    BY <1>2, <1>4 DEF GetTransactions
  <2> QED
    BY <2>1 DEF Holding, Blank
<1>5. ASSUME NEW x \in Txs, Transactions(w, x) PROVE local'[w].pc # "clear"
  <2>1. local'[w] = [Holding(x, "tx_known") EXCEPT !.base = tip_node_hash]
    BY <1>2, <1>5 DEF Transactions
  <2> QED
    BY <2>1 DEF Holding, Blank
<1>6. ASSUME ICO(w) PROVE local'[w].pc # "clear"
  <2>1. local'[w] \in {Blank("recv"), Blank("ico")}
    BY <1>2, <1>6 DEF ICO
  <2> QED
    BY <2>1 DEF Blank
<1>7. ASSUME NEW m \in Message, ReceivePanics(w, m) PROVE local'[w].pc # "clear"
  <2>1. local'[w] = Blank("dead")
    BY <1>1, <1>7 DEF ReceivePanics, Become
  <2> QED
    BY <2>1 DEF Blank
<1>8. ASSUME NEW m, NEW have, NEW a, Announcement(w, m, have, a) PROVE local' = local
  BY <1>8 DEF Announcement
<1> QED
  BY <1>3, <1>4, <1>5, <1>6, <1>7, <1>8
  DEF ReceiveStep, NewProposerBlockHashes, NewTransactionBlockHashes, NewTransactionHashes

LEMMA NextBlockClears ==
  ASSUME IInv, NEW w \in Workers, NextBlock(w) PROVE local'[w].pc # "clear"
<1> DEFINE vec == local[w].todo
           r == [Holding(Head(vec), "verify") EXCEPT !.todo = Tail(vec)]
<1>1. CASE vec = <<>>
  <2>1. local'[w] = Blank("recv")
    BY <1>1, LocalFacts, Becomes DEF NextBlock
  <2> QED
    BY <2>1 DEF Blank
<1>2. CASE vec # <<>>
  <2>1. local'[w] = r
    BY <1>2, LocalFacts, Becomes DEF NextBlock
  <2>2. r.pc = "verify"
    BY DEF Holding, Blank
  <2> QED
    BY <2>1, <2>2
<1> QED
  BY <1>1, <1>2

LEMMA DoneClears ==
  ASSUME IInv, NEW t \in Threads, Done(t) PROVE local'[t].pc # "clear"
<1>1. local'[t] \in {Blank("recv"), Blank("tip")}
  BY Becomes DEF Done, IInv
<1> QED
  BY <1>1 DEF Blank

LEMMA GotoClears ==
  ASSUME IInv, NEW t \in Threads, NEW l, l # "clear", Goto(t, l) PROVE local'[t].pc # "clear"
  BY Goes DEF IInv

LEMMA OtherWorkerSteps ==
  ASSUME IInv, NEW w \in Workers, ProposerBlockStep(w) \/ TransactionStep(w)
  PROVE  local'[w].pc # "clear"
<1>1. w \in Threads /\ LocalTypeOK(local[w]) /\ local = [t \in Threads |-> local[t]]
  BY LocalFacts DEF Locals, LocalInv
<1>2. ASSUME ReadRefs(w) \/ ReadState(w) \/ TakeOrphans(w) PROVE local'[w].pc # "clear"
  BY <1>1, <1>2 DEF ReadRefs, ReadState, TakeOrphans, LocalTypeOK
<1> QED
  BY <1>1, <1>2, NextBlockClears, DoneClears, GotoClears
  DEF ProposerBlockStep, TransactionStep, FindParent, FindOrphans, PushOrphan, NewOrphan, Verify,
      NewParent, RemoveOrphans, SendTransaction, StoreIco, CheckTransaction, CheckInputs, AddTransaction

LEMMA OtherMinerSteps ==
  ASSUME IInv, MinerStep
  PROVE  local'[Miner].pc # "clear" \/ \E b \in TxBlocks : MineTxBlock(b)
<1>1. Miner \in Threads /\ LocalTypeOK(local[Miner]) /\ local = [t \in Threads |-> local[t]]
  BY MinerFacts DEF Locals, LocalInv
<1>2. ASSUME ReadTip PROVE local'[Miner].pc # "clear"
  <2>1. local'[Miner] = [Blank("m_state") EXCEPT !.base = tip_node_hash]
    BY <1>1, <1>2 DEF ReadTip, Become
  <2> QED
    BY <2>1 DEF Blank
<1>3. ASSUME PickTransactions \/ PickTxBlocks PROVE local'[Miner].pc # "clear"
  <2>1. \/ \E P : local' = [local EXCEPT ![Miner].content = P, ![Miner].pc = "m_refs"]
        \/ \E P : local' = [local EXCEPT ![Miner].props = P, ![Miner].pc = "seal"]
    BY <1>3 DEF PickTransactions, PickTxBlocks
  <2> QED
    BY <1>1, <2>1 DEF LocalTypeOK
<1>4. ASSUME ReadTipState \/ ReadTipRefs \/ ApplyMined PROVE local'[Miner].pc # "clear"
  <2>1. CASE ReadTipState
    BY <1>1, <2>1 DEF ReadTipState, LocalTypeOK, Loop
  <2>2. CASE ReadTipRefs
    BY <1>1, <2>2 DEF ReadTipRefs, LocalTypeOK, Loop
  <2>3. CASE ApplyMined
    BY <1>1, <2>3 DEF ApplyMined, LocalTypeOK, Loop
  <2> QED
    BY <1>4, <2>1, <2>2, <2>3
<1>5. ASSUME NEW b, MineProposerBlock(b) PROVE local'[Miner].pc # "clear"
  BY <1>1, <1>5 DEF MineProposerBlock, LocalTypeOK
<1> QED
  BY <1>1, <1>2, <1>3, <1>4, <1>5, DoneClears, GotoClears DEF MinerStep, BootMiner, StartMiner, MineNothing

LEMMA OtherCommonSteps ==
  ASSUME IInv, NEW t \in Threads, CommonStep(t)
  PROVE  local'[t].pc # "clear" \/ ClearTransaction(t)
<1>1. Locals
  BY DEF IInv
<1>2. ASSUME Become(t, Blank("dead")) PROVE local'[t].pc # "clear"
  <2>1. local'[t] = Blank("dead")
    BY <1>1, <1>2, Becomes
  <2> QED
    BY <2>1 DEF Blank
<1> QED
  BY <1>2, DoneClears, GotoClears
  DEF CommonStep, StoreTxBlock, WriteRefs, Prune, WriteState, InsertBlock, IndexPanics, LockPanics

LEMMA ClearTransactionClears ==
  ASSUME IInv, NEW t \in Threads, Clears(local[t]), ClearTransaction(t)
  PROVE  /\ Clears(local[t])' /\ local'[t].item = local[t].item /\ local'[t].pc \in {"clear", "store"}
         /\ Head(local[t].todo) \in ToSet(ContentOf[local[t].item])
<1> DEFINE vec == local[t].todo
<1>1. /\ local[t].pc = "clear" /\ vec \in Seq(Txs) /\ vec # <<>>
      /\ LocalTypeOK(local[t]) /\ local = [u \in Threads |-> local[u]]
  BY DEF ClearTransaction, At, Pc, IInv, Locals, LocalInv, TransactionInHand
<1>2. /\ local'[t].item = local[t].item /\ local'[t].todo = Tail(vec)
      /\ local'[t].pc \in {"clear", "store"}
  BY <1>1 DEF ClearTransaction, LocalTypeOK
<1>3. \A i \in DOMAIN vec : vec[i] \in ToSet(ContentOf[local[t].item])
  BY <1>1 DEF Clears
<1> HIDE DEF vec
<1>4. \A i \in DOMAIN Tail(vec) : Tail(vec)[i] \in ToSet(ContentOf[local[t].item])
  BY <1>1, <1>3
<1>5. Head(vec) \in ToSet(ContentOf[local[t].item])
  BY <1>1, <1>3
<1> QED
  BY <1>2, <1>4, <1>5 DEF Clears, vec

LEMMA ClearStep == ASSUME IInv, AllClear, [NodeNext]_nodeVars PROVE AllClear'
<1>1. ASSUME NEW t \in Threads, Others(t), Clears(local[t])' PROVE AllClear'
  <2>1. ASSUME NEW u \in Threads, u # t PROVE local'[u] = local[u]
    BY <1>1, <2>1 DEF Others
  <2>2. ASSUME NEW u \in Threads PROVE Clears(local[u])'
    BY <1>1, <2>1 DEF AllClear, Clears
  <2> QED
    BY <2>2 DEF AllClear
<1>2. ASSUME local' = local PROVE AllClear'
  BY <1>2 DEF AllClear, Clears
<1>3. ASSUME NEW t \in Threads, local'[t].pc # "clear" PROVE Clears(local[t])'
  BY <1>3 DEF Clears
<1>4. ASSUME NEW t \in Threads, NEW b \in TxBlocks, local'[t] = Clearing(b) PROVE Clears(local[t])'
  BY <1>4, ClearingClears DEF Clears
<1>5. ASSUME NEW w \in Workers, NEW b \in TxBlocks, TransactionBlocks(w, b) PROVE Clears(local[w])'
  <2>1. local'[w] \in {Blank("recv"), Clearing(b)}
    BY <1>5, LocalFacts, Becomes DEF TransactionBlocks, Handle
  <2>2. Blank("recv").pc # "clear"
    BY DEF Blank
  <2> QED
    BY <1>3, <1>4, <2>1, <2>2 DEF Threads
<1>6. ASSUME NEW b \in TxBlocks, MineTxBlock(b) PROVE Clears(local[Miner])'
  BY <1>4, <1>6, MinerFacts, Becomes DEF MineTxBlock
<1>7. ASSUME NEW t \in Threads, ClearTransaction(t) PROVE Clears(local[t])'
  BY <1>7, ClearTransactionClears DEF AllClear
<1>8. ASSUME NEW w \in Workers, WorkerStep(w) PROVE AllClear'
  <2>1. w \in Threads /\ Others(w)
    BY <1>8, WorkerStepOK, LocalFacts DEF Effect
  <2>2. local' = local \/ Clears(local[w])'
    BY <1>3, <1>5, <1>7, <1>8, <2>1, OtherReceives, OtherWorkerSteps, OtherCommonSteps DEF WorkerStep
  <2> QED
    BY <1>1, <1>2, <2>1, <2>2
<1>9. ASSUME MinerStep \/ CommonStep(Miner) PROVE AllClear'
  <2>1. Miner \in Threads /\ Others(Miner)
    BY <1>9, MinerStepOK, CommonStepOK, MinerFacts DEF Effect
  <2>2. Clears(local[Miner])'
    BY <1>3, <1>6, <1>7, <1>9, <2>1, OtherMinerSteps, OtherCommonSteps
  <2> QED
    BY <1>1, <2>1, <2>2
<1> QED
  BY <1>2, <1>8, <1>9 DEF NodeNext, nodeVars
-----------------------------------------------------------------------------
(* What a step of thread t leaves of an account. *)
Handing == {"clear", "store", "state_write"}
Accounts == \A x \in Txs : Accounted(x) => Accounted(x)'

LEMMA QuietAccounts ==
  ASSUME NEW t \in Threads, Grow, Others(t), tx_pool \subseteq tx_pool', Pc(t) \notin Handing
  PROVE  Accounts
<1>1. ASSUME NEW u \in Threads, Pc(u) \in Handing PROVE local'[u] = local[u]
  BY <1>1 DEF Others, Pc
<1>2. ASSUME NEW x \in Txs, x \in tx_pool PROVE Accounted(x)'
  BY <1>2 DEF Accounted
<1>3. ASSUME NEW x \in Txs, NEW b \in tx_block_pool, x \in ToSet(ContentOf[b]) PROVE Accounted(x)'
  BY <1>3 DEF Accounted, Grow
<1>4. ASSUME NEW x \in Txs, NEW u \in Threads, Pc(u) \in {"clear", "store"}, x \in ToSet(ContentOf[Item(u)])
      PROVE  Accounted(x)'
  BY <1>1, <1>4 DEF Accounted, Handing, Pc, Item
<1>5. ASSUME NEW x \in Txs, NEW b \in DOMAIN glob_state \ {Genesis}, ~ Unspent(glob_state[b], x)
      PROVE  Accounted(x)'
  BY <1>5 DEF Accounted, Grow, Unspent
<1>6. ASSUME NEW x \in Txs, NEW u \in Threads, Pc(u) = "state_write", ~ Unspent(local[u].state, x)
      PROVE  Accounted(x)'
  BY <1>1, <1>6 DEF Accounted, Handing, Pc, Unspent
<1> QED
  BY <1>2, <1>3, <1>4, <1>5, <1>6 DEF Accounts, Accounted

(* The account of x is with thread t or elsewhere, where it stays.          *)
LEMMA HandedOver ==
  ASSUME NEW t \in Threads, Grow, Others(t), NEW x \in Txs, Accounted(x)
  PROVE  \/ Accounted(x)'
         \/ x \in tx_pool
         \/ Pc(t) \in {"clear", "store"} /\ x \in ToSet(ContentOf[Item(t)])
         \/ Pc(t) = "state_write" /\ ~ Unspent(local[t].state, x)
<1>1. ASSUME NEW u \in Threads, u # t PROVE local'[u] = local[u]
  BY <1>1 DEF Others
<1>2. ASSUME NEW b \in tx_block_pool, x \in ToSet(ContentOf[b]) PROVE Accounted(x)'
  BY <1>2 DEF Accounted, Grow
<1>3. ASSUME NEW u \in Threads, u # t, Pc(u) \in {"clear", "store"}, x \in ToSet(ContentOf[Item(u)])
      PROVE  Accounted(x)'
  BY <1>1, <1>3 DEF Accounted, Pc, Item
<1>4. ASSUME NEW b \in DOMAIN glob_state \ {Genesis}, ~ Unspent(glob_state[b], x)
      PROVE  Accounted(x)'
  BY <1>4 DEF Accounted, Grow, Unspent
<1>5. ASSUME NEW u \in Threads, u # t, Pc(u) = "state_write", ~ Unspent(local[u].state, x)
      PROVE  Accounted(x)'
  BY <1>1, <1>5 DEF Accounted, Pc, Unspent
<1> QED
  BY <1>2, <1>3, <1>4, <1>5 DEF Accounted

LEMMA ClearAccounts ==
  ASSUME IInv, AllClear, NEW t \in Threads, ClearTransaction(t) PROVE Accounts
<1>1. Grow /\ Others(t) /\ Pc(t) = "clear" /\ tx_pool' = tx_pool \ {Head(local[t].todo)}
  BY ClearTransactionStep DEF Effect, ClearTransaction, At
<1>2. /\ local'[t].item = local[t].item /\ local'[t].pc \in {"clear", "store"}
      /\ Head(local[t].todo) \in ToSet(ContentOf[local[t].item])
  BY ClearTransactionClears DEF AllClear
<1>3. ASSUME NEW x \in Txs, x \in ToSet(ContentOf[Item(t)]) PROVE Accounted(x)'
  BY <1>2, <1>3 DEF Accounted, Pc, Item
<1>4. ASSUME NEW x \in Txs, x \in tx_pool PROVE Accounted(x)'
  <2>1. CASE x \in tx_pool'
    BY <2>1 DEF Accounted
  <2>2. CASE x = Head(local[t].todo)
    BY <1>2, <1>3, <2>2 DEF Item
  <2> QED
    BY <1>1, <1>4, <2>1, <2>2
<1> QED
  BY <1>1, <1>3, <1>4, HandedOver DEF Accounts

LEMMA StoreAccounts ==
  ASSUME IInv, NEW t \in Threads, StoreTxBlock(t) PROVE Accounts
<1>1. /\ Grow /\ Others(t) /\ Pc(t) = "store" /\ tx_pool' = tx_pool
      /\ Item(t) \in tx_block_pool'
  BY StoreTxBlockStep DEF Effect, StoreTxBlock, At, OnlyTxBlockPool
<1>2. ASSUME NEW x \in Txs, x \in ToSet(ContentOf[Item(t)]) PROVE Accounted(x)'
  BY <1>1, <1>2 DEF Accounted
<1>3. ASSUME NEW x \in Txs, x \in tx_pool PROVE Accounted(x)'
  BY <1>1, <1>3 DEF Accounted
<1> QED
  BY <1>1, <1>2, <1>3, HandedOver DEF Accounts

LEMMA PruneAccounts ==
  ASSUME IInv, NEW t \in Threads, Prune(t) PROVE Accounts
<1>1. /\ Grow /\ Others(t) /\ Pc(t) = "prune"
      /\ tx_pool' = {x \in tx_pool : Unspent(local[t].state, x)}
  BY PruneStep DEF Effect, Prune, At
<1>2. local'[t].pc = "state_write" /\ local'[t].state = local[t].state
  BY Goes DEF IInv, Locals, LocalInv, LocalTypeOK, Prune
<1>3. ASSUME NEW x \in Txs, x \in tx_pool PROVE Accounted(x)'
  <2>1. CASE x \in tx_pool'
    BY <2>1 DEF Accounted
  <2>2. CASE ~ Unspent(local[t].state, x)
    BY <1>2, <2>2 DEF Accounted, Pc, Unspent
  <2> QED
    BY <1>1, <1>3, <2>1, <2>2
<1> QED
  BY <1>1, <1>3, HandedOver DEF Accounts

LEMMA WriteStateAccounts ==
  ASSUME IInv, NEW t \in Threads, WriteState(t) PROVE Accounts
<1> DEFINE b == local[t].item
<1>1. /\ Grow /\ Others(t) /\ Pc(t) = "state_write" /\ tx_pool' = tx_pool
      /\ glob_state' = Put(glob_state, b, local[t].state)
  BY WriteStateStep DEF Effect, WriteState, At, Item, OnlyState
<1>2. b # Genesis
  BY <1>1 DEF IInv, Locals, LocalInv, BlockInHand, Joining, Pc, Children
<1> HIDE DEF b
<1>3. b \in DOMAIN glob_state' \ {Genesis} /\ glob_state'[b] = local[t].state
  BY <1>1, <1>2 DEF Put
<1>4. ASSUME NEW x \in Txs, ~ Unspent(local[t].state, x) PROVE Accounted(x)'
  BY <1>3, <1>4 DEF Accounted, Unspent
<1>5. ASSUME NEW x \in Txs, x \in tx_pool PROVE Accounted(x)'
  BY <1>1, <1>5 DEF Accounted
<1> QED
  BY <1>1, <1>4, <1>5, HandedOver DEF Accounts

LEMMA PanicPoisons ==
  ASSUME IInv, NEW t \in Threads, IndexPanics(t) \/ LockPanics(t) PROVE poisoned' # {}
  BY DEF IndexPanics, LockPanics, OnlyLocal

LEMMA CommonAccounts ==
  ASSUME IInv, AllClear, NEW t \in Threads, CommonStep(t) PROVE Accounts \/ poisoned' # {}
<1>1. Grow /\ Others(t)
  BY CommonStepOK DEF Effect
<1>2. ASSUME WriteRefs(t) \/ InsertBlock(t) PROVE Accounts
  <2>1. tx_pool' = tx_pool /\ Pc(t) \in {"ref_write", "insert"}
    BY <1>2 DEF WriteRefs, InsertBlock, OnlyRefs, At
  <2> QED
    BY <1>1, <2>1, QuietAccounts DEF Handing
<1> QED
  BY <1>2, ClearAccounts, StoreAccounts, PruneAccounts, WriteStateAccounts, PanicPoisons DEF CommonStep

LEMMA WorkerAccounts ==
  ASSUME IInv, AllClear, NEW w \in Workers, WorkerStep(w) PROVE Accounts \/ poisoned' # {}
<1>1. Grow /\ Others(w) /\ w \in Threads
  BY WorkerStepOK, LocalFacts DEF Effect
<1>2. CASE ReceiveStep(w)
  <2>1. tx_pool' = tx_pool /\ Pc(w) = "recv"
    BY <1>2 DEF ReceiveStep, NewProposerBlockHashes, NewTransactionBlockHashes, NewTransactionHashes,
       Announcement, ReceiveProposerBlock, TransactionBlocks, GetTransactions, Transactions, ICO, Handle,
       Receives, ReceivePanics, Arrived, OnlyInbox
  <2> QED
    BY <1>1, <2>1, QuietAccounts DEF Handing
<1>3. CASE ProposerBlockStep(w)
  <2>1. tx_pool' = tx_pool /\ Pc(w) \notin Handing
    BY <1>3 DEF ProposerBlockStep, FindParent, FindOrphans, PushOrphan, NewOrphan, Verify,
       ReadRefs, ReadState, NewParent, TakeOrphans, RemoveOrphans, At, OnlyLocal, OnlyOrphans, Handing
  <2> QED
    BY <1>1, <2>1, QuietAccounts
<1>4. CASE TransactionStep(w)
  <2>1. tx_pool \subseteq tx_pool' /\ Pc(w) \notin Handing
    BY <1>4 DEF TransactionStep, SendTransaction, StoreIco, CheckTransaction, CheckInputs, AddTransaction,
       At, OnlyLocal, OnlyState, Handing
  <2> QED
    BY <1>1, <2>1, QuietAccounts
<1> QED
  BY <1>1, <1>2, <1>3, <1>4, CommonAccounts DEF WorkerStep

LEMMA MinerAccounts ==
  ASSUME IInv, MinerStep PROVE Accounts
<1>1. Grow /\ Others(Miner) /\ Miner \in Threads
  BY MinerStepOK, MinerFacts DEF Effect
<1>2. tx_pool' = tx_pool /\ Pc(Miner) \notin Handing
  BY DEF MinerStep, BootMiner, StartMiner, ReadTip, ReadTipState, PickTransactions, ReadTipRefs,
     PickTxBlocks, MineNothing, ApplyMined, MineProposerBlock, MineTxBlock, At, OnlyLocal, OnlyRefs, Handing
<1> QED
  BY <1>1, <1>2, QuietAccounts

(* No transaction that was in the pool is lost between the mutexes: it is   *)
(* in the pool, in a transaction block that is stored or in the hands of a  *)
(* thread that will store it, or spent in the state of a block that is      *)
(* stored or about to be; or a thread has panicked.                         *)
THEOREM TransactionsAccountedCorrect == NodeSpec => TransactionsAccounted
<1>1. NodeInit => AllClear
  BY DEF NodeInit, AllClear, Clears, Blank
<1>2. IInv /\ AllClear /\ [NodeNext]_nodeVars => AllClear'
  BY ClearStep
<1>3. ASSUME IInv, AllClear, NodeNext PROVE Accounts \/ poisoned' # {}
  BY <1>3, WorkerAccounts, MinerAccounts, CommonAccounts DEF NodeNext, Threads
<1>4. IInv /\ AllClear /\ [NodeNext]_nodeVars
        => [ \A x \in Txs : Accounted(x) => Accounted(x)' \/ poisoned' # {} ]_nodeVars
  BY <1>3 DEF Accounts
<1> QED
  BY <1>1, <1>2, <1>4, InitInv, NextInv, PTL DEF NodeSpec, TransactionsAccounted
=============================================================================
