---------------------------- MODULE WalletProofs ----------------------------
(***************************************************************************)
(* The generator thread does the node no harm: with it and an operator who *)
(* starts it and looks things up as often as he likes, the node keeps the  *)
(* inductive invariant of NodeProofs and still implements the atomic       *)
(* chain.  And it gives out a coin once per height: PassInv counts the     *)
(* spends in the pool against the tip of the generator's last pass.        *)
(* What the node promises its readers without a generator (what a miner    *)
(* hashes and references, what the pool takes in and what leaves it) holds *)
(* with one as well.                                                       *)
(* Only the ICO command is left out: it writes the state of the tip,       *)
(* whatever block that is by then.                                         *)
(***************************************************************************)
EXTENDS Wallet, NodeProofs

(* The tip the generator read is a block of the tree, for good.             *)
Fields == wallet = [pc |-> wallet.pc, running |-> wallet.running, last |-> wallet.last,
                    tip |-> wallet.tip, coins |-> wallet.coins]
WalletInv ==
    /\ Fields
    /\ wallet.pc \notin {"ico_tip", "ico_write"} /\ wallet.tip \in blocks
    /\ commands \in [Signals -> Nat] /\ commands["ICO"] = 0

(* What a step of the generator or the operator may do to the node.         *)
Harmless ==
    /\ UNCHANGED <<chainVars, orphan_handler, glob_state, tx_block_pool, tx_block_ref, inbox, local>>
    /\ tx_pool' \subseteq Txs
    /\ poisoned' \subseteq Mutexes
    /\ LedgersSpared

(* Such a step keeps the node's invariant, and no reader of the chain sees  *)
(* it.                                                                      *)
LEMMA HarmlessKeeps == ASSUME IInv, Harmless PROVE IInv' /\ UNCHANGED Atomic!atomicVars
<1>1. UNCHANGED Atomic!atomicVars
  BY HiddenStutters DEF Harmless, Hidden
<1>2. SharedInv'
  <2>1. ChainInv' /\ RefsOK' /\ StatesOK' /\ OrphansOK'
    BY DEF Harmless, chainVars, IInv, SharedInv, ChainInv, ChainTypeOK, TipIsHighest,
           HeightsAddUp, RefsOK, StatesOK, OrphansOK
  <2>2. PublishedComplete'
    BY DEF Harmless, chainVars, IInv, SharedInv, PublishedComplete
  <2>3. PoolsOK'
    BY DEF Harmless, IInv, SharedInv, PoolsOK
  <2> QED
    BY <2>1, <2>2, <2>3 DEF SharedInv
<1>3. BootInv'
  BY DEF Harmless, IInv, BootInv, Pc
<1>4. Locals'
  <2>1. /\ UNCHANGED <<blocks, glob_state, tx_block_pool, tx_block_ref, local>>
        /\ local = [t \in Threads |-> local[t]]
        /\ \A t \in Threads : LocalInv(t, local[t])
    BY DEF Harmless, chainVars, IInv, Locals
  <2>2. ASSUME NEW t \in Threads PROVE LocalInv(t, local[t])'
    <3>1. LocalTypeOK(local[t])'
      BY <2>1 DEF LocalInv, LocalTypeOK
    <3>2. BlockInHand(local[t])'
      BY <2>1 DEF LocalInv, BlockInHand
    <3>3. TransactionInHand(local[t])'
      BY <2>1 DEF LocalInv, TransactionInHand
    <3>4. CandidateInHand(t, local[t])'
      BY <2>1 DEF LocalInv, CandidateInHand
    <3> QED
      BY <3>1, <3>2, <3>3, <3>4 DEF LocalInv
  <2> QED
    BY <2>1, <2>2 DEF Locals
<1> QED
  BY <1>1, <1>2, <1>3, <1>4 DEF IInv

(* So is one that touches nothing of the node's. *)
LEMMA UntouchedIsHarmless == ASSUME IInv, UNCHANGED nodeVars PROVE Harmless
  BY DEF nodeVars, Harmless, LedgersSpared, IInv, SharedInv, PoolsOK
-----------------------------------------------------------------------------
(* The tip is a block of the tree; a warm node has the state of every       *)
(* block of the tree, so the generator's index does not panic.              *)
LEMMA StateIsThere ==
  ASSUME IInv, WalletInv, GenesisKnown PROVE ~ StateMissing
<1>1. wallet.tip \in blocks
  BY DEF WalletInv
<1>2. wallet.tip \in DOMAIN glob_state
  BY <1>1 DEF IInv, SharedInv, PublishedComplete, GenesisKnown
<1> QED
  BY <1>2 DEF StateMissing

(* What it remembers stays true if its tip and its commands stay, or it     *)
(* reads the tip again.                                                     *)
LEMMA WalletKept ==
  ASSUME IInv, WalletInv, blocks \subseteq blocks', commands' = commands, Fields',
         wallet'.pc \notin {"ico_tip", "ico_write"}, wallet'.tip \in {wallet.tip, tip_node_hash}
  PROVE  WalletInv'
<1>1. tip_node_hash \in blocks
  BY DEF IInv, SharedInv, ChainInv, ChainTypeOK, TipIsHighest
<1> QED
  BY <1>1 DEF WalletInv

(* A step of the generator thread. *)
LEMMA GeneratorIsHarmless ==
  ASSUME IInv, WalletInv, GeneratorStep PROVE Harmless /\ WalletInv'
<1> USE DEF GenAt, GenGoto, OnlyWallet, Fields
<1>1. Fields /\ wallet.pc \notin {"ico_tip", "ico_write"}
  BY DEF WalletInv
<1>2. Resume \in {"g_tip", "loop"}
  BY DEF Resume
<1>3. CASE NoCommand \/ Look \/ GenDone \/ GenLockPanics
  <2>1. PICK l \in {"g_tip", "loop", "dead"} : wallet' = [wallet EXCEPT !.pc = l]
    BY <1>2, <1>3 DEF NoCommand, Look, GenDone, GenLockPanics
  <2>2. UNCHANGED nodeVars /\ commands' = commands
    BY <1>3 DEF NoCommand, Look, GenDone, GenLockPanics
  <2>3. Fields' /\ wallet'.pc = l /\ wallet'.tip = wallet.tip
    BY <1>1, <2>1
  <2> QED
    BY <2>1, <2>2, <2>3, UntouchedIsHarmless, WalletKept DEF nodeVars, chainVars
<1>4. CASE LookTip \/ GenTip
  <2>1. UNCHANGED nodeVars /\ commands' = commands
    BY <1>4 DEF LookTip, GenTip
  <2>2. Fields' /\ wallet'.pc \in {"look_state", "loop", "g_state"}
        /\ wallet'.tip \in {wallet.tip, tip_node_hash}
    <3>1. CASE LookTip
      BY <1>1, <3>1 DEF LookTip
    <3>2. CASE GenTip /\ wallet.last = tip_node_hash
      BY <1>1, <3>2 DEF GenTip
    <3>3. CASE GenTip /\ wallet.last # tip_node_hash
      BY <1>1, <3>3 DEF GenTip
    <3> QED
      BY <1>4, <3>1, <3>2, <3>3
  <2> QED
    BY <2>1, <2>2, UntouchedIsHarmless, WalletKept DEF nodeVars, chainVars
<1>5. CASE GenState
  <2>1. UNCHANGED nodeVars /\ commands' = commands
    BY <1>5 DEF GenState
  <2>2. Fields' /\ wallet'.pc = "g_add" /\ wallet'.tip = wallet.tip
    BY <1>1, <1>5 DEF GenState
  <2> QED
    BY <2>1, <2>2, UntouchedIsHarmless, WalletKept DEF nodeVars, chainVars
<1>6. CASE GenAdd
  <2>1. PICK c \in wallet.coins : wallet' = [wallet EXCEPT !.coins = @ \ {c}]
    BY <1>6 DEF GenAdd
  <2>2. /\ tx_pool' = tx_pool \/ \E x \in WellSigned : tx_pool' = tx_pool \cup {x}
        /\ OnlyTxPool /\ commands' = commands /\ local' = local /\ wallet.pc = "g_add"
    BY <1>6 DEF GenAdd, Made
  <2>3. Harmless
    BY <2>2, TxAssumption DEF OnlyTxPool, Harmless, LedgersSpared, IInv, SharedInv, PoolsOK
  <2>4. Fields' /\ wallet'.pc = wallet.pc /\ wallet'.tip = wallet.tip
    BY <1>1, <2>1
  <2> QED
    BY <1>1, <2>2, <2>3, <2>4, WalletKept DEF Harmless, chainVars
<1>7. CASE GenIndexPanics
  <2>1. ~ GenesisKnown
    BY <1>7, StateIsThere DEF GenIndexPanics
  <2>2. Harmless
    BY <1>7, <2>1 DEF GenIndexPanics, OnlyPoison, Harmless, LedgersSpared, IInv, SharedInv, PoolsOK, Mutexes
  <2>3. Fields' /\ wallet'.pc = "dead" /\ wallet'.tip = wallet.tip /\ commands' = commands
    BY <1>1, <1>7 DEF GenIndexPanics
  <2> QED
    BY <2>2, <2>3, WalletKept DEF Harmless, chainVars
<1>8. CASE IcoTip \/ IcoWrite
  BY <1>1, <1>8 DEF IcoTip, IcoWrite
<1> QED
  BY <1>3, <1>4, <1>5, <1>6, <1>7, <1>8 DEF GeneratorStep

(* A command of the operator. *)
LEMMA CommandIsHarmless ==
  ASSUME IInv, WalletInv, NEW signal \in Signals, Command(signal) PROVE Harmless /\ WalletInv'
<1>1. Fields /\ commands \in [Signals -> Nat] /\ commands["ICO"] = 0 /\ wallet.tip \in blocks
  BY DEF WalletInv
<1>2. commands[signal] > 0 /\ commands' = [commands EXCEPT ![signal] = @ - 1]
      /\ UNCHANGED nodeVars
      /\ wallet' = [wallet EXCEPT !.pc = After(signal), !.running = @ \/ signal = "Start"]
  BY DEF Command
<1>3. signal # "ICO"
  BY <1>1, <1>2
<1>4. After(signal) \notin {"ico_tip", "ico_write"}
  BY <1>3 DEF After, Resume, Signals
<1>5. commands' \in [Signals -> Nat] /\ commands'["ICO"] = 0
  BY <1>1, <1>2, <1>3 DEF Signals
<1>6. Fields' /\ wallet'.pc = After(signal) /\ wallet'.tip = wallet.tip
  BY <1>1, <1>2 DEF Fields
<1>7. Harmless
  BY <1>2, UntouchedIsHarmless
<1> QED
  BY <1>1, <1>4, <1>5, <1>6, <1>7 DEF WalletInv, Harmless, chainVars

(* Every step, the node's own included. *)
LEMMA WalletStepKeeps ==
  ASSUME IInv, WalletInv, [WalletNext]_allVars
  PROVE  /\ IInv' /\ WalletInv' /\ [Atomic!AtomicNext]_Atomic!atomicVars
         /\ [LedgersSpared]_nodeVars
<1>1. CASE GeneratorStep \/ \E signal \in Signals : Command(signal)
  <2>1. Harmless /\ WalletInv'
    BY <1>1, GeneratorIsHarmless, CommandIsHarmless
  <2> QED
    BY <2>1, HarmlessKeeps DEF Harmless
<1>2. CASE [NodeNext]_nodeVars /\ UNCHANGED walletVars
  <2>1. IInv' /\ [Atomic!AtomicNext]_Atomic!atomicVars
    BY <1>2, NextInv, StepAbstract
  <2>2. blocks \subseteq blocks'
    <3>1. CASE NodeNext
      BY <3>1, StepEffect DEF Effect, Grow
    <3>2. CASE UNCHANGED nodeVars
      BY <3>2 DEF nodeVars, chainVars
    <3> QED
      BY <1>2, <3>1, <3>2
  <2>3. WalletInv'
    BY <1>2, <2>2 DEF WalletInv, Fields, walletVars
  <2>4. [LedgersSpared]_nodeVars
    BY <1>2, StepEffect DEF Effect
  <2> QED
    BY <2>1, <2>3, <2>4
<1> QED
  BY <1>1, <1>2 DEF WalletNext, allVars

(* The invariants hold at the start. *)
LEMMA WalletStart == WalletInit /\ Commands["ICO"] = 0 => IInv /\ WalletInv
<1> SUFFICES ASSUME WalletInit, Commands["ICO"] = 0 PROVE IInv /\ WalletInv
  OBVIOUS
<1>1. IInv
  BY InitInv DEF WalletInit
<1>2. WalletInv
  BY WalletAssumption DEF WalletInit, NodeInit, ChainInit, WalletInv, Fields
<1> QED
  BY <1>1, <1>2

(* The node with its generator keeps the node's inductive invariant.        *)
LEMMA WalletConsistent == Commands["ICO"] = 0 => (WalletSpec => [](IInv /\ WalletInv))
  BY WalletStart, WalletStepKeeps, PTL DEF WalletSpec
-----------------------------------------------------------------------------
(* The tip that the generator and the operator's lookups read has its       *)
(* ledger state, whatever they do to the pool and whenever they do it.      *)
THEOREM WalletPublishedComplete ==
  Commands["ICO"] = 0 => (WalletSpec => []PublishedComplete)
<1>1. IInv => PublishedComplete
  BY DEF IInv, SharedInv
<1> QED
  BY <1>1, WalletConsistent, PTL

(* On a warm node the generator's and the lookups' indexing never panics    *)
(* (generator.rs:146, 276) and so poisons nothing.                          *)
THEOREM WalletKeepsLedger ==
  Commands["ICO"] = 0 => (WalletSpec => WarmNodeKeepsLedger)
<1>1. IInv /\ WalletInv /\ [WalletNext]_allVars => [LedgersSpared]_nodeVars
  BY WalletStepKeeps
<1> QED
  BY <1>1, WalletConsistent, PTL DEF WalletSpec, WarmNodeKeepsLedger

(* The node with its generator implements the atomic chain. *)
THEOREM WalletRefinement == Commands["ICO"] = 0 => (WalletSpec => AtomicSpec)
<1>1. WalletInit => Atomic!AtomicInit
  BY InitAbstract DEF WalletInit
<1>2. IInv /\ WalletInv /\ [WalletNext]_allVars => [Atomic!AtomicNext]_Atomic!atomicVars
  BY WalletStepKeeps
<1> QED
  BY <1>1, <1>2, WalletConsistent, PTL DEF WalletSpec, AtomicSpec, Atomic!AtomicSpec
-----------------------------------------------------------------------------
(* What this node's keys have signed comes from its generator: nothing of   *)
(* it is on its way from a peer, or in the pool, at the start.              *)
Foreign(x) == x \in WellSigned => KeyOf[x] \notin MyAddresses
KeysAreOwn ==
    /\ \A x \in Txs : InFlight[Msg("NewTransactionHashes", x)] > 0
                         \/ InFlight[Msg("Transactions", x)] > 0 => Foreign(x)
    /\ \A x \in PooledTxs : \A c \in InputCoins(x) : Owner(c) \notin MyAddresses

(* Where the transactions are that a worker may add to the pool.            *)
Offering == {"tx_known", "tx_state", "tx_add"}
OffersForeign(r) ==
    /\ r.pc = "tx_known" => Foreign(r.item)
    /\ r.pc \in {"tx_state", "tx_add"} => KeyOf[r.item] \notin MyAddresses
MailForeign ==
    \A x \in Txs : inbox[Msg("NewTransactionHashes", x)] > 0 \/ inbox[Msg("Transactions", x)] > 0
                     => Foreign(x)
OffersInv == MailForeign /\ \A w \in Workers : OffersForeign(local[w])

LEMMA TxMessages ==
  /\ \A x \in Txs : /\ Msg("NewTransactionHashes", x) \in Message
                    /\ Msg("Transactions", x) \in Message
  /\ \A x, y \in Txs : /\ Msg("NewTransactionHashes", x) # Msg("Transactions", y)
                       /\ x # y => Msg("Transactions", x) # Msg("Transactions", y)
  /\ \A x \in Txs : \A t \in {"NewProposerBlockHashes", "ProposerBlocks", "NewTransactionBlockHashes",
                              "TransactionBlocks", "GetTransactions", "ICO"} :
        \A i : Msg(t, i) # Msg("NewTransactionHashes", x) /\ Msg(t, i) # Msg("Transactions", x)
BY DEF Message, Msg

(* A message fewer, and perhaps one more of another kind. *)
LEMMA FewerMessages ==
  ASSUME MailForeign, NEW a, \A x \in Txs : a # Msg("NewTransactionHashes", x) /\ a # Msg("Transactions", x),
         \A n \in Message : /\ inbox[n] \in Int /\ inbox'[n] \in Int
                            /\ n # a => inbox'[n] <= inbox[n]
  PROVE  MailForeign'
<1>1. ASSUME NEW x \in Txs, inbox'[Msg("NewTransactionHashes", x)] > 0 \/ inbox'[Msg("Transactions", x)] > 0
      PROVE  Foreign(x)
  <2>1. \A n \in {Msg("NewTransactionHashes", x), Msg("Transactions", x)} :
           n \in Message /\ n # a /\ inbox'[n] <= inbox[n] /\ inbox[n] \in Int /\ inbox'[n] \in Int
    BY TxMessages
  <2>2. inbox[Msg("NewTransactionHashes", x)] > 0 \/ inbox[Msg("Transactions", x)] > 0
    BY <1>1, <2>1
  <2> QED
    BY <2>2 DEF MailForeign
<1> QED
  BY <1>1 DEF MailForeign, Foreign

LEMMA ReceiveMail == ASSUME IInv, MailForeign, NEW w \in Workers, ReceiveStep(w) PROVE MailForeign'
<1>1. inbox \in [Message -> Nat]
  BY DEF IInv, SharedInv, PoolsOK
<1>2. ASSUME NEW m \in Message, inbox[m] > 0, Consume(m) PROVE MailForeign'
  <2>1. \A n \in Message : inbox[n] \in Int /\ inbox'[n] \in Int /\ inbox'[n] <= inbox[n]
    BY <1>1, <1>2 DEF Consume
  <2>2. \A x \in Txs : Msg("ICO", Genesis) # Msg("NewTransactionHashes", x) /\ Msg("ICO", Genesis) # Msg("Transactions", x)
    BY TxMessages
  <2> QED
    BY <2>1, <2>2, FewerMessages
<1>3. ASSUME NEW m, NEW r, Handle(w, m, r), m \in Message PROVE MailForeign'
  BY <1>2, <1>3 DEF Handle, Receives, Arrived
<1>4. ASSUME NEW m \in Message, NEW have, NEW a, Announcement(w, m, have, a)
      PROVE  \A n \in Message : /\ inbox[n] \in Int /\ inbox'[n] \in Int
                                /\ n # a => inbox'[n] <= inbox[n]
  <2>1. inbox[m] > 0
    BY <1>4 DEF Announcement, Receives, Arrived
  <2> QED
    BY <1>1, <1>4, <2>1 DEF Announcement
<1>5. ASSUME NEW b \in Children, NewProposerBlockHashes(w, b) \/ ReceiveProposerBlock(w, b) PROVE MailForeign'
  <2>1. Msg("NewProposerBlockHashes", b) \in Message /\ Msg("ProposerBlocks", b) \in Message
    BY Messages
  <2>2. \A x \in Txs : /\ Msg("ProposerBlocks", b) # Msg("NewTransactionHashes", x)
                       /\ Msg("ProposerBlocks", b) # Msg("Transactions", x)
    BY TxMessages
  <2>3. CASE NewProposerBlockHashes(w, b)
    BY <1>4, <2>1, <2>2, <2>3, FewerMessages DEF NewProposerBlockHashes
  <2>4. CASE ReceiveProposerBlock(w, b)
    BY <1>3, <2>1, <2>4 DEF ReceiveProposerBlock
  <2> QED
    BY <1>5, <2>3, <2>4
<1>6. ASSUME NEW b \in TxBlocks, NewTransactionBlockHashes(w, b) \/ TransactionBlocks(w, b) PROVE MailForeign'
  <2>1. Msg("NewTransactionBlockHashes", b) \in Message /\ Msg("TransactionBlocks", b) \in Message
    BY DEF Message, Msg
  <2>2. \A x \in Txs : /\ Msg("TransactionBlocks", b) # Msg("NewTransactionHashes", x)
                       /\ Msg("TransactionBlocks", b) # Msg("Transactions", x)
    BY TxMessages
  <2>3. CASE NewTransactionBlockHashes(w, b)
    BY <1>4, <2>1, <2>2, <2>3, FewerMessages DEF NewTransactionBlockHashes
  <2>4. CASE TransactionBlocks(w, b)
    BY <1>3, <2>1, <2>4 DEF TransactionBlocks
  <2> QED
    BY <1>6, <2>3, <2>4
<1>7. ASSUME NEW x \in Txs, NewTransactionHashes(w, x) PROVE MailForeign'
  <2> DEFINE m == Msg("NewTransactionHashes", x)  a == Msg("Transactions", x)
  <2>1. m \in Message /\ a \in Message /\ m # a
    BY TxMessages
  <2>2. PICK dropped \in BOOLEAN : Announcement(w, m, x \in tx_pool \/ dropped, a)
    BY <1>7 DEF NewTransactionHashes
  <2>3. Foreign(x)
    BY <2>2 DEF Announcement, Receives, Arrived, MailForeign
  <2>4. \A n \in Message : /\ inbox[n] \in Int /\ inbox'[n] \in Int
                           /\ n # a => inbox'[n] <= inbox[n]
    BY <1>4, <2>1, <2>2
  <2>5. ASSUME NEW y \in Txs, y # x, inbox'[Msg("NewTransactionHashes", y)] > 0 \/ inbox'[Msg("Transactions", y)] > 0
        PROVE  Foreign(y)
    <3>1. \A n \in {Msg("NewTransactionHashes", y), Msg("Transactions", y)} : n \in Message /\ n # a
      BY <2>5, TxMessages
    <3> HIDE DEF a
    <3>2. inbox[Msg("NewTransactionHashes", y)] > 0 \/ inbox[Msg("Transactions", y)] > 0
      BY <2>4, <2>5, <3>1
    <3> QED
      BY <3>2 DEF MailForeign
  <2>6. ASSUME NEW y \in Txs, inbox'[Msg("NewTransactionHashes", y)] > 0 \/ inbox'[Msg("Transactions", y)] > 0
        PROVE  Foreign(y)
    BY <2>3, <2>5, <2>6
  <2> QED
    BY <2>6 DEF MailForeign, Foreign
<1>8. ASSUME NEW x \in Txs, GetTransactions(w, x) \/ Transactions(w, x) PROVE MailForeign'
  <2>1. Msg("GetTransactions", x) \in Message /\ Msg("Transactions", x) \in Message
    BY DEF Message, Msg
  <2> QED
    BY <1>3, <1>8, <2>1 DEF GetTransactions, Transactions
<1>9. ASSUME ICO(w) PROVE MailForeign'
  <2>1. Msg("ICO", Genesis) \in Message
    BY DEF Message, Msg
  <2> QED
    BY <1>3, <1>9, <2>1 DEF ICO
<1>10. ASSUME NEW m \in Message, ReceivePanics(w, m) PROVE MailForeign'
  BY <1>2, <1>10 DEF ReceivePanics, Arrived
<1> QED
  BY <1>5, <1>6, <1>7, <1>8, <1>9, <1>10 DEF ReceiveStep
-----------------------------------------------------------------------------
(* Only Message::Transactions puts a transaction in hand, and one that came. *)
LEMMA ReceiveOffers ==
  ASSUME IInv, MailForeign, NEW w \in Workers, OffersForeign(local[w]), ReceiveStep(w)
  PROVE  OffersForeign(local[w])'
<1>1. w \in Threads /\ local = [t \in Threads |-> local[t]]
  BY LocalFacts DEF Locals
<1>2. ASSUME NEW m, NEW r, Handle(w, m, r) PROVE local'[w] = r
  BY <1>1, <1>2 DEF Handle, Become
<1>3. ASSUME local'[w].pc \notin Offering PROVE OffersForeign(local[w])'
  BY <1>3 DEF OffersForeign, Offering
<1>4. \A l \in {"recv", "ico", "dead"} : Blank(l).pc \notin Offering
  BY DEF Blank, Offering
<1>5. ASSUME NEW b \in Children, ReceiveProposerBlock(w, b) PROVE local'[w].pc \notin Offering
  <2>1. local'[w] \in {Blank("recv"), Holding(b, "parent")}
    BY <1>2, <1>5 DEF ReceiveProposerBlock
  <2> QED
    BY <2>1 DEF Holding, Blank, Offering
<1>6. ASSUME NEW b \in TxBlocks, TransactionBlocks(w, b) PROVE local'[w].pc \notin Offering
  <2>1. local'[w] \in {Blank("recv"), Clearing(b)}
    BY <1>2, <1>6 DEF TransactionBlocks
  <2>2. Clearing(b).pc \in {"store", "clear"}
    BY DEF Clearing, Holding, Blank
  <2> QED
    BY <1>4, <2>1, <2>2 DEF Offering
<1>7. ASSUME NEW x \in Txs, GetTransactions(w, x) PROVE local'[w].pc \notin Offering
  <2>1. local'[w] \in {Blank("recv"), Holding(x, "gt_take")}
    BY <1>2, <1>7 DEF GetTransactions
  <2> QED
    BY <2>1 DEF Holding, Blank, Offering
<1>8. ASSUME NEW x \in Txs, Transactions(w, x) PROVE OffersForeign(local[w])'
  <2>1. local'[w] = [Holding(x, "tx_known") EXCEPT !.base = tip_node_hash]
    BY <1>2, <1>8 DEF Transactions
  <2>2. local'[w].pc = "tx_known" /\ local'[w].item = x
    BY <2>1 DEF Holding, Blank
  <2>3. Foreign(x)
    BY <1>8 DEF Transactions, Handle, Receives, Arrived, MailForeign
  <2> QED
    BY <2>2, <2>3 DEF OffersForeign, Foreign
<1>9. ASSUME ICO(w) PROVE local'[w].pc \notin Offering
  <2>1. local'[w] \in {Blank("recv"), Blank("ico")}
    BY <1>2, <1>9 DEF ICO
  <2> QED
    BY <1>4, <2>1
<1>10. ASSUME NEW m \in Message, ReceivePanics(w, m) PROVE local'[w].pc \notin Offering
  <2>1. local'[w] = Blank("dead")
    BY <1>1, <1>10 DEF ReceivePanics, Become
  <2> QED
    BY <1>4, <2>1
<1>11. ASSUME NEW m, NEW have, NEW a, Announcement(w, m, have, a) PROVE local' = local
  BY <1>11 DEF Announcement
<1>12. ASSUME local' = local PROVE OffersForeign(local[w])'
  BY <1>12 DEF OffersForeign, Foreign
<1> QED
  BY <1>3, <1>5, <1>6, <1>7, <1>8, <1>9, <1>10, <1>11, <1>12
  DEF ReceiveStep, NewProposerBlockHashes, NewTransactionBlockHashes, NewTransactionHashes

LEMMA StepOffers ==
  ASSUME IInv, NEW w \in Workers, OffersForeign(local[w]),
         ProposerBlockStep(w) \/ TransactionStep(w) \/ CommonStep(w)
  PROVE  OffersForeign(local[w])'
<1>1. w \in Threads /\ w # Miner /\ LocalTypeOK(local[w]) /\ Locals /\ local = [t \in Threads |-> local[t]]
  BY LocalFacts DEF Locals, LocalInv
<1>2. ASSUME local'[w].pc \notin Offering PROVE OffersForeign(local[w])'
  BY <1>2 DEF OffersForeign, Offering
<1>3. ASSUME Done(w) PROVE local'[w].pc \notin Offering
  <2>1. local'[w] = Blank("recv")
    BY <1>1, <1>3, Becomes DEF Done
  <2> QED
    BY <2>1 DEF Blank, Offering
<1>4. ASSUME NEW l, Goto(w, l) PROVE local'[w].pc = l /\ local'[w].item = local[w].item
  <2>1. local'[w] = [local[w] EXCEPT !.pc = l]
    BY <1>1, <1>4, Goes
  <2> QED
    BY <1>1, <2>1 DEF LocalTypeOK
<1>5. ASSUME NextBlock(w) PROVE local'[w].pc \notin Offering
  <2> DEFINE vec == local[w].todo
             r == [Holding(Head(vec), "verify") EXCEPT !.todo = Tail(vec)]
  <2>1. local'[w] \in {Blank("recv"), r}
    BY <1>1, <1>5, Becomes DEF NextBlock
  <2>2. r.pc = "verify" /\ Blank("recv").pc = "recv"
    BY DEF Holding, Blank
  <2> HIDE DEF r
  <2> QED
    BY <2>1, <2>2 DEF Offering
<1>6. ASSUME ProposerBlockStep(w) PROVE local'[w].pc \notin Offering
  <2>1. ASSUME ReadRefs(w) \/ ReadState(w) \/ TakeOrphans(w) PROVE local'[w].pc \notin Offering
    <3> DEFINE rec == local[w]
    <3>1. \A l \in {"ref_write", "prune", "np_remove"} : \A a :
             /\ [rec EXCEPT !.refs = a, !.pc = l].pc = l
             /\ [rec EXCEPT !.state = a, !.pc = l].pc = l
             /\ [rec EXCEPT !.todo = a, !.pc = l].pc = l
      BY <1>1 DEF LocalTypeOK
    <3>2. CASE ReadRefs(w)
      <4>1. local'[w] = [rec EXCEPT !.refs = RefsAfter(tx_block_ref[ParentOf(w)], Item(w)), !.pc = "ref_write"]
        BY <1>1, <3>2 DEF ReadRefs
      <4> HIDE DEF rec
      <4>2. local'[w].pc = "ref_write"
        BY <3>1, <4>1
      <4> QED
        BY <4>2 DEF Offering
    <3>3. CASE ReadState(w)
      <4>1. local'[w] = [rec EXCEPT !.state = LedgerAfter(glob_state[ParentOf(w)], Item(w)), !.pc = "prune"]
        BY <1>1, <3>3 DEF ReadState
      <4> HIDE DEF rec
      <4>2. local'[w].pc = "prune"
        BY <3>1, <4>1
      <4> QED
        BY <4>2 DEF Offering
    <3>4. CASE TakeOrphans(w)
      <4>1. local'[w] = [rec EXCEPT !.todo = orphan_handler[Item(w)] \o rec.todo, !.pc = "np_remove"]
        BY <1>1, <3>4 DEF TakeOrphans
      <4> HIDE DEF rec
      <4>2. local'[w].pc = "np_remove"
        BY <3>1, <4>1
      <4> QED
        BY <4>2 DEF Offering
    <3> QED
      BY <2>1, <3>2, <3>3, <3>4
  <2>2. ASSUME NEW l \in {"verify", "orphan", "orphan_push", "orphan_new", "ref_read", "np_take"}, Goto(w, l)
        PROVE  local'[w].pc \notin Offering
    BY <1>4, <2>2 DEF Offering
  <2> QED
    BY <1>3, <1>5, <1>6, <2>1, <2>2
    DEF ProposerBlockStep, FindParent, FindOrphans, PushOrphan, NewOrphan, Verify, NewParent, RemoveOrphans
<1>7. ASSUME CommonStep(w) PROVE local'[w].pc \notin Offering
  <2>1. ASSUME ClearTransaction(w) PROVE local'[w].pc \notin Offering
    <3> DEFINE rec == local[w]
    <3>1. \A l \in {"store", "clear"} : \A a : [rec EXCEPT !.todo = a, !.pc = l].pc = l
      BY <1>1 DEF LocalTypeOK
    <3>2. \E l \in {"store", "clear"} : local'[w] = [rec EXCEPT !.todo = Tail(rec.todo), !.pc = l]
      BY <1>1, <2>1 DEF ClearTransaction
    <3> HIDE DEF rec
    <3>3. local'[w].pc \in {"store", "clear"}
      BY <3>1, <3>2
    <3> QED
      BY <3>3 DEF Offering
  <2>2. ASSUME NEW l \in {"state_read", "state_write", "insert", "np_check"}, Goto(w, l)
        PROVE  local'[w].pc \notin Offering
    BY <1>4, <2>2 DEF Offering
  <2>3. ASSUME Become(w, Blank("dead")) PROVE local'[w].pc \notin Offering
    <3>1. local'[w] = Blank("dead")
      BY <1>1, <2>3, Becomes
    <3> QED
      BY <3>1 DEF Blank, Offering
  <2> QED
    BY <1>1, <1>3, <1>7, <2>1, <2>2, <2>3
    DEF CommonStep, StoreTxBlock, WriteRefs, Prune, WriteState, InsertBlock, IndexPanics, LockPanics
<1>8. ASSUME TransactionStep(w) PROVE OffersForeign(local[w])'
  <2>1. ASSUME CheckTransaction(w), Goto(w, "tx_state"), Item(w) \in WellSigned PROVE OffersForeign(local[w])'
    <3>1. KeyOf[local[w].item] \notin MyAddresses
      BY <2>1 DEF CheckTransaction, At, Pc, Item, OffersForeign, Foreign
    <3>2. local'[w].pc = "tx_state" /\ local'[w].item = local[w].item
      BY <1>4, <2>1
    <3> QED
      BY <3>1, <3>2 DEF OffersForeign
  <2>2. ASSUME CheckInputs(w), Goto(w, "tx_add") PROVE OffersForeign(local[w])'
    <3>1. KeyOf[local[w].item] \notin MyAddresses
      BY <2>2 DEF CheckInputs, At, Pc, OffersForeign
    <3>2. local'[w].pc = "tx_add" /\ local'[w].item = local[w].item
      BY <1>4, <2>2
    <3> QED
      BY <3>1, <3>2 DEF OffersForeign
  <2> QED
    BY <1>2, <1>3, <1>8, <2>1, <2>2
    DEF TransactionStep, SendTransaction, StoreIco, CheckTransaction, CheckInputs, AddTransaction
<1> QED
  BY <1>2, <1>6, <1>7, <1>8

(* No step of the node makes anything of this node's keys come in.          *)
LEMMA OffersStay == ASSUME IInv, OffersInv, [NodeNext]_nodeVars PROVE OffersInv'
<1>1. ASSUME NEW w \in Workers, WorkerStep(w) PROVE OffersInv'
  <2>1. w \in Threads /\ Others(w)
    BY <1>1, WorkerStepOK, LocalFacts DEF Effect
  <2>2. OffersForeign(local[w])'
    BY <1>1, ReceiveOffers, StepOffers DEF WorkerStep, OffersInv
  <2>3. ASSUME NEW v \in Workers PROVE OffersForeign(local[v])'
    <3>1. v # w => local'[v] = local[v]
      BY <2>1 DEF Others, Threads
    <3> QED
      BY <2>2, <3>1 DEF OffersInv, OffersForeign, Foreign
  <2>4. ASSUME ProposerBlockStep(w) \/ TransactionStep(w) \/ CommonStep(w) PROVE MailForeign'
    <3>1. inbox' = inbox \/ RequestParent(w)
      BY <2>4 DEF ProposerBlockStep, FindParent, FindOrphans, PushOrphan, NewOrphan, Verify, ReadRefs, ReadState,
         NewParent, TakeOrphans, RemoveOrphans,
         TransactionStep, SendTransaction, StoreIco, CheckTransaction, CheckInputs, AddTransaction,
         CommonStep, ClearTransaction, StoreTxBlock, WriteRefs, Prune, WriteState, InsertBlock, IndexPanics,
         LockPanics, OnlyLocal, OnlyState, OnlyTxPool, OnlyRefs, OnlyTxBlockPool, OnlyPoison
    <3>2. CASE inbox' = inbox
      BY <3>2 DEF OffersInv, MailForeign, Foreign
    <3>3. CASE RequestParent(w)
      <4> DEFINE a == Msg("ProposerBlocks", ParentOf(w))
      <4>1. \A x \in Txs : a # Msg("NewTransactionHashes", x) /\ a # Msg("Transactions", x)
        BY TxMessages
      <4>2. inbox \in [Message -> Nat] /\ inbox' = [inbox EXCEPT ![a] = @ + 1]
        BY <3>3 DEF RequestParent, IInv, SharedInv, PoolsOK
      <4> HIDE DEF a
      <4>3. \A x \in Txs : /\ inbox'[Msg("NewTransactionHashes", x)] = inbox[Msg("NewTransactionHashes", x)]
                           /\ inbox'[Msg("Transactions", x)] = inbox[Msg("Transactions", x)]
        BY <4>1, <4>2, TxMessages
      <4> QED
        BY <4>3 DEF OffersInv, MailForeign, Foreign
    <3> QED
      BY <3>1, <3>2, <3>3
  <2>5. MailForeign'
    BY <1>1, <2>4, ReceiveMail DEF WorkerStep, OffersInv
  <2> QED
    BY <2>3, <2>5 DEF OffersInv
<1>2. CASE MinerStep \/ CommonStep(Miner)
  <2>1. UNCHANGED inbox
    BY <1>2 DEF MinerStep, BootMiner, StartMiner, ReadTip, ReadTipState, PickTransactions, ReadTipRefs,
       PickTxBlocks, MineNothing, ApplyMined, MineProposerBlock, MineTxBlock,
       CommonStep, ClearTransaction, StoreTxBlock, WriteRefs, Prune, WriteState, InsertBlock,
       IndexPanics, LockPanics, OnlyLocal, OnlyState, OnlyTxPool, OnlyRefs, OnlyTxBlockPool, OnlyPoison
  <2>2. Others(Miner)
    BY <1>2, MinerStepOK, CommonStepOK DEF Effect, Threads
  <2>3. \A w \in Workers : local'[w] = local[w]
    BY <2>2, NodeAssumption DEF Others, Threads
  <2> QED
    BY <2>1, <2>3 DEF OffersInv, MailForeign, OffersForeign, Foreign
<1>3. CASE UNCHANGED nodeVars
  BY <1>3 DEF nodeVars, OffersInv, MailForeign, OffersForeign, Foreign
<1> QED
  BY <1>1, <1>2, <1>3 DEF NodeNext

(* A worker adds nobody's spend of a coin of this node's.                   *)
LEMMA NobodySpends ==
  ASSUME IInv, OffersInv, [NodeNext]_nodeVars, NEW x \in tx_pool' \ tx_pool, NEW c \in InputCoins(x)
  PROVE  Owner(c) \notin MyAddresses
<1>1. tx_pool' \subseteq tx_pool \/ \E w \in Workers : AddTransaction(w)
  <2>1. CASE UNCHANGED nodeVars
    BY <2>1 DEF nodeVars
  <2>2. ASSUME NEW w \in Workers, WorkerStep(w) PROVE tx_pool' \subseteq tx_pool \/ AddTransaction(w)
    BY <2>2 DEF WorkerStep, ReceiveStep, NewProposerBlockHashes, NewTransactionBlockHashes, NewTransactionHashes,
       Announcement, ReceiveProposerBlock, TransactionBlocks, GetTransactions, Transactions, ICO, Handle,
       ReceivePanics, OnlyInbox,
       ProposerBlockStep, FindParent, FindOrphans, PushOrphan, NewOrphan, Verify, ReadRefs, ReadState,
       NewParent, TakeOrphans, RemoveOrphans, OnlyOrphans,
       TransactionStep, SendTransaction, StoreIco, CheckTransaction, CheckInputs,
       CommonStep, ClearTransaction, StoreTxBlock, WriteRefs, Prune, WriteState, InsertBlock, IndexPanics,
       LockPanics, OnlyLocal, OnlyState, OnlyTxPool, OnlyRefs, OnlyTxBlockPool, OnlyPoison
  <2>3. CASE MinerStep \/ CommonStep(Miner)
    BY <2>3 DEF MinerStep, BootMiner, StartMiner, ReadTip, ReadTipState, PickTransactions, ReadTipRefs,
       PickTxBlocks, MineNothing, ApplyMined, MineProposerBlock, MineTxBlock,
       CommonStep, ClearTransaction, StoreTxBlock, WriteRefs, Prune, WriteState, InsertBlock,
       IndexPanics, LockPanics, OnlyLocal, OnlyState, OnlyTxPool, OnlyRefs, OnlyTxBlockPool, OnlyPoison
  <2> QED
    BY <2>1, <2>2, <2>3 DEF NodeNext
<1>2. PICK w \in Workers : AddTransaction(w)
  BY <1>1
<1>3. x = local[w].item /\ local[w].pc = "tx_add"
  BY <1>2 DEF AddTransaction, At, Pc, Item
<1>4. Owner(c) = KeyOf[x]
  BY <1>3, LocalFacts DEF LocalInv, TransactionInHand, Admissible
<1> QED
  BY <1>3, <1>4 DEF OffersInv, OffersForeign
-----------------------------------------------------------------------------
(* The spends of a coin in the pool, and whether the generator may add one  *)
(* more in the pass that it is in.                                          *)
SpendsOf(c) == {x \in tx_pool : c \in InputCoins(x)}
MyInputs == {c \in UNION {InputCoins(x) : x \in Txs} : Owner(c) \in MyAddresses}
Due(c) == wallet.pc = "g_state" \/ (wallet.pc = "g_add" /\ c \in wallet.coins)

(* No pass has begun, or the last one was over a tip that was as high as    *)
(* there are spends of a coin, counting the one that is due.                *)
NoPassYet == wallet.pc \notin {"g_state", "g_add"} /\ \A c \in MyInputs : SpendsOf(c) = {}
Afforded(c) ==
    /\ IsFiniteSet(SpendsOf(c))
    /\ Cardinality(SpendsOf(c)) <= heights[wallet.last] + (IF Due(c) THEN 0 ELSE 1)
LastPass ==
    /\ wallet.last \in blocks
    /\ wallet.last # tip_node_hash => heights[wallet.last] < longest
    /\ \A c \in MyInputs : Afforded(c)
PassInv == NoPassYet \/ LastPass

LEMMA PassBounds == ASSUME IInv, PassInv PROVE OneSpendPerHeight
<1>1. SUFFICES ASSUME NEW x \in tx_pool, NEW c \in InputCoins(x), Owner(c) \in MyAddresses
               PROVE  Cardinality(SpendsOf(c)) <= longest + 1
  BY DEF OneSpendPerHeight, SpendsOf
<1>2. c \in MyInputs
  BY <1>1 DEF MyInputs, IInv, SharedInv, PoolsOK
<1>3. longest \in Nat /\ heights \in [blocks -> Nat] /\ \A b \in blocks : heights[b] <= longest
  BY DEF IInv, SharedInv, ChainInv, ChainTypeOK, TipIsHighest
<1>4. x \in SpendsOf(c)
  BY <1>1 DEF SpendsOf
<1>5. LastPass
  BY <1>2, <1>4 DEF PassInv, NoPassYet
<1>6. /\ wallet.last \in blocks /\ IsFiniteSet(SpendsOf(c))
      /\ Cardinality(SpendsOf(c)) <= heights[wallet.last] + (IF Due(c) THEN 0 ELSE 1)
  BY <1>2, <1>5 DEF LastPass, Afforded
<1>7. Cardinality(SpendsOf(c)) \in Nat
  BY <1>6, FS_CardinalityType
<1> QED
  BY <1>3, <1>6, <1>7

(* Most steps make no new spend due and add none.                           *)
LEMMA PassStays ==
  ASSUME IInv, PassInv, Stable \/ UNCHANGED chainVars, IInv',
         wallet'.last = wallet.last,
         wallet'.pc \in {"g_state", "g_add"} => wallet.pc \in {"g_state", "g_add"},
         \A c \in MyInputs : SpendsOf(c)' \subseteq SpendsOf(c) /\ (Due(c)' => Due(c))
  PROVE  PassInv'
<1>1. CASE NoPassYet
  BY <1>1 DEF NoPassYet, PassInv
<1>2. CASE LastPass
  <2> DEFINE last == wallet.last
  <2>1. /\ blocks \subseteq blocks' /\ \A b \in blocks : heights'[b] = heights[b]
        /\ tip_node_hash' # tip_node_hash => longest' > longest
        /\ longest' >= longest
    <3>1. longest \in Nat /\ longest' \in Nat /\ tip_node_hash \in blocks
          /\ heights[tip_node_hash] = longest /\ heights'[tip_node_hash'] = longest'
      BY DEF IInv, SharedInv, ChainInv, ChainTypeOK, TipIsHighest
    <3>2. CASE Stable
      BY <3>1, <3>2 DEF Stable
    <3>3. CASE UNCHANGED chainVars
      BY <3>1, <3>3 DEF chainVars
    <3> QED
      BY <3>2, <3>3
  <2>2. last \in blocks' /\ heights'[last] = heights[last] /\ heights[last] \in Nat /\ longest \in Nat /\ longest' \in Nat
        /\ heights[last] <= longest
    BY <1>2, <2>1 DEF LastPass, IInv, SharedInv, ChainInv, ChainTypeOK, TipIsHighest
  <2>3. last # tip_node_hash' => heights'[last] < longest'
    <3>1. CASE tip_node_hash' = tip_node_hash
      BY <1>2, <2>1, <2>2, <3>1 DEF LastPass
    <3>2. CASE tip_node_hash' # tip_node_hash
      BY <2>1, <2>2, <3>2
    <3> QED
      BY <3>1, <3>2
  <2>4. ASSUME NEW c \in MyInputs PROVE Afforded(c)'
    <3>1. /\ IsFiniteSet(SpendsOf(c))
          /\ Cardinality(SpendsOf(c)) <= heights[last] + (IF Due(c) THEN 0 ELSE 1)
      BY <1>2 DEF LastPass, Afforded
    <3>2. SpendsOf(c)' \subseteq SpendsOf(c) /\ (Due(c)' => Due(c))
      OBVIOUS
    <3> HIDE DEF last
    <3>3. IsFiniteSet(SpendsOf(c)') /\ Cardinality(SpendsOf(c)') <= Cardinality(SpendsOf(c))
      BY <3>1, <3>2, FS_Subset
    <3>4. Cardinality(SpendsOf(c)') \in Nat /\ Cardinality(SpendsOf(c)) \in Nat
      BY <3>1, <3>3, FS_CardinalityType
    <3>5. Cardinality(SpendsOf(c)') <= heights'[last] + (IF Due(c)' THEN 0 ELSE 1)
      <4> DEFINE n == Cardinality(SpendsOf(c))  m == Cardinality(SpendsOf(c)')
                 h == heights[last]
      <4>1. m \in Nat /\ n \in Nat /\ m <= n /\ h \in Nat /\ heights'[last] = h
        BY <2>2, <3>3, <3>4
      <4>2. n <= h + 1 /\ (Due(c) => n <= h)
        <5>1. n <= h + (IF Due(c) THEN 0 ELSE 1)
          BY <3>1
        <5> HIDE DEF n, h
        <5> QED
          BY <4>1, <5>1
      <4> HIDE DEF n, m, h
      <4>3. m <= h + 1 /\ (Due(c)' => m <= h)
        BY <3>2, <4>1, <4>2
      <4>4. m <= h + (IF Due(c)' THEN 0 ELSE 1)
        BY <4>1, <4>3
      <4> QED
        BY <4>1, <4>4 DEF m
    <3> QED
      BY <3>3, <3>5 DEF Afforded, last
  <2> QED
    BY <2>2, <2>3, <2>4 DEF LastPass, PassInv
<1> QED
  BY <1>1, <1>2 DEF PassInv

(* A new pass: the tip is higher than the one of the last pass, so every    *)
(* coin may be given out once more.                                         *)
LEMMA NewPass ==
  ASSUME IInv, WalletInv, PassInv, GenTip, wallet.last # tip_node_hash PROVE PassInv'
<1>1. Fields
  BY DEF WalletInv
<1>2. UNCHANGED nodeVars /\ wallet.pc = "g_tip"
      /\ wallet' = [wallet EXCEPT !.pc = "g_state", !.last = tip_node_hash, !.tip = tip_node_hash]
  BY DEF GenTip, GenAt, OnlyWallet
<1>3. wallet'.pc = "g_state" /\ wallet'.last = tip_node_hash
  BY <1>1, <1>2 DEF Fields
<1>4. UNCHANGED <<blocks, heights, longest, tip_node_hash, tx_pool>>
  BY <1>2 DEF nodeVars, chainVars
<1>5. tip_node_hash \in blocks /\ heights[tip_node_hash] = longest /\ longest \in Nat
  BY DEF IInv, SharedInv, ChainInv, ChainTypeOK, TipIsHighest
<1>6. ASSUME NEW c \in MyInputs PROVE IsFiniteSet(SpendsOf(c)) /\ Cardinality(SpendsOf(c)) <= longest
  <2>1. CASE NoPassYet
    BY <1>5, <2>1, FS_EmptySet DEF NoPassYet
  <2>2. CASE LastPass
    <3>1. /\ wallet.last \in blocks /\ heights[wallet.last] < longest /\ IsFiniteSet(SpendsOf(c))
          /\ Cardinality(SpendsOf(c)) <= heights[wallet.last] + 1
      BY <1>2, <2>2 DEF LastPass, Afforded, Due
    <3>2. Cardinality(SpendsOf(c)) \in Nat /\ heights[wallet.last] \in Nat
      BY <3>1, FS_CardinalityType DEF IInv, SharedInv, ChainInv, ChainTypeOK
    <3> QED
      BY <1>5, <3>1, <3>2
  <2> QED
    BY <2>1, <2>2 DEF PassInv
<1>7. ASSUME NEW c \in MyInputs PROVE Afforded(c)'
  <2>1. SpendsOf(c)' = SpendsOf(c)
    BY <1>4 DEF SpendsOf
  <2>2. Due(c)'
    BY <1>3 DEF Due
  <2>3. Cardinality(SpendsOf(c)) \in Nat
    BY <1>6, FS_CardinalityType
  <2>4. Cardinality(SpendsOf(c)) <= longest + 0
    BY <1>5, <1>6, <2>3
  <2> QED
    BY <1>3, <1>4, <1>5, <1>6, <2>1, <2>2, <2>4 DEF Afforded
<1>8. LastPass'
  BY <1>3, <1>4, <1>5, <1>7 DEF LastPass
<1> QED
  BY <1>8 DEF PassInv

(* What is made of a coin spends that coin only, whose turn is over then.   *)
LEMMA OneMoreSpend == ASSUME IInv, WalletInv, PassInv, GenAdd PROVE PassInv'
<1>1. Fields /\ wallet.pc = "g_add"
  BY DEF WalletInv, GenAdd, GenAt
<1>2. PICK d \in wallet.coins :
         /\ wallet' = [wallet EXCEPT !.coins = @ \ {d}]
         /\ tx_pool' = tx_pool \/ \E x \in Made(d) : tx_pool' = tx_pool \cup {x}
  BY DEF GenAdd
<1>3. wallet'.pc = "g_add" /\ wallet'.last = wallet.last /\ wallet'.coins = wallet.coins \ {d}
  BY <1>1, <1>2 DEF Fields
<1>4. UNCHANGED <<blocks, heights, longest, tip_node_hash>>
  BY DEF GenAdd, OnlyTxPool, chainVars
<1>5. LastPass
  BY <1>1 DEF PassInv, NoPassYet
<1>6. ASSUME NEW c \in MyInputs PROVE Afforded(c)'
  <2> DEFINE h == heights[wallet.last]
  <2>1. /\ IsFiniteSet(SpendsOf(c)) /\ h \in Nat
        /\ Cardinality(SpendsOf(c)) <= h + (IF Due(c) THEN 0 ELSE 1)
    BY <1>5 DEF LastPass, Afforded, IInv, SharedInv, ChainInv, ChainTypeOK
  <2>2. Cardinality(SpendsOf(c)) \in Nat
    BY <2>1, FS_CardinalityType
  <2>3. heights'[wallet'.last] = h
    BY <1>3, <1>4
  <2> HIDE DEF h
  <2>4. CASE c # d
    <3>1. Due(c)' <=> Due(c)
      BY <1>1, <1>3, <2>4 DEF Due
    <3>2. SpendsOf(c)' = SpendsOf(c)
      <4>1. \A x \in Made(d) : InputCoins(x) = {d}
        BY DEF Made, InputCoins, ToSet
      <4> QED
        BY <1>2, <2>4, <4>1 DEF SpendsOf
    <3> QED
      BY <2>1, <2>3, <3>1, <3>2 DEF Afforded
  <2>5. CASE c = d
    <3>1. Due(c) /\ ~ Due(c)'
      BY <1>1, <1>2, <1>3, <2>5 DEF Due
    <3>2. SpendsOf(c)' = SpendsOf(c) \/ \E x : SpendsOf(c)' = SpendsOf(c) \cup {x}
      BY <1>2 DEF SpendsOf
    <3>3. /\ IsFiniteSet(SpendsOf(c)')
          /\ Cardinality(SpendsOf(c)') \in {Cardinality(SpendsOf(c)), Cardinality(SpendsOf(c)) + 1}
      BY <2>1, <3>2, FS_AddElement
    <3>4. Cardinality(SpendsOf(c)) <= h
      <4>1. Cardinality(SpendsOf(c)) <= h + 0
        BY <2>1, <3>1
      <4> QED
        BY <2>1, <4>1
    <3>5. Cardinality(SpendsOf(c)') <= h + 1
      BY <2>1, <2>2, <3>3, <3>4
    <3> QED
      BY <2>3, <3>1, <3>3, <3>5 DEF Afforded
  <2> QED
    BY <2>4, <2>5
<1>7. LastPass'
  BY <1>3, <1>4, <1>5, <1>6 DEF LastPass
<1> QED
  BY <1>7 DEF PassInv

LEMMA GeneratorPasses ==
  ASSUME IInv, WalletInv, PassInv, GeneratorStep PROVE PassInv'
<1>1. Fields /\ wallet.pc \notin {"ico_tip", "ico_write"}
  BY DEF WalletInv
<1>2. IInv' /\ UNCHANGED chainVars
  BY GeneratorIsHarmless, HarmlessKeeps DEF Harmless
<1>3. ASSUME wallet'.last = wallet.last, tx_pool' = tx_pool, wallet'.pc \notin {"g_state", "g_add"}
      PROVE  PassInv'
  <2>1. ASSUME NEW c \in MyInputs PROVE SpendsOf(c)' \subseteq SpendsOf(c) /\ (Due(c)' => Due(c))
    BY <1>3 DEF SpendsOf, Due
  <2> QED
    BY <1>2, <1>3, <2>1, PassStays
<1>4. CASE NoCommand \/ Look \/ GenDone \/ GenLockPanics \/ GenIndexPanics
  <2>1. PICK l \in {"g_tip", "loop", "dead"} : wallet' = [wallet EXCEPT !.pc = l]
    BY <1>4 DEF NoCommand, Look, GenDone, GenLockPanics, GenIndexPanics, GenGoto, Resume
  <2>2. tx_pool' = tx_pool
    BY <1>4 DEF NoCommand, Look, GenDone, GenLockPanics, GenIndexPanics, OnlyWallet, OnlyPoison, nodeVars
  <2>3. wallet'.pc = l /\ wallet'.last = wallet.last
    BY <1>1, <2>1 DEF Fields
  <2> QED
    BY <1>3, <2>2, <2>3
<1>5. CASE LookTip \/ (GenTip /\ wallet.last = tip_node_hash)
  <2>1. wallet' \in {[wallet EXCEPT !.pc = "look_state", !.tip = tip_node_hash], [wallet EXCEPT !.pc = "loop"]}
        /\ tx_pool' = tx_pool
    BY <1>5 DEF LookTip, GenTip, OnlyWallet, nodeVars
  <2>2. wallet'.pc \in {"look_state", "loop"} /\ wallet'.last = wallet.last
    BY <1>1, <2>1 DEF Fields
  <2> QED
    BY <1>3, <2>1, <2>2
<1>6. CASE GenState
  <2>1. /\ wallet.pc = "g_state" /\ tx_pool' = tx_pool
        /\ wallet' = [wallet EXCEPT !.pc = "g_add", !.coins = Spendable(glob_state[wallet.tip])]
    BY <1>6 DEF GenState, GenAt, OnlyWallet, nodeVars
  <2>2. wallet'.last = wallet.last
    BY <1>1, <2>1 DEF Fields
  <2>3. ASSUME NEW c \in MyInputs PROVE SpendsOf(c)' \subseteq SpendsOf(c) /\ (Due(c)' => Due(c))
    BY <2>1 DEF SpendsOf, Due
  <2> QED
    BY <1>2, <2>1, <2>2, <2>3, PassStays
<1>7. CASE IcoTip \/ IcoWrite
  BY <1>1, <1>7 DEF IcoTip, IcoWrite, GenAt
<1> QED
  BY <1>4, <1>5, <1>6, <1>7, NewPass, OneMoreSpend DEF GeneratorStep

(* The operator's commands are taken at the head of the loop. *)
LEMMA CommandPasses ==
  ASSUME IInv, WalletInv, PassInv, NEW signal \in Signals, Command(signal) PROVE PassInv'
<1>1. Fields
  BY DEF WalletInv
<1>2. IInv' /\ UNCHANGED chainVars
  BY CommandIsHarmless, HarmlessKeeps DEF Harmless
<1>3. /\ tx_pool' = tx_pool
      /\ wallet' = [wallet EXCEPT !.pc = After(signal), !.running = @ \/ signal = "Start"]
  BY DEF Command, nodeVars
<1>4. wallet'.pc = After(signal) /\ wallet'.last = wallet.last
  BY <1>1, <1>3 DEF Fields
<1>5. After(signal) \notin {"g_state", "g_add"}
  BY DEF After, Resume, Signals
<1>6. ASSUME NEW c \in MyInputs PROVE SpendsOf(c)' \subseteq SpendsOf(c) /\ (Due(c)' => Due(c))
  BY <1>3, <1>4, <1>5 DEF SpendsOf, Due
<1> QED
  BY <1>2, <1>4, <1>5, <1>6, PassStays

(* Of the node's own steps, those that add to the pool add what others made. *)
LEMMA NodePasses ==
  ASSUME IInv, OffersInv, PassInv, [NodeNext]_nodeVars, UNCHANGED walletVars PROVE PassInv'
<1>1. IInv'
  BY NextInv
<1>2. Stable \/ UNCHANGED chainVars
  BY StepInserts, ChainStep DEF IInv, SharedInv
<1>3. ASSUME NEW c \in MyInputs PROVE SpendsOf(c)' \subseteq SpendsOf(c) /\ (Due(c)' => Due(c))
  <2>1. \A x \in tx_pool' \ tx_pool : c \notin InputCoins(x)
    BY NobodySpends DEF MyInputs
  <2> QED
    BY <2>1 DEF SpendsOf, Due, walletVars
<1> QED
  BY <1>1, <1>2, <1>3, PassStays DEF walletVars

(* With the generator the node keeps both. *)
LEMMA SpendsKept ==
  ASSUME IInv, WalletInv, OffersInv, PassInv, [WalletNext]_allVars PROVE OffersInv' /\ PassInv'
<1>1. CASE GeneratorStep \/ \E signal \in Signals : Command(signal)
  <2>1. Harmless
    BY <1>1, GeneratorIsHarmless, CommandIsHarmless
  <2>2. OffersInv'
    BY <2>1 DEF Harmless, OffersInv, MailForeign, OffersForeign, Foreign
  <2> QED
    BY <1>1, <2>2, GeneratorPasses, CommandPasses
<1>2. CASE [NodeNext]_nodeVars /\ UNCHANGED walletVars
  BY <1>2, OffersStay, NodePasses
<1> QED
  BY <1>1, <1>2 DEF WalletNext, allVars

LEMMA SpendsStart == WalletInit /\ KeysAreOwn => OffersInv /\ PassInv
<1> SUFFICES ASSUME WalletInit, KeysAreOwn PROVE OffersInv /\ PassInv
  OBVIOUS
<1>1. inbox = InFlight /\ \A w \in Workers : local[w].pc \notin Offering
  BY DEF WalletInit, NodeInit, Blank, Offering, Threads
<1>2. OffersInv
  BY <1>1 DEF OffersInv, MailForeign, OffersForeign, Offering, KeysAreOwn
<1>3. wallet.pc = "loop" /\ tx_pool = PooledTxs
  BY DEF WalletInit, NodeInit
<1>4. ASSUME NEW c \in MyInputs PROVE SpendsOf(c) = {}
  BY <1>3 DEF SpendsOf, MyInputs, KeysAreOwn
<1>5. PassInv
  BY <1>3, <1>4 DEF PassInv, NoPassYet
<1> QED
  BY <1>2, <1>5

(* While the tip stands still a coin is given out once, and altogether not  *)
(* more often than the chain has grown, whatever blocks come in between the *)
(* generator's two locks and whatever the operator does but an ICO, if only *)
(* this node signs with its keys, which it makes when it starts.            *)
THEOREM OneSpendPerHeightCorrect ==
  Commands["ICO"] = 0 /\ KeysAreOwn => (WalletSpec => []OneSpendPerHeight)
<1>1. IInv /\ WalletInv /\ OffersInv /\ PassInv /\ [WalletNext]_allVars => OffersInv' /\ PassInv'
  BY SpendsKept
<1>2. IInv /\ PassInv => OneSpendPerHeight
  BY PassBounds
<1> QED
  BY <1>1, <1>2, SpendsStart, WalletConsistent, PTL DEF WalletSpec
-----------------------------------------------------------------------------
(* What the node promises its readers without a generator it promises with  *)
(* one.  The generator and the operator only ever add to the pool.          *)
LEMMA PoolGrows ==
  ASSUME GeneratorStep \/ \E signal \in Signals : Command(signal)
  PROVE  tx_pool \subseteq tx_pool' /\ (tx_pool' = tx_pool \/ GenAdd)
<1>1. CASE GenAdd
  <2>1. tx_pool' = tx_pool \/ \E x : tx_pool' = tx_pool \cup {x}
    BY <1>1 DEF GenAdd
  <2> QED
    BY <1>1, <2>1
<1>2. CASE UNCHANGED tx_pool
  BY <1>2
<1> QED
  BY <1>1, <1>2
  DEF GeneratorStep, Command, NoCommand, LookTip, Look, IcoTip, IcoWrite, GenTip, GenState, GenDone,
      GenIndexPanics, GenLockPanics, OnlyWallet, OnlyPoison, OnlyState, nodeVars

(* A step of the node's own, or one that leaves everything but the pool and *)
(* the mutexes.                                                             *)
LEMMA WalletStepIs ==
  ASSUME IInv, WalletInv, [WalletNext]_allVars
  PROVE  \/ [NodeNext]_nodeVars /\ UNCHANGED walletVars
         \/ Harmless /\ tx_pool \subseteq tx_pool'
            /\ (GeneratorStep \/ \E signal \in Signals : Command(signal))
<1>1. CASE GeneratorStep \/ \E signal \in Signals : Command(signal)
  <2>1. Harmless
    BY <1>1, GeneratorIsHarmless, CommandIsHarmless
  <2> QED
    BY <1>1, <2>1, PoolGrows
<1> QED
  BY <1>1 DEF WalletNext, allVars

(* With a generator adding to the pool at any moment, what the miner is     *)
(* about to hash is still unspent in the state of the tip it read first     *)
(* (miner.rs:152-185).                                                      *)
THEOREM WalletMinerSnapshot == Commands["ICO"] = 0 => (WalletSpec => []MinerSnapshot)
<1>1. IInv => MinerSnapshot
  BY DEF IInv, Locals, LocalInv, CandidateInHand, Picking, MinerSnapshot, Threads, Pc
<1> QED
  BY <1>1, WalletConsistent, PTL

(* With a generator at work the miner still references no transaction       *)
(* block that the chain of its block's parent references already            *)
(* (miner.rs:186-199).                                                      *)
THEOREM WalletMinedRefsAreNew ==
  ASSUME NEW F, PeersBlocks(F)
  PROVE  Commands["ICO"] = 0 => (WalletSpec => []MinedRefsAreNew)
<1>1. WalletInit => OriginInv(F)
  BY InitOrigin DEF WalletInit
<1>2. ASSUME IInv, WalletInv, OriginInv(F), [WalletNext]_allVars PROVE OriginInv(F)'
  <2>1. CASE Harmless
    BY <1>2, <2>1 DEF Harmless, chainVars, OriginInv, WorkersHold, MailFrom, OrphansFrom, Candidate,
                      Confirming, TreeFrom
  <2> QED
    BY <1>2, <2>1, WalletStepIs, OriginStep
<1>3. IInv /\ OriginInv(F) => MinedRefsAreNew
  BY OwnBlocks DEF MinedRefsAreNew
<1> QED
  BY <1>1, <1>2, <1>3, WalletConsistent, PTL DEF WalletSpec

(* A transaction of the pool, the generator's own included, is not lost     *)
(* between the locks of a worker that takes it out (worker.rs:323-331,      *)
(* 447-465).                                                                *)
THEOREM WalletTransactionsAccounted ==
  Commands["ICO"] = 0 => (WalletSpec => TransactionsAccounted)
<1>1. WalletInit => AllClear
  BY DEF WalletInit, NodeInit, AllClear, Clears, Blank
<1>2. ASSUME IInv, WalletInv, AllClear, [WalletNext]_allVars PROVE AllClear'
  <2>1. CASE Harmless
    BY <1>2, <2>1 DEF Harmless, AllClear, Clears
  <2> QED
    BY <1>2, <2>1, WalletStepIs, ClearStep
<1>3. ASSUME IInv, AllClear, NodeNext PROVE Accounts \/ poisoned' # {}
  BY <1>3, WorkerAccounts, MinerAccounts, CommonAccounts DEF NodeNext, Threads
<1>4. ASSUME Harmless, tx_pool \subseteq tx_pool' PROVE Accounts
  BY <1>4 DEF Harmless, Accounts, Accounted, Pc, Item
<1>5. IInv /\ WalletInv /\ AllClear /\ [WalletNext]_allVars
        => [ \A x \in Txs : Accounted(x) => Accounted(x)' \/ poisoned' # {} ]_nodeVars
  BY <1>3, <1>4, WalletStepIs DEF Accounts
<1> QED
  BY <1>1, <1>2, <1>5, WalletConsistent, PTL DEF WalletSpec, TransactionsAccounted
-----------------------------------------------------------------------------
(* The sum of the two outputs that the generator gives a transaction.       *)
LEMMA SumOfTwo ==
  ASSUME NEW v, v[1] \in Nat, v[2] \in Nat
  PROVE  MapThenSumSet(LAMBDA i : v[i], {1, 2}) = v[1] + v[2]
<1> DEFINE S == {1, 2}
           First(s) == CHOOSE i \in s : TRUE
           Sums2(f) == f = [s \in SUBSET S |-> IF s = {} THEN 0 ELSE v[First(s)] + f[s \ {First(s)}]]
           sum == [s \in SUBSET S |-> IF s = {} THEN 0 ELSE IF s = {1} THEN v[1]
                                      ELSE IF s = {2} THEN v[2] ELSE v[1] + v[2]]
<1>1. MapThenSumSet(LAMBDA i : v[i], S) = (CHOOSE f : Sums2(f))[S]
  BY DEF MapThenSumSet, MapThenFoldSet
<1>2. \A s \in SUBSET S : s \in {{}, {1}, {2}, S}
  OBVIOUS
<1>3. First({1}) = 1 /\ First({2}) = 2 /\ First(S) \in S
  OBVIOUS
<1>4. /\ {1} \ {1} = {} /\ {2} \ {2} = {} /\ S \ {1} = {2} /\ S \ {2} = {1}
      /\ {1} # {} /\ {2} # {} /\ S # {} /\ {} \in SUBSET S /\ {1} \in SUBSET S /\ {2} \in SUBSET S
      /\ S # {1} /\ S # {2} /\ {1} # {2}
  OBVIOUS
<1> HIDE DEF First
<1>5. Sums2(sum)
  <2>1. ASSUME NEW s \in SUBSET S
        PROVE  sum[s] = IF s = {} THEN 0 ELSE v[First(s)] + sum[s \ {First(s)}]
    <3>1. CASE s = {}
      BY <3>1
    <3>2. CASE s = {1}
      BY <1>3, <1>4, <3>2
    <3>3. CASE s = {2}
      BY <1>3, <1>4, <3>3
    <3>4. CASE s = S /\ First(S) = 1
      BY <1>4, <3>4
    <3>5. CASE s = S /\ First(S) = 2
      BY <1>4, <3>5
    <3> QED
      BY <1>2, <1>3, <3>1, <3>2, <3>3, <3>4, <3>5
  <2>2. sum = [s \in SUBSET S |-> sum[s]]
    OBVIOUS
  <2> HIDE DEF sum, S
  <2> QED
    BY <2>1, <2>2
<1> DEFINE g == CHOOSE f : Sums2(f)
<1>6. Sums2(g)
  BY <1>5
<1> HIDE DEF g
<1>7. \A s \in SUBSET S : g[s] = IF s = {} THEN 0 ELSE v[First(s)] + g[s \ {First(s)}]
  BY <1>6
<1>8. g[{}] = 0
  BY <1>4, <1>7
<1>9. g[{1}] = v[1] /\ g[{2}] = v[2]
  <2>1. /\ g[{1}] = v[First({1})] + g[{1} \ {First({1})}]
        /\ g[{2}] = v[First({2})] + g[{2} \ {First({2})}]
    BY <1>4, <1>7
  <2>2. g[{1}] = v[1] + g[{}] /\ g[{2}] = v[2] + g[{}]
    BY <1>3, <1>4, <2>1
  <2> DEFINE a == v[1]
             b == v[2]
             n == g[{}]
             p == g[{1}]
             q == g[{2}]
  <2>3. a \in Nat /\ b \in Nat /\ n = 0 /\ p = a + n /\ q = b + n
    BY <1>8, <2>2
  <2> HIDE DEF a, b, n, p, q
  <2>4. p = a /\ q = b
    BY <2>3
  <2> QED
    BY <2>4 DEF a, b, p, q
<1>10. g[S] = v[1] + v[2]
  <2>1. g[S] = v[First(S)] + g[S \ {First(S)}]
    BY <1>4, <1>7
  <2>2. CASE First(S) = 1
    BY <1>4, <1>9, <2>1, <2>2
  <2>3. CASE First(S) = 2
    <3> DEFINE a == v[1]
               b == v[2]
    <3>1. a \in Nat /\ b \in Nat
      OBVIOUS
    <3>2. g[S] = b + a
      BY <1>4, <1>9, <2>1, <2>3
    <3> HIDE DEF a, b
    <3>3. b + a = a + b
      BY <3>1
    <3> QED
      BY <3>2, <3>3 DEF a, b
  <2> QED
    BY <1>3, <2>2, <2>3
<1> QED
  BY <1>1, <1>10 DEF g

(* What the generator makes of an unspent coin is admissible: workers of    *)
(* its peers that have the same state will take it (worker.rs:240-273).     *)
LEMMA MadeIsAdmissible ==
  ASSUME NEW S \in SUBSET RealCoins, NEW c \in S, NEW x \in Made(c) PROVE Admissible(S, x)
<1>1. /\ x \in Txs /\ InputsOf[x] = <<c, c>> /\ KeyOf[x] = Owner(c)
      /\ \E v \in 1..Value(c) : ValuesOf[x] = <<v, Value(c) - v>>
  BY TxAssumption DEF Made
<1>2. Value(c) \in Nat
  BY CoinValues
<1>3. PICK v \in 1..Value(c) : ValuesOf[x] = <<v, Value(c) - v>>
  BY <1>1
<1>4. InputCoins(x) = {c} /\ DOMAIN InputsOf[x] = {1, 2} /\ Last(InputsOf[x]) = c
  BY <1>1 DEF InputCoins, ToSet, Last
<1>5. OutputSum(x) = Value(c)
  <2> DEFINE w == ValuesOf[x]
  <2>1. w[1] = v /\ w[2] = Value(c) - v /\ v \in Nat /\ Value(c) - v \in Nat
    BY <1>2, <1>3
  <2> HIDE DEF w
  <2>2. MapThenSumSet(LAMBDA i : w[i], {1, 2}) = w[1] + w[2]
    BY <2>1, SumOfTwo
  <2>3. OutputSum(x) = MapThenSumSet(LAMBDA i : w[i], {1, 2})
    BY <1>4 DEF OutputSum, w
  <2> QED
    BY <1>2, <2>1, <2>2, <2>3
<1> QED
  BY <1>1, <1>2, <1>4, <1>5 DEF Admissible, Unspent, InputSum

(* The coins in the generator's hand are in the state of the tip it read,   *)
(* however far the chain has moved on.                                      *)
CoinsInHand ==
    wallet.pc = "g_add" =>
        wallet.tip \in DOMAIN glob_state /\ wallet.coins \subseteq glob_state[wallet.tip]

LEMMA CoinsStayInHand ==
  ASSUME IInv, WalletInv, CoinsInHand, [WalletNext]_allVars PROVE CoinsInHand'
<1>1. CASE [NodeNext]_nodeVars /\ UNCHANGED walletVars
  <2>1. Grow
    BY <1>1, StepGrows
  <2> QED
    BY <1>1, <2>1 DEF CoinsInHand, Grow, walletVars
<1>2. ASSUME Harmless, GeneratorStep PROVE CoinsInHand'
  <2>1. Fields /\ glob_state' = glob_state
    BY <1>2 DEF WalletInv, Harmless
  <2>2. CASE GenState
    <3>1. wallet.tip \in DOMAIN glob_state
      BY <2>2 DEF GenState, GenAt, StateMissing
    <3>2. wallet' = [wallet EXCEPT !.pc = "g_add", !.coins = Spendable(glob_state[wallet.tip])]
      BY <2>2 DEF GenState
    <3>3. wallet'.tip = wallet.tip /\ wallet'.coins = Spendable(glob_state[wallet.tip])
      BY <2>1, <3>2 DEF Fields
    <3> QED
      BY <2>1, <3>1, <3>3 DEF CoinsInHand, Spendable
  <2>3. CASE GenAdd
    <3>1. PICK c \in wallet.coins : wallet' = [wallet EXCEPT !.coins = @ \ {c}]
      BY <2>3 DEF GenAdd
    <3>2. /\ wallet'.tip = wallet.tip /\ wallet'.coins \subseteq wallet.coins
          /\ wallet'.pc = "g_add" /\ wallet.pc = "g_add"
      BY <2>1, <2>3, <3>1 DEF Fields, GenAdd, GenAt
    <3> QED
      BY <2>1, <3>2 DEF CoinsInHand
  <2>4. CASE ~ GenState /\ ~ GenAdd
    <3>1. \/ \E l \in {"g_tip", "loop", "dead", "look_state", "ico_write"} :
                \/ wallet' = [wallet EXCEPT !.pc = l]
                \/ \E t : wallet' = [wallet EXCEPT !.pc = l, !.tip = t]
          \/ \E t : wallet' = [wallet EXCEPT !.pc = "g_state", !.last = t, !.tip = t]
      BY <1>2, <2>4 DEF GeneratorStep, NoCommand, LookTip, Look, IcoTip, IcoWrite, GenTip, GenDone,
                        GenIndexPanics, GenLockPanics, GenGoto, Resume
    <3>2. wallet'.pc # "g_add"
      BY <2>1, <3>1 DEF Fields
    <3> QED
      BY <3>2 DEF CoinsInHand
  <2> QED
    BY <2>2, <2>3, <2>4
<1>3. ASSUME NEW signal \in Signals, Command(signal) PROVE CoinsInHand'
  <2>1. Fields /\ wallet' = [wallet EXCEPT !.pc = After(signal), !.running = @ \/ signal = "Start"]
    BY <1>3 DEF WalletInv, Command
  <2>2. wallet'.pc = After(signal)
    BY <2>1 DEF Fields
  <2>3. After(signal) # "g_add"
    BY DEF After, Resume, Signals
  <2> QED
    BY <2>2, <2>3 DEF CoinsInHand
<1> QED
  BY <1>1, <1>2, <1>3, WalletStepIs

LEMMA HistoryWithWallet ==
  ASSUME IInv, WalletInv, History, [WalletNext]_allVars PROVE History'
<1>1. CASE Harmless
  BY <1>1 DEF Harmless, History, HistoryOf
<1> QED
  BY <1>1, WalletStepIs, HistoryStep

(* What enters the pool, from a peer or from this node's generator, is      *)
(* admissible in the ledger state of some block of the tree: the generator  *)
(* spends the coins of a tip that may long be another's by the time it adds *)
(* the last of its transactions (generator.rs:276-340).                     *)
THEOREM WalletAdmittedOnTree ==
  Commands["ICO"] = 0 => (WalletSpec => AdmittedOnTree)
<1>1. WalletInit => History /\ CoinsInHand
  BY InitHistory DEF WalletInit, CoinsInHand
<1>2. IInv /\ WalletInv /\ History /\ CoinsInHand /\ [WalletNext]_allVars => History' /\ CoinsInHand'
  BY HistoryWithWallet, CoinsStayInHand
<1>3. ASSUME IInv, WalletInv, History, CoinsInHand, GenAdd PROVE Admits
  <2>1. PICK c \in wallet.coins : tx_pool' = tx_pool \/ \E x \in Made(c) : tx_pool' = tx_pool \cup {x}
    BY <1>3 DEF GenAdd
  <2> DEFINE b == wallet.tip
  <2>2. b \in blocks \cap DOMAIN glob_state /\ c \in glob_state[b] /\ glob_state[b] \in SUBSET RealCoins
    BY <1>3 DEF GenAdd, GenAt, CoinsInHand, WalletInv, History, HistoryOf
  <2>3. \A x \in Made(c) : Admissible(glob_state[b], x)
    BY <2>2, MadeIsAdmissible
  <2> QED
    BY <2>1, <2>2, <2>3 DEF Admits
<1>4. ASSUME IInv, NodeNext PROVE Admits
  BY <1>4, StepEffect DEF Effect
<1>5. IInv /\ WalletInv /\ History /\ CoinsInHand /\ [WalletNext]_allVars
        => [ \A x \in tx_pool' \ tx_pool :
               \E b \in blocks \cap DOMAIN glob_state : Admissible(glob_state[b], x) ]_nodeVars
  <2> SUFFICES ASSUME IInv, WalletInv, History, CoinsInHand, [WalletNext]_allVars, nodeVars' # nodeVars
               PROVE  Admits
    BY DEF Admits
  <2>1. CASE tx_pool' = tx_pool
    BY <2>1 DEF Admits
  <2> QED
    BY <1>3, <1>4, <2>1, WalletStepIs, PoolGrows
<1> QED
  BY <1>1, <1>2, <1>5, WalletConsistent, PTL DEF WalletSpec, AdmittedOnTree
=============================================================================
