------------------------------- MODULE Wallet -------------------------------
(***************************************************************************)
(* The generator thread (src/src/generator.rs) of a node, its workers and  *)
(* its miner, and the operator, who gives it commands over the HTTP API    *)
(* (src/src/api/mod.rs).  The addresses are made and told (Gossip).        *)
(*                                                                         *)
(* As in Node an action ends at the next lock acquisition.  The channel of *)
(* commands is folded into the moment when the thread takes one from it.   *)
(* Nothing sends ControlSignal::Paused or Exit: no URL leads to them.      *)
(***************************************************************************)
EXTENDS NodeProperties

CONSTANTS
    MyAddresses, \* the keys of my_addr_key
    AllAddresses,\* all_addr
    Commands     \* bound: how often the operator gives each command

Signals == {"Start", "ICO", "Balance", "PrintAddr", "PrintICO", "PrintTransaction"}

ASSUME WalletAssumption ==
    /\ MyAddresses \subseteq AllAddresses
    /\ Commands \in [Signals -> Nat]

VARIABLES
    wallet,   \* the generator thread: pc, operating_state, locals
    commands  \* the commands still to come
walletVars == <<wallet, commands>>
allVars == <<nodeVars, walletVars>>

WalletInit ==
    /\ NodeInit
    /\ wallet = [pc |-> "loop", running |-> FALSE, last |-> ZeroHash, tip |-> Genesis,
                 coins |-> {}]
    /\ commands = Commands
-----------------------------------------------------------------------------
(* The mutexes of Node that the thread's next action locks, and the panics. *)
WalletLocks ==
    CASE wallet.pc \in {"g_tip", "ico_tip", "look_tip"} -> {"blockchain"}
      [] wallet.pc \in {"g_state", "ico_write", "look_state"} -> {"glob_state"}
      [] wallet.pc = "g_add" -> IF wallet.coins = {} THEN {} ELSE {"tx_pool"}
      [] wallet.pc = "look_pool" -> {"tx_pool"}
      [] OTHER -> {}
StateMissing == wallet.pc \in {"g_state", "look_state"} /\ wallet.tip \notin DOMAIN glob_state

GenAt(l) == wallet.pc = l /\ WalletLocks \cap poisoned = {} /\ ~ StateMissing
GenGoto(l) == wallet' = [wallet EXCEPT !.pc = l]
OnlyWallet == UNCHANGED <<nodeVars, commands>>

GenIndexPanics ==
    /\ WalletLocks \cap poisoned = {} /\ StateMissing
    /\ poisoned' = poisoned \cup {"glob_state"}
    /\ GenGoto("dead")
    /\ UNCHANGED local /\ OnlyPoison /\ UNCHANGED commands
GenLockPanics ==
    /\ WalletLocks \cap poisoned # {}
    /\ GenGoto("dead") /\ OnlyWallet

(* A running thread goes on with its pass after a command, a paused one     *)
(* goes back to the head of the loop.                                       *)
Resume == IF wallet.running THEN "g_tip" ELSE "loop"

(* The head of generator_loop: recv when paused, try_recv when running.     *)
(* PrintAddr locks all_addr and my_addr_key only.                           *)
After(signal) ==
    CASE signal \in {"Start", "PrintAddr"} -> Resume
      [] signal = "ICO" -> "ico_tip"
      [] signal \in {"Balance", "PrintICO"} -> "look_tip"
      [] signal = "PrintTransaction" -> "look_pool"
Command(signal) ==
    /\ GenAt("loop") /\ commands[signal] > 0
    /\ commands' = [commands EXCEPT ![signal] = @ - 1]
    /\ wallet' = [wallet EXCEPT !.pc = After(signal), !.running = @ \/ signal = "Start"]
    /\ UNCHANGED nodeVars
NoCommand == GenAt("loop") /\ wallet.running /\ GenGoto("g_tip") /\ OnlyWallet

(* Balance and PrintICO look up the tip's state, PrintTransaction the pool. *)
LookTip_Last ==             \* slip: last_state is used for the lookup
    /\ GenAt("look_tip")
    /\ wallet' = [wallet EXCEPT !.pc = "look_state", !.tip = tip_node_hash, !.last = tip_node_hash]
    /\ OnlyWallet
LookTip == GenAt("look_tip") /\ wallet' = [wallet EXCEPT !.pc = "look_state", !.tip = tip_node_hash]
           /\ OnlyWallet
Look == (GenAt("look_state") \/ GenAt("look_pool")) /\ GenGoto(Resume) /\ OnlyWallet

(* ICO: genesis_hash is the tip.  The message goes to the peers.            *)
IcoTip == GenAt("ico_tip") /\ wallet' = [wallet EXCEPT !.pc = "ico_write", !.tip = tip_node_hash]
          /\ OnlyWallet
IcoWrite ==
    /\ GenAt("ico_write")
    /\ glob_state' = Put(glob_state, wallet.tip, IcoState)
    /\ GenGoto(Resume)
    /\ UNCHANGED local /\ OnlyState /\ UNCHANGED commands
-----------------------------------------------------------------------------
(* One pass: nothing to do if the tip is the one of the last pass.          *)
GenTip_Always ==            \* slip: the last tip is not remembered
    /\ GenAt("g_tip")
    /\ wallet' = [wallet EXCEPT !.pc = "g_state", !.tip = tip_node_hash]
    /\ OnlyWallet
GenTip ==
    /\ GenAt("g_tip")
    /\ wallet' = IF wallet.last = tip_node_hash THEN [wallet EXCEPT !.pc = "loop"]
                 ELSE [wallet EXCEPT !.pc = "g_state", !.last = tip_node_hash,
                                     !.tip = tip_node_hash]
    /\ OnlyWallet

(* The coins of the tip's state that this node can spend, in any order.     *)
Spendable(S) == {c \in S : Owner(c) \in MyAddresses /\ Value(c) # 0}
GenState ==
    /\ GenAt("g_state")
    /\ wallet' = [wallet EXCEPT !.pc = "g_add", !.coins = Spendable(glob_state[wallet.tip])]
    /\ OnlyWallet

(* The transactions that may be made of coin c: some of it to anybody, the  *)
(* rest back to the owner.                                                  *)
Made_NoRest(c) ==           \* slip: what is given away is not taken from the rest
    {x \in WellSigned :
        /\ InputsOf[x] = <<c, c>>
        /\ KeyOf[x] = Owner(c)
        /\ \E to \in AllAddresses : AddressesOf[x] = <<to, Owner(c)>>
        /\ LET v == ValuesOf[x][1]
           IN  v \in 1..Value(c) /\ ValuesOf[x] = <<v, Value(c)>>}
Made(c) ==
    {x \in WellSigned :
        /\ InputsOf[x] = <<c, c>>
        /\ KeyOf[x] = Owner(c)
        /\ \E to \in AllAddresses : AddressesOf[x] = <<to, Owner(c)>>
        /\ LET v == ValuesOf[x][1]
           IN  v \in 1..Value(c) /\ ValuesOf[x] = <<v, Value(c) - v>>}

(* A coin of which the instance has no transaction is passed over: Txs is   *)
(* the bound of what may be made.                                           *)
GenAdd ==
    /\ GenAt("g_add")
    /\ \E c \in wallet.coins :
          /\ wallet' = [wallet EXCEPT !.coins = @ \ {c}]
          /\ IF Made(c) = {} THEN UNCHANGED tx_pool
             ELSE \E x \in Made(c) : tx_pool' = tx_pool \cup {x}
    /\ UNCHANGED local /\ OnlyTxPool /\ UNCHANGED commands

(* The end of the pass, and the pause. *)
GenDone ==
    /\ wallet.pc = "g_add" /\ wallet.coins = {}
    /\ GenGoto("loop") /\ OnlyWallet
-----------------------------------------------------------------------------
GeneratorStep ==
    \/ NoCommand \/ LookTip \/ Look \/ IcoTip \/ IcoWrite
    \/ GenTip \/ GenState \/ GenAdd \/ GenDone \/ GenIndexPanics \/ GenLockPanics

WalletNext ==
    \/ NodeNext /\ UNCHANGED walletVars
    \/ GeneratorStep
    \/ \E signal \in Signals : Command(signal)

WalletSpec == WalletInit /\ [][WalletNext]_allVars

(* The workers and the generator thread are scheduled; nothing is assumed   *)
(* of the operator and the miner.                                           *)
WalletFairness ==
    /\ WF_allVars(GeneratorStep)
    /\ \A w \in Workers : WF_allVars(WorkerStep(w) /\ UNCHANGED walletVars)
FairWalletSpec == WalletSpec /\ WalletFairness
-----------------------------------------------------------------------------
(* While the tip stands still a coin of this node is given out once,        *)
(* however often the operator gives commands and however fast the loop      *)
(* turns (last_state, generator.rs:264); and as the tip only moves up, the  *)
(* node never competes with itself for a coin more often than the chain has *)
(* grown.  Nobody else can sign for it.                                     *)
OneSpendPerHeight ==
    \A c \in UNION {InputCoins(x) : x \in tx_pool} :
        Owner(c) \in MyAddresses =>
            Cardinality({x \in tx_pool : c \in InputCoins(x)}) <= longest + 1

Offered(x) == x \in tx_pool \/ \E b \in tx_block_pool : x \in ToSet(ContentOf[b])
MyCoins == {c \in UNION {InputCoins(x) : x \in Txs} : Owner(c) \in MyAddresses /\ Made(c) # {}}

(* A running generator offers a transaction of every coin it can spend in   *)
(* the state of a tip it has not seen yet, unless the tip moves on (the     *)
(* generator's comment at line 269): what commands are handled in between,  *)
(* and which transactions come and go in the pool.  Once for a tip: if a    *)
(* losing block prunes it (worker.rs:447) it is not offered again.          *)
EveryCoinOffered ==
    \A b \in ProposerBlocks : \A c \in MyCoins :
        (/\ wallet.running /\ tip_node_hash = b /\ wallet.last # b
         /\ b \in DOMAIN glob_state /\ c \in Spendable(glob_state[b]))
        ~> tip_node_hash # b \/ poisoned # {} \/ \E x \in Made(c) : Offered(x)
=============================================================================
