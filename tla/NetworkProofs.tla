--------------------------- MODULE NetworkProofs ---------------------------
(***************************************************************************)
(* Facts about any number of nodes: the tree of each node grows as         *)
(* Blockchain specifies; and if all connections are there from the start,  *)
(* a proposer block overtakes a transaction block that it or one of its    *)
(* ancestors references nowhere but between the two threads of a node.     *)
(***************************************************************************)
EXTENDS Network, SequenceTheorems, TLAPS

(* The six messages. *)
Announce(x) == Msg("NewProposerBlockHashes", x)
Request(x) == Msg("GetProposerBlocks", x)
Deliver(x) == Msg("ProposerBlocks", x)
AnnounceTx(x) == Msg("NewTransactionBlockHashes", x)
RequestTx(x) == Msg("GetTransactionBlocks", x)
DeliverTx(x) == Msg("TransactionBlocks", x)

Messages ==
    [type : {"NewProposerBlockHashes", "GetProposerBlocks", "ProposerBlocks"}, item : ProposerBlocks]
    \cup [type : {"NewTransactionBlockHashes", "GetTransactionBlocks", "TransactionBlocks"},
          item : TxBlocks]

(* Messages are what they look like. *)
LEMMA Distinct ==
  /\ \A x, y : /\ Announce(x) = Announce(y) => x = y
               /\ Request(x) = Request(y) => x = y
               /\ Deliver(x) = Deliver(y) => x = y
               /\ AnnounceTx(x) = AnnounceTx(y) => x = y
               /\ RequestTx(x) = RequestTx(y) => x = y
               /\ DeliverTx(x) = DeliverTx(y) => x = y
  /\ \A x, y : /\ Announce(x) \notin {Request(y), Deliver(y), AnnounceTx(y), RequestTx(y), DeliverTx(y)}
               /\ Request(x) \notin {Deliver(y), AnnounceTx(y), RequestTx(y), DeliverTx(y)}
               /\ Deliver(x) \notin {AnnounceTx(y), RequestTx(y), DeliverTx(y)}
               /\ AnnounceTx(x) \notin {RequestTx(y), DeliverTx(y)}
               /\ RequestTx(x) # DeliverTx(y)
  BY DEF Announce, Request, Deliver, AnnounceTx, RequestTx, DeliverTx, Msg

(* A message is one of the six, by its type. *)
LEMMA Kinds ==
  ASSUME NEW h \in Messages
  PROVE  /\ h.item \in ProposerBlocks \cup TxBlocks
         /\ h.type = "NewProposerBlockHashes" => h.item \in ProposerBlocks /\ h = Announce(h.item)
         /\ h.type = "GetProposerBlocks" => h.item \in ProposerBlocks /\ h = Request(h.item)
         /\ h.type = "ProposerBlocks" => h.item \in ProposerBlocks /\ h = Deliver(h.item)
         /\ h.type = "NewTransactionBlockHashes" => h.item \in TxBlocks /\ h = AnnounceTx(h.item)
         /\ h.type = "GetTransactionBlocks" => h.item \in TxBlocks /\ h = RequestTx(h.item)
         /\ h.type = "TransactionBlocks" => h.item \in TxBlocks /\ h = DeliverTx(h.item)
<1>1. CASE h \in [type : {"NewProposerBlockHashes", "GetProposerBlocks", "ProposerBlocks"},
                  item : ProposerBlocks]
  BY <1>1 DEF Announce, Request, Deliver, Msg
<1>2. CASE h \in [type : {"NewTransactionBlockHashes", "GetTransactionBlocks", "TransactionBlocks"},
                  item : TxBlocks]
  BY <1>2 DEF AnnounceTx, RequestTx, DeliverTx, Msg
<1> QED
  BY <1>1, <1>2 DEF Messages

(* The six are messages. *)
LEMMA AreMessages ==
  /\ \A b \in ProposerBlocks : {Announce(b), Request(b), Deliver(b)} \subseteq Messages
  /\ \A t \in TxBlocks : {AnnounceTx(t), RequestTx(t), DeliverTx(t)} \subseteq Messages
  BY DEF Announce, Request, Deliver, AnnounceTx, RequestTx, DeliverTx, Msg, Messages
-----------------------------------------------------------------------------
(* Where a message is in a queue.                                           *)
Has(s, x) == \E i \in DOMAIN s : s[i] = x
Before(s, i, x) == \E j \in DOMAIN s : j < i /\ s[j] = x

(* What is left when the head of a queue is taken. *)
LEMMA TailHas ==
  ASSUME NEW s \in Seq(Messages), s # <<>>
  PROVE  /\ Tail(s) \in Seq(Messages) /\ Head(s) \in Messages /\ 1 \in DOMAIN s /\ s[1] = Head(s)
         /\ \A x : Has(s, x) <=> x = Head(s) \/ Has(Tail(s), x)
         /\ \A i \in DOMAIN Tail(s) :
               /\ i + 1 \in DOMAIN s /\ Tail(s)[i] = s[i + 1]
               /\ \A x : Before(s, i + 1, x) <=> x = Head(s) \/ Before(Tail(s), i, x)
         /\ \A x : ~ Before(s, 1, x)
<1> DEFINE t == Tail(s)
<1>1. /\ t \in Seq(Messages) /\ Head(s) \in Messages /\ Head(s) = s[1]
      /\ DOMAIN s = 1..Len(s) /\ DOMAIN t = 1..(Len(s) - 1) /\ Len(s) \in Nat /\ Len(s) >= 1
      /\ \A i \in 1..(Len(s) - 1) : t[i] = s[i + 1]
  OBVIOUS
<1> HIDE DEF t
<1>2. ASSUME NEW i \in 1..Len(s), i # 1 PROVE i - 1 \in 1..(Len(s) - 1) /\ t[i - 1] = s[i]
  BY <1>1, <1>2
<1>3. \A i \in 1..(Len(s) - 1) : i + 1 \in 1..Len(s)
  BY <1>1
<1>4. \A x : Has(s, x) <=> x = Head(s) \/ Has(t, x)
  <2>1. ASSUME NEW i \in 1..Len(s) PROVE s[i] = Head(s) \/ Has(t, s[i])
    <3>1. CASE i = 1
      BY <3>1, <1>1
    <3>2. CASE i # 1
      BY <3>2, <1>1, <1>2 DEF Has
    <3> QED
      BY <3>1, <3>2
  <2>2. 1 \in 1..Len(s)
    BY <1>1
  <2>3. \A i \in 1..(Len(s) - 1) : Has(s, t[i])
    BY <1>1, <1>3 DEF Has
  <2> QED
    BY <1>1, <2>1, <2>2, <2>3 DEF Has
<1>5. ASSUME NEW i \in 1..(Len(s) - 1), NEW x
      PROVE  Before(s, i + 1, x) <=> x = Head(s) \/ Before(t, i, x)
  <2>1. ASSUME NEW j \in 1..Len(s), j < i + 1, s[j] = x PROVE x = Head(s) \/ Before(t, i, x)
    <3>1. CASE j = 1
      BY <3>1, <2>1, <1>1
    <3>2. CASE j # 1
      <4>1. j - 1 \in 1..(Len(s) - 1) /\ t[j - 1] = x /\ j - 1 < i
        BY <3>2, <2>1, <1>2
      <4> QED
        BY <4>1, <1>1 DEF Before
    <3> QED
      BY <3>1, <3>2
  <2>2. ASSUME NEW j \in 1..(Len(s) - 1), j < i, t[j] = x PROVE Before(s, i + 1, x)
    <3>1. j + 1 \in 1..Len(s) /\ s[j + 1] = x /\ j + 1 < i + 1
      BY <2>2, <1>1
    <3> QED
      BY <3>1, <1>1 DEF Before
  <2>3. x = Head(s) => Before(s, i + 1, x)
    <3>1. 1 \in 1..Len(s) /\ 1 < i + 1
      BY <1>1
    <3> QED
      BY <3>1, <1>1 DEF Before
  <2> QED
    BY <2>1, <2>2, <2>3, <1>1 DEF Before
<1>6. \A x : ~ Before(s, 1, x)
  BY <1>1 DEF Before
<1> QED
  BY <1>1, <1>3, <1>4, <1>5, <1>6 DEF t

(* What is there when a message joins the end of a queue. *)
LEMMA AppendHas ==
  ASSUME NEW s \in Seq(Messages), NEW m \in Messages
  PROVE  /\ Append(s, m) \in Seq(Messages)
         /\ \A x : Has(Append(s, m), x) <=> x = m \/ Has(s, x)
         /\ \A i \in DOMAIN Append(s, m) :
               \/ /\ i \in DOMAIN s /\ Append(s, m)[i] = s[i]
                  /\ \A x : Before(Append(s, m), i, x) <=> Before(s, i, x)
               \/ /\ Append(s, m)[i] = m
                  /\ \A x : Before(Append(s, m), i, x) <=> Has(s, x)
<1> DEFINE t == Append(s, m)
<1>1. /\ t \in Seq(Messages) /\ Len(s) \in Nat
      /\ DOMAIN s = 1..Len(s) /\ DOMAIN t = 1..(Len(s) + 1)
      /\ \A i \in 1..Len(s) : t[i] = s[i]
      /\ t[Len(s) + 1] = m
  OBVIOUS
<1> HIDE DEF t
<1>2. \A i \in 1..(Len(s) + 1) : i \in 1..Len(s) \/ i = Len(s) + 1
  BY <1>1
<1>3. \A i \in 1..Len(s) : i \in 1..(Len(s) + 1) /\ i < Len(s) + 1
  BY <1>1
<1>4. Len(s) + 1 \in 1..(Len(s) + 1)
  BY <1>1
<1>5. \A x : Has(t, x) <=> x = m \/ Has(s, x)
  BY <1>1, <1>2, <1>3, <1>4 DEF Has
<1>6. ASSUME NEW i \in 1..Len(s), NEW x PROVE Before(t, i, x) <=> Before(s, i, x)
  <2>1. \A j \in 1..(Len(s) + 1) : j < i => j \in 1..Len(s)
    BY <1>1
  <2> QED
    BY <2>1, <1>1, <1>3 DEF Before
<1>7. ASSUME NEW x PROVE Before(t, Len(s) + 1, x) <=> Has(s, x)
  <2>1. \A j \in 1..(Len(s) + 1) : j < Len(s) + 1 => j \in 1..Len(s)
    BY <1>1
  <2> QED
    BY <2>1, <1>1, <1>3 DEF Before, Has
<1> QED
  BY <1>1, <1>2, <1>5, <1>6, <1>7 DEF t
-----------------------------------------------------------------------------
(* A connection from a node to another: queue is what the node has yet to   *)
(* announce, out what it has sent, back what the other has sent, pool the   *)
(* other's transaction blocks and src those that it has announced; due says *)
(* which of them must not come after a proposer block.  A transaction block *)
(* is on its way when the other has it, is being sent it or has asked.      *)
OnTheWay(t, out, back, pool) == t \in pool \/ Has(out, DeliverTx(t)) \/ Has(back, RequestTx(t))

Pending(queue, out, back, pool, src) ==
    \A t \in src :
        OnTheWay(t, out, back, pool) \/ Has(out, AnnounceTx(t)) \/ Has(queue, AnnounceTx(t))
QueueOrder(queue, out, back, pool, due) ==
    \A i \in DOMAIN queue, b \in ProposerBlocks : queue[i] = Announce(b) =>
        \A t \in due[b] :
            OnTheWay(t, out, back, pool) \/ Has(out, AnnounceTx(t)) \/ Before(queue, i, AnnounceTx(t))
AnnounceOrder(out, back, pool, due) ==
    \A i \in DOMAIN out, b \in ProposerBlocks : out[i] = Announce(b) =>
        \A t \in due[b] : OnTheWay(t, out, back, pool) \/ Before(out, i, AnnounceTx(t))
RequestOrder(out, back, pool, due) ==
    \A i \in DOMAIN back, b \in ProposerBlocks : back[i] = Request(b) =>
        \A t \in due[b] : t \in pool \/ Has(out, DeliverTx(t)) \/ Before(back, i, RequestTx(t))
DeliverOrder(out, pool, due) ==
    \A i \in DOMAIN out, b \in ProposerBlocks : out[i] = Deliver(b) =>
        \A t \in due[b] : t \in pool \/ Before(out, i, DeliverTx(t))
Known(queue, out, back, src) ==
    \A t : Has(queue, AnnounceTx(t)) \/ Has(out, AnnounceTx(t)) \/ Has(back, RequestTx(t)) => t \in src
OnlyNews(queue) ==
    \A x : ~ Has(queue, Request(x)) /\ ~ Has(queue, Deliver(x)) /\ ~ Has(queue, RequestTx(x))

InOrder(queue, out, back, pool, src, due) ==
    /\ Pending(queue, out, back, pool, src)
    /\ QueueOrder(queue, out, back, pool, due) /\ AnnounceOrder(out, back, pool, due)
    /\ RequestOrder(out, back, pool, due) /\ DeliverOrder(out, pool, due)
    /\ Known(queue, out, back, src) /\ OnlyNews(queue)

(* The other learns of transaction blocks. *)
LEMMA PoolGrows ==
  ASSUME NEW queue, NEW out, NEW back, NEW pool, NEW src, NEW due, NEW pool2,
         InOrder(queue, out, back, pool, src, due), pool \subseteq pool2
  PROVE  InOrder(queue, out, back, pool2, src, due)
<1>1. \A t : OnTheWay(t, out, back, pool) => OnTheWay(t, out, back, pool2)
  BY DEF OnTheWay
<1>2. Pending(queue, out, back, pool2, src)
  BY <1>1 DEF InOrder, Pending
<1>3. QueueOrder(queue, out, back, pool2, due)
  BY <1>1 DEF InOrder, QueueOrder
<1>4. AnnounceOrder(out, back, pool2, due)
  BY <1>1 DEF InOrder, AnnounceOrder
<1>5. RequestOrder(out, back, pool2, due)
  BY DEF InOrder, RequestOrder
<1>6. DeliverOrder(out, pool2, due)
  BY DEF InOrder, DeliverOrder
<1> QED
  BY <1>2, <1>3, <1>4, <1>5, <1>6 DEF InOrder

(* Fewer transaction blocks are due. *)
LEMMA FewerDue ==
  ASSUME NEW queue, NEW out, NEW back, NEW pool, NEW src, NEW due, NEW due2,
         InOrder(queue, out, back, pool, src, due),
         \A b \in ProposerBlocks : due2[b] \subseteq due[b]
  PROVE  InOrder(queue, out, back, pool, src, due2)
<1>1. QueueOrder(queue, out, back, pool, due2)
  BY DEF InOrder, QueueOrder
<1>2. AnnounceOrder(out, back, pool, due2)
  BY DEF InOrder, AnnounceOrder
<1>3. RequestOrder(out, back, pool, due2)
  BY DEF InOrder, RequestOrder
<1>4. DeliverOrder(out, pool, due2)
  BY DEF InOrder, DeliverOrder
<1> QED
  BY <1>1, <1>2, <1>3, <1>4 DEF InOrder

(* The node has a new transaction block and announces it. *)
LEMMA TxAnnounced ==
  ASSUME NEW queue \in Seq(Messages), NEW out, NEW back, NEW pool, NEW src, NEW due, NEW u \in TxBlocks,
         InOrder(queue, out, back, pool, src, due)
  PROVE  InOrder(Append(queue, AnnounceTx(u)), out, back, pool, src \cup {u}, due)
<1> DEFINE m == AnnounceTx(u)
           q == Append(queue, m)
<1>1. m \in Messages
  BY AreMessages
<1>2. /\ \A x : Has(q, x) <=> x = m \/ Has(queue, x)
      /\ \A i \in DOMAIN q :
               \/ /\ i \in DOMAIN queue /\ q[i] = queue[i]
                  /\ \A x : Before(q, i, x) <=> Before(queue, i, x)
               \/ q[i] = m
  BY <1>1, AppendHas
<1>3. /\ \A x : Announce(x) # m /\ m \notin {Request(x), Deliver(x), RequestTx(x)}
      /\ \A x : AnnounceTx(x) = m => x = u
  BY Distinct
<1> HIDE DEF q, m
<1>4. Pending(q, out, back, pool, src \cup {u})
  <2>1. Has(q, AnnounceTx(u))
    BY <1>2 DEF m
  <2> QED
    BY <1>2, <2>1 DEF InOrder, Pending
<1>5. QueueOrder(q, out, back, pool, due)
  BY <1>2, <1>3 DEF InOrder, QueueOrder
<1>6. Known(q, out, back, src \cup {u})
  BY <1>2, <1>3 DEF InOrder, Known
<1>7. OnlyNews(q)
  BY <1>2, <1>3 DEF InOrder, OnlyNews
<1> QED
  BY <1>4, <1>5, <1>6, <1>7 DEF InOrder, m, q

(* The node has a new proposer block and announces it. *)
LEMMA BlockAnnounced ==
  ASSUME NEW queue \in Seq(Messages), NEW out, NEW back, NEW pool, NEW src, NEW due, NEW b \in ProposerBlocks,
         InOrder(queue, out, back, pool, src, due), due[b] \subseteq src
  PROVE  InOrder(Append(queue, Announce(b)), out, back, pool, src, due)
<1> DEFINE m == Announce(b)
           q == Append(queue, m)
<1>1. m \in Messages
  BY AreMessages
<1>2. /\ \A x : Has(q, x) <=> x = m \/ Has(queue, x)
      /\ \A i \in DOMAIN q :
               \/ /\ i \in DOMAIN queue /\ q[i] = queue[i]
                  /\ \A x : Before(q, i, x) <=> Before(queue, i, x)
               \/ q[i] = m /\ \A x : Before(q, i, x) <=> Has(queue, x)
  BY <1>1, AppendHas
<1>3. /\ \A x : AnnounceTx(x) # m /\ m \notin {Request(x), Deliver(x), RequestTx(x)}
      /\ \A x : Announce(x) = m => x = b
  BY Distinct
<1> HIDE DEF q, m
<1>4. Pending(q, out, back, pool, src)
  BY <1>2 DEF InOrder, Pending
<1>5. QueueOrder(q, out, back, pool, due)
  <2> SUFFICES ASSUME NEW i \in DOMAIN q, NEW c \in ProposerBlocks, q[i] = Announce(c),
                      NEW t \in due[c]
               PROVE  OnTheWay(t, out, back, pool) \/ Has(out, AnnounceTx(t)) \/ Before(q, i, AnnounceTx(t))
    BY DEF QueueOrder
  <2>1. CASE i \in DOMAIN queue /\ q[i] = queue[i] /\ \A x : Before(q, i, x) <=> Before(queue, i, x)
    BY <2>1 DEF InOrder, QueueOrder
  <2>2. CASE q[i] = m /\ \A x : Before(q, i, x) <=> Has(queue, x)
    <3>1. c = b /\ t \in src
      BY <2>2, <1>3
    <3> QED
      BY <2>2, <3>1 DEF InOrder, Pending
  <2> QED
    BY <1>2, <2>1, <2>2
<1>6. Known(q, out, back, src)
  BY <1>2, <1>3 DEF InOrder, Known
<1>7. OnlyNews(q)
  BY <1>2, <1>3 DEF InOrder, OnlyNews
<1> QED
  BY <1>4, <1>5, <1>6, <1>7 DEF InOrder, m, q

(* The node hands the head of what it has to announce to the connection.    *)
LEMMA QueueTaken ==
  ASSUME NEW queue \in Seq(Messages), queue # <<>>, NEW out, NEW back, NEW pool, NEW src, NEW due,
         InOrder(queue, out, back, pool, src, due),
         \A t : Head(queue) = AnnounceTx(t) => OnTheWay(t, out, back, pool) \/ Has(out, AnnounceTx(t))
  PROVE  InOrder(Tail(queue), out, back, pool, src, due)
<1> DEFINE q == Tail(queue)
           h == Head(queue)
<1>1. /\ \A x : Has(queue, x) <=> x = h \/ Has(q, x)
      /\ \A i \in DOMAIN q :
            /\ i + 1 \in DOMAIN queue /\ q[i] = queue[i + 1]
            /\ \A x : Before(queue, i + 1, x) <=> x = h \/ Before(q, i, x)
  BY TailHas
<1> HIDE DEF q, h
<1>2. \A t : h = AnnounceTx(t) => OnTheWay(t, out, back, pool) \/ Has(out, AnnounceTx(t))
  BY DEF h
<1>3. Pending(q, out, back, pool, src)
  BY <1>1, <1>2 DEF InOrder, Pending
<1>4. QueueOrder(q, out, back, pool, due)
  <2> SUFFICES ASSUME NEW i \in DOMAIN q, NEW c \in ProposerBlocks, q[i] = Announce(c),
                      NEW t \in due[c]
               PROVE  OnTheWay(t, out, back, pool) \/ Has(out, AnnounceTx(t)) \/ Before(q, i, AnnounceTx(t))
    BY DEF QueueOrder
  <2>1. i + 1 \in DOMAIN queue /\ queue[i + 1] = Announce(c)
    BY <1>1
  <2>2. OnTheWay(t, out, back, pool) \/ Has(out, AnnounceTx(t)) \/ Before(queue, i + 1, AnnounceTx(t))
    BY <2>1 DEF InOrder, QueueOrder
  <2> QED
    BY <1>1, <1>2, <2>2
<1>5. Known(q, out, back, src)
  BY <1>1 DEF InOrder, Known
<1>6. OnlyNews(q)
  BY <1>1 DEF InOrder, OnlyNews
<1> QED
  BY <1>3, <1>4, <1>5, <1>6 DEF InOrder, q

(* The node sends the other a message. *)
LEMMA Sent ==
  ASSUME NEW queue, NEW out \in Seq(Messages), NEW back, NEW pool, NEW src, NEW due, NEW m \in Messages,
         InOrder(queue, out, back, pool, src, due),
         \A t : m = AnnounceTx(t) => t \in src,
         \A b \in ProposerBlocks : m = Announce(b) => \A t \in due[b] :
             OnTheWay(t, out, back, pool) \/ Has(out, AnnounceTx(t)),
         \A b \in ProposerBlocks : m = Deliver(b) => \A t \in due[b] :
             t \in pool \/ Has(out, DeliverTx(t))
  PROVE  InOrder(queue, Append(out, m), back, pool, src, due)
<1> DEFINE o == Append(out, m)
<1>1. /\ \A x : Has(o, x) <=> x = m \/ Has(out, x)
      /\ \A i \in DOMAIN o :
               \/ /\ i \in DOMAIN out /\ o[i] = out[i]
                  /\ \A x : Before(o, i, x) <=> Before(out, i, x)
               \/ o[i] = m /\ \A x : Before(o, i, x) <=> Has(out, x)
  BY AppendHas
<1> HIDE DEF o
<1>2. \A t : OnTheWay(t, out, back, pool) => OnTheWay(t, o, back, pool)
  BY <1>1 DEF OnTheWay
<1>3. Pending(queue, o, back, pool, src)
  BY <1>1, <1>2 DEF InOrder, Pending
<1>4. QueueOrder(queue, o, back, pool, due)
  BY <1>1, <1>2 DEF InOrder, QueueOrder
<1>5. AnnounceOrder(o, back, pool, due)
  <2> SUFFICES ASSUME NEW i \in DOMAIN o, NEW c \in ProposerBlocks, o[i] = Announce(c),
                      NEW t \in due[c]
               PROVE  OnTheWay(t, o, back, pool) \/ Before(o, i, AnnounceTx(t))
    BY DEF AnnounceOrder
  <2>1. CASE i \in DOMAIN out /\ o[i] = out[i] /\ \A x : Before(o, i, x) <=> Before(out, i, x)
    BY <2>1, <1>2 DEF InOrder, AnnounceOrder
  <2>2. CASE o[i] = m /\ \A x : Before(o, i, x) <=> Has(out, x)
    BY <2>2, <1>2
  <2> QED
    BY <1>1, <2>1, <2>2
<1>6. RequestOrder(o, back, pool, due)
  BY <1>1 DEF InOrder, RequestOrder
<1>7. DeliverOrder(o, pool, due)
  <2> SUFFICES ASSUME NEW i \in DOMAIN o, NEW c \in ProposerBlocks, o[i] = Deliver(c),
                      NEW t \in due[c]
               PROVE  t \in pool \/ Before(o, i, DeliverTx(t))
    BY DEF DeliverOrder
  <2>1. CASE i \in DOMAIN out /\ o[i] = out[i] /\ \A x : Before(o, i, x) <=> Before(out, i, x)
    BY <2>1 DEF InOrder, DeliverOrder
  <2>2. CASE o[i] = m /\ \A x : Before(o, i, x) <=> Has(out, x)
    BY <2>2
  <2> QED
    BY <1>1, <2>1, <2>2
<1>8. Known(queue, o, back, src)
  BY <1>1 DEF InOrder, Known
<1> QED
  BY <1>3, <1>4, <1>5, <1>6, <1>7, <1>8 DEF InOrder, o

(* The other takes the head of what it was sent.                            *)
LEMMA SentTaken ==
  ASSUME NEW queue, NEW out \in Seq(Messages), out # <<>>, NEW back, NEW pool, NEW src, NEW due,
         InOrder(queue, out, back, pool, src, due),
         \A t : Head(out) = AnnounceTx(t) => t \in pool \/ Has(back, RequestTx(t)),
         \A t : Head(out) = DeliverTx(t) => t \in pool
  PROVE  InOrder(queue, Tail(out), back, pool, src, due)
<1> DEFINE o == Tail(out)
           h == Head(out)
<1>1. /\ \A x : Has(out, x) <=> x = h \/ Has(o, x)
      /\ \A i \in DOMAIN o :
            /\ i + 1 \in DOMAIN out /\ o[i] = out[i + 1]
            /\ \A x : Before(out, i + 1, x) <=> x = h \/ Before(o, i, x)
  BY TailHas
<1>2. /\ \A t : h = AnnounceTx(t) => t \in pool \/ Has(back, RequestTx(t))
      /\ \A t : h = DeliverTx(t) => t \in pool
  OBVIOUS
<1> HIDE DEF o, h
<1>3. \A t : /\ OnTheWay(t, out, back, pool) => OnTheWay(t, o, back, pool)
             /\ h = AnnounceTx(t) => OnTheWay(t, o, back, pool)
  BY <1>1, <1>2 DEF OnTheWay
<1>4. Pending(queue, o, back, pool, src)
  BY <1>1, <1>3 DEF InOrder, Pending
<1>5. QueueOrder(queue, o, back, pool, due)
  BY <1>1, <1>3 DEF InOrder, QueueOrder
<1>6. AnnounceOrder(o, back, pool, due)
  <2> SUFFICES ASSUME NEW i \in DOMAIN o, NEW c \in ProposerBlocks, o[i] = Announce(c),
                      NEW t \in due[c]
               PROVE  OnTheWay(t, o, back, pool) \/ Before(o, i, AnnounceTx(t))
    BY DEF AnnounceOrder
  <2>1. OnTheWay(t, out, back, pool) \/ Before(out, i + 1, AnnounceTx(t))
    BY <1>1 DEF InOrder, AnnounceOrder
  <2> QED
    BY <1>1, <1>3, <2>1
<1>7. RequestOrder(o, back, pool, due)
  BY <1>1, <1>2 DEF InOrder, RequestOrder
<1>8. DeliverOrder(o, pool, due)
  <2> SUFFICES ASSUME NEW i \in DOMAIN o, NEW c \in ProposerBlocks, o[i] = Deliver(c),
                      NEW t \in due[c]
               PROVE  t \in pool \/ Before(o, i, DeliverTx(t))
    BY DEF DeliverOrder
  <2>1. t \in pool \/ Before(out, i + 1, DeliverTx(t))
    BY <1>1 DEF InOrder, DeliverOrder
  <2> QED
    BY <1>1, <1>2, <2>1
<1>9. Known(queue, o, back, src)
  BY <1>1 DEF InOrder, Known
<1> QED
  BY <1>4, <1>5, <1>6, <1>7, <1>8, <1>9 DEF InOrder, o

(* The other sends the node a message. *)
LEMMA SentBack ==
  ASSUME NEW queue, NEW out, NEW back \in Seq(Messages), NEW pool, NEW src, NEW due, NEW m \in Messages,
         InOrder(queue, out, back, pool, src, due),
         \A t : m = RequestTx(t) => t \in src,
         \A b \in ProposerBlocks : m = Request(b) => \A t \in due[b] :
             OnTheWay(t, out, back, pool)
  PROVE  InOrder(queue, out, Append(back, m), pool, src, due)
<1> DEFINE k == Append(back, m)
<1>1. /\ \A x : Has(k, x) <=> x = m \/ Has(back, x)
      /\ \A i \in DOMAIN k :
               \/ /\ i \in DOMAIN back /\ k[i] = back[i]
                  /\ \A x : Before(k, i, x) <=> Before(back, i, x)
               \/ k[i] = m /\ \A x : Before(k, i, x) <=> Has(back, x)
  BY AppendHas
<1> HIDE DEF k
<1>2. \A t : OnTheWay(t, out, back, pool) => OnTheWay(t, out, k, pool)
  BY <1>1 DEF OnTheWay
<1>3. Pending(queue, out, k, pool, src)
  BY <1>1, <1>2 DEF InOrder, Pending
<1>4. QueueOrder(queue, out, k, pool, due)
  BY <1>1, <1>2 DEF InOrder, QueueOrder
<1>5. AnnounceOrder(out, k, pool, due)
  BY <1>1, <1>2 DEF InOrder, AnnounceOrder
<1>6. RequestOrder(out, k, pool, due)
  <2> SUFFICES ASSUME NEW i \in DOMAIN k, NEW c \in ProposerBlocks, k[i] = Request(c),
                      NEW t \in due[c]
               PROVE  t \in pool \/ Has(out, DeliverTx(t)) \/ Before(k, i, RequestTx(t))
    BY DEF RequestOrder
  <2>1. CASE i \in DOMAIN back /\ k[i] = back[i] /\ \A x : Before(k, i, x) <=> Before(back, i, x)
    BY <2>1 DEF InOrder, RequestOrder
  <2>2. CASE k[i] = m /\ \A x : Before(k, i, x) <=> Has(back, x)
    BY <2>2 DEF OnTheWay
  <2> QED
    BY <1>1, <2>1, <2>2
<1>7. Known(queue, out, k, src)
  BY <1>1 DEF InOrder, Known
<1> QED
  BY <1>3, <1>4, <1>5, <1>6, <1>7 DEF InOrder, k

(* The node takes the head of what the other has sent. *)
LEMMA BackTaken ==
  ASSUME NEW queue, NEW out, NEW back \in Seq(Messages), back # <<>>, NEW pool, NEW src, NEW due,
         InOrder(queue, out, back, pool, src, due),
         \A t : Head(back) = RequestTx(t) => t \in pool \/ Has(out, DeliverTx(t))
  PROVE  InOrder(queue, out, Tail(back), pool, src, due)
<1> DEFINE k == Tail(back)
           h == Head(back)
<1>1. /\ \A x : Has(back, x) <=> x = h \/ Has(k, x)
      /\ \A i \in DOMAIN k :
            /\ i + 1 \in DOMAIN back /\ k[i] = back[i + 1]
            /\ \A x : Before(back, i + 1, x) <=> x = h \/ Before(k, i, x)
  BY TailHas
<1>2. \A t : h = RequestTx(t) => t \in pool \/ Has(out, DeliverTx(t))
  OBVIOUS
<1> HIDE DEF k, h
<1>3. \A t : OnTheWay(t, out, back, pool) => OnTheWay(t, out, k, pool)
  BY <1>1, <1>2 DEF OnTheWay
<1>4. Pending(queue, out, k, pool, src)
  BY <1>3 DEF InOrder, Pending
<1>5. QueueOrder(queue, out, k, pool, due)
  BY <1>3 DEF InOrder, QueueOrder
<1>6. AnnounceOrder(out, k, pool, due)
  BY <1>3 DEF InOrder, AnnounceOrder
<1>7. RequestOrder(out, k, pool, due)
  <2> SUFFICES ASSUME NEW i \in DOMAIN k, NEW c \in ProposerBlocks, k[i] = Request(c),
                      NEW t \in due[c]
               PROVE  t \in pool \/ Has(out, DeliverTx(t)) \/ Before(k, i, RequestTx(t))
    BY DEF RequestOrder
  <2>1. t \in pool \/ Has(out, DeliverTx(t)) \/ Before(back, i + 1, RequestTx(t))
    BY <1>1 DEF InOrder, RequestOrder
  <2> QED
    BY <1>1, <1>2, <2>1
<1>8. Known(queue, out, k, src)
  BY <1>1 DEF InOrder, Known
<1> QED
  BY <1>4, <1>5, <1>6, <1>7, <1>8 DEF InOrder, k
-----------------------------------------------------------------------------
(* Every variable is a function of the nodes, of the connections or of the  *)
(* threads; a thread has one message in hand or none.                       *)
MinerStates == [pc : {"tip", "pool", "seal", "insert"}, base : ProposerBlocks,
                refs : SUBSET TxBlocks, block : ProposerBlocks]
Hands == {{}} \cup {{x} : x \in Messages}
ShapeOK ==
    /\ tree = [n \in Nodes |-> tree[n]]
    /\ orphan_handler = [n \in Nodes |-> orphan_handler[n]]
    /\ tx_block_pool \in [Nodes -> SUBSET TxBlocks]
    /\ todo \in [Nodes -> Seq(Children)]
    /\ miner \in [Nodes -> MinerStates]
    /\ news \in [Nodes \X Threads -> Hands]
    /\ control \in [Nodes -> Seq(Messages)]
    /\ link \in [Edges -> Seq(Messages)]
    /\ linked \subseteq Edges

(* A node's tree has what its miner builds on and the parents of its own    *)
(* blocks, of its miner's and of those that its worker is to take up; an    *)
(* orphan waits under its parent.  A miner at work has nothing to announce. *)
ParentsIn(s, S) == \A i \in DOMAIN s : Parent[s[i]] \in S
MinerOK(n) ==
    /\ miner[n].base \in tree[n].blocks
    /\ miner[n].pc = "insert" =>
          miner[n].block \in Children /\ Parent[miner[n].block] \in tree[n].blocks
    /\ miner[n].pc # "tip" => news[<<n, "miner">>] = {}
TreeOK(n) ==
    /\ tree[n].blocks \subseteq ProposerBlocks /\ Genesis \in tree[n].blocks
    /\ tree[n].tip \in tree[n].blocks /\ MinerOK(n)
    /\ \A b \in tree[n].blocks \ {Genesis} : Parent[b] \in tree[n].blocks
    /\ ParentsIn(todo[n], tree[n].blocks)
    /\ \A p \in DOMAIN orphan_handler[n] :
          orphan_handler[n][p] \in Seq(Children) /\ ParentsIn(orphan_handler[n][p], {p})
TreesOK == ShapeOK /\ \A n \in Nodes : TreeOK(n)

(* What a step may do to a node's tree. *)
TreeStep(n) ==
    \/ tree'[n] = tree[n]
    \/ \E b \in Children : Parent[b] \in tree[n].blocks /\ tree'[n] = TreeWith(tree[n], b)
-----------------------------------------------------------------------------
(* Sequences of blocks: put together, extended, and shortened.              *)
LEMMA Joined ==
  ASSUME NEW s \in Seq(Children), NEW r \in Seq(Children), NEW S, ParentsIn(s, S), ParentsIn(r, S)
  PROVE  s \o r \in Seq(Children) /\ ParentsIn(s \o r, S)
<1> DEFINE t == s \o r
<1>1. /\ t \in Seq(Children) /\ DOMAIN t = 1..(Len(s) + Len(r)) /\ Len(s) \in Nat /\ Len(r) \in Nat
      /\ DOMAIN s = 1..Len(s) /\ DOMAIN r = 1..Len(r)
      /\ \A i \in 1..(Len(s) + Len(r)) : t[i] = IF i <= Len(s) THEN s[i] ELSE r[i - Len(s)]
  OBVIOUS
<1> HIDE DEF t
<1>2. ASSUME NEW i \in 1..(Len(s) + Len(r)) PROVE Parent[t[i]] \in S
  <2>1. CASE i <= Len(s)
    <3>1. i \in DOMAIN s /\ t[i] = s[i]
      BY <1>1, <2>1
    <3> QED
      BY <3>1 DEF ParentsIn
  <2>2. CASE ~ (i <= Len(s))
    <3>1. i - Len(s) \in DOMAIN r /\ t[i] = r[i - Len(s)]
      BY <1>1, <2>2
    <3> QED
      BY <3>1 DEF ParentsIn
  <2> QED
    BY <2>1, <2>2
<1> QED
  BY <1>1, <1>2 DEF ParentsIn, t

LEMMA Extended ==
  ASSUME NEW s \in Seq(Children), NEW b \in Children, NEW S, ParentsIn(s, S), Parent[b] \in S
  PROVE  Append(s, b) \in Seq(Children) /\ ParentsIn(Append(s, b), S)
<1>1. /\ Append(s, b) \in Seq(Children) /\ DOMAIN Append(s, b) = 1..(Len(s) + 1) /\ DOMAIN s = 1..Len(s)
      /\ \A i \in 1..(Len(s) + 1) : Append(s, b)[i] = IF i <= Len(s) THEN s[i] ELSE b
      /\ \A i \in 1..(Len(s) + 1) : i <= Len(s) => i \in 1..Len(s)
  OBVIOUS
<1> QED
  BY <1>1 DEF ParentsIn

LEMMA Shortened ==
  ASSUME NEW s \in Seq(Children), s # <<>>, NEW S, ParentsIn(s, S)
  PROVE  /\ Tail(s) \in Seq(Children) /\ ParentsIn(Tail(s), S)
         /\ Head(s) \in Children /\ Parent[Head(s)] \in S
<1>1. /\ Tail(s) \in Seq(Children) /\ Head(s) \in Children /\ Head(s) = s[1] /\ 1 \in DOMAIN s
      /\ \A i \in DOMAIN Tail(s) : i + 1 \in DOMAIN s /\ Tail(s)[i] = s[i + 1]
  OBVIOUS
<1> QED
  BY <1>1 DEF ParentsIn

LEMMA Empty == <<>> \in Seq(Children) /\ \A S : ParentsIn(<<>>, S)
  BY DEF ParentsIn

(* Taking a message, and answering it.                                      *)
Takes(n, m) ==
    /\ link' \in [Edges -> Seq(Messages)]
    /\ link'[<<m, n>>] = Tail(link[<<m, n>>])
    /\ \A e \in Edges : e # <<m, n>> /\ e # <<n, m>> => link'[e] = link[e]
Silent(n, m) == Takes(n, m) /\ link'[<<n, m>>] = link[<<n, m>>]
Answers(n, m, x) == x \in Messages /\ Takes(n, m) /\ link'[<<n, m>>] = Append(link[<<n, m>>], x)

(* The worker has a message of a type: who it is from, and what it does to  *)
(* the connection.                                                          *)
LEMMA Receiving ==
  ASSUME ShapeOK, NEW n, NEW m, NEW type, Receives(n, m, type)
  PROVE  /\ n \in Nodes /\ m \in Nodes /\ n # m /\ <<m, n>> \in Edges /\ <<n, m>> \in Edges
         /\ link[<<m, n>>] \in Seq(Messages) /\ link[<<n, m>>] \in Seq(Messages) /\ link[<<m, n>>] # <<>>
         /\ Head(link[<<m, n>>]) \in Messages /\ Head(link[<<m, n>>]).type = type
         /\ Discard(n, m) => Silent(n, m)
         /\ \A kind, b : Msg(kind, b) \in Messages /\ Answer(n, m, kind, b) => Answers(n, m, Msg(kind, b))
<1>1. <<m, n>> \in Edges /\ link[<<m, n>>] # <<>> /\ Head(link[<<m, n>>]).type = type
  BY DEF Receives, ShapeOK
<1>2. n \in Nodes /\ m \in Nodes /\ n # m /\ <<n, m>> \in Edges
  BY <1>1, NetworkAssumption DEF NetworkAssumption
<1>3. link[<<m, n>>] \in Seq(Messages) /\ link[<<n, m>>] \in Seq(Messages)
  BY <1>1, <1>2 DEF ShapeOK
<1>4. Tail(link[<<m, n>>]) \in Seq(Messages) /\ Head(link[<<m, n>>]) \in Messages
  BY <1>1, <1>3
<1>5. <<m, n>> # <<n, m>>
  BY <1>2
<1> DEFINE T == Taken(n, m)
<1>6. /\ T \in [Edges -> Seq(Messages)] /\ T[<<m, n>>] = Tail(link[<<m, n>>])
      /\ \A e \in Edges : e # <<m, n>> => T[e] = link[e]
  BY <1>1, <1>4 DEF Taken, ShapeOK
<1>7. Discard(n, m) => Silent(n, m)
  BY <1>2, <1>5, <1>6 DEF Discard, Silent, Takes
<1>8. ASSUME NEW kind, NEW b, Msg(kind, b) \in Messages, Answer(n, m, kind, b)
      PROVE  Answers(n, m, Msg(kind, b))
  <2>1. link' = [T EXCEPT ![<<n, m>>] = Append(T[<<n, m>>], Msg(kind, b))]
    BY <1>8 DEF Answer
  <2> HIDE DEF T
  <2>2. T[<<n, m>>] = link[<<n, m>>]
    BY <1>2, <1>5, <1>6
  <2>3. Append(link[<<n, m>>], Msg(kind, b)) \in Seq(Messages)
    BY <1>3, <1>8
  <2> DEFINE here == <<m, n>>
             there == <<n, m>>
             M == Msg(kind, b)
  <2>4. /\ here \in Edges /\ there \in Edges /\ here # there
        /\ T \in [Edges -> Seq(Messages)] /\ T[here] = Tail(link[here])
        /\ \A e \in Edges : e # here => T[e] = link[e]
        /\ link' = [T EXCEPT ![there] = Append(T[there], M)]
        /\ T[there] = link[there] /\ Append(link[there], M) \in Seq(Messages)
    BY <1>1, <1>2, <1>5, <1>6, <2>1, <2>2, <2>3
  <2> HIDE DEF here, there, M
  <2>5. /\ link' \in [Edges -> Seq(Messages)] /\ link'[here] = Tail(link[here])
        /\ link'[there] = Append(link[there], M)
        /\ \A e \in Edges : e # here /\ e # there => link'[e] = link[e]
    BY <2>4
  <2> QED
    BY <1>8, <2>5 DEF Answers, Takes, here, there, M
<1> QED
  BY <1>1, <1>2, <1>3, <1>4, <1>7, <1>8

(* A block joins a node's tree, which changes nothing else in it.           *)
LEMMA Inserting ==
  ASSUME TreesOK, NEW n \in Nodes, NEW b \in Children, Parent[b] \in tree[n].blocks, Insert(n, b)
  PROVE  /\ tree' = [k \in Nodes |-> tree'[k]] /\ tree'[n] = TreeWith(tree[n], b)
         /\ tree'[n].blocks = tree[n].blocks \cup {b}
         /\ tree'[n].tip \in tree'[n].blocks
         /\ \A k \in Nodes : k # n => tree'[k] = tree[k]
         /\ \A k \in Nodes : TreeStep(k)
<1>1. tree' = [k \in Nodes |-> IF k = n THEN TreeWith(tree[n], b) ELSE tree[k]]
  BY DEF Insert, TreesOK, ShapeOK
<1>2. tree' = [k \in Nodes |-> tree'[k]] /\ tree'[n] = TreeWith(tree[n], b)
      /\ \A k \in Nodes : k # n => tree'[k] = tree[k]
  BY <1>1
<1>3. tree'[n].blocks = tree[n].blocks \cup {b} /\ tree'[n].tip \in {b, tree[n].tip}
  BY <1>2 DEF TreeWith
<1>4. tree[n].tip \in tree[n].blocks
  BY DEF TreesOK, TreeOK
<1>5. \A k \in Nodes : TreeStep(k)
  BY <1>2 DEF TreeStep
<1> QED
  BY <1>2, <1>3, <1>4, <1>5

(* A thread stores something that it will announce. *)
LEMMA Storing ==
  ASSUME ShapeOK, NEW n \in Nodes, NEW w \in Threads, NEW type, NEW x, Msg(type, x) \in Messages,
         Stored(n, w, type, x)
  PROVE  /\ news' \in [Nodes \X Threads -> Hands]
         /\ news'[<<n, w>>] = {Msg(type, x)}
         /\ \A k \in Nodes, v \in Threads : k # n \/ v # w => news'[<<k, v>>] = news[<<k, v>>]
<1> DEFINE a == <<n, w>>
           M == Msg(type, x)
<1>1. a \in Nodes \X Threads /\ {M} \in Hands
  BY DEF Hands
<1>2. news' = [news EXCEPT ![a] = {M}] /\ news \in [Nodes \X Threads -> Hands]
  BY DEF Stored, ShapeOK
<1>3. \A k \in Nodes, v \in Threads :
         <<k, v>> \in Nodes \X Threads /\ (k # n \/ v # w => <<k, v>> # a)
  OBVIOUS
<1> HIDE DEF a, M
<1>4. /\ news' \in [Nodes \X Threads -> Hands] /\ news'[a] = {M}
      /\ \A c \in Nodes \X Threads : c # a => news'[c] = news[c]
  BY <1>1, <1>2
<1> QED
  BY <1>3, <1>4 DEF a, M

(* A thread announces what it has in hand. *)
LEMMA Announcing ==
  ASSUME ShapeOK, NEW n \in Nodes, NEW w \in Threads, Broadcast(n, w)
  PROVE  \E x \in Messages :
            /\ news[<<n, w>>] = {x} /\ early' = early \cup Overtakes(n, x)
            /\ control' \in [Nodes -> Seq(Messages)] /\ control'[n] = Append(control[n], x)
            /\ \A k \in Nodes : k # n => control'[k] = control[k]
            /\ news' \in [Nodes \X Threads -> Hands] /\ news'[<<n, w>>] = {}
            /\ \A k \in Nodes, v \in Threads : k # n \/ v # w => news'[<<k, v>>] = news[<<k, v>>]
<1> DEFINE a == <<n, w>>
<1>1. a \in Nodes \X Threads /\ {} \in Hands
  BY DEF Hands
<1>2. /\ \E x \in news[a] : /\ control' = [control EXCEPT ![n] = Append(control[n], x)]
                           /\ early' = early \cup Overtakes(n, x)
      /\ news' = [news EXCEPT ![a] = {}] /\ news \in [Nodes \X Threads -> Hands]
  BY DEF Broadcast, ShapeOK
<1>3. \A k \in Nodes, v \in Threads :
         <<k, v>> \in Nodes \X Threads /\ (k # n \/ v # w => <<k, v>> # a)
  OBVIOUS
<1> HIDE DEF a
<1>4. PICK x \in news[a] : /\ control' = [control EXCEPT ![n] = Append(control[n], x)]
                          /\ early' = early \cup Overtakes(n, x)
  BY <1>2
<1>5. news[a] \in Hands
  BY <1>1, <1>2
<1>6. x \in Messages /\ news[a] = {x}
  BY <1>5 DEF Hands
<1>7. Append(control[n], x) \in Seq(Messages) /\ control \in [Nodes -> Seq(Messages)]
  BY <1>6 DEF ShapeOK
<1>8. /\ control' \in [Nodes -> Seq(Messages)] /\ control'[n] = Append(control[n], x)
      /\ \A k \in Nodes : k # n => control'[k] = control[k]
  BY <1>4, <1>7
<1>9. /\ news' \in [Nodes \X Threads -> Hands] /\ news'[a] = {}
      /\ \A c \in Nodes \X Threads : c # a => news'[c] = news[c]
  BY <1>1, <1>2
<1> QED
  BY <1>3, <1>4, <1>6, <1>8, <1>9 DEF a
-----------------------------------------------------------------------------
(* A node that a step leaves alone. *)
LEMMA NodeSame ==
  ASSUME NEW n \in Nodes, TreeOK(n), tree'[n] = tree[n], MinerOK(n)', todo'[n] = todo[n],
         orphan_handler'[n] = orphan_handler[n]
  PROVE  TreeOK(n)'
  BY DEF TreeOK, ParentsIn
LEMMA MinerSame ==
  ASSUME NEW n \in Nodes, MinerOK(n), tree[n].blocks \subseteq tree'[n].blocks,
         miner'[n] = miner[n], news'[<<n, "miner">>] = news[<<n, "miner">>]
  PROVE  MinerOK(n)'
  BY DEF MinerOK

(* A block joined the tree of a node, under its parent. *)
LEMMA NodeGrown ==
  ASSUME NEW n \in Nodes, TreeOK(n), NEW b \in Children, Parent[b] \in tree[n].blocks,
         tree'[n].blocks = tree[n].blocks \cup {b}, tree'[n].tip \in tree'[n].blocks,
         MinerOK(n)', ParentsIn(todo'[n], tree'[n].blocks),
         \A p \in DOMAIN orphan_handler'[n] :
            p \in DOMAIN orphan_handler[n] /\ orphan_handler'[n][p] = orphan_handler[n][p]
  PROVE  TreeOK(n)'
<1>1. /\ tree'[n].blocks \subseteq ProposerBlocks /\ Genesis \in tree'[n].blocks
      /\ \A c \in tree'[n].blocks \ {Genesis} : Parent[c] \in tree'[n].blocks
  BY DEF TreeOK, Children
<1>2. \A p \in DOMAIN orphan_handler'[n] :
         orphan_handler'[n][p] \in Seq(Children) /\ ParentsIn(orphan_handler'[n][p], {p})
  BY DEF TreeOK
<1> QED
  BY <1>1, <1>2 DEF TreeOK, ParentsIn

(* The orphans that wait for a block have it as their parent. *)
LEMMA OrphansAre ==
  ASSUME NEW n \in Nodes, TreeOK(n), NEW p
  PROVE  Orphans(n, p) \in Seq(Children) /\ ParentsIn(Orphans(n, p), {p})
  BY Empty DEF TreeOK, Orphans

(* The critical sections of a block that can be processed. *)
LEMMA ProcessTrees ==
  ASSUME TreesOK, NEW n \in Nodes, NEW b \in Children, Parent[b] \in tree[n].blocks,
         NEW rest \in Seq(Children), ParentsIn(rest, tree[n].blocks), Process(n, b, rest),
         UNCHANGED <<tx_block_pool, miner, control, linked>>, link' \in [Edges -> Seq(Messages)]
  PROVE  TreesOK' /\ \A k \in Nodes : TreeStep(k)
<1>1. ShapeOK /\ \A k \in Nodes : TreeOK(k) /\ MinerOK(k)
  BY DEF TreesOK, TreeOK
<1>2. CASE ~ Verified(tx_block_pool[n], b)
  <2>1. todo' = [todo EXCEPT ![n] = rest] /\ UNCHANGED <<tree, orphan_handler, news>>
    BY <1>2 DEF Process
  <2>2. todo' \in [Nodes -> Seq(Children)] /\ todo'[n] = rest
        /\ \A k \in Nodes : k # n => todo'[k] = todo[k]
    BY <1>1, <2>1 DEF ShapeOK
  <2>3. ShapeOK'
    BY <1>1, <2>1, <2>2 DEF ShapeOK
  <2>4. \A k \in Nodes : MinerOK(k)'
    BY <1>1, <2>1 DEF MinerOK
  <2>5. TreeOK(n)'
    BY <1>1, <2>1, <2>2, <2>4 DEF TreeOK, ParentsIn
  <2>6. \A k \in Nodes : k # n => TreeOK(k)'
    BY <1>1, <2>1, <2>2, <2>4, NodeSame
  <2> QED
    BY <2>1, <2>3, <2>5, <2>6 DEF TreesOK, TreeStep
<1>3. CASE Verified(tx_block_pool[n], b)
  <2>1. /\ Insert(n, b) /\ Stored(n, "worker", "NewProposerBlockHashes", b)
        /\ orphan_handler' = [orphan_handler EXCEPT ![n] = Without(orphan_handler[n], b)]
        /\ todo' = [todo EXCEPT ![n] = Orphans(n, b) \o rest]
    BY <1>3 DEF Process
  <2>2. /\ tree' = [k \in Nodes |-> tree'[k]]
        /\ tree'[n].blocks = tree[n].blocks \cup {b} /\ tree'[n].tip \in tree'[n].blocks
        /\ \A k \in Nodes : k # n => tree'[k] = tree[k]
        /\ \A k \in Nodes : TreeStep(k)
    BY <2>1, Inserting
  <2>3. Msg("NewProposerBlockHashes", b) \in Messages /\ "worker" \in Threads /\ "miner" \in Threads
    BY AreMessages DEF Announce, Children, Threads
  <2>4. /\ news' \in [Nodes \X Threads -> Hands]
        /\ \A k \in Nodes : news'[<<k, "miner">>] = news[<<k, "miner">>]
    <3>1. /\ news' \in [Nodes \X Threads -> Hands]
          /\ \A k \in Nodes, v \in Threads :
                k # n \/ v # "worker" => news'[<<k, v>>] = news[<<k, v>>]
      BY <1>1, <2>1, <2>3, Storing
    <3> QED
      BY <2>3, <3>1
  <2>5. ParentsIn(Orphans(n, b), tree'[n].blocks) /\ Orphans(n, b) \in Seq(Children)
    BY <1>1, <2>2, OrphansAre DEF ParentsIn
  <2>6. ParentsIn(rest, tree'[n].blocks)
    BY <2>2 DEF ParentsIn
  <2>7. Orphans(n, b) \o rest \in Seq(Children) /\ ParentsIn(Orphans(n, b) \o rest, tree'[n].blocks)
    BY <2>5, <2>6, Joined
  <2>8. todo' \in [Nodes -> Seq(Children)] /\ todo'[n] = Orphans(n, b) \o rest
        /\ \A k \in Nodes : k # n => todo'[k] = todo[k]
    BY <1>1, <2>1, <2>7 DEF ShapeOK
  <2>9. /\ orphan_handler' = [k \in Nodes |-> orphan_handler'[k]]
        /\ orphan_handler'[n] = Without(orphan_handler[n], b)
        /\ \A k \in Nodes : k # n => orphan_handler'[k] = orphan_handler[k]
    BY <1>1, <2>1 DEF ShapeOK
  <2>10. ShapeOK'
    BY <1>1, <2>2, <2>4, <2>8, <2>9 DEF ShapeOK
  <2>11. \A k \in Nodes : MinerOK(k)'
    BY <1>1, <2>2, <2>4, MinerSame
  <2>12. \A p \in DOMAIN orphan_handler'[n] :
            p \in DOMAIN orphan_handler[n] /\ orphan_handler'[n][p] = orphan_handler[n][p]
    BY <2>9 DEF Without
  <2>13. ParentsIn(todo'[n], tree'[n].blocks)
    BY <2>7, <2>8
  <2>14. TreeOK(n)'
    BY <1>1, <2>2, <2>11, <2>12, <2>13, NodeGrown
  <2>15. \A k \in Nodes : k # n => TreeOK(k)'
    BY <1>1, <2>2, <2>8, <2>9, <2>11, NodeSame
  <2> QED
    BY <2>2, <2>10, <2>14, <2>15 DEF TreesOK
<1> QED
  BY <1>2, <1>3

(* Steps that leave trees and orphans alone. *)
LEMMA OthersTrees ==
  ASSUME TreesOK, UNCHANGED <<tree, orphan_handler, todo>>,
         tx_block_pool' \in [Nodes -> SUBSET TxBlocks], control' \in [Nodes -> Seq(Messages)],
         link' \in [Edges -> Seq(Messages)], linked' \subseteq Edges,
         miner' \in [Nodes -> MinerStates], news' \in [Nodes \X Threads -> Hands],
         \A n \in Nodes : MinerOK(n)'
  PROVE  TreesOK' /\ \A k \in Nodes : TreeStep(k)
<1>1. ShapeOK'
  BY DEF TreesOK, ShapeOK
<1>2. \A n \in Nodes : TreeOK(n)'
  BY DEF TreesOK, TreeOK, ParentsIn
<1> QED
  BY <1>1, <1>2 DEF TreesOK, TreeStep

(* The server, and a thread that announces. *)
LEMMA ServerTrees ==
  ASSUME TreesOK, NEW n \in Nodes,
         \/ ProcessBroadcast(n)
         \/ \E w \in Threads : Broadcast(n, w)
         \/ \E m \in Nodes : Connect(n, m)
  PROVE  TreesOK' /\ \A k \in Nodes : TreeStep(k)
<1>1. ShapeOK /\ \A k \in Nodes : TreeOK(k) /\ MinerOK(k)
  BY DEF TreesOK, TreeOK
<1>2. CASE ProcessBroadcast(n)
  <2>1. /\ control[n] # <<>> /\ control[n] \in Seq(Messages)
        /\ control' = [control EXCEPT ![n] = Tail(control[n])]
        /\ link' = [e \in Edges |-> IF e[1] = n /\ e \in linked
                                THEN Append(link[e], Head(control[n])) ELSE link[e]]
        /\ UNCHANGED <<tree, orphan_handler, tx_block_pool, todo, miner, news, linked>>
    BY <1>1, <1>2 DEF ProcessBroadcast, ShapeOK, workerVars
  <2>2. Tail(control[n]) \in Seq(Messages) /\ Head(control[n]) \in Messages
    BY <2>1
  <2>3. control' \in [Nodes -> Seq(Messages)]
    BY <1>1, <2>1, <2>2 DEF ShapeOK
  <2>4. link' \in [Edges -> Seq(Messages)]
    <3>1. \A e \in Edges : Append(link[e], Head(control[n])) \in Seq(Messages) /\ link[e] \in Seq(Messages)
      BY <1>1, <2>2 DEF ShapeOK
    <3> QED
      BY <2>1, <3>1
  <2>5. \A k \in Nodes : MinerOK(k)'
    BY <1>1, <2>1 DEF MinerOK
  <2> QED
    BY <1>1, <2>1, <2>3, <2>4, <2>5, OthersTrees DEF ShapeOK
<1>3. ASSUME NEW w \in Threads, Broadcast(n, w) PROVE TreesOK' /\ \A k \in Nodes : TreeStep(k)
  <2>1. UNCHANGED <<tree, orphan_handler, todo, tx_block_pool, miner, linked, link>>
    BY <1>3 DEF Broadcast, workerVars
  <2>2. /\ control' \in [Nodes -> Seq(Messages)] /\ news' \in [Nodes \X Threads -> Hands]
        /\ news'[<<n, w>>] = {}
        /\ \A k \in Nodes, v \in Threads : k # n \/ v # w => news'[<<k, v>>] = news[<<k, v>>]
    BY <1>1, <1>3, Announcing
  <2>3. \A k \in Nodes : news'[<<k, "miner">>] \in {{}, news[<<k, "miner">>]}
    BY <2>2 DEF Threads
  <2>4. \A k \in Nodes : MinerOK(k)'
    BY <1>1, <2>1, <2>3 DEF MinerOK
  <2> QED
    BY <1>1, <2>1, <2>2, <2>4, OthersTrees DEF ShapeOK
<1>4. CASE \E m \in Nodes : Connect(n, m)
  <2>1. PICK m \in Nodes : Connect(n, m)
    BY <1>4
  <2>2. /\ <<n, m>> \in Edges /\ linked' = linked \cup {<<n, m>>, <<m, n>>}
        /\ UNCHANGED <<tree, orphan_handler, tx_block_pool, todo, miner, news, control, link>>
    BY <2>1 DEF Connect, workerVars, queueVars
  <2>3. linked' \subseteq Edges
    BY <1>1, <2>2, NetworkAssumption DEF ShapeOK, NetworkAssumption
  <2>4. \A k \in Nodes : MinerOK(k)'
    BY <1>1, <2>2 DEF MinerOK
  <2> QED
    BY <1>1, <2>2, <2>3, <2>4, OthersTrees DEF ShapeOK
<1> QED
  BY <1>2, <1>3, <1>4

(* The miner of a node moves on. *)
MinerMoves(n, r) == miner' = [miner EXCEPT ![n] = r] /\ r \in MinerStates
LEMMA MinerMoved ==
  ASSUME ShapeOK, NEW n \in Nodes, NEW r, MinerMoves(n, r)
  PROVE  /\ miner' \in [Nodes -> MinerStates] /\ miner'[n] = r
         /\ \A k \in Nodes : k # n => miner'[k] = miner[k]
  BY DEF MinerMoves, ShapeOK
LEMMA IdleIs == IdleMiner \in MinerStates /\ IdleMiner.pc = "tip" /\ IdleMiner.base = Genesis
                /\ IdleMiner.refs = {}
  BY BlockAssumption DEF IdleMiner, MinerStates

(* What a miner does between two looks at the tip, short of an insertion.   *)
Plans(n) ==
    \/ ReadTip(n) \/ PickTxBlocks(n) \/ MineNothing(n)
    \/ \E b \in Children : MineProposerBlock(n, b)
LEMMA Planning ==
  ASSUME TreesOK, NEW n \in Nodes, Plans(n)
  PROVE  \E r :
            /\ MinerMoves(n, r) /\ r.base \in tree[n].blocks
            /\ r.pc # "tip" => news[<<n, "miner">>] = {}
            /\ r.refs \subseteq miner[n].refs \cup tx_block_pool[n]
            /\ r.pc = "insert" => /\ r.block \in Children /\ Parent[r.block] = miner[n].base
                                   /\ Refs(r.block) = miner[n].refs
<1> DEFINE s == miner[n]
<1>1. /\ s \in MinerStates /\ s.base \in tree[n].blocks
      /\ s.pc # "tip" => news[<<n, "miner">>] = {}
      /\ miner \in [Nodes -> MinerStates]
  BY DEF TreesOK, ShapeOK, TreeOK, MinerOK
<1>2. tree[n].tip \in tree[n].blocks /\ tree[n].blocks \subseteq ProposerBlocks /\ Genesis \in tree[n].blocks
      /\ tx_block_pool[n] \subseteq TxBlocks
  BY DEF TreesOK, ShapeOK, TreeOK
<1>3. CASE ReadTip(n)
  <2> DEFINE r == [s EXCEPT !.pc = IF n \in Attackers THEN "seal" ELSE "pool", !.base = tree[n].tip]
  <2>1. s.pc = "tip" /\ news[<<n, "miner">>] = {} /\ miner' = [miner EXCEPT ![n] = r]
    BY <1>1, <1>3 DEF ReadTip
  <2>2. /\ r \in MinerStates /\ r.base = tree[n].tip /\ r.refs = s.refs /\ r.pc # "insert"
    BY <1>1, <1>2 DEF MinerStates
  <2> QED
    BY <1>2, <2>1, <2>2 DEF MinerMoves
<1>4. CASE PickTxBlocks(n)
  <2>1. PICK refs \in SUBSET (tx_block_pool[n] \ RefsUpTo[s.base]) :
           s.pc = "pool" /\ miner' = [miner EXCEPT ![n].pc = "seal", ![n].refs = refs]
    BY <1>4 DEF PickTxBlocks
  <2> DEFINE r == [s EXCEPT !.pc = "seal", !.refs = refs]
  <2>2. miner' = [miner EXCEPT ![n] = r]
    BY <1>1, <2>1
  <2>3. r \in MinerStates /\ r.base = s.base /\ r.refs = refs /\ r.pc = "seal"
    BY <1>1, <1>2 DEF MinerStates
  <2> HIDE DEF r, s
  <2> QED
    BY <1>1, <2>1, <2>2, <2>3 DEF MinerMoves, s
<1>5. CASE MineNothing(n)
  BY <1>2, <1>5, IdleIs DEF MineNothing, MinerMoves
<1>6. CASE \E b \in Children : MineProposerBlock(n, b)
  <2>1. PICK b \in Children : MineProposerBlock(n, b)
    BY <1>6
  <2> DEFINE r == [s EXCEPT !.pc = "insert", !.block = b]
  <2>2. /\ s.pc = "seal" /\ Parent[b] = s.base /\ Refs(b) = s.refs
        /\ miner' = [miner EXCEPT ![n] = r]
    BY <1>1, <2>1 DEF MineProposerBlock
  <2>3. r \in MinerStates /\ r.base = s.base /\ r.refs = s.refs /\ r.block = b
    BY <1>1 DEF MinerStates, Children
  <2> HIDE DEF r, s
  <2> QED
    BY <1>1, <2>2, <2>3 DEF MinerMoves, s
<1> QED
  BY <1>3, <1>4, <1>5, <1>6 DEF Plans

(* The miner: plans, and finds a transaction block. *)
LEMMA PlanTrees ==
  ASSUME TreesOK, NEW n \in Nodes, Plans(n) \/ \E t \in TxBlocks : MineTxBlock(n, t)
  PROVE  TreesOK' /\ \A k \in Nodes : TreeStep(k)
<1>1. ShapeOK /\ \A k \in Nodes : TreeOK(k) /\ MinerOK(k)
  BY DEF TreesOK, TreeOK
<1>2. CASE Plans(n)
  <2>1. UNCHANGED <<tree, orphan_handler, todo, tx_block_pool, news, control, linked, link>>
    BY <1>2 DEF Plans, ReadTip, PickTxBlocks, MineNothing, MineProposerBlock, workerVars, queueVars
  <2>2. PICK r : /\ MinerMoves(n, r) /\ r.base \in tree[n].blocks
                 /\ r.pc # "tip" => news[<<n, "miner">>] = {}
                 /\ r.pc = "insert" => r.block \in Children /\ Parent[r.block] = miner[n].base
    BY <1>2, Planning
  <2>3. /\ miner' \in [Nodes -> MinerStates] /\ miner'[n] = r
        /\ \A k \in Nodes : k # n => miner'[k] = miner[k]
    BY <1>1, <2>2, MinerMoved
  <2>4. \A k \in Nodes : MinerOK(k)'
    BY <1>1, <2>1, <2>2, <2>3 DEF MinerOK
  <2> QED
    BY <1>1, <2>1, <2>3, <2>4, OthersTrees DEF ShapeOK
<1>3. ASSUME NEW t \in TxBlocks, MineTxBlock(n, t) PROVE TreesOK' /\ \A k \in Nodes : TreeStep(k)
  <2>1. /\ tx_block_pool' = [tx_block_pool EXCEPT ![n] = @ \cup {t}]
        /\ Stored(n, "miner", "NewTransactionBlockHashes", t)
        /\ miner' = [miner EXCEPT ![n] = IdleMiner]
        /\ UNCHANGED <<tree, orphan_handler, todo, control, linked, link>>
    BY <1>3 DEF MineTxBlock, workerVars, queueVars
  <2>2. tx_block_pool' \in [Nodes -> SUBSET TxBlocks]
    BY <1>1, <2>1 DEF ShapeOK
  <2>3. /\ news' \in [Nodes \X Threads -> Hands]
        /\ \A k \in Nodes : k # n => news'[<<k, "miner">>] = news[<<k, "miner">>]
    BY <1>1, <2>1, AreMessages, Storing DEF AnnounceTx, Threads
  <2>4. /\ miner' \in [Nodes -> MinerStates] /\ miner'[n] = IdleMiner
        /\ \A k \in Nodes : k # n => miner'[k] = miner[k]
    BY <1>1, <2>1, IdleIs, MinerMoved DEF MinerMoves
  <2>5. \A k \in Nodes : MinerOK(k)'
    BY <1>1, <2>1, <2>3, <2>4, IdleIs DEF MinerOK, TreeOK
  <2> QED
    BY <1>1, <2>1, <2>2, <2>3, <2>4, <2>5, OthersTrees DEF ShapeOK
<1> QED
  BY <1>2, <1>3

(* The miner inserts the proposer block that it has found. *)
LEMMA MinerTrees ==
  ASSUME TreesOK, NEW n \in Nodes, InsertMined(n)
  PROVE  TreesOK' /\ \A k \in Nodes : TreeStep(k)
<1> DEFINE b == miner[n].block
<1>1. ShapeOK /\ \A k \in Nodes : TreeOK(k) /\ MinerOK(k)
  BY DEF TreesOK, TreeOK
<1>2. /\ Insert(n, b) /\ Stored(n, "miner", "NewProposerBlockHashes", b)
      /\ miner[n].pc = "insert" /\ miner' = [miner EXCEPT ![n] = IdleMiner]
      /\ UNCHANGED <<orphan_handler, tx_block_pool, todo, control, linked, link>>
  BY DEF InsertMined, workerVars, queueVars
<1>3. b \in Children /\ Parent[b] \in tree[n].blocks
  BY <1>1, <1>2 DEF MinerOK
<1> HIDE DEF b
<1>4. /\ tree' = [k \in Nodes |-> tree'[k]]
      /\ tree'[n].blocks = tree[n].blocks \cup {b} /\ tree'[n].tip \in tree'[n].blocks
      /\ \A k \in Nodes : k # n => tree'[k] = tree[k]
      /\ \A k \in Nodes : TreeStep(k)
  BY <1>2, <1>3, Inserting
<1>5. /\ news' \in [Nodes \X Threads -> Hands]
      /\ \A k \in Nodes : k # n => news'[<<k, "miner">>] = news[<<k, "miner">>]
  BY <1>1, <1>2, <1>3, AreMessages, Storing DEF Announce, Threads, Children
<1>6. /\ miner' \in [Nodes -> MinerStates] /\ miner'[n] = IdleMiner
      /\ \A k \in Nodes : k # n => miner'[k] = miner[k]
  BY <1>1, <1>2, IdleIs, MinerMoved DEF MinerMoves
<1>7. ShapeOK'
  BY <1>1, <1>2, <1>4, <1>5, <1>6 DEF ShapeOK
<1>8. \A k \in Nodes : MinerOK(k)'
  BY <1>1, <1>4, <1>5, <1>6, IdleIs DEF MinerOK, TreeOK
<1>9. TreeOK(n)'
  <2>1. ParentsIn(todo'[n], tree'[n].blocks)
    BY <1>1, <1>2, <1>4 DEF TreeOK, ParentsIn
  <2> QED
    BY <1>1, <1>2, <1>3, <1>4, <1>8, <2>1, NodeGrown
<1>10. \A k \in Nodes : k # n => TreeOK(k)'
  BY <1>1, <1>2, <1>4, <1>8, NodeSame
<1> QED
  BY <1>4, <1>7, <1>9, <1>10 DEF TreesOK

(* The worker's handlers. *)
WritesIf(n, m) ==
    \/ NewProposerBlockHashes(n, m) \/ GetProposerBlocks(n, m)
    \/ NewTransactionBlockHashes(n, m) \/ GetTransactionBlocks(n, m)

(* A handler that writes back, or does not, leaves the trees alone. *)
LEMMA AnswerTrees ==
  ASSUME TreesOK, NEW n \in Nodes, NEW m \in Nodes, WritesIf(n, m)
  PROVE  TreesOK' /\ \A k \in Nodes : TreeStep(k)
<1>1. ShapeOK /\ \A k \in Nodes : TreeOK(k) /\ MinerOK(k)
  BY DEF TreesOK, TreeOK
<1>2. ASSUME NEW type, NEW kind, Receives(n, m, type), Msg(kind, Received(n, m)) \in Messages,
             NEW P, WriteIf(n, m, P, kind)
      PROVE  TreesOK' /\ \A k \in Nodes : TreeStep(k)
  <2>1. (Answer(n, m, kind, Received(n, m)) \/ Discard(n, m))
        /\ UNCHANGED <<tree, orphan_handler, tx_block_pool, todo, miner, news, linked, control>>
    BY <1>2 DEF WriteIf, workerVars, queueVars
  <2>2. link' \in [Edges -> Seq(Messages)]
    BY <1>1, <1>2, <2>1, Receiving DEF Silent, Answers, Takes
  <2>3. \A k \in Nodes : MinerOK(k)'
    BY <1>1, <2>1 DEF MinerOK
  <2> QED
    BY <1>1, <2>1, <2>2, <2>3, OthersTrees DEF ShapeOK
<1>3. ASSUME NEW type, Receives(n, m, type)
      PROVE  /\ type \in {"NewProposerBlockHashes", "GetProposerBlocks"} => Received(n, m) \in ProposerBlocks
             /\ type \in {"NewTransactionBlockHashes", "GetTransactionBlocks"} => Received(n, m) \in TxBlocks
  BY <1>1, <1>3, Receiving, Kinds DEF Received
<1>4. CASE NewProposerBlockHashes(n, m)
  <2>1. Receives(n, m, "NewProposerBlockHashes") /\ \E P : WriteIf(n, m, P, "GetProposerBlocks")
    BY <1>4 DEF NewProposerBlockHashes
  <2> QED
    BY <1>2, <1>3, <2>1, AreMessages DEF Request
<1>5. CASE GetProposerBlocks(n, m)
  <2>1. Receives(n, m, "GetProposerBlocks") /\ \E P : WriteIf(n, m, P, "ProposerBlocks")
    BY <1>5 DEF GetProposerBlocks
  <2> QED
    BY <1>2, <1>3, <2>1, AreMessages DEF Deliver
<1>6. CASE NewTransactionBlockHashes(n, m)
  <2>1. Receives(n, m, "NewTransactionBlockHashes") /\ \E P : WriteIf(n, m, P, "GetTransactionBlocks")
    BY <1>6 DEF NewTransactionBlockHashes
  <2> QED
    BY <1>2, <1>3, <2>1, AreMessages DEF RequestTx
<1>7. CASE GetTransactionBlocks(n, m)
  <2>1. Receives(n, m, "GetTransactionBlocks") /\ \E P : WriteIf(n, m, P, "TransactionBlocks")
    BY <1>7 DEF GetTransactionBlocks
  <2> QED
    BY <1>2, <1>3, <2>1, AreMessages DEF DeliverTx
<1> QED
  BY <1>4, <1>5, <1>6, <1>7 DEF WritesIf
-----------------------------------------------------------------------------
(* A block that the worker receives, and that is new to it, has a parent.   *)
LEMMA BlockReceived ==
  ASSUME TreesOK, NEW n \in Nodes, NEW m \in Nodes, Receives(n, m, "ProposerBlocks")
  PROVE  /\ Received(n, m) \in ProposerBlocks
         /\ Received(n, m) \notin tree[n].blocks => Received(n, m) \in Children
<1>1. Received(n, m) \in ProposerBlocks
  BY Receiving, Kinds DEF Received, TreesOK
<1>2. Genesis \in tree[n].blocks
  BY DEF TreesOK, TreeOK
<1> QED
  BY <1>1, <1>2 DEF Children

(* Transaction blocks and proposer blocks arrive. *)
LEMMA BlockTrees ==
  ASSUME TreesOK, NEW n \in Nodes, NEW m \in Nodes,
         TransactionBlocks(n, m) \/ KnownBlock(n, m) \/ OrphanBlock(n, m) \/ NewBlock(n, m)
  PROVE  TreesOK' /\ \A k \in Nodes : TreeStep(k)
<1>1. ShapeOK /\ \A k \in Nodes : TreeOK(k) /\ MinerOK(k)
  BY DEF TreesOK, TreeOK
<1> DEFINE b == Received(n, m)
<1>2. CASE TransactionBlocks(n, m)
  <2>1. Receives(n, m, "TransactionBlocks") /\ Discard(n, m)
        /\ UNCHANGED <<tree, orphan_handler, todo, miner, control, linked>>
    BY <1>2 DEF TransactionBlocks, workerVars, queueVars
  <2>2. b \in TxBlocks /\ Msg("NewTransactionBlockHashes", b) \in Messages
    BY <1>1, <2>1, Receiving, Kinds, AreMessages DEF Received, AnnounceTx
  <2>3. link' \in [Edges -> Seq(Messages)]
    BY <1>1, <2>1, Receiving DEF Silent, Takes
  <2>4. /\ tx_block_pool' \in [Nodes -> SUBSET TxBlocks] /\ news' \in [Nodes \X Threads -> Hands]
        /\ \A k \in Nodes : news'[<<k, "miner">>] = news[<<k, "miner">>]
    <3>1. CASE UNCHANGED <<tx_block_pool, news>>
      BY <1>1, <3>1 DEF ShapeOK
    <3>2. CASE /\ tx_block_pool' = [tx_block_pool EXCEPT ![n] = @ \cup {b}]
               /\ Stored(n, "worker", "NewTransactionBlockHashes", b)
      BY <1>1, <2>2, <3>2, Storing DEF ShapeOK, Threads
    <3> QED
      BY <1>2, <3>1, <3>2 DEF TransactionBlocks
  <2>5. \A k \in Nodes : MinerOK(k)'
    BY <1>1, <2>1, <2>4 DEF MinerOK
  <2> QED
    BY <1>1, <2>1, <2>3, <2>4, <2>5, OthersTrees DEF ShapeOK
<1>3. CASE KnownBlock(n, m)
  <2>1. Receives(n, m, "ProposerBlocks") /\ Discard(n, m)
        /\ UNCHANGED <<tree, orphan_handler, tx_block_pool, todo, miner, news, linked, control>>
    BY <1>3 DEF KnownBlock, workerVars, queueVars
  <2>2. link' \in [Edges -> Seq(Messages)]
    BY <1>1, <2>1, Receiving DEF Silent, Takes
  <2>3. \A k \in Nodes : MinerOK(k)'
    BY <1>1, <2>1 DEF MinerOK
  <2> QED
    BY <1>1, <2>1, <2>2, <2>3, OthersTrees DEF ShapeOK
<1>4. CASE OrphanBlock(n, m)
  <2> DEFINE p == Parent[b]
             s == Append(Orphans(n, p), b)
  <2>1. /\ Receives(n, m, "ProposerBlocks") /\ b \notin tree[n].blocks
        /\ orphan_handler' = [orphan_handler EXCEPT ![n] = Put(orphan_handler[n], p, s)]
        /\ Answer(n, m, "GetProposerBlocks", p)
        /\ UNCHANGED <<tree, tx_block_pool, todo, miner, news, linked, control>>
    BY <1>4 DEF OrphanBlock, queueVars
  <2>2. b \in Children
    BY <2>1, BlockReceived
  <2>3. p \in ProposerBlocks
    BY <2>2, BlockAssumption
  <2>4. link' \in [Edges -> Seq(Messages)]
    BY <1>1, <2>1, <2>3, Receiving, AreMessages DEF Answers, Takes, Request
  <2>5. s \in Seq(Children) /\ ParentsIn(s, {p})
    BY <1>1, <2>2, OrphansAre, Extended
  <2> HIDE DEF b, p, s
  <2>6. /\ orphan_handler' = [k \in Nodes |-> orphan_handler'[k]]
        /\ orphan_handler'[n] = Put(orphan_handler[n], p, s)
        /\ \A k \in Nodes : k # n => orphan_handler'[k] = orphan_handler[k]
    BY <1>1, <2>1 DEF ShapeOK
  <2>7. ShapeOK'
    BY <1>1, <2>1, <2>4, <2>6 DEF ShapeOK
  <2>8. \A q \in DOMAIN orphan_handler'[n] :
            orphan_handler'[n][q] \in Seq(Children) /\ ParentsIn(orphan_handler'[n][q], {q})
    <3>1. ASSUME NEW q \in DOMAIN orphan_handler'[n]
          PROVE  (q = p /\ orphan_handler'[n][q] = s)
                 \/ (q \in DOMAIN orphan_handler[n] /\ orphan_handler'[n][q] = orphan_handler[n][q])
      BY <2>6 DEF Put
    <3> QED
      BY <1>1, <2>5, <3>1 DEF TreeOK
  <2>9. \A k \in Nodes : MinerOK(k)'
    BY <1>1, <2>1 DEF MinerOK
  <2>10. TreeOK(n)'
    <3>1. TreeOK(n)
      BY <1>1
    <3> QED
      BY <2>1, <2>8, <2>9, <3>1 DEF TreeOK, ParentsIn
  <2>11. \A k \in Nodes : k # n => TreeOK(k)'
    BY <1>1, <2>1, <2>6, <2>9, NodeSame
  <2> QED
    BY <2>1, <2>7, <2>10, <2>11 DEF TreesOK, TreeStep
<1>5. CASE NewBlock(n, m)
  <2>1. /\ Receives(n, m, "ProposerBlocks") /\ b \notin tree[n].blocks /\ Parent[b] \in tree[n].blocks
        /\ Process(n, b, <<>>) /\ Discard(n, m) /\ UNCHANGED <<tx_block_pool, miner, control, linked>>
    BY <1>5 DEF NewBlock, queueVars
  <2>2. b \in Children
    BY <2>1, BlockReceived
  <2>3. link' \in [Edges -> Seq(Messages)]
    BY <1>1, <2>1, Receiving DEF Silent, Takes
  <2> QED
    BY <2>1, <2>2, <2>3, Empty, ProcessTrees
<1> QED
  BY <1>2, <1>3, <1>4, <1>5

(* The worker takes up an orphan. *)
LEMMA AdoptTrees ==
  ASSUME TreesOK, NEW n \in Nodes, Adopt(n) PROVE TreesOK' /\ \A k \in Nodes : TreeStep(k)
<1>1. /\ todo[n] # <<>> /\ Process(n, Head(todo[n]), Tail(todo[n]))
      /\ UNCHANGED <<tx_block_pool, miner, control, linked, link>>
  BY DEF Adopt, queueVars
<1>2. todo[n] \in Seq(Children) /\ ParentsIn(todo[n], tree[n].blocks) /\ link \in [Edges -> Seq(Messages)]
  BY DEF TreesOK, ShapeOK, TreeOK
<1>3. /\ Tail(todo[n]) \in Seq(Children) /\ ParentsIn(Tail(todo[n]), tree[n].blocks)
      /\ Head(todo[n]) \in Children /\ Parent[Head(todo[n])] \in tree[n].blocks
  BY <1>1, <1>2, Shortened
<1> QED
  BY <1>1, <1>2, <1>3, ProcessTrees

(* Every step keeps the trees in order, and adds to each a block whose      *)
(* parent is there, or nothing.                                             *)
LEMMA TreesStep ==
  ASSUME TreesOK, [NetworkNext]_netVars PROVE TreesOK' /\ \A k \in Nodes : TreeStep(k)
<1>1. CASE UNCHANGED netVars
  <2>1. ShapeOK /\ \A k \in Nodes : MinerOK(k)'
    BY <1>1 DEF TreesOK, TreeOK, MinerOK, netVars
  <2> QED
    BY <1>1, <2>1, OthersTrees DEF netVars, ShapeOK
<1>2. ASSUME NEW n \in Nodes,
             \/ ProcessBroadcast(n) \/ Adopt(n) \/ Mine(n)
             \/ \E w \in Threads : Broadcast(n, w)
             \/ \E m \in Nodes : Handle(n, m) \/ Connect(n, m)
      PROVE  TreesOK' /\ \A k \in Nodes : TreeStep(k)
  <2>1. CASE \/ ProcessBroadcast(n)
             \/ \E w \in Threads : Broadcast(n, w)
             \/ \E m \in Nodes : Connect(n, m)
    BY <2>1, ServerTrees
  <2>2. CASE Mine(n)
    BY <2>2, PlanTrees, MinerTrees DEF Mine, Plans
  <2>3. CASE \E m \in Nodes : WritesIf(n, m)
    BY <2>3, AnswerTrees
  <2>4. CASE \E m \in Nodes :
                TransactionBlocks(n, m) \/ KnownBlock(n, m) \/ OrphanBlock(n, m) \/ NewBlock(n, m)
    BY <2>4, BlockTrees
  <2>5. CASE Adopt(n)
    BY <2>5, AdoptTrees
  <2> QED
    BY <1>2, <2>1, <2>2, <2>3, <2>4, <2>5 DEF Handle, WritesIf
<1> QED
  BY <1>1, <1>2 DEF NetworkNext

(* The trees are in order when the nodes start. *)
LEMMA TreesStart == NetworkInit => TreesOK
<1> SUFFICES ASSUME NetworkInit PROVE TreesOK
  OBVIOUS
<1>1. Genesis \in ProposerBlocks
  BY BlockAssumption
<1>2. ShapeOK
  <2>1. <<>> \in Seq(Messages)
    OBVIOUS
  <2> QED
    BY <1>1, <2>1, NetworkAssumption, Empty, IdleIs DEF NetworkInit, ShapeOK, NetworkAssumption, Hands
<1>3. ASSUME NEW n \in Nodes PROVE TreeOK(n)
  <2>1. MinerOK(n)
    BY IdleIs DEF NetworkInit, MinerOK
  <2> QED
    BY <1>1, <2>1, Empty DEF NetworkInit, TreeOK
<1> QED
  BY <1>2, <1>3 DEF TreesOK

(* The tree of any node grows as Blockchain specifies: one block at a time  *)
(* joins it under a parent that is there, whatever order the network brings *)
(* blocks in, and also when new_parent takes up orphans.                    *)
THEOREM TreeGrowsAsSpecifiedCorrect == NetworkSpec => TreeGrowsAsSpecified
<1>1. NetworkInit => Tree!ChainInit
  BY NetworkAssumption DEF NetworkAssumption, NetworkInit, Tree!ChainInit
<1>2. TreesOK /\ [NetworkNext]_netVars => [Tree!ChainNext]_Tree!chainVars
  <2> SUFFICES ASSUME TreesOK, [NetworkNext]_netVars PROVE [Tree!ChainNext]_Tree!chainVars
    OBVIOUS
  <2>1. TreeStep(AnyNode)
    BY TreesStep, NetworkAssumption DEF NetworkAssumption
  <2>2. CASE tree'[AnyNode] = tree[AnyNode]
    BY <2>2 DEF Tree!chainVars
  <2>3. CASE \E b \in Children :
                Parent[b] \in tree[AnyNode].blocks /\ tree'[AnyNode] = TreeWith(tree[AnyNode], b)
    <3>1. PICK b \in Children :
                Parent[b] \in tree[AnyNode].blocks /\ tree'[AnyNode] = TreeWith(tree[AnyNode], b)
      BY <2>3
    <3>2. Tree!Insert(b)
      BY <3>1 DEF TreeWith, Put, Tree!Insert, Tree!Put
    <3> QED
      BY <3>1, <3>2 DEF Tree!ChainNext, Children, Tree!Children
  <2> QED
    BY <2>1, <2>2, <2>3 DEF TreeStep
<1> QED
  BY <1>1, <1>2, TreesStart, TreesStep, PTL DEF NetworkSpec, TreeGrowsAsSpecified, Tree!ChainSpec
-----------------------------------------------------------------------------
(* RefsUpTo collects references on the way up from a block.                 *)
Ways(a, b) == a
Way == INSTANCE Folding WITH Step <- Ways, Weight <- Announce

(* RefsUpTo is what its equation says. *)
LEMMA RefsUpToAre ==
  /\ RefsUpTo[Genesis] = {}
  /\ \A b \in Children : RefsUpTo[b] = Refs(b) \cup RefsUpTo[Parent[b]]
<1> DEFINE F == [b \in Children |-> Refs(b)]
<1>0. Genesis \in ProposerBlocks /\ Parent \in [ProposerBlocks \ {Genesis} -> ProposerBlocks]
  BY BlockAssumption DEF Children
<1> HIDE DEF F
<1>1. PICK f : Way!Collects(ProposerBlocks, Genesis, Parent, F, f)
  BY <1>0, Way!CollectExists
<1> USE DEF F
<1>2. \A b \in ProposerBlocks : f[b] = IF b = Genesis THEN {} ELSE Refs(b) \cup f[Parent[b]]
  BY <1>1 DEF Children, Way!Collects
<1>3. f = [b \in ProposerBlocks |-> IF b = Genesis THEN {} ELSE Refs(b) \cup f[Parent[b]]]
  BY <1>1, <1>2 DEF Way!Collects
<1>4. RefsUpTo = [b \in ProposerBlocks |-> IF b = Genesis THEN {} ELSE Refs(b) \cup RefsUpTo[Parent[b]]]
  BY <1>3 DEF RefsUpTo
<1> HIDE DEF RefsUpTo
<1> QED
  BY <1>4, BlockAssumption DEF Children

(* The transaction blocks that a thread of n has yet to announce, those that *)
(* n has announced, and those that must not come after a proposer block.    *)
TxInHand(n) == {t \in TxBlocks : AnnounceTx(t) \in InHand(n)}
Src(n) == tx_block_pool[n] \ TxInHand(n)
Due == [b \in ProposerBlocks |-> {t \in RefsUpTo[b] : <<b, t>> \notin early}]

(* A node has what the blocks of its tree and their ancestors reference,    *)
(* and what its miner references; of what the orphans that it has in hand   *)
(* reference it has all that is due.  A worker that panicked lacked a       *)
(* transaction block that was announced late.                               *)
RefsIn(s, P) == \A i \in DOMAIN s : Due[s[i]] \subseteq P
RefsOK(n) ==
    /\ \A b \in tree[n].blocks : RefsUpTo[b] \subseteq tx_block_pool[n]
    /\ RefsIn(todo[n], tx_block_pool[n])
    /\ \A p \in DOMAIN orphan_handler[n] : RefsIn(orphan_handler[n][p], tx_block_pool[n])
    /\ n \notin alive => \E e \in early : e[2] \in Refs(e[1]) \ tx_block_pool[n]
MinerRefs(n) ==
    /\ miner[n].refs \subseteq tx_block_pool[n]
    /\ miner[n].pc = "insert" => RefsUpTo[miner[n].block] \subseteq tx_block_pool[n]

(* What a thread has in hand, the node has stored, and the other thread has *)
(* something else.  A block of the tree that references a transaction block *)
(* in hand is in hand too, or was announced early.                          *)
HandOK(n) ==
    /\ \A x \in InHand(n) : \/ \E b \in tree[n].blocks : x = Announce(b)
                            \/ \E t \in tx_block_pool[n] : x = AnnounceTx(t)
    /\ \A t : ~ (AnnounceTx(t) \in news[<<n, "worker">>] /\ AnnounceTx(t) \in news[<<n, "miner">>])
    /\ \A b \in tree[n].blocks : \A t \in RefsUpTo[b] :
          AnnounceTx(t) \in InHand(n) => <<b, t>> \in early \/ Announce(b) \in InHand(n)

(* What is early for a block, is early for its parent if that references it. *)
EarlyOK == \A c \in Children : \A t \in RefsUpTo[Parent[c]] :
              <<c, t>> \in early => <<Parent[c], t>> \in early

EdgeOK(n, m) ==
    InOrder(control[n], link[<<n, m>>], link[<<m, n>>], tx_block_pool[m], Src(n), Due)
EdgesOK == \A n, m \in Nodes : <<n, m>> \in Edges => EdgeOK(n, m)
OrderInv ==
    /\ TreesOK /\ linked = Edges
    /\ \A n \in Nodes : RefsOK(n) /\ MinerRefs(n) /\ HandOK(n)
    /\ EarlyOK /\ EdgesOK

(* A step of node n that announces nothing, as its peers see it.            *)
Quiet(n) ==
    /\ control' = control /\ early' = early /\ \A k \in Nodes : Src(k)' = Src(k)
    /\ tx_block_pool[n] \subseteq tx_block_pool'[n]
    /\ \A k \in Nodes : k # n => tx_block_pool'[k] = tx_block_pool[k]

(* A node that keeps what it has. *)
LEMMA NodeKept ==
  ASSUME NEW k \in Nodes, RefsOK(k), MinerRefs(k), HandOK(k), early' = early, tree'[k] = tree[k],
         todo'[k] = todo[k], orphan_handler'[k] = orphan_handler[k], miner'[k] = miner[k],
         tx_block_pool'[k] = tx_block_pool[k], k \in alive' <=> k \in alive,
         \A v \in Threads : news'[<<k, v>>] = news[<<k, v>>]
  PROVE  /\ RefsOK(k)' /\ MinerRefs(k)' /\ HandOK(k)'
         /\ InHand(k)' = InHand(k) /\ Src(k)' = Src(k)
<1>1. /\ news'[<<k, "worker">>] = news[<<k, "worker">>] /\ news'[<<k, "miner">>] = news[<<k, "miner">>]
      /\ Due' = Due
  BY DEF Threads, Due
<1> HIDE DEF Due
<1>2. InHand(k)' = InHand(k)
  BY <1>1 DEF InHand
<1>3. Src(k)' = Src(k)
  BY <1>2 DEF Src, TxInHand
<1>4. RefsOK(k)'
  BY <1>1 DEF RefsOK, RefsIn
<1>5. HandOK(k)'
  BY <1>1, <1>2 DEF HandOK
<1> QED
  BY <1>2, <1>3, <1>4, <1>5 DEF MinerRefs

(* Connections go both ways, between two nodes. *)
LEMMA EdgeFacts ==
  ASSUME TreesOK, NEW n \in Nodes, NEW m \in Nodes, <<n, m>> \in Edges
  PROVE  /\ n # m /\ <<m, n>> \in Edges /\ <<n, m>> # <<m, n>>
         /\ control[n] \in Seq(Messages)
         /\ link[<<n, m>>] \in Seq(Messages) /\ link[<<m, n>>] \in Seq(Messages)
<1>1. n # m /\ <<m, n>> \in Edges
  BY NetworkAssumption DEF NetworkAssumption
<1> QED
  BY <1>1 DEF TreesOK, ShapeOK

(* The edges that are not concerned by the message a node handles.          *)
LEMMA OtherEdges ==
  ASSUME OrderInv, NEW n \in Nodes, Quiet(n), NEW k \in Nodes, NEW j \in Nodes, <<k, j>> \in Edges,
         link'[<<k, j>>] = link[<<k, j>>], link'[<<j, k>>] = link[<<j, k>>]
  PROVE  EdgeOK(k, j)'
<1>1. EdgeOK(k, j)
  BY DEF OrderInv, EdgesOK
<1>2. /\ control'[k] = control[k] /\ Src(k)' = Src(k) /\ Due' = Due
      /\ tx_block_pool[j] \subseteq tx_block_pool'[j]
  BY DEF Quiet, Due
<1> HIDE DEF Due, Src
<1>3. InOrder(control[k], link[<<k, j>>], link[<<j, k>>], tx_block_pool'[j], Src(k), Due)
  BY <1>1, <1>2, PoolGrows DEF EdgeOK
<1> QED
  BY <1>2, <1>3 DEF EdgeOK

(* A step that touches no connection. *)
LEMMA LocalEdges ==
  ASSUME OrderInv, NEW n \in Nodes, Quiet(n), link' = link
  PROVE  EdgesOK'
  BY OtherEdges DEF EdgesOK

(* Node n handles the message at the head of its connection from m.         *)
LEMMA HandledEdges ==
  ASSUME OrderInv, NEW n \in Nodes, NEW m \in Nodes, <<m, n>> \in Edges, link[<<m, n>>] # <<>>,
         Quiet(n),
         NEW h, h = Head(link[<<m, n>>]), \A t : h = DeliverTx(t) => t \in tx_block_pool'[n],
         \/ /\ Silent(n, m) /\ \A t : /\ h # RequestTx(t)
                                      /\ h = AnnounceTx(t) => t \in tx_block_pool[n]
         \/ \E x : /\ Answers(n, m, x)
                   /\ \A t : /\ h = RequestTx(t) => x = DeliverTx(t)
                             /\ h = AnnounceTx(t) => t \in tx_block_pool[n] \/ x = RequestTx(t)
                             /\ x = RequestTx(t) => h = AnnounceTx(t)
                   /\ \A b \in ProposerBlocks :
                             /\ x = Request(b) => h = Announce(b) \/ Due[b] \subseteq tx_block_pool[n]
                             /\ x = Deliver(b) => h = Request(b)
                   /\ \A y : x # Announce(y) /\ x # AnnounceTx(y)
  PROVE  EdgesOK'
<1> DEFINE out == link[<<m, n>>]
           back == link[<<n, m>>]
           P == tx_block_pool[n]
           P2 == tx_block_pool'[n]
           src == Src(m)
           own == Src(n)
           D == Due
<1>1. /\ n # m /\ <<n, m>> \in Edges /\ out \in Seq(Messages) /\ back \in Seq(Messages)
      /\ <<n, m>> # <<m, n>> /\ out # <<>>
  BY EdgeFacts DEF OrderInv
<1>2. /\ InOrder(control[m], out, back, P, src, D)
      /\ InOrder(control[n], back, out, tx_block_pool[m], own, D)
      /\ src \subseteq tx_block_pool[m]
  BY <1>1 DEF OrderInv, EdgesOK, EdgeOK, Src
<1>3. /\ P \subseteq P2 /\ tx_block_pool'[m] = tx_block_pool[m] /\ control' = control
      /\ Src(m)' = src /\ Src(n)' = own /\ Due' = D
  BY <1>1 DEF Quiet, Due
<1>4. /\ h = out[1] /\ 1 \in DOMAIN out /\ \A x : ~ Before(out, 1, x)
      /\ h \in Messages /\ Has(out, h)
  BY <1>1, TailHas
<1>5. Takes(n, m)
  BY DEF Silent, Answers
<1>6. \A k, j \in Nodes : <<k, j>> \in Edges /\ ~ (k = n /\ j = m) /\ ~ (k = m /\ j = n) => EdgeOK(k, j)'
  <2> SUFFICES ASSUME NEW k \in Nodes, NEW j \in Nodes, <<k, j>> \in Edges,
                      ~ (k = n /\ j = m), ~ (k = m /\ j = n)
               PROVE  EdgeOK(k, j)'
    OBVIOUS
  <2>1. <<j, k>> \in Edges
    BY EdgeFacts DEF OrderInv
  <2>2. link'[<<k, j>>] = link[<<k, j>>] /\ link'[<<j, k>>] = link[<<j, k>>]
    BY <1>5, <2>1 DEF Takes
  <2> QED
    BY <2>2, OtherEdges
<1>7. InOrder(control[m], out, back, P2, src, D)
  BY <1>2, <1>3, PoolGrows
<1> DEFINE Q == tx_block_pool[m]
<1> HIDE DEF out, back, P, P2, src, own, D, Q, Due, Src
<1>8. CASE Silent(n, m) /\ \A t : h # RequestTx(t) /\ (h = AnnounceTx(t) => t \in P)
  <2>1. link'[<<m, n>>] = Tail(out) /\ link'[<<n, m>>] = back
    BY <1>8 DEF Silent, Takes, out, back
  <2>2. /\ \A t : Head(out) = AnnounceTx(t) => t \in P2 \/ Has(back, RequestTx(t))
        /\ \A t : Head(out) = DeliverTx(t) => t \in P2
        /\ \A t : Head(out) = RequestTx(t) => t \in Q \/ Has(back, DeliverTx(t))
    BY <1>3, <1>8 DEF out, P, P2
  <2>3. InOrder(control[m], Tail(out), back, P2, src, D)
    BY <1>1, <1>7, <2>2, SentTaken
  <2>4. InOrder(control[n], back, Tail(out), Q, own, D)
    BY <1>1, <1>2, <2>2, BackTaken DEF Q
  <2>5. EdgeOK(m, n)' /\ EdgeOK(n, m)'
    BY <1>3, <2>1, <2>3, <2>4 DEF EdgeOK, P2, Q
  <2> QED
    BY <1>6, <2>5 DEF EdgesOK
<1>9. ASSUME NEW x,
             /\ Answers(n, m, x)
             /\ \A t : /\ h = RequestTx(t) => x = DeliverTx(t)
                       /\ h = AnnounceTx(t) => t \in P \/ x = RequestTx(t)
                       /\ x = RequestTx(t) => h = AnnounceTx(t)
             /\ \A b \in ProposerBlocks : /\ x = Request(b) => h = Announce(b) \/ Due[b] \subseteq P
                                          /\ x = Deliver(b) => h = Request(b)
             /\ \A y : x # Announce(y) /\ x # AnnounceTx(y)
      PROVE  EdgesOK'
  <2>1. link'[<<m, n>>] = Tail(out) /\ link'[<<n, m>>] = Append(back, x) /\ x \in Messages
    BY <1>9 DEF Answers, Takes, out, back
  <2>2. \A y : Has(Append(back, x), y) <=> y = x \/ Has(back, y)
    BY <1>1, <2>1, AppendHas
  <2>3. Append(back, x) \in Seq(Messages)
    BY <1>1, <2>1
  <2>4. \A t : x = RequestTx(t) => t \in src
    BY <1>2, <1>4, <1>9 DEF InOrder, Known
  <2>5. ASSUME NEW b \in ProposerBlocks, x = Request(b), NEW t \in D[b]
        PROVE  OnTheWay(t, out, back, P2)
    <3>1. CASE h = Announce(b)
      BY <3>1, <1>4, <1>7, <2>5 DEF InOrder, AnnounceOrder
    <3>2. CASE Due[b] \subseteq P
      BY <3>2, <1>3, <2>5 DEF OnTheWay, D
    <3> QED
      BY <3>1, <3>2, <2>5, <1>9
  <2>6. InOrder(control[m], out, Append(back, x), P2, src, D)
    BY <1>1, <1>7, <2>1, <2>4, <2>5, SentBack
  <2>7. /\ \A t : Head(out) = AnnounceTx(t) => t \in P2 \/ Has(Append(back, x), RequestTx(t))
        /\ \A t : Head(out) = DeliverTx(t) => t \in P2
        /\ \A t : Head(out) = RequestTx(t) => t \in Q \/ Has(Append(back, x), DeliverTx(t))
    BY <1>3, <1>9, <2>2 DEF out, P2
  <2>8. InOrder(control[m], Tail(out), Append(back, x), P2, src, D)
    BY <1>1, <2>6, <2>7, SentTaken
  <2>9. /\ \A t : x = AnnounceTx(t) => t \in own
        /\ \A b \in ProposerBlocks : x = Announce(b) => \A t \in D[b] :
             OnTheWay(t, back, out, Q) \/ Has(back, AnnounceTx(t))
    BY <1>9
  <2>10. ASSUME NEW b \in ProposerBlocks, x = Deliver(b), NEW t \in D[b]
         PROVE  t \in Q \/ Has(back, DeliverTx(t))
    <3>1. h = Request(b)
      BY <1>9, <2>10
    <3> QED
      BY <3>1, <1>2, <1>4, <2>10 DEF InOrder, RequestOrder, Q
  <2>11. InOrder(control[n], Append(back, x), out, Q, own, D)
    BY <1>1, <1>2, <2>1, <2>9, <2>10, Sent DEF Q
  <2>12. InOrder(control[n], Append(back, x), Tail(out), Q, own, D)
    BY <1>1, <2>7, <2>11, BackTaken
  <2>13. EdgeOK(m, n)' /\ EdgeOK(n, m)'
    BY <1>3, <2>1, <2>8, <2>12 DEF EdgeOK, P2, Q
  <2> QED
    BY <1>6, <2>13 DEF EdgesOK
<1> QED
  BY <1>8, <1>9 DEF P
-----------------------------------------------------------------------------
(* The server hands an announcement to every connection of the node.        *)
LEMMA BroadcastOrder ==
  ASSUME OrderInv, NEW n \in Nodes, ProcessBroadcast(n)
  PROVE  OrderInv'
<1> DEFINE h == Head(control[n])
<1>1. TreesOK'
  BY ServerTrees DEF OrderInv
<1>2. UNCHANGED <<tree, orphan_handler, tx_block_pool, todo, miner, news, linked, alive, early>>
  BY DEF ProcessBroadcast, workerVars
<1>3. /\ \A k \in Nodes : RefsOK(k)' /\ MinerRefs(k)' /\ HandOK(k)' /\ Src(k)' = Src(k)
      /\ EarlyOK' /\ Due' = Due
  <2>1. \A k \in Nodes : RefsOK(k)' /\ MinerRefs(k)' /\ HandOK(k)' /\ Src(k)' = Src(k)
    BY <1>2, NodeKept DEF OrderInv
  <2> QED
    BY <1>2, <2>1 DEF OrderInv, EarlyOK, Due
<1>4. /\ control[n] \in Seq(Messages) /\ control[n] # <<>>
      /\ control'[n] = Tail(control[n]) /\ \A k \in Nodes : k # n => control'[k] = control[k]
  BY DEF ProcessBroadcast, OrderInv, TreesOK, ShapeOK
<1>5. h \in Messages /\ 1 \in DOMAIN control[n] /\ control[n][1] = h /\ Has(control[n], h)
      /\ \A x : ~ Before(control[n], 1, x)
  BY <1>4, TailHas
<1>6. \A e \in Edges : link'[e] = IF e[1] = n THEN Append(link[e], h) ELSE link[e]
  BY DEF ProcessBroadcast, OrderInv
<1> HIDE DEF h
<1>7. ASSUME NEW k \in Nodes, NEW j \in Nodes, <<k, j>> \in Edges PROVE EdgeOK(k, j)'
  <2> DEFINE out == link[<<k, j>>]
             back == link[<<j, k>>]
             P == tx_block_pool[j]
             src == Src(k)
             D == Due
  <2>1. /\ k # j /\ <<j, k>> \in Edges /\ out \in Seq(Messages) /\ back \in Seq(Messages)
        /\ control[k] \in Seq(Messages)
    BY <1>7, EdgeFacts DEF OrderInv
  <2>2. InOrder(control[k], out, back, P, src, D)
    BY <1>7 DEF OrderInv, EdgesOK, EdgeOK
  <2>3. OnlyNews(control[j])
    BY <2>1 DEF OrderInv, EdgesOK, EdgeOK, InOrder
  <2>4. /\ link'[<<k, j>>] = IF k = n THEN Append(out, h) ELSE out
        /\ link'[<<j, k>>] = IF j = n THEN Append(back, h) ELSE back
    BY <1>6, <1>7, <2>1
  <2> HIDE DEF out, back, P, src, D, Due, Src
  <2>5. CASE k = n
    <3>1. \A t : h = AnnounceTx(t) => t \in src
      BY <1>5, <2>2, <2>5 DEF InOrder, Known
    <3>2. \A b \in ProposerBlocks : h = Announce(b) => \A t \in D[b] :
             OnTheWay(t, out, back, P) \/ Has(out, AnnounceTx(t))
      BY <1>5, <2>2, <2>5 DEF InOrder, QueueOrder
    <3>3. \A b : h # Deliver(b)
      BY <1>5, <2>2, <2>5 DEF InOrder, OnlyNews
    <3>4. InOrder(control[k], Append(out, h), back, P, src, D)
      BY <1>5, <2>1, <2>2, <3>1, <3>2, <3>3, Sent
    <3>5. \A t : h = AnnounceTx(t) => Has(Append(out, h), AnnounceTx(t))
      BY <1>5, <2>1, AppendHas
    <3>6. InOrder(Tail(control[k]), Append(out, h), back, P, src, D)
      BY <1>4, <2>5, <3>4, <3>5, QueueTaken DEF h
    <3>7. link'[<<k, j>>] = Append(out, h) /\ link'[<<j, k>>] = back
      BY <2>1, <2>4, <2>5
    <3> QED
      BY <1>2, <1>3, <1>4, <2>5, <3>6, <3>7 DEF EdgeOK, P, src, D
  <2>6. CASE j = n
    <3>1. \A x : h # Request(x) /\ h # RequestTx(x)
      BY <1>5, <2>3, <2>6 DEF OnlyNews
    <3>2. InOrder(control[k], out, Append(back, h), P, src, D)
      BY <1>5, <2>1, <2>2, <3>1, SentBack
    <3>3. link'[<<k, j>>] = out /\ link'[<<j, k>>] = Append(back, h) /\ control'[k] = control[k]
      BY <1>4, <2>1, <2>4, <2>6
    <3> QED
      BY <1>2, <1>3, <3>2, <3>3 DEF EdgeOK, P, src, D
  <2>7. CASE k # n /\ j # n
    <3>1. link'[<<k, j>>] = out /\ link'[<<j, k>>] = back /\ control'[k] = control[k]
      BY <1>4, <2>4, <2>7
    <3> QED
      BY <1>2, <1>3, <2>2, <3>1 DEF EdgeOK, P, src, D
  <2> QED
    BY <2>5, <2>6, <2>7
<1> QED
  BY <1>1, <1>2, <1>3, <1>7 DEF OrderInv, EdgesOK
-----------------------------------------------------------------------------
(* A step of one node: the others keep what they have.                      *)
Alone(n) ==
    /\ linked' = linked
    /\ \A k \in Nodes : k # n => /\ tree'[k] = tree[k] /\ todo'[k] = todo[k]
                                 /\ orphan_handler'[k] = orphan_handler[k]
                                 /\ tx_block_pool'[k] = tx_block_pool[k]
                                 /\ miner'[k] = miner[k] /\ (k \in alive' <=> k \in alive)
                                 /\ \A v \in Threads : news'[<<k, v>>] = news[<<k, v>>]

LEMMA AloneQuiet ==
  ASSUME OrderInv, NEW n \in Nodes, Alone(n), control' = control, early' = early,
         tx_block_pool[n] \subseteq tx_block_pool'[n], Src(n)' = Src(n)
  PROVE  Quiet(n)
<1>1. \A k \in Nodes : k # n => Src(k)' = Src(k)
  BY NodeKept DEF Alone, OrderInv
<1> QED
  BY <1>1 DEF Quiet, Alone

LEMMA AloneOrder ==
  ASSUME OrderInv, NEW n \in Nodes, Alone(n), Quiet(n), TreesOK', EdgesOK',
         RefsOK(n)', MinerRefs(n)', HandOK(n)'
  PROVE  OrderInv'
<1>1. early' = early
  BY DEF Quiet
<1>2. \A k \in Nodes : k # n => RefsOK(k)' /\ MinerRefs(k)' /\ HandOK(k)'
  BY <1>1, NodeKept DEF OrderInv, Alone
<1>3. EarlyOK'
  BY <1>1 DEF OrderInv, EarlyOK
<1> QED
  BY <1>2, <1>3 DEF OrderInv, Alone

(* A node that takes in no proposer block keeps its references. *)
LEMMA RefsKept ==
  ASSUME NEW n \in Nodes, RefsOK(n), early' = early, tx_block_pool[n] \subseteq tx_block_pool'[n],
         tree'[n] = tree[n], todo'[n] = todo[n], orphan_handler'[n] = orphan_handler[n],
         n \notin alive' => n \notin alive /\ tx_block_pool'[n] = tx_block_pool[n]
  PROVE  RefsOK(n)'
<1>1. Due' = Due
  BY DEF Due
<1>2. \A s : RefsIn(s, tx_block_pool[n]) => \A i \in DOMAIN s : Due'[s[i]] \subseteq tx_block_pool'[n]
  BY <1>1 DEF RefsIn
<1> QED
  BY <1>2 DEF RefsOK, RefsIn

(* What a node has in hand after a thread has stored something. *)
LEMMA HandAfter ==
  ASSUME ShapeOK, NEW n \in Nodes, NEW w \in Threads, NEW type, NEW x, Msg(type, x) \in Messages,
         Stored(n, w, type, x), news[<<n, w>>] = {}
  PROVE  /\ InHand(n)' = InHand(n) \cup {Msg(type, x)}
         /\ \A k \in Nodes, v \in Threads : k # n => news'[<<k, v>>] = news[<<k, v>>]
         /\ \A y : /\ y \in news'[<<n, "worker">>] /\ y \in news'[<<n, "miner">>]
                  /\ y \notin news[<<n, "worker">>] \cap news[<<n, "miner">>]
                  => y = Msg(type, x) /\ y \in InHand(n)
<1>1. /\ news'[<<n, w>>] = {Msg(type, x)}
      /\ \A k \in Nodes, v \in Threads : k # n \/ v # w => news'[<<k, v>>] = news[<<k, v>>]
  BY Storing
<1>2. CASE w = "worker"
  <2>1. news'[<<n, "miner">>] = news[<<n, "miner">>]
    BY <1>1, <1>2 DEF Threads
  <2> QED
    BY <1>1, <1>2, <2>1 DEF InHand
<1>3. CASE w = "miner"
  <2>1. news'[<<n, "worker">>] = news[<<n, "worker">>]
    BY <1>1, <1>3 DEF Threads
  <2> QED
    BY <1>1, <1>3, <2>1 DEF InHand
<1> QED
  BY <1>2, <1>3 DEF Threads

(* A thread stores a transaction block that is new to its node. *)
LEMMA TxStored ==
  ASSUME OrderInv, NEW n \in Nodes, NEW w \in Threads, NEW t \in TxBlocks, t \notin tx_block_pool[n],
         Stored(n, w, "NewTransactionBlockHashes", t), news[<<n, w>>] = {}, early' = early,
         tree'[n] = tree[n], tx_block_pool'[n] = tx_block_pool[n] \cup {t}
  PROVE  /\ HandOK(n)' /\ Src(n)' = Src(n)
         /\ \A k \in Nodes, v \in Threads : k # n => news'[<<k, v>>] = news[<<k, v>>]
<1> DEFINE H == InHand(n)
           m == AnnounceTx(t)
<1>1. /\ ShapeOK /\ HandOK(n) /\ \A b \in tree[n].blocks : RefsUpTo[b] \subseteq tx_block_pool[n]
  BY DEF OrderInv, TreesOK, RefsOK
<1>2. /\ InHand(n)' = H \cup {m}
      /\ \A k \in Nodes, v \in Threads : k # n => news'[<<k, v>>] = news[<<k, v>>]
      /\ \A y : /\ y \in news'[<<n, "worker">>] /\ y \in news'[<<n, "miner">>]
               /\ y \notin news[<<n, "worker">>] \cap news[<<n, "miner">>]
               => y = m /\ y \in H
  BY <1>1, AreMessages, HandAfter DEF AnnounceTx
<1>3. \A x \in H : \/ \E b \in tree[n].blocks : x = Announce(b)
                  \/ \E u \in tx_block_pool[n] : x = AnnounceTx(u)
  BY <1>1 DEF HandOK
<1>4. m \notin H /\ \A u : AnnounceTx(u) = m => u = t
  BY <1>3, Distinct DEF m
<1>5. \A b : Announce(b) # m
  BY Distinct DEF m
<1> HIDE DEF H, m
<1>6. Src(n)' = Src(n)
  <2>1. TxInHand(n)' = TxInHand(n) \cup {t}
    BY <1>2, <1>4 DEF TxInHand, H, m
  <2> QED
    BY <2>1 DEF Src
<1>7. HandOK(n)'
  <2>1. \A x \in InHand(n)' : \/ \E b \in tree'[n].blocks : x = Announce(b)
                             \/ \E u \in tx_block_pool'[n] : x = AnnounceTx(u)
    BY <1>2, <1>3 DEF m
  <2>2. \A u : ~ (AnnounceTx(u) \in news'[<<n, "worker">>] /\ AnnounceTx(u) \in news'[<<n, "miner">>])
    BY <1>1, <1>2, <1>4 DEF HandOK
  <2>3. \A b \in tree'[n].blocks : \A u \in RefsUpTo[b] :
          AnnounceTx(u) \in InHand(n)' => <<b, u>> \in early' \/ Announce(b) \in InHand(n)'
    <3>1. \A b \in tree[n].blocks : \A u \in RefsUpTo[b] : AnnounceTx(u) # m
      BY <1>1, <1>4
    <3> QED
      BY <1>1, <1>2, <3>1 DEF HandOK, H
  <2> QED
    BY <2>1, <2>2, <2>3 DEF HandOK
<1> QED
  BY <1>2, <1>6, <1>7

(* A thread inserts a proposer block into the tree of its node. *)
LEMMA BlockStored ==
  ASSUME OrderInv, NEW n \in Nodes, NEW w \in Threads, NEW b \in ProposerBlocks,
         Stored(n, w, "NewProposerBlockHashes", b), news[<<n, w>>] = {}, early' = early,
         tree'[n].blocks = tree[n].blocks \cup {b}, tx_block_pool'[n] = tx_block_pool[n]
  PROVE  /\ HandOK(n)' /\ Src(n)' = Src(n)
         /\ \A k \in Nodes, v \in Threads : k # n => news'[<<k, v>>] = news[<<k, v>>]
<1> DEFINE H == InHand(n)
           m == Announce(b)
<1>1. ShapeOK /\ HandOK(n)
  BY DEF OrderInv, TreesOK
<1>2. /\ InHand(n)' = H \cup {m}
      /\ \A k \in Nodes, v \in Threads : k # n => news'[<<k, v>>] = news[<<k, v>>]
      /\ \A y : /\ y \in news'[<<n, "worker">>] /\ y \in news'[<<n, "miner">>]
               /\ y \notin news[<<n, "worker">>] \cap news[<<n, "miner">>]
               => y = m /\ y \in H
  BY <1>1, AreMessages, HandAfter DEF Announce
<1>3. \A u : AnnounceTx(u) # m
  BY Distinct DEF m
<1> HIDE DEF H, m
<1>4. Src(n)' = Src(n)
  BY <1>2, <1>3 DEF Src, TxInHand, H
<1>5. HandOK(n)'
  <2>1. \A x \in InHand(n)' : \/ \E c \in tree'[n].blocks : x = Announce(c)
                             \/ \E u \in tx_block_pool'[n] : x = AnnounceTx(u)
    BY <1>1, <1>2 DEF HandOK, H, m
  <2>2. \A u : ~ (AnnounceTx(u) \in news'[<<n, "worker">>] /\ AnnounceTx(u) \in news'[<<n, "miner">>])
    BY <1>1, <1>2, <1>3 DEF HandOK
  <2>3. \A c \in tree'[n].blocks : \A u \in RefsUpTo[c] :
          AnnounceTx(u) \in InHand(n)' => <<c, u>> \in early' \/ Announce(c) \in InHand(n)'
    BY <1>1, <1>2, <1>3 DEF HandOK, H, m
  <2> QED
    BY <2>1, <2>2, <2>3 DEF HandOK
<1> QED
  BY <1>2, <1>4, <1>5
-----------------------------------------------------------------------------
(* A thread announces: the one place where a proposer block may overtake.   *)
LEMMA BroadcastingOrder ==
  ASSUME OrderInv, NEW n \in Nodes, NEW w \in Threads, Broadcast(n, w)
  PROVE  OrderInv'
<1>1. TreesOK /\ ShapeOK /\ TreeOK(n) /\ RefsOK(n) /\ HandOK(n) /\ MinerRefs(n) /\ EarlyOK
  BY DEF OrderInv, TreesOK
<1>2. TreesOK'
  BY <1>1, ServerTrees
<1>3. UNCHANGED <<tree, orphan_handler, tx_block_pool, todo, miner, alive, linked, link>>
  BY DEF Broadcast, workerVars
<1>4. PICK x \in Messages :
         /\ news[<<n, w>>] = {x} /\ early' = early \cup Overtakes(n, x)
         /\ control'[n] = Append(control[n], x) /\ \A k \in Nodes : k # n => control'[k] = control[k]
         /\ news'[<<n, w>>] = {}
         /\ \A k \in Nodes, v \in Threads : k # n \/ v # w => news'[<<k, v>>] = news[<<k, v>>]
  BY <1>1, Announcing
<1>5. PICK v \in Threads : v # w /\ Threads = {v, w}
  BY DEF Threads
<1> DEFINE V == news[<<n, v>>]
           H == InHand(n)
<1>6. H = V \cup {x} /\ InHand(n)' = V /\ (V = {} \/ \E y : V = {y})
  <2>1. <<n, v>> \in Nodes \X Threads /\ V \in Hands /\ news'[<<n, v>>] = V
    BY <1>1, <1>4, <1>5 DEF ShapeOK
  <2>2. {news[<<n, "worker">>], news[<<n, "miner">>]} = {{x}, V}
    BY <1>4, <1>5 DEF Threads
  <2>3. {news'[<<n, "worker">>], news'[<<n, "miner">>]} = {{}, V}
    BY <1>4, <1>5, <2>1 DEF Threads
  <2>4. H = V \cup {x}
    BY <2>2 DEF InHand
  <2>5. InHand(n)' = V
    BY <2>3 DEF InHand
  <2> QED
    BY <2>1, <2>4, <2>5 DEF Hands
<1>7. ~ (\E t : AnnounceTx(t) = x /\ x \in V)
  BY <1>1, <1>4, <1>5 DEF HandOK, Threads
<1>8. \A k \in Nodes : k # n => InHand(k)' = InHand(k) /\ Src(k)' = Src(k)
  BY <1>3, <1>4 DEF InHand, Src, TxInHand, Threads
<1>9. \A e : e \in Overtakes(n, x) <=> /\ e \in ProposerBlocks \X TxBlocks /\ x = Announce(e[1])
                                       /\ e[2] \in RefsUpTo[e[1]] /\ AnnounceTx(e[2]) \in H
  BY DEF Overtakes, Announce, AnnounceTx
<1>10. /\ tree[n].blocks \subseteq ProposerBlocks /\ tx_block_pool[n] \subseteq TxBlocks
       /\ \A b \in tree[n].blocks : RefsUpTo[b] \subseteq tx_block_pool[n]
       /\ \A b \in tree[n].blocks \ {Genesis} : Parent[b] \in tree[n].blocks
  BY <1>1 DEF TreeOK, RefsOK, ShapeOK
<1>11. \A b \in tree[n].blocks : \A t \in RefsUpTo[b] :
          x = Announce(b) /\ AnnounceTx(t) \in H => <<b, t>> \in early'
  BY <1>4, <1>9, <1>10
<1>12. \/ \E b \in tree[n].blocks : x = Announce(b)
       \/ \E t \in tx_block_pool[n] : x = AnnounceTx(t)
  BY <1>1, <1>6 DEF HandOK
<1> HIDE DEF V, H
<1>13. HandOK(n)'
  <2>1. \A y \in InHand(n)' : \/ \E b \in tree'[n].blocks : y = Announce(b)
                             \/ \E t \in tx_block_pool'[n] : y = AnnounceTx(t)
    BY <1>1, <1>3, <1>6 DEF HandOK, H
  <2>2. \A t : ~ (AnnounceTx(t) \in news'[<<n, "worker">>] /\ AnnounceTx(t) \in news'[<<n, "miner">>])
    BY <1>4, <1>5 DEF Threads
  <2>3. \A b \in tree'[n].blocks : \A t \in RefsUpTo[b] :
          AnnounceTx(t) \in InHand(n)' => <<b, t>> \in early' \/ Announce(b) \in InHand(n)'
    BY <1>1, <1>3, <1>4, <1>6, <1>11 DEF HandOK, H
  <2> QED
    BY <2>1, <2>2, <2>3 DEF HandOK
<1>14. EarlyOK'
  <2> SUFFICES ASSUME NEW c \in Children, NEW t \in RefsUpTo[Parent[c]], <<c, t>> \in early'
               PROVE  <<Parent[c], t>> \in early'
    BY DEF EarlyOK
  <2>1. CASE <<c, t>> \in early
    BY <1>1, <1>4, <2>1 DEF EarlyOK
  <2>2. CASE <<c, t>> \in Overtakes(n, x)
    <3>1. x = Announce(c) /\ AnnounceTx(t) \in H
      BY <1>9, <2>2
    <3>2. AnnounceTx(t) \in V /\ V = {AnnounceTx(t)}
      BY <1>6, <3>1, Distinct
    <3>3. c \in tree[n].blocks
      BY <1>12, <3>1, Distinct
    <3>4. Parent[c] \in tree[n].blocks
      BY <1>10, <3>3 DEF Children
    <3>5. <<Parent[c], t>> \in early \/ Announce(Parent[c]) \in H
      BY <1>1, <3>1, <3>4 DEF HandOK, H
    <3>6. CASE Announce(Parent[c]) \in H
      <4>1. Announce(Parent[c]) = x
        BY <1>6, <3>2, <3>6, Distinct
      <4> QED
        BY <1>11, <3>1, <3>4, <4>1
    <3> QED
      BY <1>4, <3>5, <3>6
  <2> QED
    BY <1>4, <2>1, <2>2
<1>15. \A b \in ProposerBlocks : Due'[b] \subseteq Due[b]
  BY <1>4 DEF Due
<1>16. \A k \in Nodes : RefsOK(k)' /\ MinerRefs(k)'
  <2>1. ASSUME NEW s \in Seq(Children), NEW P, RefsIn(s, P)
        PROVE  \A i \in DOMAIN s : Due'[s[i]] \subseteq P
    <3>1. \A i \in DOMAIN s : s[i] \in ProposerBlocks
      BY DEF Children
    <3> QED
      BY <1>15, <2>1, <3>1 DEF RefsIn
  <2>2. ASSUME NEW k \in Nodes PROVE RefsOK(k)'
    <3>1. RefsOK(k) /\ TreeOK(k) /\ todo[k] \in Seq(Children)
      BY <1>1 DEF OrderInv, TreesOK, ShapeOK
    <3>2. \A i \in DOMAIN todo'[k] : Due'[todo'[k][i]] \subseteq tx_block_pool'[k]
      BY <1>3, <2>1, <3>1 DEF RefsOK
    <3>3. \A p \in DOMAIN orphan_handler'[k] : \A i \in DOMAIN orphan_handler'[k][p] :
              Due'[orphan_handler'[k][p][i]] \subseteq tx_block_pool'[k]
      BY <1>3, <2>1, <3>1 DEF RefsOK, TreeOK
    <3>4. early \subseteq early'
      BY <1>4
    <3> QED
      BY <1>3, <3>1, <3>2, <3>3, <3>4 DEF RefsOK, RefsIn
  <2> QED
    BY <1>3, <2>2 DEF OrderInv, MinerRefs
<1>17. \A k \in Nodes : k # n => HandOK(k)'
  <2> SUFFICES ASSUME NEW k \in Nodes, k # n PROVE HandOK(k)'
    OBVIOUS
  <2>1. /\ news'[<<k, "worker">>] = news[<<k, "worker">>] /\ news'[<<k, "miner">>] = news[<<k, "miner">>]
        /\ InHand(k)' = InHand(k) /\ early \subseteq early' /\ HandOK(k)
    BY <1>4, <1>8 DEF Threads, OrderInv
  <2> QED
    BY <1>3, <2>1 DEF HandOK
<1>18. ASSUME NEW k \in Nodes, NEW j \in Nodes, <<k, j>> \in Edges PROVE EdgeOK(k, j)'
  <2> DEFINE out == link[<<k, j>>]
             back == link[<<j, k>>]
             P == tx_block_pool[j]
  <2>1. EdgeOK(k, j) /\ control[k] \in Seq(Messages)
    BY <1>1, <1>18, EdgeFacts DEF OrderInv, EdgesOK
  <2>2. InOrder(control[k], out, back, P, Src(k), Due')
    <3> HIDE DEF Due
    <3> QED
      BY <1>15, <2>1, FewerDue DEF EdgeOK
  <2>3. UNCHANGED <<out, back, P>>
    BY <1>3
  <2> HIDE DEF out, back, P
  <2>4. CASE k # n
    <3>1. control'[k] = control[k] /\ Src(k)' = Src(k)
      BY <1>4, <1>8, <2>4
    <3> HIDE DEF Src, Due
    <3> QED
      BY <2>2, <2>3, <3>1 DEF EdgeOK, out, back, P
  <2>5. CASE k = n /\ \E t \in tx_block_pool[n] : x = AnnounceTx(t)
    <3>1. PICK t \in tx_block_pool[n] : x = AnnounceTx(t)
      BY <2>5
    <3>2. t \in TxBlocks /\ \A u : AnnounceTx(u) = x => u = t
      BY <1>10, <3>1, Distinct
    <3>3. TxInHand(n) = TxInHand(n)' \cup {t} /\ t \notin TxInHand(n)'
      BY <1>6, <1>7, <3>1, <3>2 DEF TxInHand, H
    <3>4. Src(n)' = Src(n) \cup {t}
      BY <1>3, <3>1, <3>3 DEF Src
    <3> HIDE DEF Src, Due
    <3>5. InOrder(Append(control[k], x), out, back, P, Src(n) \cup {t}, Due')
      BY <2>1, <2>2, <2>5, <3>1, <3>2, TxAnnounced
    <3> QED
      BY <1>4, <2>3, <2>5, <3>4, <3>5 DEF EdgeOK, out, back, P
  <2>6. CASE k = n /\ \E b \in tree[n].blocks : x = Announce(b)
    <3>1. PICK b \in tree[n].blocks : x = Announce(b)
      BY <2>6
    <3>2. b \in ProposerBlocks /\ \A u : AnnounceTx(u) # x
      BY <1>10, <3>1, Distinct
    <3>3. Src(n)' = Src(n)
      BY <1>3, <1>6, <3>2 DEF Src, TxInHand, H
    <3>4. Due'[b] \subseteq Src(n)
      BY <1>10, <1>11, <3>1, <3>2 DEF Due, Src, TxInHand, H
    <3> HIDE DEF Src, Due
    <3>5. InOrder(Append(control[k], x), out, back, P, Src(n), Due')
      BY <2>1, <2>2, <2>6, <3>1, <3>2, <3>4, BlockAnnounced
    <3> QED
      BY <1>4, <2>3, <2>6, <3>3, <3>5 DEF EdgeOK, out, back, P
  <2> QED
    BY <1>12, <2>4, <2>5, <2>6
<1> QED
  BY <1>2, <1>3, <1>13, <1>14, <1>16, <1>17, <1>18 DEF OrderInv, EdgesOK
-----------------------------------------------------------------------------
(* The miner references what is in the pool when it scans it, and what its  *)
(* pool has, it keeps.                                                      *)
LEMMA PlanOrder ==
  ASSUME OrderInv, NEW n \in Nodes, Plans(n) PROVE OrderInv'
<1>1. TreesOK /\ ShapeOK /\ TreeOK(n) /\ RefsOK(n) /\ HandOK(n) /\ MinerRefs(n) /\ MinerOK(n)
  BY DEF OrderInv, TreesOK, TreeOK
<1>2. TreesOK'
  BY <1>1, PlanTrees
<1>3. UNCHANGED <<tree, orphan_handler, todo, alive, tx_block_pool, news, control, early, linked, link>>
  BY DEF Plans, ReadTip, PickTxBlocks, MineNothing, MineProposerBlock, workerVars, queueVars
<1>4. PICK r : /\ MinerMoves(n, r) /\ r.refs \subseteq miner[n].refs \cup tx_block_pool[n]
               /\ r.pc = "insert" => /\ r.block \in Children /\ Parent[r.block] = miner[n].base
                                      /\ Refs(r.block) = miner[n].refs
  BY <1>1, Planning
<1>5. miner'[n] = r /\ \A k \in Nodes : k # n => miner'[k] = miner[k]
  BY <1>1, <1>4, MinerMoved
<1>6. MinerRefs(n)'
  <2>1. miner[n].refs \subseteq tx_block_pool[n] /\ RefsUpTo[miner[n].base] \subseteq tx_block_pool[n]
    BY <1>1 DEF MinerRefs, MinerOK, RefsOK
  <2>2. r.pc = "insert" => RefsUpTo[r.block] \subseteq tx_block_pool[n]
    BY <1>4, <2>1, RefsUpToAre
  <2> QED
    BY <1>3, <1>4, <1>5, <2>1, <2>2 DEF MinerRefs
<1>7. HandOK(n)' /\ Src(n)' = Src(n)
  BY <1>1, <1>3 DEF HandOK, InHand, Src, TxInHand
<1>8. RefsOK(n)'
  BY <1>1, <1>3, RefsKept
<1>9. Alone(n)
  BY <1>3, <1>5 DEF Alone
<1>10. Quiet(n)
  BY <1>3, <1>7, <1>9, AloneQuiet
<1> QED
  BY <1>2, <1>3, <1>6, <1>7, <1>8, <1>9, <1>10, LocalEdges, AloneOrder

(* The miner finds a block, and stores it before it announces it. *)
LEMMA MinedOrder ==
  ASSUME OrderInv, NEW n \in Nodes, InsertMined(n) \/ \E t \in TxBlocks : MineTxBlock(n, t)
  PROVE  OrderInv'
<1>1. TreesOK /\ ShapeOK /\ TreeOK(n) /\ RefsOK(n) /\ MinerRefs(n) /\ MinerOK(n)
  BY DEF OrderInv, TreesOK, TreeOK
<1>2. TreesOK'
  BY <1>1, PlanTrees, MinerTrees
<1>3. /\ UNCHANGED <<orphan_handler, todo, alive, control, early, linked, link>>
      /\ MinerMoves(n, IdleMiner) /\ miner[n].pc # "tip"
  BY IdleIs DEF InsertMined, MineTxBlock, workerVars, queueVars, MinerMoves
<1>4. /\ miner'[n] = IdleMiner /\ \A k \in Nodes : k # n => miner'[k] = miner[k]
      /\ news[<<n, "miner">>] = {}
  BY <1>1, <1>3, MinerMoved DEF MinerOK
<1>5. MinerRefs(n)'
  BY <1>4, IdleIs DEF MinerRefs
<1>6. CASE InsertMined(n)
  <2> DEFINE b == miner[n].block
  <2>1. Insert(n, b) /\ Stored(n, "miner", "NewProposerBlockHashes", b) /\ UNCHANGED tx_block_pool
        /\ miner[n].pc = "insert"
    BY <1>6 DEF InsertMined
  <2>2. /\ b \in Children /\ Parent[b] \in tree[n].blocks /\ b \in ProposerBlocks
        /\ RefsUpTo[b] \subseteq tx_block_pool[n]
    BY <1>1, <2>1 DEF MinerOK, MinerRefs, Children
  <2> HIDE DEF b
  <2>3. /\ tree'[n].blocks = tree[n].blocks \cup {b}
        /\ \A k \in Nodes : k # n => tree'[k] = tree[k]
    BY <1>1, <2>1, <2>2, Inserting
  <2>4. /\ HandOK(n)' /\ Src(n)' = Src(n)
        /\ \A k \in Nodes, v \in Threads : k # n => news'[<<k, v>>] = news[<<k, v>>]
    BY <1>3, <1>4, <2>1, <2>2, <2>3, BlockStored DEF Threads
  <2>5. Alone(n)
    BY <1>3, <1>4, <2>1, <2>3, <2>4 DEF Alone
  <2>6. RefsOK(n)'
    <3>1. Due' = Due
      BY <1>3 DEF Due
    <3> HIDE DEF Due
    <3> QED
      BY <1>1, <1>3, <2>1, <2>2, <2>3, <3>1 DEF RefsOK, RefsIn
  <2>7. Quiet(n)
    BY <1>3, <2>1, <2>4, <2>5, AloneQuiet
  <2> QED
    BY <1>2, <1>3, <1>5, <2>4, <2>5, <2>6, <2>7, LocalEdges, AloneOrder
<1>7. ASSUME NEW t \in TxBlocks, MineTxBlock(n, t) PROVE OrderInv'
  <2>1. /\ tx_block_pool' = [tx_block_pool EXCEPT ![n] = @ \cup {t}]
        /\ Stored(n, "miner", "NewTransactionBlockHashes", t) /\ UNCHANGED tree
        /\ t \notin tx_block_pool[n] /\ n \in alive
    BY <1>7 DEF MineTxBlock
  <2>2. /\ tx_block_pool'[n] = tx_block_pool[n] \cup {t}
        /\ \A k \in Nodes : k # n => tx_block_pool'[k] = tx_block_pool[k]
    BY <1>1, <2>1 DEF ShapeOK
  <2>3. /\ HandOK(n)' /\ Src(n)' = Src(n)
        /\ \A k \in Nodes, v \in Threads : k # n => news'[<<k, v>>] = news[<<k, v>>]
    BY <1>3, <1>4, <2>1, <2>2, TxStored DEF Threads
  <2>4. Alone(n)
    BY <1>3, <1>4, <2>1, <2>2, <2>3 DEF Alone
  <2>5. RefsOK(n)'
    BY <1>1, <1>3, <2>1, <2>2, RefsKept
  <2>6. Quiet(n)
    BY <1>3, <2>2, <2>3, <2>4, AloneQuiet
  <2> QED
    BY <1>2, <1>3, <1>5, <2>3, <2>4, <2>5, <2>6, LocalEdges, AloneOrder
<1> QED
  BY <1>6, <1>7
-----------------------------------------------------------------------------
(* A step that moves nothing but messages on their way. *)
Unmoved == UNCHANGED <<tree, orphan_handler, tx_block_pool, todo, miner, news, alive, control,
                       early, linked>>
LEMMA UnmovedQuiet ==
  ASSUME OrderInv, NEW n \in Nodes, Unmoved
  PROVE  Quiet(n) /\ (TreesOK' /\ EdgesOK' => OrderInv')
<1>1. RefsOK(n)' /\ MinerRefs(n)' /\ HandOK(n)' /\ Src(n)' = Src(n)
  BY NodeKept DEF Unmoved, OrderInv
<1>2. Alone(n)
  BY DEF Unmoved, Alone
<1>3. Quiet(n)
  BY <1>1, <1>2, AloneQuiet DEF Unmoved
<1> QED
  BY <1>1, <1>2, <1>3, AloneOrder

(* A worker writes back, or does not: GetTransactionBlocks always does.     *)
LEMMA AnswerOrder ==
  ASSUME OrderInv, NEW n \in Nodes, NEW m \in Nodes, WritesIf(n, m)
  PROVE  OrderInv'
<1> DEFINE x == Received(n, m)
           h == Head(link[<<m, n>>])
<1>1. TreesOK /\ ShapeOK /\ \A k \in Nodes : TreeOK(k) /\ RefsOK(k)
  BY DEF OrderInv, TreesOK
<1>2. TreesOK'
  BY <1>1, AnswerTrees
<1>3. ASSUME NEW type, Receives(n, m, type), NEW C, NEW kind, WriteIf(n, m, C, kind),
             Msg(kind, x) \in Messages,
             ~ C => \A t : h # RequestTx(t) /\ (h = AnnounceTx(t) => t \in tx_block_pool[n]),
             C => /\ \A t : /\ h = RequestTx(t) => Msg(kind, x) = DeliverTx(t)
                            /\ h = AnnounceTx(t) => Msg(kind, x) = RequestTx(t)
                            /\ Msg(kind, x) = RequestTx(t) => h = AnnounceTx(t)
                  /\ \A b \in ProposerBlocks :
                            /\ Msg(kind, x) = Request(b) => h = Announce(b)
                            /\ Msg(kind, x) = Deliver(b) => h = Request(b)
                  /\ \A y : Msg(kind, x) # Announce(y) /\ Msg(kind, x) # AnnounceTx(y),
             \A t : h # DeliverTx(t)
      PROVE  OrderInv'
  <2>1. Unmoved /\ IF C THEN Answer(n, m, kind, x) ELSE Discard(n, m)
    BY <1>3 DEF WriteIf, Unmoved, workerVars, queueVars
  <2>2. Quiet(n)
    BY <2>1, UnmovedQuiet
  <2>3. <<m, n>> \in Edges /\ link[<<m, n>>] # <<>>
    BY <1>1, <1>3, Receiving
  <2>4. \/ Silent(n, m) /\ ~ C
        \/ Answers(n, m, Msg(kind, x)) /\ C
    BY <1>1, <1>3, <2>1, Receiving
  <2> HIDE DEF h, x
  <2>5. EdgesOK'
    <3>1. CASE Silent(n, m) /\ ~ C
      BY <1>3, <2>2, <2>3, <3>1, HandledEdges DEF h
    <3>2. CASE Answers(n, m, Msg(kind, x)) /\ C
      BY <1>3, <2>2, <2>3, <3>2, HandledEdges DEF h
    <3> QED
      BY <2>4, <3>1, <3>2
  <2> QED
    BY <1>2, <2>1, <2>5, UnmovedQuiet
<1>4. ASSUME NEW type, Receives(n, m, type)
      PROVE  /\ h \in Messages /\ h.type = type /\ h.item = x /\ Has(link[<<m, n>>], h)
             /\ Known(control[n], link[<<n, m>>], link[<<m, n>>], Src(n))
  <2>1. <<n, m>> \in Edges /\ link[<<m, n>>] \in Seq(Messages) /\ link[<<m, n>>] # <<>> /\ h.type = type
    BY <1>1, <1>4, Receiving
  <2>2. Known(control[n], link[<<n, m>>], link[<<m, n>>], Src(n))
    BY <2>1 DEF OrderInv, EdgesOK, EdgeOK, InOrder
  <2> QED
    BY <2>1, <2>2, TailHas DEF Received
<1> HIDE DEF h, x
<1>5. CASE NewProposerBlockHashes(n, m)
  <2>1. Receives(n, m, "NewProposerBlockHashes")
        /\ WriteIf(n, m, x \notin tree[n].blocks, "GetProposerBlocks")
    BY <1>5 DEF NewProposerBlockHashes, x
  <2>2. h = Announce(x) /\ Msg("GetProposerBlocks", x) = Request(x) /\ Request(x) \in Messages
    BY <1>4, <2>1, Kinds, AreMessages DEF Request
  <2> QED
    BY <1>3, <2>1, <2>2, Distinct
<1>6. CASE GetProposerBlocks(n, m)
  <2>1. Receives(n, m, "GetProposerBlocks") /\ WriteIf(n, m, x \in tree[n].blocks, "ProposerBlocks")
    BY <1>6 DEF GetProposerBlocks, x
  <2>2. h = Request(x) /\ Msg("ProposerBlocks", x) = Deliver(x) /\ Deliver(x) \in Messages
    BY <1>4, <2>1, Kinds, AreMessages DEF Deliver
  <2> QED
    BY <1>3, <2>1, <2>2, Distinct
<1>7. CASE NewTransactionBlockHashes(n, m)
  <2>1. Receives(n, m, "NewTransactionBlockHashes")
        /\ WriteIf(n, m, x \notin tx_block_pool[n], "GetTransactionBlocks")
    BY <1>7 DEF NewTransactionBlockHashes, x
  <2>2. h = AnnounceTx(x) /\ Msg("GetTransactionBlocks", x) = RequestTx(x) /\ RequestTx(x) \in Messages
    BY <1>4, <2>1, Kinds, AreMessages DEF RequestTx
  <2> DEFINE C == x \notin tx_block_pool[n]
  <2>3. ~ C => \A t : h # RequestTx(t) /\ (h = AnnounceTx(t) => t \in tx_block_pool[n])
    BY <2>2, Distinct
  <2>4. /\ \A t : /\ h # RequestTx(t) /\ h # DeliverTx(t)
                  /\ h = AnnounceTx(t) <=> RequestTx(x) = RequestTx(t)
        /\ \A y : RequestTx(x) \notin {Request(y), Deliver(y), Announce(y), AnnounceTx(y)}
    BY <2>2, Distinct
  <2>5. WriteIf(n, m, C, "GetTransactionBlocks")
    BY <2>1
  <2> HIDE DEF C
  <2> QED
    BY <1>3, <2>1, <2>2, <2>3, <2>4, <2>5
<1>8. CASE GetTransactionBlocks(n, m)
  <2>1. Receives(n, m, "GetTransactionBlocks") /\ WriteIf(n, m, x \in tx_block_pool[n], "TransactionBlocks")
    BY <1>8 DEF GetTransactionBlocks, x
  <2>2. h = RequestTx(x) /\ Msg("TransactionBlocks", x) = DeliverTx(x) /\ DeliverTx(x) \in Messages
    BY <1>4, <2>1, Kinds, AreMessages DEF DeliverTx
  <2>3. x \in tx_block_pool[n]
    BY <1>4, <2>1, <2>2 DEF Known, Src
  <2> DEFINE C == x \in tx_block_pool[n]
  <2>4. /\ \A t : /\ h # AnnounceTx(t) /\ h # DeliverTx(t) /\ DeliverTx(x) # RequestTx(t)
                  /\ h = RequestTx(t) => DeliverTx(x) = DeliverTx(t)
        /\ \A y : DeliverTx(x) \notin {Request(y), Deliver(y), Announce(y), AnnounceTx(y)}
    BY <2>2, Distinct
  <2>5. WriteIf(n, m, C, "TransactionBlocks") /\ C
    BY <2>1, <2>3
  <2> HIDE DEF C
  <2> QED
    BY <1>3, <2>1, <2>2, <2>4, <2>5
<1> QED
  BY <1>5, <1>6, <1>7, <1>8 DEF WritesIf
-----------------------------------------------------------------------------
(* Blocks with what is due in a pool, as sequences are put together.        *)
WithRefs(P) == {b \in Children : Due[b] \subseteq P}
LEMMA RefsInIs ==
  ASSUME NEW s \in Seq(Children), NEW P
  PROVE  RefsIn(s, P) <=> s \in Seq(WithRefs(P))
<1>1. RefsIn(s, P) => \A i \in DOMAIN s : s[i] \in WithRefs(P)
  BY DEF RefsIn, WithRefs
<1>2. DOMAIN s = 1..Len(s) /\ Len(s) \in Nat /\ s = [i \in 1..Len(s) |-> s[i]]
  OBVIOUS
<1>3. RefsIn(s, P) => s \in Seq(WithRefs(P))
  BY <1>1, <1>2
<1>4. s \in Seq(WithRefs(P)) => \A i \in DOMAIN s : s[i] \in WithRefs(P)
  OBVIOUS
<1> QED
  BY <1>3, <1>4 DEF RefsIn, WithRefs

LEMMA OrphanRefs ==
  ASSUME NEW n \in Nodes, TreeOK(n), RefsOK(n), NEW p
  PROVE  Orphans(n, p) \in Seq(Children) /\ RefsIn(Orphans(n, p), tx_block_pool[n])
<1>1. RefsIn(<<>>, tx_block_pool[n])
  BY DEF RefsIn
<1> QED
  BY <1>1, OrphansAre DEF Orphans, RefsOK

(* The critical sections of a block with all that is due there: the worker  *)
(* panics only when something was announced late.                           *)
LEMMA ProcessOrder ==
  ASSUME OrderInv, NEW n \in Nodes, NEW b \in Children, Parent[b] \in tree[n].blocks,
         Due[b] \subseteq tx_block_pool[n], NEW rest \in Seq(Children), n \in alive,
         RefsIn(rest, tx_block_pool[n]), Process(n, b, rest), news[<<n, "worker">>] = {},
         UNCHANGED <<tx_block_pool, miner, control, early, linked>>
  PROVE  Quiet(n) /\ Alone(n) /\ RefsOK(n)' /\ MinerRefs(n)' /\ HandOK(n)'
<1>1. TreesOK /\ ShapeOK /\ TreeOK(n) /\ RefsOK(n) /\ MinerRefs(n) /\ HandOK(n) /\ b \in ProposerBlocks
  BY DEF OrderInv, TreesOK, Children
<1>2. Due' = Due /\ MinerRefs(n)'
  BY <1>1 DEF Due, MinerRefs
<1>3. RefsUpTo[b] = Refs(b) \cup RefsUpTo[Parent[b]] /\ RefsUpTo[Parent[b]] \subseteq tx_block_pool[n]
  BY <1>1, RefsUpToAre DEF RefsOK
<1>4. RefMissing(tx_block_pool[n], b) => \E e \in early : e[2] \in Refs(e[1]) \ tx_block_pool[n]
  <2> SUFFICES ASSUME NEW t \in Refs(b), t \notin tx_block_pool[n]
               PROVE  \E e \in early : e[2] \in Refs(e[1]) \ tx_block_pool[n]
    BY DEF RefMissing, Refs, ToSet
  <2>1. <<b, t>> \in early
    BY <1>1, <1>3 DEF Due
  <2> DEFINE e == <<b, t>>
  <2>2. e[1] = b /\ e[2] = t
    OBVIOUS
  <2> HIDE DEF e
  <2> QED
    BY <2>1, <2>2 DEF e
<1> HIDE DEF Due
<1>5. CASE ~ Verified(tx_block_pool[n], b)
  <2>1. /\ alive' = IF RefMissing(tx_block_pool[n], b) THEN alive \ {n} ELSE alive
        /\ todo' = [todo EXCEPT ![n] = rest] /\ UNCHANGED <<tree, orphan_handler, news>>
    BY <1>5 DEF Process
  <2>2. todo'[n] = rest /\ \A k \in Nodes : k # n => todo'[k] = todo[k]
    BY <1>1, <2>1 DEF ShapeOK
  <2>3. HandOK(n)' /\ Src(n)' = Src(n)
    BY <1>1, <2>1 DEF HandOK, InHand, Src, TxInHand
  <2>4. Alone(n)
    BY <2>1, <2>2 DEF Alone
  <2>5. Quiet(n)
    BY <2>3, <2>4, AloneQuiet
  <2>6. RefsOK(n)'
    BY <1>1, <1>2, <1>4, <2>1, <2>2 DEF RefsOK, RefsIn
  <2> QED
    BY <1>2, <2>3, <2>4, <2>5, <2>6
<1>6. CASE Verified(tx_block_pool[n], b)
  <2>1. /\ Insert(n, b) /\ Stored(n, "worker", "NewProposerBlockHashes", b)
        /\ orphan_handler' = [orphan_handler EXCEPT ![n] = Without(orphan_handler[n], b)]
        /\ todo' = [todo EXCEPT ![n] = Orphans(n, b) \o rest] /\ UNCHANGED alive
    BY <1>6 DEF Process
  <2>2. /\ tree'[n].blocks = tree[n].blocks \cup {b}
        /\ \A k \in Nodes : k # n => tree'[k] = tree[k]
    BY <1>1, <2>1, Inserting
  <2>3. /\ todo'[n] = Orphans(n, b) \o rest /\ \A k \in Nodes : k # n => todo'[k] = todo[k]
        /\ orphan_handler'[n] = Without(orphan_handler[n], b)
        /\ \A k \in Nodes : k # n => orphan_handler'[k] = orphan_handler[k]
    BY <1>1, <2>1 DEF ShapeOK
  <2>4. /\ HandOK(n)' /\ Src(n)' = Src(n)
        /\ \A k \in Nodes, v \in Threads : k # n => news'[<<k, v>>] = news[<<k, v>>]
    BY <1>1, <2>1, <2>2, BlockStored DEF Threads
  <2>5. Alone(n)
    BY <2>1, <2>2, <2>3, <2>4 DEF Alone
  <2>6. Quiet(n)
    BY <2>4, <2>5, AloneQuiet
  <2>7. RefsIn(Orphans(n, b) \o rest, tx_block_pool[n])
    <3> DEFINE s == Orphans(n, b)
               S == WithRefs(tx_block_pool[n])
    <3>1. s \in Seq(Children) /\ s \in Seq(S) /\ rest \in Seq(S)
      BY <1>1, OrphanRefs, RefsInIs
    <3> HIDE DEF s, S
    <3>2. s \o rest \in Seq(Children) /\ s \o rest \in Seq(S)
      BY <3>1
    <3> QED
      BY <3>2, RefsInIs DEF s, S
  <2>8. \A p \in DOMAIN orphan_handler'[n] :
           p \in DOMAIN orphan_handler[n] /\ orphan_handler'[n][p] = orphan_handler[n][p]
    BY <2>3 DEF Without
  <2>9. RefsUpTo[b] \subseteq tx_block_pool[n]
    BY <1>3, <1>6 DEF Verified, GoodRef
  <2>10. RefsOK(n)'
    BY <1>1, <1>2, <2>1, <2>2, <2>3, <2>7, <2>8, <2>9 DEF RefsOK, RefsIn
  <2> QED
    BY <1>2, <2>4, <2>5, <2>6, <2>10
<1> QED
  BY <1>5, <1>6

(* The worker takes up an orphan. *)
LEMMA AdoptOrder ==
  ASSUME OrderInv, NEW n \in Nodes, Adopt(n) PROVE OrderInv'
<1>1. /\ todo[n] # <<>> /\ Process(n, Head(todo[n]), Tail(todo[n]))
      /\ n \in alive /\ news[<<n, "worker">>] = {}
      /\ UNCHANGED <<tx_block_pool, miner, control, early, linked, link>>
  BY DEF Adopt, queueVars
<1>2. /\ todo[n] \in Seq(Children) /\ ParentsIn(todo[n], tree[n].blocks)
      /\ RefsIn(todo[n], tx_block_pool[n]) /\ TreesOK
  BY DEF OrderInv, TreesOK, ShapeOK, TreeOK, RefsOK
<1>3. /\ Tail(todo[n]) \in Seq(Children) /\ Head(todo[n]) \in Children
      /\ Parent[Head(todo[n])] \in tree[n].blocks
  BY <1>1, <1>2, Shortened
<1>4. /\ Due[Head(todo[n])] \subseteq tx_block_pool[n]
      /\ RefsIn(Tail(todo[n]), tx_block_pool[n])
  <2> DEFINE s == todo[n]
             S == WithRefs(tx_block_pool[n])
  <2>1. s # <<>> /\ s \in Seq(S)
    BY <1>1, <1>2, RefsInIs
  <2> HIDE DEF s, S
  <2>2. Head(s) \in S /\ Tail(s) \in Seq(S)
    BY <2>1
  <2> QED
    BY <1>3, <2>2, RefsInIs DEF WithRefs, s, S
<1>5. Quiet(n) /\ Alone(n) /\ RefsOK(n)' /\ MinerRefs(n)' /\ HandOK(n)'
  BY <1>1, <1>3, <1>4, ProcessOrder
<1>6. TreesOK'
  BY <1>2, AdoptTrees
<1> QED
  BY <1>1, <1>5, <1>6, LocalEdges, AloneOrder
-----------------------------------------------------------------------------
(* A proposer block that arrives finds the transaction blocks it needs, but *)
(* for those that were announced late.                                      *)
LEMMA ArrivesInOrder ==
  ASSUME OrderInv, NEW n \in Nodes, NEW m \in Nodes, Receives(n, m, "ProposerBlocks")
  PROVE  /\ Received(n, m) \in ProposerBlocks /\ Head(link[<<m, n>>]) = Deliver(Received(n, m))
         /\ Due[Received(n, m)] \subseteq tx_block_pool[n]
<1>1. /\ <<m, n>> \in Edges /\ link[<<m, n>>] \in Seq(Messages) /\ link[<<m, n>>] # <<>>
      /\ Head(link[<<m, n>>]) \in Messages /\ Head(link[<<m, n>>]).type = "ProposerBlocks"
  BY Receiving DEF OrderInv, TreesOK
<1>2. Received(n, m) \in ProposerBlocks /\ Head(link[<<m, n>>]) = Deliver(Received(n, m))
  BY <1>1, Kinds DEF Received
<1>3. DeliverOrder(link[<<m, n>>], tx_block_pool[n], Due)
  BY <1>1 DEF OrderInv, EdgesOK, EdgeOK, InOrder
<1>4. /\ 1 \in DOMAIN link[<<m, n>>] /\ link[<<m, n>>][1] = Head(link[<<m, n>>])
      /\ \A x : ~ Before(link[<<m, n>>], 1, x)
  BY <1>1, TailHas
<1> HIDE DEF Due
<1> QED
  BY <1>2, <1>3, <1>4 DEF DeliverOrder

(* What is due for a parent is due for its child. *)
LEMMA ParentDue ==
  ASSUME OrderInv, NEW b \in Children PROVE Due[Parent[b]] \subseteq Due[b]
  BY RefsUpToAre, BlockAssumption DEF OrderInv, EarlyOK, Due, Children

(* Transaction blocks and proposer blocks arrive. *)
LEMMA BlockOrder ==
  ASSUME OrderInv, NEW n \in Nodes, NEW m \in Nodes,
         TransactionBlocks(n, m) \/ KnownBlock(n, m) \/ OrphanBlock(n, m) \/ NewBlock(n, m)
  PROVE  OrderInv'
<1> DEFINE b == Received(n, m)
           h == Head(link[<<m, n>>])
<1>1. TreesOK /\ ShapeOK /\ \A k \in Nodes : TreeOK(k) /\ RefsOK(k) /\ MinerRefs(k) /\ HandOK(k)
  BY DEF OrderInv, TreesOK
<1>2. TreesOK'
  BY <1>1, BlockTrees
<1>3. ASSUME NEW type, Receives(n, m, type), Discard(n, m), Quiet(n),
             \A t : h = DeliverTx(t) => t \in tx_block_pool'[n],
             \A t : h # RequestTx(t) /\ h # AnnounceTx(t)
      PROVE  EdgesOK'
  <2>1. Silent(n, m) /\ <<m, n>> \in Edges /\ link[<<m, n>>] # <<>>
    BY <1>1, <1>3, Receiving
  <2> HIDE DEF h
  <2> QED
    BY <1>3, <2>1, HandledEdges DEF h
<1>4. Receives(n, m, "ProposerBlocks") => \A t : /\ h # RequestTx(t) /\ h # AnnounceTx(t)
                                                 /\ h # DeliverTx(t)
  BY ArrivesInOrder, Distinct
<1>5. CASE TransactionBlocks(n, m)
  <2>1. Receives(n, m, "TransactionBlocks") /\ Discard(n, m)
        /\ UNCHANGED <<tree, orphan_handler, todo, miner, linked, alive, control, early>>
    BY <1>5 DEF TransactionBlocks, workerVars, queueVars
  <2>2. b \in TxBlocks /\ h = DeliverTx(b)
    BY <1>1, <2>1, Receiving, Kinds DEF Received
  <2>3. \A t : h # RequestTx(t) /\ h # AnnounceTx(t) /\ (h = DeliverTx(t) => t = b)
    BY <2>2, Distinct
  <2>4. b \in InSortition
    BY <2>2, NetworkAssumption DEF NetworkAssumption
  <2>5. n \in alive /\ news[<<n, "worker">>] = {}
    BY <2>1 DEF Receives
  <2>6. CASE b \in tx_block_pool[n] /\ UNCHANGED <<tx_block_pool, news>>
    <3>1. Unmoved /\ b \in tx_block_pool'[n]
      BY <2>1, <2>6 DEF Unmoved
    <3>2. EdgesOK'
      BY <1>3, <2>1, <2>3, <3>1, UnmovedQuiet
    <3> QED
      BY <1>2, <3>1, <3>2, UnmovedQuiet
  <2>7. CASE /\ tx_block_pool' = [tx_block_pool EXCEPT ![n] = @ \cup {b}]
             /\ Stored(n, "worker", "NewTransactionBlockHashes", b) /\ b \notin tx_block_pool[n]
    <3>1. /\ tx_block_pool'[n] = tx_block_pool[n] \cup {b}
          /\ \A k \in Nodes : k # n => tx_block_pool'[k] = tx_block_pool[k]
      BY <1>1, <2>7 DEF ShapeOK
    <3>2. /\ HandOK(n)' /\ Src(n)' = Src(n)
          /\ \A k \in Nodes, v \in Threads : k # n => news'[<<k, v>>] = news[<<k, v>>]
      BY <2>1, <2>2, <2>5, <2>7, <3>1, TxStored DEF Threads
    <3>3. Alone(n)
      BY <2>1, <3>1, <3>2 DEF Alone
    <3>4. Quiet(n) /\ b \in tx_block_pool'[n]
      BY <2>1, <3>1, <3>2, <3>3, AloneQuiet
    <3>5. EdgesOK'
      BY <1>3, <2>1, <2>3, <3>4
    <3>6. RefsOK(n)'
      BY <1>1, <2>1, <2>5, <3>1, RefsKept
    <3>7. MinerRefs(n)'
      BY <1>1, <2>1, <3>1 DEF MinerRefs
    <3> QED
      BY <1>2, <3>2, <3>3, <3>4, <3>5, <3>6, <3>7, AloneOrder
  <2> QED
    BY <1>5, <2>4, <2>6, <2>7 DEF TransactionBlocks
<1>6. CASE KnownBlock(n, m)
  <2>1. Receives(n, m, "ProposerBlocks") /\ Discard(n, m) /\ Unmoved
    BY <1>6 DEF KnownBlock, workerVars, queueVars, Unmoved
  <2>2. EdgesOK'
    BY <1>3, <1>4, <2>1, UnmovedQuiet
  <2> QED
    BY <1>2, <2>1, <2>2, UnmovedQuiet
<1>7. CASE OrphanBlock(n, m)
  <2> DEFINE p == Parent[b]
             s == Append(Orphans(n, p), b)
             P == tx_block_pool[n]
  <2>1. /\ Receives(n, m, "ProposerBlocks") /\ b \notin tree[n].blocks
        /\ orphan_handler' = [orphan_handler EXCEPT ![n] = Put(orphan_handler[n], p, s)]
        /\ Answer(n, m, "GetProposerBlocks", p)
        /\ UNCHANGED <<tree, tx_block_pool, todo, miner, news, linked, alive, control, early>>
    BY <1>7 DEF OrphanBlock, queueVars
  <2>2. b \in Children /\ p \in ProposerBlocks
    BY <1>1, <2>1, BlockReceived, BlockAssumption
  <2>3. Due[b] \subseteq P /\ Due[p] \subseteq P
    BY <2>1, <2>2, ArrivesInOrder, ParentDue
  <2>4. s \in Seq(Children) /\ RefsIn(s, P)
    <3> DEFINE r == Orphans(n, p)
               S == WithRefs(P)
    <3>1. r \in Seq(Children) /\ r \in Seq(S) /\ b \in S
      BY <1>1, <2>2, <2>3, OrphanRefs, RefsInIs DEF WithRefs
    <3> HIDE DEF r, S
    <3>2. Append(r, b) \in Seq(Children) /\ Append(r, b) \in Seq(S)
      BY <2>2, <3>1
    <3> QED
      BY <3>2, RefsInIs DEF r, S
  <2> HIDE DEF s
  <2>5. /\ orphan_handler'[n] = Put(orphan_handler[n], p, s)
        /\ \A k \in Nodes : k # n => orphan_handler'[k] = orphan_handler[k]
    BY <1>1, <2>1 DEF ShapeOK
  <2>6. RefsOK(n)'
    <3>1. ASSUME NEW q \in DOMAIN orphan_handler'[n]
          PROVE  orphan_handler'[n][q] = s
                 \/ (q \in DOMAIN orphan_handler[n] /\ orphan_handler'[n][q] = orphan_handler[n][q])
      BY <2>5 DEF Put
    <3>2. Due' = Due
      BY <2>1 DEF Due
    <3> HIDE DEF Due
    <3>3. \A q \in DOMAIN orphan_handler'[n] : RefsIn(orphan_handler'[n][q], P)
      BY <1>1, <2>4, <3>1 DEF RefsOK
    <3> QED
      BY <1>1, <2>1, <3>2, <3>3 DEF RefsOK, RefsIn
  <2>7. HandOK(n)' /\ Src(n)' = Src(n) /\ MinerRefs(n)'
    BY <1>1, <2>1 DEF HandOK, InHand, Src, TxInHand, MinerRefs
  <2>8. Alone(n)
    BY <2>1, <2>5 DEF Alone
  <2>9. Quiet(n)
    BY <2>1, <2>7, <2>8, AloneQuiet
  <2>10. EdgesOK'
    <3>1. /\ Answers(n, m, Request(p)) /\ <<m, n>> \in Edges /\ link[<<m, n>>] # <<>>
      BY <1>1, <2>1, <2>2, Receiving, AreMessages DEF Request
    <3>2. \A t : h # RequestTx(t) /\ h # AnnounceTx(t) /\ h # DeliverTx(t)
      BY <1>4, <2>1
    <3>3. /\ \A t : Request(p) # RequestTx(t) /\ Request(p) # Deliver(t)
                    /\ Request(p) # Announce(t) /\ Request(p) # AnnounceTx(t)
          /\ \A c : Request(p) = Request(c) => Due[c] \subseteq P
      BY <2>3, Distinct
    <3> DEFINE x == Request(p)
    <3> HIDE DEF h, x, Due
    <3>4. /\ Answers(n, m, x)
          /\ \A t : /\ x # RequestTx(t) /\ x # Deliver(t) /\ x # Announce(t) /\ x # AnnounceTx(t)
          /\ \A c : x = Request(c) => Due[c] \subseteq P
      BY <3>1, <3>3 DEF x
    <3> QED
      BY <2>9, <3>1, <3>2, <3>4, HandledEdges DEF h
  <2> QED
    BY <1>2, <2>6, <2>7, <2>8, <2>9, <2>10, AloneOrder
<1>8. CASE NewBlock(n, m)
  <2>1. /\ Receives(n, m, "ProposerBlocks") /\ b \notin tree[n].blocks /\ Parent[b] \in tree[n].blocks
        /\ Process(n, b, <<>>) /\ Discard(n, m)
        /\ UNCHANGED <<tx_block_pool, miner, control, early, linked>>
    BY <1>8 DEF NewBlock, queueVars
  <2>2. b \in Children /\ Due[b] \subseteq tx_block_pool[n]
    BY <1>1, <2>1, BlockReceived, ArrivesInOrder
  <2>3. RefsIn(<<>>, tx_block_pool[n]) /\ n \in alive /\ news[<<n, "worker">>] = {}
    BY <2>1 DEF RefsIn, Receives
  <2>4. Quiet(n) /\ Alone(n) /\ RefsOK(n)' /\ MinerRefs(n)' /\ HandOK(n)'
    BY <2>1, <2>2, <2>3, Empty, ProcessOrder
  <2>5. EdgesOK'
    BY <1>3, <1>4, <2>1, <2>4
  <2> QED
    BY <1>2, <2>4, <2>5, AloneOrder
<1> QED
  BY <1>5, <1>6, <1>7, <1>8
-----------------------------------------------------------------------------
(* No block has been found when the nodes start, and all connections are    *)
(* there.                                                                   *)
LEMMA OrderStart == Linked = Edges /\ NetworkInit => OrderInv
<1> SUFFICES ASSUME Linked = Edges, NetworkInit PROVE OrderInv
  OBVIOUS
<1>1. TreesOK /\ linked = Edges /\ early = {}
  BY TreesStart DEF NetworkInit
<1>2. ASSUME NEW n \in Nodes PROVE RefsOK(n) /\ MinerRefs(n) /\ HandOK(n)
  <2>1. /\ tree[n].blocks = {Genesis} /\ todo[n] = <<>> /\ DOMAIN orphan_handler[n] = {}
        /\ n \in alive /\ miner[n] = IdleMiner
        /\ news[<<n, "worker">>] = {} /\ news[<<n, "miner">>] = {}
    BY DEF NetworkInit, Threads
  <2>2. RefsOK(n)
    BY <2>1, RefsUpToAre DEF RefsOK, RefsIn
  <2> QED
    BY <2>1, <2>2, IdleIs DEF MinerRefs, HandOK, InHand
<1>3. ASSUME NEW n \in Nodes, NEW m \in Nodes, <<n, m>> \in Edges PROVE EdgeOK(n, m)
  <2>1. <<m, n>> \in Edges
    BY <1>1, <1>3, EdgeFacts
  <2>2. /\ control[n] = <<>> /\ link[<<n, m>>] = <<>> /\ link[<<m, n>>] = <<>> /\ Src(n) = {}
    BY <1>3, <2>1 DEF NetworkInit, Src
  <2> QED
    BY <2>2 DEF EdgeOK, InOrder, Pending, QueueOrder, AnnounceOrder, RequestOrder, DeliverOrder,
                Known, OnlyNews, Has
<1> QED
  BY <1>1, <1>2, <1>3 DEF OrderInv, EdgesOK, EarlyOK

(* Every step keeps the order. *)
LEMMA OrderStep ==
  ASSUME OrderInv, [NetworkNext]_netVars PROVE OrderInv'
<1>1. CASE UNCHANGED netVars
  <2>1. TreesOK'
    BY <1>1, TreesStep DEF OrderInv
  <2>2. Unmoved /\ link' = link
    BY <1>1 DEF netVars, Unmoved
  <2>3. Nodes # {}
    BY NetworkAssumption DEF NetworkAssumption
  <2> QED
    BY <2>1, <2>2, <2>3, UnmovedQuiet, LocalEdges
<1>2. ASSUME NEW n \in Nodes,
             \/ ProcessBroadcast(n) \/ Adopt(n) \/ Mine(n)
             \/ \E w \in Threads : Broadcast(n, w)
             \/ \E m \in Nodes : Handle(n, m) \/ Connect(n, m)
      PROVE  OrderInv'
  <2>1. CASE ProcessBroadcast(n)
    BY <2>1, BroadcastOrder
  <2>2. CASE Adopt(n)
    BY <2>2, AdoptOrder
  <2>3. CASE Mine(n)
    BY <2>3, PlanOrder, MinedOrder DEF Mine, Plans
  <2>4. CASE \E m \in Nodes : WritesIf(n, m)
    BY <2>4, AnswerOrder
  <2>5. CASE \E m \in Nodes :
                TransactionBlocks(n, m) \/ KnownBlock(n, m) \/ OrphanBlock(n, m) \/ NewBlock(n, m)
    BY <2>5, BlockOrder
  <2>6. CASE \E m \in Nodes : Connect(n, m)
    BY <2>6 DEF Connect, OrderInv
  <2>7. CASE \E w \in Threads : Broadcast(n, w)
    BY <2>7, BroadcastingOrder
  <2> QED
    BY <1>2, <2>1, <2>2, <2>3, <2>4, <2>5, <2>6, <2>7 DEF Handle, WritesIf
<1> QED
  BY <1>1, <1>2 DEF NetworkNext

(* If all connections are there from the start, a worker that panics on a   *)
(* reference lacks a transaction block that one thread of some node was to  *)
(* announce when the other announced a proposer block above it: nothing     *)
(* else overtakes, whatever the nodes, the connections and the miners.      *)
THEOREM TxBlocksComeFirstCorrect ==
  ASSUME Linked = Edges
  PROVE  NetworkSpec => []TxBlocksComeFirst
<1>1. NetworkInit => OrderInv
  BY OrderStart
<1>2. OrderInv /\ [NetworkNext]_netVars => OrderInv'
  BY OrderStep
<1>3. OrderInv => TxBlocksComeFirst
  BY DEF OrderInv, TxBlocksComeFirst, RefsOK
<1> QED
  BY <1>1, <1>2, <1>3, PTL DEF NetworkSpec
=============================================================================
