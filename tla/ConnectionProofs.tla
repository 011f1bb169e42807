-------------------------- MODULE ConnectionProofs --------------------------
(***************************************************************************)
(* For any messages and any sizes of the buffers:                          *)
(* - no wake-up is lost on a connection.  With the fairness of the event   *)
(*   loops this is the safety half of the argument that everything is      *)
(*   delivered;                                                            *)
(* - a connection is a Fifo.  The messages that are neither in the queue   *)
(*   nor delivered are on the way, frame after frame, whatever pieces      *)
(*   these are cut into.                                                   *)
(***************************************************************************)
EXTENDS Connection, SequenceTheorems, TLAPS

(* Either the queue or the socket calls the sender's event loop; the queue  *)
(* only after the writer has drained everything, and the socket even if     *)
(* there is nothing to write, since the queue may fill meanwhile.           *)
Registered ==
    /\ write_armed \in BOOLEAN /\ queue_armed \in BOOLEAN
    /\ write_armed <=> ~ queue_armed
    /\ queue_armed /\ queue # <<>> => "queue" \in events
    /\ queue_armed => writer_pc = "idle" /\ PayloadWritten
    /\ writer_pc = "complete" => PayloadWritten
    /\ "queue" \in events => queue_armed
    /\ "writable" \in events => write_armed
    /\ writer_pc = "idle" /\ write_armed => "writable" \in events \/ Room = 0

WakeInv == Registered /\ ReceiverWakes

(* The invariant contains the property.                                     *)
LEMMA WakesUp == WakeInv => NoLostWakeup
  BY DEF WakeInv, Registered, NoLostWakeup, SenderWakes, Unfinished, PayloadWritten

(* A new connection is registered at both ends (server.rs:53-98).           *)
LEMMA WakeInit == ConnInit => WakeInv
<1> SUFFICES ASSUME ConnInit PROVE WakeInv
  OBVIOUS
<1>1. PayloadWritten
  BY DEF ConnInit, PayloadWritten, Slice, Drop
<1> QED
  BY <1>1 DEF ConnInit, WakeInv, Registered, ReceiverWakes

(* What depends on the writer's or the pipe's state only. *)
LEMMA WriterKept ==
  ASSUME UNCHANGED <<writer, writer_buf>> PROVE PayloadWritten' = PayloadWritten
<1>1. Slice' = Slice
  BY DEF Slice, Drop
<1> QED
  BY <1>1 DEF PayloadWritten

(* The same for the room in the sockets.                                    *)
LEMMA RoomKept == ASSUME UNCHANGED pipe PROVE Room' = Room
  BY DEF Room

(* The sender's event loop and the writers leave the receiver alone, but    *)
(* for the event that goes with new bytes.                                  *)
LEMMA ReceiverKept ==
  ASSUME WakeInv, UNCHANGED <<reader_pc, reader_buf>>,
         UNCHANGED <<pipe, open>> \/ "readable" \in events',
         "readable" \in events => "readable" \in events'
  PROVE  ReceiverWakes'
  BY DEF WakeInv, ReceiverWakes

(* A message for a registered queue is an event, for another one not.       *)
LEMMA WriteStep == ASSUME WakeInv, NEW m \in Messages, Write(m) PROVE WakeInv'
<1>1. /\ UNCHANGED <<writer, writer_buf, writer_pc, queue_armed, write_armed, pipe, open>>
      /\ UNCHANGED <<reader_pc, reader_buf>>
      /\ events' = IF queue_armed THEN events \cup {"queue"} ELSE events
  BY DEF Write, receiverVars
<1>2. Registered'
  BY <1>1, WriterKept, RoomKept DEF WakeInv, Registered
<1> QED
  BY <1>1, <1>2, ReceiverKept DEF WakeInv

(* The queue hands over to the socket.                                      *)
LEMMA RegisterStep == ASSUME WakeInv, RegisterWriteInterest PROVE WakeInv'
<1>1. /\ UNCHANGED <<queue, writer, writer_buf, writer_pc, pipe, open, reader_pc, reader_buf>>
      /\ writer_pc = "idle" /\ "queue" \in events
      /\ queue_armed' = FALSE /\ write_armed' = TRUE
      /\ events' = (events \ {"queue"}) \cup {e \in {"writable"} : Room # 0}
  BY DEF RegisterWriteInterest, receiverVars
<1>2. PayloadWritten' /\ Room' = Room
  BY <1>1, WriterKept, RoomKept DEF WakeInv, Registered
<1>3. Registered'
  BY <1>1, <1>2 DEF WakeInv, Registered
<1> QED
  BY <1>1, <1>3, ReceiverKept DEF WakeInv

(* The event is gone, but the event loop is at work.                        *)
LEMMA ProcessWritableStep == ASSUME WakeInv, ProcessWritable PROVE WakeInv'
<1>1. /\ UNCHANGED <<queue, writer, writer_buf, queue_armed, write_armed>>
      /\ UNCHANGED <<pipe, open, reader_pc, reader_buf>>
      /\ writer_pc = "idle" /\ "writable" \in events
      /\ writer_pc' = "write" /\ events' = events \ {"writable"}
  BY DEF ProcessWritable, receiverVars
<1>2. Registered'
  BY <1>1 DEF WakeInv, Registered
<1> QED
  BY <1>1, <1>2, ReceiverKept DEF WakeInv

(* In WriteContext::write the socket is registered, the queue is not.       *)
LEMMA InWriteArmed == ASSUME WakeInv, InWrite PROVE write_armed /\ ~ queue_armed
  BY DEF WakeInv, Registered, InWrite

(* The steps of the loop in WriteContext::write that stay in it.            *)
LEMMA LoopStep ==
  ASSUME WakeInv, InWrite,
         UNCHANGED <<writer_pc, queue_armed, write_armed, open, reader_pc, reader_buf>>,
         \/ UNCHANGED <<pipe, events>>
         \/ events' = events \cup {"readable"}
  PROVE  WakeInv'
<1>1. Registered'
  BY InWriteArmed DEF WakeInv, Registered, InWrite
<1> QED
  BY <1>1, ReceiverKept DEF WakeInv

(* The actions in the loop are such steps.                                  *)
LEMMA FlushStep == ASSUME WakeInv, NEW n, Flush(n) PROVE WakeInv'
  BY LoopStep DEF Flush, IntoPipe, OnlyWriter, receiverVars

(* Another one: bytes that bypass the BufWriter.                            *)
LEMMA WriteThroughStep == ASSUME WakeInv, NEW n, WriteThrough(n) PROVE WakeInv'
  BY LoopStep DEF WriteThrough, IntoPipe, OnlyWriter, receiverVars

(* Another one: bytes that stay in the BufWriter.                           *)
LEMMA WriteBufferedStep == ASSUME WakeInv, WriteBuffered PROVE WakeInv'
  BY LoopStep DEF WriteBuffered, OnlyWriter, receiverVars

(* Another one: the length is written.                                      *)
LEMMA LengthWrittenStep == ASSUME WakeInv, LengthWritten PROVE WakeInv'
  BY LoopStep DEF LengthWritten, OnlyWriter, receiverVars

(* Another one: a message leaves the queue.                                 *)
LEMMA NextMessageStep == ASSUME WakeInv, NextMessage PROVE WakeInv'
  BY LoopStep DEF NextMessage, receiverVars

(* WouldBlock: the sockets are full, and the socket stays registered.       *)
LEMMA WriteBlocksStep == ASSUME WakeInv, WriteBlocks PROVE WakeInv'
<1>1. /\ UNCHANGED <<queue, writer, writer_buf, queue_armed, write_armed, events>>
      /\ UNCHANGED <<pipe, open, reader_pc, reader_buf>>
      /\ InWrite /\ Room = 0 /\ writer_pc' = "idle"
  BY DEF WriteBlocks, receiverVars
<1>2. write_armed /\ ~ queue_armed /\ Room' = 0
  BY <1>1, InWriteArmed, RoomKept
<1>3. Registered'
  BY <1>1, <1>2 DEF WakeInv, Registered
<1> QED
  BY <1>1, <1>3, ReceiverKept DEF WakeInv

(* Nothing is left when the loop ends.                                      *)
LEMMA QueueEmptyStep == ASSUME WakeInv, QueueEmpty PROVE WakeInv'
<1>1. /\ UNCHANGED <<queue, writer, writer_buf, queue_armed, write_armed, events>>
      /\ UNCHANGED <<pipe, open, reader_pc, reader_buf>>
      /\ InWrite /\ PayloadWritten /\ writer_pc' = "complete"
  BY DEF QueueEmpty, receiverVars
<1>2. write_armed /\ ~ queue_armed /\ PayloadWritten'
  BY <1>1, InWriteArmed, WriterKept
<1>3. Registered'
  BY <1>1, <1>2 DEF WakeInv, Registered
<1> QED
  BY <1>1, <1>3, ReceiverKept DEF WakeInv

(* The queue is registered again: what came meanwhile is an event.          *)
LEMMA CompleteStep == ASSUME WakeInv, Complete PROVE WakeInv'
<1>1. /\ UNCHANGED <<queue, writer, writer_buf, pipe, open, reader_pc, reader_buf>>
      /\ writer_pc = "complete" /\ writer_pc' = "idle"
      /\ write_armed' = FALSE /\ queue_armed' = TRUE
      /\ events' = (events \ {"writable"}) \cup {e \in {"queue"} : queue # <<>>}
  BY DEF Complete, receiverVars
<1>2. PayloadWritten'
  BY <1>1, WriterKept DEF WakeInv, Registered
<1>3. Registered'
  BY <1>1, <1>2 DEF WakeInv, Registered
<1> QED
  BY <1>1, <1>3, ReceiverKept DEF WakeInv

(* The end of the sender is an event of the receiver.                       *)
LEMMA CloseStep == ASSUME WakeInv, Close PROVE WakeInv'
<1>1. /\ UNCHANGED <<queue, writer, writer_buf, writer_pc, queue_armed, write_armed>>
      /\ UNCHANGED <<pipe, reader_pc, reader_buf>>
      /\ events' = events \cup {"readable"}
  BY DEF Close, senderVars, receiverVars
<1>2. Registered'
  BY <1>1, WriterKept, RoomKept DEF WakeInv, Registered
<1> QED
  BY <1>1, <1>2 DEF WakeInv, ReceiverWakes

(* The receiver's steps that take nothing from the sockets.                 *)
LEMMA SenderKept ==
  ASSUME WakeInv, UNCHANGED <<senderVars, pipe>>,
         \A e \in {"queue", "writable"} : e \in events' <=> e \in events
  PROVE  Registered'
<1>1. PayloadWritten' = PayloadWritten /\ Room' = Room
  BY WriterKept, RoomKept DEF senderVars
<1> QED
  BY <1>1 DEF WakeInv, Registered, senderVars

(* Taking bytes from full sockets calls the sender.                         *)
LEMMA Drained ==
  ASSUME WakeInv, UNCHANGED senderVars, NEW n, FromPipe(n) PROVE Registered'
<1>1. PayloadWritten' = PayloadWritten
  BY WriterKept DEF senderVars
<1>2. events' = IF Room = 0 /\ write_armed THEN events \cup {"writable"} ELSE events
  BY DEF FromPipe
<1> QED
  BY <1>1, <1>2 DEF WakeInv, Registered, senderVars

(* The event is gone, but the event loop is at work.                        *)
LEMMA ProcessReadableStep == ASSUME WakeInv, ProcessReadable PROVE WakeInv'
<1>1. Registered'
  BY SenderKept DEF ProcessReadable
<1> QED
  BY <1>1 DEF WakeInv, ReceiverWakes, ProcessReadable

(* The reading loop goes on after each read.                                *)
LEMMA FillStep == ASSUME WakeInv, NEW n, Fill(n) PROVE WakeInv'
<1>1. Registered'
  BY Drained DEF Fill
<1> QED
  BY <1>1 DEF WakeInv, ReceiverWakes, Fill

(* The same, past the BufReader.                                            *)
LEMMA ReadThroughStep == ASSUME WakeInv, NEW n, ReadThrough(n) PROVE WakeInv'
<1>1. Registered'
  BY Drained DEF ReadThrough
<1> QED
  BY <1>1 DEF WakeInv, ReceiverWakes, ReadThrough

(* The same, out of the BufReader.                                          *)
LEMMA ReadBufferedStep == ASSUME WakeInv, ReadBuffered PROVE WakeInv'
<1>1. Registered'
  BY SenderKept DEF ReadBuffered
<1> QED
  BY <1>1 DEF WakeInv, ReceiverWakes, ReadBuffered

(* WouldBlock: only when both buffers are empty and no EOF is due.          *)
LEMMA ReadBlocksStep == ASSUME WakeInv, ReadBlocks PROVE WakeInv'
<1>1. Registered'
  BY SenderKept DEF ReadBlocks
<1> QED
  BY <1>1 DEF WakeInv, ReceiverWakes, ReadBlocks

(* A removed peer needs no event.                                           *)
LEMMA ReadEOFStep == ASSUME WakeInv, ReadEOF PROVE WakeInv'
<1>1. Registered'
  BY SenderKept DEF ReadEOF
<1> QED
  BY <1>1 DEF WakeInv, ReceiverWakes, ReadEOF

(* The invariant is inductive.                                              *)
LEMMA WakeStep == WakeInv /\ [ConnNext]_connVars => WakeInv'
<1> SUFFICES ASSUME WakeInv, [ConnNext]_connVars PROVE WakeInv'
  OBVIOUS
<1>1. ASSUME NEW m \in Messages, Write(m) PROVE WakeInv'
  BY <1>1, WriteStep
<1>2. CASE SenderStep
  <2>1. ASSUME NEW n \in 1..PipeSize, Flush(n) \/ WriteThrough(n) PROVE WakeInv'
    BY <2>1, FlushStep, WriteThroughStep
  <2> QED
    BY <1>2, <2>1, RegisterStep, ProcessWritableStep, WriteBufferedStep, WriteBlocksStep,
       LengthWrittenStep, NextMessageStep, QueueEmptyStep, CompleteStep DEF SenderStep
<1>3. CASE ReceiverStep
  <2>1. ASSUME NEW n \in 1..PipeSize, Fill(n) \/ ReadThrough(n) PROVE WakeInv'
    BY <2>1, FillStep, ReadThroughStep
  <2> QED
    BY <1>3, <2>1, ProcessReadableStep, ReadBufferedStep, ReadBlocksStep, ReadEOFStep
    DEF ReceiverStep
<1>4. CASE UNCHANGED connVars
  <2>1. UNCHANGED <<senderVars, receiverVars, events, pipe, open>>
    BY <1>4 DEF connVars
  <2>2. Registered'
    BY <2>1, SenderKept
  <2> QED
    BY <2>1, <2>2, ReceiverKept DEF WakeInv, receiverVars
<1> QED
  BY <1>1, <1>2, <1>3, <1>4, CloseStep DEF ConnNext

(* NoLostWakeup for every set of messages and all sizes of the buffers      *)
(* (server.rs:144-256 with peer.rs:29-155).                                 *)
THEOREM NoWakeupIsLost == ConnSpec => []NoLostWakeup
<1>1. ConnInit => WakeInv
  BY WakeInit
<1>2. WakeInv /\ [ConnNext]_connVars => WakeInv'
  BY WakeStep
<1>3. WakeInv => NoLostWakeup
  BY WakesUp
<1> QED
  BY <1>1, <1>2, <1>3, PTL DEF ConnSpec
-----------------------------------------------------------------------------
(* Decode undoes Encode: the digits of a number to the base Base, a fold    *)
(* over them that gives the number back.                                    *)
Digit(n, byte) == n * Base + byte
TimesBase(p, n) == p * Base
None(x) == 0
Digits == INSTANCE Folding WITH Step <- Digit, Weight <- None
Powers == INSTANCE Folding WITH Step <- TimesBase, Weight <- None

(* The recursive function has its equations.                                *)
LEMMA PowerIs ==
  /\ Power[0] = 1
  /\ \A n \in Nat : Power[n + 1] = Power[n] * Base
<1>1. \E f : Powers!Recurses(1, f)
  BY Powers!RecursionExists
<1>2. Powers!Recurses(1, Power)
  BY <1>1 DEF Power, Powers!Recurses, TimesBase
<1>3. ASSUME NEW n \in Nat PROVE Power[n + 1] = Power[n] * Base
  <2>1. n + 1 \in Nat /\ n + 1 # 0 /\ (n + 1) - 1 = n
    OBVIOUS
  <2> HIDE DEF Power
  <2> QED
    BY <1>2, <2>1 DEF Powers!Recurses, TimesBase
<1>4. Power[0] = 1
  <2> HIDE DEF Power
  <2> QED
    BY <1>2 DEF Powers!Recurses
<1> QED
  BY <1>3, <1>4

(* Powers of the base are positive.                                         *)
LEMMA PowerPositive == \A n \in Nat : Power[n] \in Nat \ {0}
<1> SUFFICES ASSUME NEW n \in Nat PROVE Power[n] \in Nat \ {0}
  OBVIOUS
<1> DEFINE S == {k \in 0..n : Power[k] \in Nat \ {0}}
<1>1. 0 \in S
  BY PowerIs
<1>2. ASSUME NEW k \in 0..(n - 1), k \in S PROVE k + 1 \in S
  <2>1. Power[k + 1] = Power[k] * Base /\ Power[k] \in Nat \ {0} /\ Base \in Nat \ {0}
    BY <1>2, PowerIs, ConnectionAssumption
  <2> DEFINE p == Power[k]
  <2> HIDE DEF p
  <2>2. p \in Nat \ {0} /\ Power[k + 1] = p * Base
    BY <2>1 DEF p
  <2>3. p * Base \in Nat \ {0}
    BY <2>1, <2>2
  <2> QED
    BY <2>2, <2>3
<1>3. 0..n \subseteq S
  <2> HIDE DEF S
  <2> QED
    BY <1>1, <1>2, Digits!Induction
<1> QED
  BY <1>3

(* What \div and % are.                                                     *)
LEMMA Division ==
  ASSUME NEW n \in Nat, NEW d \in Nat \ {0}
  PROVE  /\ n \div d \in Nat /\ n % d \in 0..(d - 1)
         /\ n = d * (n \div d) + (n % d)
  OBVIOUS

(* Multiplication is monotonic.                                             *)
LEMMA Scale == ASSUME NEW a \in Nat, NEW b \in Nat, NEW c \in Nat, a <= b PROVE a * c <= b * c /\ a * c \in Nat
<1>1. PICK d \in Nat : b = a + d
  <2>1. b - a \in Nat /\ b = a + (b - a)
    OBVIOUS
  <2> QED
    BY <2>1
<1>2. b * c = a * c + d * c
  BY <1>1
<1>3. a * c \in Nat /\ d * c \in Nat
  OBVIOUS
<1> DEFINE x == a * c  y == d * c  z == b * c
<1> HIDE DEF x, y, z
<1>4. x \in Nat /\ y \in Nat /\ z = x + y
  BY <1>2, <1>3 DEF x, y, z
<1>5. x <= z
  BY <1>4
<1> QED
  BY <1>4, <1>5 DEF x, z

(* Quotient and remainder are unique.                                       *)
LEMMA Quotient ==
  ASSUME NEW d \in Nat \ {0}, NEW q \in Nat, NEW r \in 0..(d - 1)
  PROVE  (q * d + r) \div d = q /\ (q * d + r) % d = r
<1> DEFINE n == q * d + r  e == n \div d  f == n % d
<1>1. q * d \in Nat
  OBVIOUS
<1>2. n \in Nat
  BY <1>1
<1>3. e \in Nat /\ f \in 0..(d - 1) /\ n = d * e + f
  BY <1>2, Division
<1>4. d * e = e * d
  BY <1>3
<1> DEFINE x == q * d  y == e * d
<1> HIDE DEF n, e, f
<1>5. x \in Nat /\ y \in Nat /\ x + r = y + f
  BY <1>1, <1>3, <1>4 DEF n
<1>6. ASSUME NEW a \in Nat, NEW b \in Nat, a < b PROVE a * d + d <= b * d
  <2>1. (a + 1) * d <= b * d
    BY <1>6, Scale
  <2>2. (a + 1) * d = a * d + d
    OBVIOUS
  <2> QED
    BY <2>1, <2>2
<1>7. (q < e => x + d <= y) /\ (e < q => y + d <= x)
  BY <1>3, <1>6
<1> HIDE DEF x, y
<1>8. q = e
  <2>1. r < d /\ f < d /\ r \in Nat /\ f \in Nat /\ d \in Nat /\ q \in Nat /\ e \in Nat
    BY <1>3
  <2> QED
    BY <1>5, <1>7, <2>1
<1>9. x = y
  BY <1>8 DEF x, y
<1>10. r = f
  BY <1>3, <1>5, <1>9
<1> QED
  BY <1>8, <1>10 DEF e, f, n

(* One digit more. *)
LEMMA NextDigit ==
  ASSUME NEW n \in Nat, NEW p \in Nat \ {0}
  PROVE  n \div p = (n \div (p * Base)) * Base + ((n \div p) % Base)
<1>0. Base \in Nat \ {0}
  BY ConnectionAssumption
<1> DEFINE q == n \div p  r == n % p  s == q \div Base  t == q % Base
<1>1. q \in Nat /\ r \in 0..(p - 1) /\ n = p * q + r
  BY Division
<1>2. s \in Nat /\ t \in 0..(Base - 1) /\ q = Base * s + t
  BY <1>0, <1>1, Division
<1> HIDE DEF q, r, s, t
<1> DEFINE d == p * Base  u == p * t + r
<1>3. d \in Nat \ {0}
  BY <1>0
<1>4. n = s * d + u
  <2>1. p * (Base * s + t) = s * (p * Base) + p * t
    BY <1>0, <1>2
  <2>2. p * q = s * d + p * t
    BY <1>2, <2>1
  <2> DEFINE x == p * q  y == s * d  z == p * t
  <2>3. x \in Nat /\ y \in Nat /\ z \in Nat
    BY <1>1, <1>2, <1>3
  <2> HIDE DEF x, y, z
  <2>4. x = y + z /\ n = x + r /\ r \in Nat
    BY <1>1, <2>2 DEF x, y, z
  <2>5. n = y + (z + r)
    BY <2>3, <2>4
  <2> QED
    BY <2>5 DEF y, z
<1>5. u \in 0..(d - 1)
  <2>1. t \in Nat /\ t + 1 \in Nat /\ t + 1 <= Base
    BY <1>0, <1>2
  <2>2. (t + 1) * p <= Base * p
    BY <1>0, <2>1, Scale
  <2>3. (t + 1) * p = p * t + p /\ Base * p = d /\ p * t \in Nat
    BY <1>0, <2>1
  <2> DEFINE v == p * t
  <2> HIDE DEF v, d
  <2>4. v \in Nat /\ v + p <= d /\ d \in Nat
    BY <1>3, <2>2, <2>3 DEF v
  <2>5. v + r \in 0..(d - 1)
    BY <1>1, <2>4
  <2> QED
    BY <2>5 DEF v
<1> HIDE DEF d, u
<1>6. n \div d = s
  BY <1>2, <1>3, <1>4, <1>5, Quotient
<1>7. q = s * Base + t
  BY <1>0, <1>2
<1> QED
  BY <1>6, <1>7 DEF d, q, t

(* A length takes LenSize bytes.                                            *)
LEMMA Encoded ==
  ASSUME NEW n \in Nat PROVE Encode(n) \in Seq(Byte) /\ Len(Encode(n)) = LenSize
<1>1. LenSize \in Nat /\ Base \in Nat \ {0}
  BY ConnectionAssumption
<1>2. ASSUME NEW i \in 1..LenSize PROVE (n \div Power[LenSize - i]) % Base \in Byte
  <2>1. LenSize - i \in Nat
    BY <1>1
  <2>2. n \div Power[LenSize - i] \in Nat
    BY <2>1, PowerPositive, Division
  <2> QED
    BY <1>1, <2>2, Division DEF Byte
<1>3. Encode(n) \in [1..LenSize -> Byte]
  BY <1>2 DEF Encode
<1> QED
  BY <1>1, <1>3

(* from_be_bytes undoes to_be_bytes on a u32.                               *)
LEMMA DecodeEncode ==
  ASSUME NEW n \in 0..(Power[LenSize] - 1) PROVE Decode(Encode(n)) = n
<1>0. LenSize \in Nat /\ Base \in Nat \ {0} /\ Power[LenSize] \in Nat \ {0} /\ n \in Nat /\ n < Power[LenSize]
  BY ConnectionAssumption, PowerPositive
<1> DEFINE seq == Encode(n)
<1>1. Len(seq) = LenSize /\ DOMAIN seq = 1..LenSize
  BY <1>0, Encoded DEF Encode
<1>2. PICK st : Digits!Passes(0, seq, st) /\ Digits!Fold(0, seq) = st[LenSize]
  BY <1>0, <1>1, Digits!FoldPasses
<1>3. Decode(seq) = Digits!Fold(0, seq)
  BY DEF Decode, Digits!Fold, Digits!Greatest, FoldLeft, MapThenFoldSet, Max, Digit
<1> DEFINE S == {k \in 0..LenSize : st[k] = n \div Power[LenSize - k]}
<1>4. 0 \in S
  <2>1. st[0] = 0
    BY <1>2 DEF Digits!Passes
  <2>2. (0 * Power[LenSize] + n) \div Power[LenSize] = 0
    BY <1>0, Quotient
  <2>3. 0 * Power[LenSize] + n = n
    BY <1>0
  <2>4. LenSize - 0 = LenSize
    BY <1>0
  <2>5. n \div Power[LenSize] = 0
    BY <2>2, <2>3
  <2>6. st[0] = n \div Power[LenSize - 0] /\ 0 \in 0..LenSize
    BY <1>0, <2>1, <2>4, <2>5
  <2> QED
    BY <2>6
<1>5. ASSUME NEW k \in 0..(LenSize - 1), k \in S PROVE k + 1 \in S
  <2> DEFINE j == LenSize - (k + 1)
  <2>1. j \in Nat /\ LenSize - k = j + 1 /\ k + 1 \in 1..LenSize /\ (k + 1) - 1 = k
    BY <1>0
  <2>2. st[k + 1] = st[k] * Base + seq[k + 1]
    BY <1>1, <1>2, <2>1 DEF Digits!Passes, Digit
  <2>3. st[k] = n \div (Power[j] * Base)
    BY <1>5, <2>1, PowerIs
  <2>4. seq[k + 1] = (n \div Power[j]) % Base
    BY <2>1 DEF Encode
  <2>5. n \div Power[j] = (n \div (Power[j] * Base)) * Base + ((n \div Power[j]) % Base)
    BY <1>0, <2>1, PowerPositive, NextDigit
  <2> HIDE DEF seq
  <2>6. st[k + 1] = n \div Power[j]
    BY <2>2, <2>3, <2>4, <2>5
  <2> QED
    BY <1>0, <2>1, <2>6
<1>6. 0..LenSize \subseteq S
  <2> HIDE DEF S
  <2> QED
    BY <1>0, <1>4, <1>5, Digits!Induction
<1>7. st[LenSize] = n \div Power[0]
  BY <1>0, <1>6
<1>8. n \div 1 = n
  BY <1>0
<1> QED
  BY <1>2, <1>3, <1>7, <1>8, PowerIs
-----------------------------------------------------------------------------
(* Sequences: what is split is put together again.                          *)
LEMMA TakeDrop ==
  ASSUME NEW S, NEW s \in Seq(S), NEW n \in 0..Len(s)
  PROVE  /\ Take(s, n) \in Seq(S) /\ Len(Take(s, n)) = n
         /\ Drop(s, n) \in Seq(S) /\ Len(Drop(s, n)) = Len(s) - n
         /\ \A i \in 1..n : Take(s, n)[i] = s[i]
         /\ \A i \in 1..(Len(s) - n) : Drop(s, n)[i] = s[n + i]
         /\ Take(s, n) \o Drop(s, n) = s
<1>0. Len(s) \in Nat /\ \A i \in 1..Len(s) : s[i] \in S
  OBVIOUS
<1>1. Take(s, n) \in Seq(S) /\ Len(Take(s, n)) = n /\ \A i \in 1..n : Take(s, n)[i] = s[i]
  <2>1. 1 \in Int /\ n \in Int /\ \A i \in 1..n : s[i] \in S
    BY <1>0
  <2>2. /\ SubSeq(s, 1, n) \in Seq(S) /\ Len(SubSeq(s, 1, n)) = IF 1 <= n THEN n - 1 + 1 ELSE 0
        /\ \A i \in 1..(n - 1 + 1) : SubSeq(s, 1, n)[i] = s[1 + i - 1]
    BY <2>1, SubSeqProperties
  <2> DEFINE t == SubSeq(s, 1, n)
  <2> HIDE DEF t
  <2>3. t \in Seq(S) /\ Len(t) = n /\ \A i \in 1..n : t[i] = s[i]
    BY <2>2 DEF t
  <2> QED
    BY <2>3 DEF Take, t
<1>2. Drop(s, n) \in Seq(S) /\ Len(Drop(s, n)) = Len(s) - n
      /\ \A i \in 1..(Len(s) - n) : Drop(s, n)[i] = s[n + i]
  <2> DEFINE m == n + 1  l == Len(s)
  <2>1. m \in Int /\ l \in Int /\ \A i \in m..l : s[i] \in S
    BY <1>0
  <2>2. /\ SubSeq(s, m, l) \in Seq(S) /\ Len(SubSeq(s, m, l)) = IF m <= l THEN l - m + 1 ELSE 0
        /\ \A i \in 1..(l - m + 1) : SubSeq(s, m, l)[i] = s[m + i - 1]
    BY <2>1, SubSeqProperties
  <2> DEFINE t == SubSeq(s, m, l)
  <2> HIDE DEF t
  <2>3. t \in Seq(S) /\ Len(t) = Len(s) - n /\ \A i \in 1..(Len(s) - n) : t[i] = s[n + i]
    BY <1>0, <2>2 DEF t
  <2> QED
    BY <2>3 DEF Drop, t
<1>3. Take(s, n) \o Drop(s, n) = s
  <2>1. n + 1 \in 1..(Len(s) + 1) /\ 1 \in 1..(Len(s) + 1) /\ n \in (1 - 1)..Len(s) /\ Len(s) \in n..Len(s)
    BY <1>0
  <2>2. SubSeq(s, 1, n) \o SubSeq(s, n + 1, Len(s)) = SubSeq(s, 1, Len(s))
    BY <2>1, ConcatAdjacentSubSeq
  <2> QED
    BY <2>2, SubSeqFull DEF Take, Drop
<1> QED
  BY <1>1, <1>2, <1>3

(* Taking nothing and everything.                                           *)
LEMMA Whole ==
  ASSUME NEW S, NEW s \in Seq(S)
  PROVE  Drop(s, 0) = s /\ Take(s, 0) = <<>> /\ Drop(s, Len(s)) = <<>>
<1>1. Len(s) \in Nat
  OBVIOUS
<1>2. Drop(s, 0) = s
  <2>1. 0 + 1 = 1
    OBVIOUS
  <2> QED
    BY <2>1, SubSeqFull DEF Drop
<1>3. Take(s, 0) = <<>>
  BY SubSeqEmpty DEF Take
<1>4. Drop(s, Len(s)) = <<>>
  BY <1>1, SubSeqEmpty DEF Drop
<1> QED
  BY <1>2, <1>3, <1>4

(* Dropping in two goes.                                                    *)
LEMMA DropDrop ==
  ASSUME NEW S, NEW s \in Seq(S), NEW m \in 0..Len(s), NEW n \in 0..(Len(s) - m)
  PROVE  Drop(s, m + n) = Drop(Drop(s, m), n)
<1> DEFINE t == Drop(s, m)  u == Drop(t, n)  v == Drop(s, m + n)
<1>0. Len(s) \in Nat /\ m + n \in 0..Len(s)
  OBVIOUS
<1>1. t \in Seq(S) /\ Len(t) = Len(s) - m /\ \A i \in 1..(Len(s) - m) : t[i] = s[m + i]
  BY TakeDrop
<1>2. v \in Seq(S) /\ Len(v) = Len(s) - (m + n) /\ \A i \in 1..(Len(s) - (m + n)) : v[i] = s[(m + n) + i]
  BY <1>0, TakeDrop
<1> HIDE DEF t, v
<1>3. n \in 0..Len(t)
  BY <1>0, <1>1
<1>4. u \in Seq(S) /\ Len(u) = Len(t) - n /\ \A i \in 1..(Len(t) - n) : u[i] = t[n + i]
  BY <1>1, <1>3, TakeDrop
<1> HIDE DEF u
<1>5. Len(u) = Len(v)
  BY <1>0, <1>1, <1>2, <1>4
<1>6. ASSUME NEW i \in 1..Len(u) PROVE u[i] = v[i]
  <2>1. /\ i \in 1..(Len(t) - n) /\ n + i \in 1..(Len(s) - m) /\ i \in 1..(Len(s) - (m + n))
        /\ m + (n + i) = (m + n) + i
    BY <1>0, <1>1, <1>2, <1>4, <1>5
  <2> QED
    BY <1>1, <1>2, <1>4, <2>1
<1>7. u = v
  BY <1>2, <1>4, <1>5, <1>6, SeqEqual
<1> QED
  BY <1>7 DEF u, v, t

(* A name for concatenation, which the provers otherwise take apart.        *)
Cat(a, b) == a \o b

(* The bytes of a concatenation.                                            *)
LEMMA CatIs ==
  ASSUME NEW S, NEW a \in Seq(S), NEW b \in Seq(S)
  PROVE  /\ Cat(a, b) \in Seq(S) /\ Len(Cat(a, b)) = Len(a) + Len(b)
         /\ Len(a) \in Nat /\ Len(b) \in Nat
         /\ \A i \in 1..(Len(a) + Len(b)) : Cat(a, b)[i] = IF i <= Len(a) THEN a[i] ELSE b[i - Len(a)]
         /\ Cat(a, <<>>) = a /\ Cat(<<>>, a) = a
  BY ConcatProperties, ConcatEmptySeq DEF Cat

(* Its length.                                                              *)
LEMMA CatLen ==
  ASSUME NEW S, NEW a \in Seq(S), NEW b \in Seq(S)
  PROVE  Cat(a, b) \in Seq(S) /\ Len(Cat(a, b)) = Len(a) + Len(b)
  BY CatIs

(* It is associative.                                                       *)
LEMMA Assoc ==
  ASSUME NEW S, NEW a \in Seq(S), NEW b \in Seq(S), NEW c \in Seq(S)
  PROVE  Cat(Cat(a, b), c) = Cat(a, Cat(b, c))
<1> DEFINE x == Cat(a, b)  y == Cat(b, c)  l == Cat(x, c)  r == Cat(a, y)
<1>1. /\ x \in Seq(S) /\ Len(x) = Len(a) + Len(b)
      /\ Len(a) \in Nat /\ Len(b) \in Nat /\ Len(c) \in Nat
      /\ \A i \in 1..(Len(a) + Len(b)) : x[i] = IF i <= Len(a) THEN a[i] ELSE b[i - Len(a)]
  BY CatIs
<1>2. /\ y \in Seq(S) /\ Len(y) = Len(b) + Len(c)
      /\ \A i \in 1..(Len(b) + Len(c)) : y[i] = IF i <= Len(b) THEN b[i] ELSE c[i - Len(b)]
  BY CatIs
<1> HIDE DEF x, y
<1>a. x \in Seq(S)
  BY <1>1
<1>b. y \in Seq(S)
  BY <1>2
<1>3. /\ l \in Seq(S) /\ Len(l) = Len(x) + Len(c)
      /\ \A i \in 1..(Len(x) + Len(c)) : l[i] = IF i <= Len(x) THEN x[i] ELSE c[i - Len(x)]
  BY <1>a, CatIs
<1>4. /\ r \in Seq(S) /\ Len(r) = Len(a) + Len(y)
      /\ \A i \in 1..(Len(a) + Len(y)) : r[i] = IF i <= Len(a) THEN a[i] ELSE y[i - Len(a)]
  BY <1>b, CatIs
<1> HIDE DEF l, r
<1>5. Len(l) = Len(r)
  BY <1>1, <1>2, <1>3, <1>4
<1>6. ASSUME NEW i \in 1..Len(l) PROVE l[i] = r[i]
  <2>0. /\ i \in Nat /\ i \in 1..(Len(x) + Len(c)) /\ i \in 1..(Len(a) + Len(y))
        /\ 1 <= i /\ i <= Len(a) + Len(b) + Len(c) /\ Len(x) = Len(a) + Len(b)
    BY <1>1, <1>2, <1>3, <1>5
  <2>1. CASE i <= Len(a)
    <3>1. i <= Len(x) /\ i \in 1..(Len(a) + Len(b))
      BY <1>1, <2>0, <2>1
    <3>2. l[i] = x[i] /\ x[i] = a[i] /\ r[i] = a[i]
      BY <1>1, <1>3, <1>4, <2>0, <2>1, <3>1
    <3> QED
      BY <3>2
  <2>2. CASE ~ (i <= Len(a)) /\ i <= Len(a) + Len(b)
    <3> DEFINE k == i - Len(a)
    <3>1. i <= Len(x) /\ i \in 1..(Len(a) + Len(b)) /\ k \in 1..(Len(b) + Len(c)) /\ k <= Len(b)
      BY <1>1, <2>0, <2>2
    <3>2. l[i] = x[i] /\ x[i] = b[k] /\ r[i] = y[k]
      BY <1>1, <1>3, <1>4, <2>0, <2>2, <3>1
    <3> HIDE DEF k
    <3>3. y[k] = b[k]
      BY <1>2, <3>1
    <3> QED
      BY <3>2, <3>3
  <2>3. CASE ~ (i <= Len(a) + Len(b))
    <3> DEFINE k == i - Len(a)  j == i - Len(x)
    <3>1. /\ ~ (i <= Len(x)) /\ ~ (i <= Len(a)) /\ k \in 1..(Len(b) + Len(c)) /\ ~ (k <= Len(b))
          /\ k - Len(b) = j
      BY <1>1, <2>0, <2>3
    <3>2. l[i] = c[j] /\ r[i] = y[k]
      BY <1>3, <1>4, <2>0, <3>1
    <3> HIDE DEF k, j
    <3>3. y[k] = c[j]
      BY <1>2, <3>1
    <3> QED
      BY <3>2, <3>3
  <2> QED
    BY <2>1, <2>2, <2>3
<1>7. l = r
  BY <1>3, <1>4, <1>5, <1>6, SeqEqual
<1> QED
  BY <1>7 DEF l, r, x, y

(* Bytes that move on from one place to the next.                           *)
LEMMA MoveOn ==
  ASSUME NEW S, NEW a \in Seq(S), NEW b \in Seq(S), NEW c \in Seq(S), NEW n \in 0..Len(b)
  PROVE  Cat(Cat(a, Take(b, n)), Cat(Drop(b, n), c)) = Cat(a, Cat(b, c))
<1> DEFINE t == Take(b, n)  d == Drop(b, n)
<1>1. t \in Seq(S) /\ d \in Seq(S) /\ Cat(t, d) = b
  BY TakeDrop DEF Cat
<1> HIDE DEF t, d
<1>2. Cat(d, c) \in Seq(S)
  BY <1>1, CatIs
<1>3. Cat(Cat(a, t), Cat(d, c)) = Cat(a, Cat(t, Cat(d, c)))
  BY <1>1, <1>2, Assoc
<1>4. Cat(t, Cat(d, c)) = Cat(Cat(t, d), c)
  BY <1>1, Assoc
<1> QED
  BY <1>1, <1>3, <1>4 DEF t, d

(* Equal sequences have equal parts.                                        *)
LEMMA Cancel ==
  ASSUME NEW S, NEW a \in Seq(S), NEW b \in Seq(S), NEW c \in Seq(S), NEW d \in Seq(S),
         Len(a) = Len(b), Cat(a, c) = Cat(b, d)
  PROVE  a = b /\ c = d
<1>1. /\ Len(a) \in Nat /\ Len(c) \in Nat
      /\ \A i \in 1..(Len(a) + Len(c)) : Cat(a, c)[i] = IF i <= Len(a) THEN a[i] ELSE c[i - Len(a)]
  BY CatIs
<1>2. /\ Len(b) \in Nat /\ Len(d) \in Nat
      /\ \A i \in 1..(Len(b) + Len(d)) : Cat(b, d)[i] = IF i <= Len(b) THEN b[i] ELSE d[i - Len(b)]
  BY CatIs
<1>3. Len(Cat(a, c)) = Len(a) + Len(c) /\ Len(Cat(b, d)) = Len(b) + Len(d)
  BY CatLen
<1> DEFINE x == Cat(a, c)  y == Cat(b, d)
<1>4. x = y
  OBVIOUS
<1> HIDE DEF x, y
<1>5. Len(c) = Len(d)
  BY <1>1, <1>2, <1>3, <1>4 DEF x, y
<1>6. ASSUME NEW i \in 1..Len(a) PROVE a[i] = b[i]
  <2>1. i \in 1..(Len(a) + Len(c)) /\ i \in 1..(Len(b) + Len(d)) /\ i <= Len(a) /\ i <= Len(b)
    BY <1>1, <1>2
  <2>2. x[i] = a[i] /\ y[i] = b[i]
    BY <1>1, <1>2, <2>1 DEF x, y
  <2> QED
    BY <1>4, <2>2
<1>7. ASSUME NEW i \in 1..Len(c) PROVE c[i] = d[i]
  <2> DEFINE k == Len(a) + i
  <2>1. /\ k \in 1..(Len(a) + Len(c)) /\ k \in 1..(Len(b) + Len(d)) /\ ~ (k <= Len(a)) /\ ~ (k <= Len(b))
        /\ k - Len(a) = i /\ k - Len(b) = i
    BY <1>1, <1>2, <1>5
  <2> HIDE DEF k
  <2>2. x[k] = c[k - Len(a)] /\ y[k] = d[k - Len(b)]
    BY <1>1, <1>2, <2>1 DEF x, y
  <2> QED
    BY <1>4, <2>1, <2>2
<1> QED
  BY <1>5, <1>6, <1>7, SeqEqual
-----------------------------------------------------------------------------
(* The bytes s are the messages ms, each after its length: the frames end   *)
(* at the cuts.                                                             *)
Frame(m) == Cat(Encode(Len(m)), m)
Cuts(s, ms, cut) ==
    /\ DOMAIN cut = 0..Len(ms) /\ \A i \in 0..Len(ms) : cut[i] \in Nat
    /\ cut[0] = 0 /\ cut[Len(ms)] = Len(s)
    /\ \A i, j \in 0..Len(ms) : i <= j => cut[i] <= cut[j]
    /\ \A i \in 1..Len(ms) :
          /\ cut[i] = cut[i - 1] + Len(Frame(ms[i]))
          /\ \A j \in 1..Len(Frame(ms[i])) : s[cut[i - 1] + j] = Frame(ms[i])[j]
Frames(s, ms) == \E cut : Cuts(s, ms, cut)

(* A frame is a length and a message that is not empty.                     *)
LEMMA FrameIs ==
  ASSUME NEW m \in Messages
  PROVE  /\ Frame(m) \in Seq(Byte) /\ Len(Frame(m)) \in Nat \ {0}
         /\ m \in Seq(Byte) /\ Len(m) \in 1..(Power[LenSize] - 1) /\ Len(m) \in Nat \ {0}
         /\ Encode(Len(m)) \in Seq(Byte) /\ Len(Encode(Len(m))) = LenSize
<1>1. m \in Seq(Byte) /\ Len(m) \in 1..(Power[LenSize] - 1) /\ LenSize \in Nat \ {0}
  BY ConnectionAssumption
<1>2. Len(m) \in Nat \ {0}
  BY <1>1
<1>3. Encode(Len(m)) \in Seq(Byte) /\ Len(Encode(Len(m))) = LenSize
  BY <1>2, Encoded
<1>4. Frame(m) \in Seq(Byte) /\ Len(Frame(m)) = LenSize + Len(m)
  BY <1>1, <1>3, CatIs DEF Frame
<1> QED
  BY <1>1, <1>2, <1>3, <1>4

(* No frames, no bytes.                                                     *)
LEMMA NoFrames ==
  /\ Frames(<<>>, <<>>)
  /\ \A s \in Seq(Byte) : Frames(s, <<>>) => s = <<>>
<1>1. Cuts(<<>>, <<>>, [i \in 0..0 |-> 0])
  BY DEF Cuts
<1>2. ASSUME NEW s \in Seq(Byte), Frames(s, <<>>) PROVE s = <<>>
  BY <1>2, EmptySeq DEF Frames, Cuts
<1> QED
  BY <1>1, <1>2 DEF Frames

(* A frame at the end. *)
LEMMA FrameWritten ==
  ASSUME NEW s \in Seq(Byte), NEW ms \in Seq(Messages), Frames(s, ms), NEW m \in Messages
  PROVE  Frames(Cat(s, Frame(m)), Append(ms, m))
<1> DEFINE n == Len(ms)  ns == Append(ms, m)  f == Frame(m)  t == Cat(s, f)
<1>1. PICK cut : Cuts(s, ms, cut)
  BY DEF Frames
<1>2. n \in Nat /\ Len(s) \in Nat /\ f \in Seq(Byte) /\ Len(f) \in Nat
  BY FrameIs
<1>3. Len(ns) = n + 1 /\ ns[n + 1] = m /\ \A i \in 1..n : ns[i] = ms[i]
  BY AppendProperties
<1>4. /\ Len(t) = Len(s) + Len(f)
      /\ \A i \in 1..(Len(s) + Len(f)) : t[i] = IF i <= Len(s) THEN s[i] ELSE f[i - Len(s)]
  BY <1>2, CatIs
<1> DEFINE new == [i \in 0..(n + 1) |-> IF i <= n THEN cut[i] ELSE Len(t)]
<1>5. /\ \A i \in 0..n : cut[i] \in Nat
      /\ cut[0] = 0 /\ cut[n] = Len(s)
      /\ \A i, j \in 0..n : i <= j => cut[i] <= cut[j]
      /\ \A i \in 1..n : cut[i] = cut[i - 1] + Len(Frame(ms[i]))
      /\ \A i \in 1..n : \A j \in 1..Len(Frame(ms[i])) : s[cut[i - 1] + j] = Frame(ms[i])[j]
  BY <1>1 DEF Cuts
<1>6. \A i \in 1..n : Len(Frame(ms[i])) \in Nat
  BY FrameIs
<1> HIDE DEF n, ns, f, t
<1>7. /\ DOMAIN new = 0..(n + 1) /\ \A i \in 0..n : new[i] = cut[i]
      /\ new[n + 1] = Len(t)
  BY <1>2
<1> HIDE DEF new
<1>8. /\ \A i \in 0..(n + 1) : new[i] \in Nat
      /\ \A i, j \in 0..(n + 1) : i <= j => new[i] <= new[j]
      /\ new[0] = 0
  <2>1. \A i \in 0..(n + 1) : i \in 0..n \/ i = n + 1
    BY <1>2
  <2>2. Len(t) \in Nat /\ \A i \in 0..n : cut[i] <= Len(t)
    <3>1. n \in 0..n /\ \A i \in 0..n : i <= n
      BY <1>2
    <3>2. \A i \in 0..n : cut[i] <= Len(s)
      BY <1>5, <3>1
    <3> QED
      BY <1>2, <1>4, <1>5, <3>2
  <2>3. new[0] = 0
    BY <1>2, <1>5, <1>7
  <2>4. \A i \in 0..(n + 1) : new[i] \in Nat /\ new[i] <= Len(t)
    BY <1>5, <1>7, <2>1, <2>2
  <2>5. ASSUME NEW i \in 0..(n + 1), NEW j \in 0..(n + 1), i <= j PROVE new[i] <= new[j]
    <3>1. CASE j = n + 1
      BY <1>7, <2>4, <3>1
    <3>2. CASE j \in 0..n
      <4>1. i \in 0..n
        BY <1>2, <2>5, <3>2
      <4> QED
        BY <1>5, <1>7, <2>5, <3>2, <4>1
    <3> QED
      BY <2>1, <3>1, <3>2
  <2> QED
    BY <2>3, <2>4, <2>5
<1>9. ASSUME NEW i \in 1..(n + 1)
      PROVE  /\ new[i] = new[i - 1] + Len(Frame(ns[i]))
             /\ \A j \in 1..Len(Frame(ns[i])) : t[new[i - 1] + j] = Frame(ns[i])[j]
  <2>1. CASE i \in 1..n
    <3> DEFINE g == Frame(ms[i])
    <3>1. i \in 0..n /\ i - 1 \in 0..n /\ ns[i] = ms[i] /\ new[i] = cut[i] /\ new[i - 1] = cut[i - 1]
      BY <1>2, <1>3, <1>7, <2>1
    <3>2. cut[i] = cut[i - 1] + Len(g) /\ \A j \in 1..Len(g) : s[cut[i - 1] + j] = g[j]
      BY <1>5, <2>1
    <3>3. Len(g) \in Nat /\ cut[i - 1] \in Nat /\ cut[i] <= Len(s)
      <4>1. n \in 0..n /\ i <= n
        BY <1>2, <2>1
      <4> QED
        BY <1>5, <1>6, <2>1, <3>1, <4>1
    <3> HIDE DEF g
    <3>4. ASSUME NEW j \in 1..Len(g) PROVE t[cut[i - 1] + j] = g[j]
      <4> DEFINE k == cut[i - 1] + j
      <4>1. k \in 1..(Len(s) + Len(f)) /\ k <= Len(s)
        BY <1>2, <3>2, <3>3
      <4> HIDE DEF k
      <4>2. t[k] = s[k]
        BY <1>4, <4>1
      <4> QED
        BY <3>2, <4>2 DEF k
    <3> QED
      BY <3>1, <3>2, <3>4 DEF g
  <2>2. CASE i = n + 1
    <3>1. ns[i] = m /\ i - 1 = n /\ n \in 0..n /\ new[i - 1] = Len(s) /\ new[i] = Len(s) + Len(f)
      BY <1>2, <1>3, <1>4, <1>5, <1>7, <2>2
    <3>2. ASSUME NEW j \in 1..Len(f) PROVE t[Len(s) + j] = f[j]
      <4> DEFINE k == Len(s) + j
      <4>1. k \in 1..(Len(s) + Len(f)) /\ ~ (k <= Len(s)) /\ k - Len(s) = j
        BY <1>2
      <4> HIDE DEF k
      <4>2. t[k] = f[j]
        BY <1>4, <4>1
      <4> QED
        BY <4>2 DEF k
    <3> QED
      BY <3>1, <3>2 DEF f
  <2> QED
    BY <1>2, <2>1, <2>2
<1>10. Cuts(t, ns, new)
  BY <1>3, <1>7, <1>8, <1>9 DEF Cuts
<1> QED
  BY <1>10 DEF Frames, t, ns, f

(* The first frame. *)
LEMMA FrameRead ==
  ASSUME NEW s \in Seq(Byte), NEW ms \in Seq(Messages), Frames(s, ms), ms # <<>>
  PROVE  \E t \in Seq(Byte) : s = Cat(Frame(Head(ms)), t) /\ Frames(t, Tail(ms))
<1> DEFINE n == Len(ms)  ns == Tail(ms)  f == Frame(Head(ms))  l == Len(f)  t == Drop(s, l)
<1>1. PICK cut : Cuts(s, ms, cut)
  BY DEF Frames
<1>2. n \in Nat \ {0} /\ Len(s) \in Nat /\ Head(ms) = ms[1] /\ Head(ms) \in Messages
  BY EmptySeq, HeadTailProperties
<1>3. f \in Seq(Byte) /\ l \in Nat \ {0}
  BY <1>2, FrameIs
<1>4. Len(ns) = n - 1 /\ \A i \in 1..(n - 1) : ns[i] = ms[i + 1]
  BY HeadTailProperties
<1>5. /\ \A i \in 0..n : cut[i] \in Nat
      /\ cut[0] = 0 /\ cut[n] = Len(s)
      /\ \A i, j \in 0..n : i <= j => cut[i] <= cut[j]
      /\ \A i \in 1..n : cut[i] = cut[i - 1] + Len(Frame(ms[i]))
      /\ \A i \in 1..n : \A j \in 1..Len(Frame(ms[i])) : s[cut[i - 1] + j] = Frame(ms[i])[j]
  BY <1>1 DEF Cuts
<1>6. \A i \in 1..n : Len(Frame(ms[i])) \in Nat
  BY FrameIs
<1>7. cut[1] = l /\ l \in 0..Len(s) /\ \A j \in 1..l : s[j] = f[j]
  <2>1. 1 \in 1..n /\ 1 - 1 = 0 /\ 1 \in 0..n /\ n \in 0..n /\ 1 <= n
    BY <1>2
  <2>2. cut[1] = 0 + l /\ cut[1] <= Len(s) /\ \A j \in 1..l : s[0 + j] = f[j]
    BY <1>2, <1>5, <2>1
  <2> HIDE DEF f, l
  <2> QED
    BY <1>2, <1>3, <2>2
<1>8. /\ t \in Seq(Byte) /\ Len(t) = Len(s) - l
      /\ \A i \in 1..(Len(s) - l) : t[i] = s[l + i]
  BY <1>7, TakeDrop
<1>9. s = Cat(f, t)
  <2>1. /\ Take(s, l) \in Seq(Byte) /\ Len(Take(s, l)) = l /\ \A i \in 1..l : Take(s, l)[i] = s[i]
        /\ Take(s, l) \o t = s
    <3> HIDE DEF l
    <3> QED
      BY <1>7, TakeDrop
  <2>2. Take(s, l) = f
    <3> DEFINE h == Take(s, l)
    <3>1. h \in Seq(Byte) /\ Len(h) = Len(f) /\ \A i \in 1..Len(h) : h[i] = f[i]
      BY <1>7, <2>1
    <3> HIDE DEF h, f
    <3>2. h = f
      BY <1>3, <3>1, SeqEqual
    <3> QED
      BY <3>2 DEF h
  <2> QED
    BY <2>1, <2>2 DEF Cat
<1> DEFINE new == [i \in 0..(n - 1) |-> cut[i + 1] - l]
<1> HIDE DEF n, ns, f, t, l
<1>10. DOMAIN new = 0..(n - 1) /\ \A i \in 0..(n - 1) : new[i] = cut[i + 1] - l
  OBVIOUS
<1> HIDE DEF new
<1>11. \A i \in 0..(n - 1) : i + 1 \in 0..n /\ 1 \in 0..n /\ 1 <= i + 1 /\ i + 1 \in 1..n
  BY <1>2
<1>12. \A i \in 0..(n - 1) : cut[i + 1] >= l
  BY <1>2, <1>5, <1>7, <1>11
<1>13. ASSUME NEW i \in 0..(n - 1) PROVE new[i] \in Nat
  <2>1. cut[i + 1] \in Nat /\ cut[i + 1] >= l /\ new[i] = cut[i + 1] - l
    BY <1>5, <1>10, <1>11, <1>12
  <2> QED
    BY <1>3, <2>1
<1>14. new[0] = 0 /\ new[n - 1] = Len(t)
  <2>1. 0 \in 0..(n - 1) /\ n - 1 \in 0..(n - 1) /\ 0 + 1 = 1 /\ (n - 1) + 1 = n
    BY <1>2
  <2>2. new[0] = cut[1] - l /\ new[n - 1] = cut[n] - l
    BY <1>10, <2>1
  <2> QED
    BY <1>3, <1>5, <1>7, <1>8, <2>2
<1>15. ASSUME NEW i \in 0..(n - 1), NEW j \in 0..(n - 1), i <= j PROVE new[i] <= new[j]
  <2>1. i + 1 \in 0..n /\ j + 1 \in 0..n /\ i + 1 <= j + 1
    BY <1>2, <1>15
  <2>2. cut[i + 1] <= cut[j + 1] /\ cut[i + 1] \in Nat /\ cut[j + 1] \in Nat
    BY <1>5, <2>1
  <2> QED
    BY <1>3, <1>10, <2>2
<1>16. ASSUME NEW i \in 1..(n - 1)
       PROVE  /\ new[i] = new[i - 1] + Len(Frame(ns[i]))
              /\ \A j \in 1..Len(Frame(ns[i])) : t[new[i - 1] + j] = Frame(ns[i])[j]
  <2> DEFINE g == Frame(ns[i])  c == cut[i]
  <2>1. /\ i + 1 \in 1..n /\ (i + 1) - 1 = i /\ i \in 0..n /\ i + 1 \in 0..n
        /\ i \in 0..(n - 1) /\ i - 1 \in 0..(n - 1) /\ (i - 1) + 1 = i /\ ns[i] = ms[i + 1]
    BY <1>2, <1>4
  <2>2. cut[i + 1] = c + Len(g) /\ \A j \in 1..Len(g) : s[c + j] = g[j]
    BY <1>5, <2>1
  <2>3. Len(g) \in Nat /\ c \in Nat /\ cut[i + 1] <= Len(s) /\ c >= l
    <3>1. n \in 0..n /\ i + 1 <= n
      BY <1>2
    <3>2. cut[i + 1] <= Len(s)
      BY <1>5, <2>1, <3>1
    <3> QED
      BY <1>5, <1>6, <1>12, <2>1, <3>2
  <2>4. new[i] = cut[i + 1] - l /\ new[i - 1] = c - l
    BY <1>10, <2>1
  <2> HIDE DEF g, c
  <2>5. new[i] = new[i - 1] + Len(g)
    BY <1>3, <2>2, <2>3, <2>4
  <2>6. ASSUME NEW j \in 1..Len(g) PROVE t[new[i - 1] + j] = g[j]
    <3> DEFINE k == new[i - 1] + j
    <3>1. k \in 1..(Len(s) - l) /\ l + k = c + j
      BY <1>2, <1>3, <2>2, <2>3, <2>4
    <3> HIDE DEF k
    <3>2. t[k] = s[c + j]
      BY <1>8, <3>1
    <3> QED
      BY <2>2, <3>2 DEF k
  <2> QED
    BY <2>5, <2>6 DEF g
<1>17. Cuts(t, ns, new)
  BY <1>4, <1>10, <1>13, <1>14, <1>15, <1>16 DEF Cuts
<1> QED
  BY <1>8, <1>9, <1>17 DEF Frames, ns, f
-----------------------------------------------------------------------------
(* The bytes on the way, from the WriteContext to the ReadContext.          *)
Part == IF writer.state = "Length" THEN writer.len ELSE writer.msg
Unwritten == IF writer.state = "Length" THEN writer.msg ELSE <<>>
ToWrite == Cat(Slice, Unwritten)
InTransit == Cat(reader_buf, Cat(pipe, Cat(writer_buf, ToWrite)))

(* What the ReadContext has of a frame that is not complete.                *)
Prefix == IF reader.state = "Length" THEN <<>> ELSE Encode(reader.length)
Got == Cat(Prefix, Take(reader.buffer, reader.read))

SendOK ==
    /\ writer \in [state : {"Length", "Payload"}, written : Nat, msg : Seq(Byte), len : Seq(Byte)]
    /\ writer.written <= Len(Part)
    /\ queue \in Seq(Messages) /\ writer_buf \in Seq(Byte) /\ pipe \in Seq(Byte)

ReadOK ==
    /\ reader \in [state : {"Length", "Payload"}, read : Nat, length : Nat, buffer : Seq(Byte)]
    /\ reader.read < reader.length /\ reader.length <= Len(reader.buffer)
    /\ LenSize <= Len(reader.buffer)
    /\ reader.state = "Length" => reader.length = LenSize
    /\ reader_buf \in Seq(Byte)
    /\ sent \in Seq(Messages) /\ delivered \in Seq(Messages)

(* The messages that are neither in the queue nor delivered are on the way, *)
(* frame after frame.                                                       *)
OnTheWay(rest) ==
    /\ sent = Cat(delivered, Cat(rest, queue))
    /\ Frames(Cat(Got, InTransit), rest)
    /\ reader.state = "Payload" => rest # <<>> /\ reader.length = Len(Head(rest))
FrameInv == SendOK /\ ReadOK /\ \E rest \in Seq(Messages) : OnTheWay(rest)

(* Append as a concatenation.                                               *)
LEMMA AppendCat ==
  ASSUME NEW S, NEW s \in Seq(S), NEW x \in S
  PROVE  Append(s, x) = Cat(s, <<x>>) /\ <<x>> \in Seq(S) /\ Append(s, x) \in Seq(S)
<1>1. <<x>> \in Seq(S)
  OBVIOUS
<1>2. Append(s, x) = s \o <<x>>
  BY AppendIsConcat
<1> QED
  BY <1>1, <1>2, AppendProperties DEF Cat

(* Head and Tail as a concatenation.                                        *)
LEMMA HeadTailCat ==
  ASSUME NEW S, NEW s \in Seq(S), s # <<>>
  PROVE  /\ s = Cat(<<Head(s)>>, Tail(s)) /\ Head(s) \in S /\ Tail(s) \in Seq(S)
         /\ <<Head(s)>> \in Seq(S)
<1>1. Head(s) \in S /\ Tail(s) \in Seq(S) /\ Len(Tail(s)) = Len(s) - 1 /\ Head(s) = s[1]
      /\ Len(s) \in Nat \ {0} /\ \A i \in 1..(Len(s) - 1) : Tail(s)[i] = s[i + 1]
  BY EmptySeq, HeadTailProperties
<1> DEFINE h == <<Head(s)>>  t == Tail(s)  c == Cat(h, t)
<1>2. h \in Seq(S) /\ Len(h) = 1 /\ h[1] = s[1]
  BY <1>1
<1>3. t \in Seq(S) /\ Len(t) = Len(s) - 1 /\ \A i \in 1..(Len(s) - 1) : t[i] = s[i + 1]
  BY <1>1
<1> HIDE DEF h, t
<1>4. h \in Seq(S)
  BY <1>2
<1>5. t \in Seq(S)
  BY <1>3
<1>6. /\ c \in Seq(S) /\ Len(c) = Len(h) + Len(t)
      /\ \A i \in 1..(Len(h) + Len(t)) : c[i] = IF i <= Len(h) THEN h[i] ELSE t[i - Len(h)]
  BY <1>4, <1>5, CatIs
<1> HIDE DEF c
<1>7. Len(c) = Len(s)
  BY <1>1, <1>2, <1>3, <1>6
<1>8. ASSUME NEW i \in 1..Len(c) PROVE c[i] = s[i]
  <2>1. CASE i = 1
    BY <1>2, <1>3, <1>6, <1>1, <2>1
  <2>2. CASE i # 1
    <3> DEFINE k == i - 1
    <3>1. k \in 1..(Len(s) - 1) /\ k + 1 = i /\ ~ (i <= Len(h)) /\ i \in 1..(Len(h) + Len(t)) /\ i - Len(h) = k
      BY <1>1, <1>2, <1>6, <1>7, <2>2
    <3> HIDE DEF k
    <3>2. c[i] = t[k]
      BY <1>6, <3>1
    <3> QED
      BY <1>3, <3>1, <3>2
  <2> QED
    BY <2>1, <2>2
<1>9. c = s
  BY <1>6, <1>7, <1>8, SeqEqual
<1> QED
  BY <1>1, <1>2, <1>9 DEF c, h, t

(* What the WriteContext still has to write are bytes.                      *)
LEMMA Sliced ==
  ASSUME SendOK
  PROVE  /\ Slice \in Seq(Byte) /\ Slice = Drop(Part, writer.written) /\ Part \in Seq(Byte)
         /\ writer.written \in 0..Len(Part)
         /\ Unwritten \in Seq(Byte) /\ ToWrite \in Seq(Byte)
         /\ Cat(writer_buf, ToWrite) \in Seq(Byte) /\ Cat(pipe, Cat(writer_buf, ToWrite)) \in Seq(Byte)
<1>1. Part \in Seq(Byte) /\ writer.written \in 0..Len(Part) /\ Slice = Drop(Part, writer.written)
  BY DEF SendOK, Part, Slice
<1>2. Slice \in Seq(Byte)
  BY <1>1, TakeDrop
<1>3. Unwritten \in Seq(Byte)
  BY EmptySeq DEF SendOK, Unwritten
<1>4. ToWrite \in Seq(Byte)
  BY <1>2, <1>3, CatIs DEF ToWrite
<1>5. writer_buf \in Seq(Byte) /\ pipe \in Seq(Byte)
  BY DEF SendOK
<1>6. Cat(writer_buf, ToWrite) \in Seq(Byte)
  BY <1>4, <1>5, CatIs
<1>7. Cat(pipe, Cat(writer_buf, ToWrite)) \in Seq(Byte)
  BY <1>5, <1>6, CatIs
<1> QED
  BY <1>1, <1>2, <1>3, <1>4, <1>6, <1>7

(* So is everything on the way.                                             *)
LEMMA AllBytes ==
  ASSUME SendOK, ReadOK
  PROVE  /\ InTransit \in Seq(Byte) /\ Got \in Seq(Byte) /\ Cat(Got, InTransit) \in Seq(Byte)
         /\ Prefix \in Seq(Byte)
         /\ reader.buffer \in Seq(Byte) /\ reader.read \in 0..Len(reader.buffer)
         /\ Take(reader.buffer, reader.read) \in Seq(Byte)
         /\ Len(Take(reader.buffer, reader.read)) = reader.read
<1>1. reader_buf \in Seq(Byte) /\ Cat(pipe, Cat(writer_buf, ToWrite)) \in Seq(Byte)
  BY Sliced DEF ReadOK
<1>2. InTransit \in Seq(Byte)
  BY <1>1, CatIs DEF InTransit
<1>3. reader.length \in Nat /\ reader.buffer \in Seq(Byte) /\ reader.read \in 0..Len(reader.buffer)
  BY DEF ReadOK
<1>4. Prefix \in Seq(Byte)
  BY <1>3, Encoded, EmptySeq DEF Prefix
<1>5. Take(reader.buffer, reader.read) \in Seq(Byte) /\ Len(Take(reader.buffer, reader.read)) = reader.read
  BY <1>3, TakeDrop
<1>6. Got \in Seq(Byte)
  BY <1>4, <1>5, CatIs DEF Got
<1>7. Cat(Got, InTransit) \in Seq(Byte)
  BY <1>2, <1>6, CatIs
<1> QED
  BY <1>2, <1>3, <1>4, <1>5, <1>6, <1>7

(* A new connection has nothing on the way (peer.rs:158-205).               *)
LEMMA FrameInit == ConnInit => FrameInv
<1> SUFFICES ASSUME ConnInit PROVE FrameInv
  OBVIOUS
<1>1. /\ queue = <<>> /\ pipe = <<>>
      /\ writer = [state |-> "Payload", written |-> 0, msg |-> <<>>, len |-> Encode(0)]
      /\ writer_buf = <<>> /\ reader_buf = <<>> /\ sent = <<>> /\ delivered = <<>>
      /\ reader = [state |-> "Length", read |-> 0, length |-> LenSize, buffer |-> Encode(0)]
  BY DEF ConnInit
<1>2. Encode(0) \in Seq(Byte) /\ Len(Encode(0)) = LenSize /\ LenSize \in Nat \ {0}
  BY Encoded, ConnectionAssumption
<1>3. \A S : <<>> \in Seq(S) /\ Cat(<<>>, <<>>) = <<>> /\ Len(<<>>) = 0
  BY CatIs, EmptySeq
<1> DEFINE e == Encode(0)
<1> HIDE DEF e
<1>4. /\ writer.state = "Payload" /\ writer.written = 0 /\ writer.msg = <<>>
      /\ writer \in [state : {"Length", "Payload"}, written : Nat, msg : Seq(Byte), len : Seq(Byte)]
  BY <1>1, <1>2, <1>3 DEF e
<1>5. SendOK
  BY <1>1, <1>3, <1>4 DEF SendOK, Part
<1>6. /\ reader.state = "Length" /\ reader.read = 0 /\ reader.length = LenSize /\ reader.buffer = e
      /\ reader \in [state : {"Length", "Payload"}, read : Nat, length : Nat, buffer : Seq(Byte)]
  BY <1>1, <1>2 DEF e
<1>7. ReadOK
  BY <1>1, <1>2, <1>3, <1>6 DEF ReadOK, e
<1>8. Take(e, 0) = <<>> /\ Drop(<<>>, 0) = <<>>
  BY <1>2, <1>3, Whole DEF e
<1>9. Got = <<>>
  BY <1>3, <1>6, <1>8 DEF Got, Prefix
<1>10. Slice = <<>>
  BY <1>4, <1>8 DEF Slice
<1>11. ToWrite = <<>>
  BY <1>3, <1>4, <1>10 DEF ToWrite, Unwritten
<1>12. InTransit = <<>>
  BY <1>1, <1>3, <1>11 DEF InTransit
<1>13. OnTheWay(<<>>)
  BY <1>1, <1>3, <1>6, <1>9, <1>12, NoFrames DEF OnTheWay
<1> QED
  BY <1>3, <1>5, <1>7, <1>13 DEF FrameInv
-----------------------------------------------------------------------------
(* The sender.                                                              *)

(* Steps that move bytes, and steps that only touch what calls whom.        *)
LEMMA BytesMove ==
  ASSUME FrameInv, SendOK', ReadOK', UNCHANGED <<reader, sent, delivered, queue>>,
         InTransit' = InTransit
  PROVE  FrameInv'
<1>1. PICK rest \in Seq(Messages) : OnTheWay(rest)
  BY DEF FrameInv
<1>2. Got' = Got
  BY DEF Got, Prefix
<1>3. OnTheWay(rest)'
  BY <1>1, <1>2 DEF OnTheWay
<1> QED
  BY <1>3 DEF FrameInv

(* In particular the steps that leave all bytes where they are.             *)
LEMMA NothingMoves ==
  ASSUME FrameInv, UNCHANGED <<queue, writer, writer_buf, pipe, reader, reader_buf, sent, delivered>>
  PROVE  FrameInv'
<1>1. Slice' = Slice /\ Unwritten' = Unwritten /\ Part' = Part
  BY DEF Slice, Unwritten, Part
<1>2. InTransit' = InTransit
  BY <1>1 DEF InTransit, ToWrite
<1>3. SendOK' /\ ReadOK'
  BY <1>1 DEF FrameInv, SendOK, ReadOK
<1> QED
  BY <1>2, <1>3, BytesMove

(* The receiver's part of the type, for the steps of the sender.            *)
LEMMA ReadKept ==
  ASSUME ReadOK, UNCHANGED <<reader, reader_buf, sent, delivered>> PROVE ReadOK'
  BY DEF ReadOK

(* The cursor moves.                                                        *)
LEMMA CursorMoves ==
  ASSUME SendOK, NEW n \in 0..Len(Slice), Written(n)
  PROVE  /\ writer' \in [state : {"Length", "Payload"}, written : Nat, msg : Seq(Byte), len : Seq(Byte)]
         /\ writer'.written <= Len(Part') /\ writer'.state = writer.state
         /\ Slice' = Drop(Slice, n) /\ Unwritten' = Unwritten
<1> DEFINE w == writer.written
<1>1. Part \in Seq(Byte) /\ w \in 0..Len(Part) /\ Slice = Drop(Part, w)
  BY Sliced
<1>2. Len(Part) \in Nat
  BY <1>1
<1>3. Len(Slice) = Len(Part) - w
  <2> HIDE DEF w
  <2> QED
    BY <1>1, TakeDrop
<1>4. n \in Nat /\ w \in Nat /\ w + n \in Nat /\ w + n <= Len(Part) /\ n \in 0..(Len(Part) - w)
  <2> HIDE DEF w
  <2> QED
    BY <1>1, <1>2, <1>3
<1>5. /\ writer'.state = writer.state /\ writer'.msg = writer.msg /\ writer'.len = writer.len
      /\ writer'.written = w + n
      /\ writer' \in [state : {"Length", "Payload"}, written : Nat, msg : Seq(Byte), len : Seq(Byte)]
  BY <1>4 DEF Written, SendOK
<1>6. Part' = Part /\ Unwritten' = Unwritten
  BY <1>5 DEF Part, Unwritten
<1>7. Slice' = Drop(Part, w + n)
  BY <1>5, <1>6 DEF Slice, Part
<1>8. Drop(Part, w + n) = Drop(Drop(Part, w), n)
  <2> HIDE DEF w
  <2> QED
    BY <1>1, <1>4, DropDrop
<1> QED
  BY <1>1, <1>4, <1>5, <1>6, <1>7, <1>8

(* The room in the sockets is a number.                                     *)
LEMMA RoomIs == ASSUME SendOK PROVE Room \in Int
  BY ConnectionAssumption DEF SendOK, Room

(* The BufWriter hands its first bytes to the sockets.                      *)
LEMMA FlushFrames == ASSUME FrameInv, NEW n, Flush(n) PROVE FrameInv'
<1>1. /\ SendOK /\ ReadOK /\ n \in 0..Len(writer_buf)
      /\ pipe' = pipe \o Take(writer_buf, n) /\ writer_buf' = Drop(writer_buf, n)
      /\ UNCHANGED <<queue, writer, reader, reader_buf, sent, delivered>>
  <2>1. n \in 1..Least(Len(writer_buf), Room)
    BY DEF Flush, IntoPipe
  <2>2. writer_buf \in Seq(Byte) /\ Len(writer_buf) \in Nat
    BY DEF FrameInv, SendOK
  <2>3. n \in 0..Len(writer_buf)
    BY <2>1, <2>2, RoomIs DEF Least, FrameInv
  <2> QED
    BY <2>3 DEF FrameInv, Flush, IntoPipe, OnlyWriter, receiverVars
<1>2. writer_buf \in Seq(Byte) /\ pipe \in Seq(Byte) /\ ToWrite \in Seq(Byte)
  BY <1>1, Sliced DEF SendOK
<1>3. /\ Take(writer_buf, n) \in Seq(Byte) /\ writer_buf' \in Seq(Byte)
      /\ pipe' = Cat(pipe, Take(writer_buf, n))
  BY <1>1, <1>2, TakeDrop DEF Cat
<1>4. pipe' \in Seq(Byte)
  BY <1>2, <1>3, CatIs
<1>5. Slice' = Slice /\ Unwritten' = Unwritten /\ Part' = Part
  BY <1>1 DEF Slice, Unwritten, Part
<1>6. ToWrite' = ToWrite
  BY <1>5 DEF ToWrite
<1>7. Cat(Cat(pipe, Take(writer_buf, n)), Cat(Drop(writer_buf, n), ToWrite))
        = Cat(pipe, Cat(writer_buf, ToWrite))
  BY <1>1, <1>2, MoveOn
<1>8. InTransit' = InTransit
  BY <1>1, <1>3, <1>6, <1>7 DEF InTransit
<1>9. SendOK'
  BY <1>1, <1>3, <1>4, <1>5 DEF SendOK
<1> QED
  BY <1>1, <1>8, <1>9, ReadKept, BytesMove

(* Bytes that bypass the BufWriter.                                         *)
LEMMA WriteThroughFrames == ASSUME FrameInv, NEW n, WriteThrough(n) PROVE FrameInv'
<1>1. /\ SendOK /\ ReadOK /\ n \in 0..Len(Slice) /\ Written(n)
      /\ pipe' = pipe \o Take(Slice, n) /\ writer_buf = <<>>
      /\ UNCHANGED <<queue, writer_buf, reader, reader_buf, sent, delivered>>
  <2>1. n \in 1..Least(Len(Slice), Room)
    BY DEF WriteThrough, IntoPipe
  <2>2. Len(Slice) \in Nat
    BY Sliced DEF FrameInv
  <2>3. n \in 0..Len(Slice)
    BY <2>1, <2>2, RoomIs DEF Least, FrameInv
  <2> QED
    BY <2>3 DEF FrameInv, WriteThrough, Bypass, IntoPipe, OnlyWriter, receiverVars
<1>2. /\ Slice \in Seq(Byte) /\ pipe \in Seq(Byte) /\ Unwritten \in Seq(Byte) /\ ToWrite \in Seq(Byte)
  BY <1>1, Sliced DEF SendOK
<1>3. /\ Take(Slice, n) \in Seq(Byte) /\ Drop(Slice, n) \in Seq(Byte)
      /\ pipe' = Cat(pipe, Take(Slice, n))
  BY <1>1, <1>2, TakeDrop DEF Cat
<1>4. pipe' \in Seq(Byte)
  BY <1>2, <1>3, CatIs
<1>5. /\ Slice' = Drop(Slice, n) /\ Unwritten' = Unwritten
      /\ writer' \in [state : {"Length", "Payload"}, written : Nat, msg : Seq(Byte), len : Seq(Byte)]
      /\ writer'.written <= Len(Part')
  BY <1>1, CursorMoves
<1>6. ToWrite' = Cat(Drop(Slice, n), Unwritten)
  BY <1>5 DEF ToWrite
<1>7. Cat(Drop(Slice, n), Unwritten) \in Seq(Byte)
  BY <1>2, <1>3, CatIs
<1>8. Cat(writer_buf, ToWrite) = ToWrite /\ Cat(writer_buf', ToWrite') = ToWrite'
  BY <1>1, <1>2, <1>6, <1>7, CatIs
<1>9. Cat(Cat(pipe, Take(Slice, n)), Cat(Drop(Slice, n), Unwritten)) = Cat(pipe, Cat(Slice, Unwritten))
  BY <1>1, <1>2, MoveOn
<1>10. Cat(pipe', ToWrite') = Cat(pipe, ToWrite)
  BY <1>3, <1>6, <1>9 DEF ToWrite
<1>11. InTransit' = InTransit
  BY <1>1, <1>8, <1>10 DEF InTransit
<1>12. SendOK'
  BY <1>1, <1>4, <1>5 DEF SendOK
<1> QED
  BY <1>1, <1>11, <1>12, ReadKept, BytesMove

(* Bytes that stay in the BufWriter.                                        *)
LEMMA WriteBufferedFrames == ASSUME FrameInv, WriteBuffered PROVE FrameInv'
<1> DEFINE n == Len(Slice)
<1>1. /\ SendOK /\ ReadOK /\ Written(n)
      /\ writer_buf' = Cat(writer_buf, Slice)
      /\ UNCHANGED <<queue, pipe, reader, reader_buf, sent, delivered>>
  BY DEF FrameInv, WriteBuffered, OnlyWriter, receiverVars, Cat
<1>2. /\ Slice \in Seq(Byte) /\ writer_buf \in Seq(Byte) /\ pipe \in Seq(Byte)
      /\ Unwritten \in Seq(Byte)
  BY <1>1, Sliced DEF SendOK
<1>3. n \in 0..n
  BY <1>2
<1>4. /\ Slice' = Drop(Slice, n) /\ Unwritten' = Unwritten
      /\ writer' \in [state : {"Length", "Payload"}, written : Nat, msg : Seq(Byte), len : Seq(Byte)]
      /\ writer'.written <= Len(Part')
  BY <1>1, <1>3, CursorMoves
<1>5. Slice' = <<>>
  BY <1>2, <1>4, Whole
<1>6. ToWrite' = Unwritten
  BY <1>2, <1>4, <1>5, CatIs DEF ToWrite
<1>7. Cat(Cat(writer_buf, Slice), Unwritten) = Cat(writer_buf, Cat(Slice, Unwritten))
  BY <1>2, Assoc
<1>8. Cat(writer_buf', ToWrite') = Cat(writer_buf, ToWrite)
  BY <1>1, <1>6, <1>7 DEF ToWrite
<1>9. InTransit' = InTransit
  BY <1>1, <1>8 DEF InTransit
<1>10. writer_buf' \in Seq(Byte)
  BY <1>1, <1>2, CatIs
<1>11. SendOK'
  BY <1>1, <1>2, <1>4, <1>10 DEF SendOK
<1> QED
  BY <1>1, <1>9, <1>11, ReadKept, BytesMove

(* The length is written: the message is next.                              *)
LEMMA LengthWrittenFrames == ASSUME FrameInv, LengthWritten PROVE FrameInv'
<1>1. /\ SendOK /\ ReadOK /\ writer.state = "Length" /\ Slice = <<>>
      /\ writer' = [writer EXCEPT !.written = 0, !.state = "Payload"]
      /\ UNCHANGED <<queue, writer_buf, pipe, reader, reader_buf, sent, delivered>>
  BY DEF FrameInv, LengthWritten, OnlyWriter, receiverVars
<1>2. writer.msg \in Seq(Byte) /\ Len(writer.msg) \in Nat
  BY <1>1 DEF SendOK
<1>3. /\ writer'.state = "Payload" /\ writer'.written = 0 /\ writer'.msg = writer.msg
      /\ writer' \in [state : {"Length", "Payload"}, written : Nat, msg : Seq(Byte), len : Seq(Byte)]
  BY <1>1 DEF SendOK
<1>4. Slice' = Drop(writer.msg, 0)
  BY <1>3 DEF Slice
<1>5. Slice' = writer.msg
  BY <1>2, <1>4, Whole
<1>6. ToWrite' = writer.msg
  BY <1>2, <1>3, <1>5, CatIs DEF ToWrite, Unwritten
<1>7. ToWrite = writer.msg
  BY <1>1, <1>2, CatIs DEF ToWrite, Unwritten
<1>8. InTransit' = InTransit
  BY <1>1, <1>6, <1>7 DEF InTransit
<1>9. SendOK'
  BY <1>1, <1>2, <1>3 DEF SendOK, Part
<1> QED
  BY <1>1, <1>8, <1>9, ReadKept, BytesMove

(* A message is a frame on the way as soon as it leaves the queue.          *)
LEMMA NextMessageFrames == ASSUME FrameInv, NextMessage PROVE FrameInv'
<1>0. PICK m : m = Head(queue)
  OBVIOUS
<1>1. /\ SendOK /\ ReadOK /\ writer.state = "Payload" /\ Slice = <<>> /\ writer_buf = <<>>
      /\ queue # <<>> /\ queue' = Tail(queue)
      /\ writer' = [state |-> "Length", written |-> 0, msg |-> m, len |-> Encode(Len(m))]
      /\ UNCHANGED <<writer_buf, pipe, reader, reader_buf, sent, delivered>>
  BY <1>0 DEF FrameInv, NextMessage, PayloadWritten, receiverVars
<1>2. PICK rest \in Seq(Messages) : OnTheWay(rest)
  BY DEF FrameInv
<1>3. /\ queue \in Seq(Messages) /\ pipe \in Seq(Byte) /\ reader_buf \in Seq(Byte)
      /\ delivered \in Seq(Messages)
  BY <1>1 DEF SendOK, ReadOK
<1>4. queue = Cat(<<m>>, Tail(queue)) /\ m \in Messages /\ Tail(queue) \in Seq(Messages) /\ <<m>> \in Seq(Messages)
  BY <1>0, <1>1, <1>3, HeadTailCat
<1> DEFINE e == Encode(Len(m))  f == Frame(m)
<1>5. /\ m \in Seq(Byte) /\ Len(m) \in Nat /\ e \in Seq(Byte) /\ Len(e) \in Nat /\ f \in Seq(Byte)
  BY <1>4, FrameIs
<1>6. f = Cat(e, m)
  BY DEF Frame
<1> HIDE DEF e, f
<1>7. /\ writer'.state = "Length" /\ writer'.written = 0 /\ writer'.msg = m /\ writer'.len = e
      /\ writer' \in [state : {"Length", "Payload"}, written : Nat, msg : Seq(Byte), len : Seq(Byte)]
  BY <1>1, <1>5 DEF e
<1>8. ToWrite = <<>>
  BY <1>1, CatIs, EmptySeq DEF ToWrite, Unwritten
<1>9. Slice' = Drop(e, 0)
  BY <1>7 DEF Slice
<1>10. Slice' = e
  BY <1>5, <1>9, Whole
<1>11. ToWrite' = f
  BY <1>6, <1>7, <1>10 DEF ToWrite, Unwritten
<1>12. InTransit = Cat(reader_buf, pipe)
  <2>1. Cat(writer_buf, ToWrite) = <<>>
    BY <1>1, <1>8, CatIs, EmptySeq
  <2> QED
    BY <1>3, <2>1, CatIs DEF InTransit
<1>13. InTransit' = Cat(reader_buf, Cat(pipe, f))
  <2>1. Cat(<<>>, f) = f
    BY <1>5, CatIs
  <2> QED
    BY <1>1, <1>11, <2>1 DEF InTransit
<1>14. InTransit' = Cat(InTransit, f)
  <2>1. Cat(Cat(reader_buf, pipe), f) = Cat(reader_buf, Cat(pipe, f))
    BY <1>3, <1>5, Assoc
  <2> QED
    BY <1>12, <1>13, <2>1
<1> DEFINE s == Cat(Got, InTransit)
<1>15. s \in Seq(Byte) /\ Got \in Seq(Byte) /\ InTransit \in Seq(Byte)
  BY <1>1, AllBytes
<1>16. Got' = Got
  BY <1>1 DEF Got, Prefix
<1>17. Cat(Got', InTransit') = Cat(s, f)
  BY <1>5, <1>14, <1>15, <1>16, Assoc
<1>18. Frames(s, rest)
  BY <1>2 DEF OnTheWay
<1> HIDE DEF s
<1>19. Frames(Cat(s, f), Append(rest, m))
  BY <1>4, <1>15, <1>18, FrameWritten DEF f
<1>20. Append(rest, m) = Cat(rest, <<m>>) /\ Append(rest, m) \in Seq(Messages)
  BY <1>4, AppendCat
<1>21. sent' = Cat(delivered', Cat(Append(rest, m), queue'))
  <2> DEFINE x == <<m>>  t == Tail(queue)
  <2>0. x \in Seq(Messages) /\ t \in Seq(Messages)
    BY <1>4
  <2> HIDE DEF x, t
  <2>1. Cat(Cat(rest, x), t) = Cat(rest, Cat(x, t))
    BY <2>0, Assoc
  <2>2. Cat(Append(rest, m), queue') = Cat(rest, queue)
    BY <1>1, <1>4, <1>20, <2>1 DEF x, t
  <2>3. sent = Cat(delivered, Cat(rest, queue))
    BY <1>2 DEF OnTheWay
  <2> QED
    BY <1>1, <2>2, <2>3
<1>22. reader.state = "Payload" =>
         Append(rest, m) # <<>> /\ reader.length = Len(Head(Append(rest, m)))
  <2>1. rest # <<>> => Append(rest, m) # <<>> /\ Head(Append(rest, m)) = Head(rest)
    BY <1>4
  <2> QED
    BY <1>2, <2>1 DEF OnTheWay
<1>23. OnTheWay(Append(rest, m))'
  BY <1>1, <1>17, <1>19, <1>21, <1>22 DEF OnTheWay
<1>24. SendOK'
  BY <1>1, <1>3, <1>4, <1>5, <1>7 DEF SendOK, Part
<1> QED
  BY <1>1, <1>20, <1>23, <1>24, ReadKept DEF FrameInv

(* A message joins the queue.                                               *)
LEMMA WriteFrames == ASSUME FrameInv, NEW m \in Messages, Write(m) PROVE FrameInv'
<1>1. /\ SendOK /\ ReadOK /\ sent' = Append(sent, m) /\ queue' = Append(queue, m)
      /\ UNCHANGED <<writer, writer_buf, pipe, reader, reader_buf, delivered>>
  BY DEF FrameInv, Write, receiverVars
<1>2. PICK rest \in Seq(Messages) : OnTheWay(rest)
  BY DEF FrameInv
<1>3. queue \in Seq(Messages) /\ sent \in Seq(Messages) /\ delivered \in Seq(Messages)
  BY <1>1 DEF SendOK, ReadOK
<1>4. /\ Append(queue, m) = Cat(queue, <<m>>) /\ Append(sent, m) = Cat(sent, <<m>>)
      /\ Append(queue, m) \in Seq(Messages) /\ Append(sent, m) \in Seq(Messages)
      /\ <<m>> \in Seq(Messages)
  BY <1>3, AppendCat
<1>5. Slice' = Slice /\ Unwritten' = Unwritten /\ Part' = Part
  BY <1>1 DEF Slice, Unwritten, Part
<1>6. InTransit' = InTransit
  BY <1>1, <1>5 DEF InTransit, ToWrite
<1>7. Got' = Got
  BY <1>1 DEF Got, Prefix
<1>8. sent' = Cat(delivered', Cat(rest, queue'))
  <2> DEFINE x == <<m>>  r == Cat(rest, queue)
  <2>0. x \in Seq(Messages) /\ r \in Seq(Messages)
    BY <1>3, <1>4, CatIs
  <2> HIDE DEF x
  <2>1. Cat(Cat(rest, queue), x) = Cat(rest, Cat(queue, x))
    BY <1>3, <2>0, Assoc
  <2> HIDE DEF r
  <2>2. Cat(Cat(delivered, r), x) = Cat(delivered, Cat(r, x))
    BY <1>3, <2>0, Assoc
  <2>3. sent = Cat(delivered, r)
    BY <1>2 DEF OnTheWay, r
  <2> QED
    BY <1>1, <1>4, <2>1, <2>2, <2>3 DEF r, x
<1>9. OnTheWay(rest)'
  BY <1>1, <1>2, <1>6, <1>7, <1>8 DEF OnTheWay
<1>10. SendOK' /\ ReadOK'
  BY <1>1, <1>4, <1>5 DEF SendOK, ReadOK
<1> QED
  BY <1>9, <1>10 DEF FrameInv
-----------------------------------------------------------------------------
(* The receiver.                                                            *)
LEMMA SendKept ==
  ASSUME SendOK, UNCHANGED senderVars, pipe' \in Seq(Byte)
  PROVE  SendOK' /\ ToWrite' = ToWrite /\ UNCHANGED <<queue, writer, writer_buf, sent>>
<1>1. UNCHANGED <<queue, writer, writer_buf, sent>>
  BY DEF senderVars
<1>2. Slice' = Slice /\ Unwritten' = Unwritten /\ Part' = Part
  BY <1>1 DEF Slice, Unwritten, Part
<1> QED
  BY <1>1, <1>2 DEF SendOK, ToWrite

(* What leaves the sockets.                                                 *)
LEMMA Taken ==
  ASSUME SendOK, NEW n, FromPipe(n)
  PROVE  /\ n \in 1..Len(pipe) /\ n \in 0..Len(pipe) /\ pipe \in Seq(Byte)
         /\ pipe' = Drop(pipe, n) /\ pipe' \in Seq(Byte)
         /\ Take(pipe, n) \in Seq(Byte) /\ Len(Take(pipe, n)) = n
         /\ Cat(Take(pipe, n), pipe') = pipe
<1>1. n \in 1..Len(pipe) /\ pipe' = Drop(pipe, n) /\ pipe \in Seq(Byte)
  BY DEF FromPipe, SendOK
<1>2. n \in 0..Len(pipe)
  BY <1>1
<1> QED
  BY <1>1, <1>2, TakeDrop DEF Cat

(* The BufReader takes bytes from the sockets.                              *)
LEMMA FillFrames == ASSUME FrameInv, NEW n, Fill(n) PROVE FrameInv'
<1>1. /\ SendOK /\ ReadOK /\ FromPipe(n) /\ reader_buf = <<>> /\ reader_buf' = Take(pipe, n)
      /\ UNCHANGED senderVars /\ UNCHANGED <<reader, delivered>>
  BY DEF FrameInv, Fill
<1>2. pipe \in Seq(Byte) /\ pipe' \in Seq(Byte) /\ Cat(reader_buf', pipe') = pipe /\ reader_buf' \in Seq(Byte)
  BY <1>1, Taken
<1>3. SendOK' /\ ToWrite' = ToWrite /\ UNCHANGED <<queue, writer, writer_buf, sent>>
  BY <1>1, <1>2, SendKept
<1>4. ReadOK'
  BY <1>1, <1>2, <1>3 DEF ReadOK
<1> DEFINE x == Cat(writer_buf, ToWrite)
<1>5. x \in Seq(Byte) /\ Cat(pipe, x) \in Seq(Byte)
  BY <1>1, Sliced
<1>6. InTransit = Cat(reader_buf, Cat(pipe, x)) /\ InTransit' = Cat(reader_buf', Cat(pipe', x))
  BY <1>3 DEF InTransit
<1> HIDE DEF x
<1>7. InTransit = Cat(pipe, x)
  BY <1>1, <1>5, <1>6, CatIs
<1>8. InTransit' = Cat(Cat(reader_buf', pipe'), x)
  BY <1>2, <1>5, <1>6, Assoc
<1>9. InTransit' = InTransit
  BY <1>2, <1>7, <1>8
<1> QED
  BY <1>1, <1>3, <1>4, <1>9, BytesMove

(* The bytes read are put behind the others.                                *)
LEMMA Overwritten ==
  ASSUME NEW b \in Seq(Byte), NEW at \in Nat, NEW bytes \in Seq(Byte), at + Len(bytes) <= Len(b)
  PROVE  /\ Overwrite(b, at, bytes) \in Seq(Byte) /\ Len(Overwrite(b, at, bytes)) = Len(b)
         /\ Take(Overwrite(b, at, bytes), at + Len(bytes)) = Cat(Take(b, at), bytes)
<1> DEFINE o == Overwrite(b, at, bytes)  k == Len(bytes)  n == at + k  t == Take(b, at)
           l == Take(o, n)  r == Cat(t, bytes)
<1>1. Len(b) \in Nat /\ DOMAIN b = 1..Len(b) /\ k \in Nat /\ DOMAIN bytes = 1..k
      /\ \A i \in 1..Len(b) : b[i] \in Byte
  OBVIOUS
<1>2. DOMAIN o = 1..Len(b) /\ \A i \in 1..Len(b) : o[i] = IF i - at \in 1..k THEN bytes[i - at] ELSE b[i]
  BY <1>1 DEF Overwrite
<1>3. \A i \in 1..Len(b) : o[i] \in Byte
  BY <1>1, <1>2
<1>4. o = [i \in 1..Len(b) |-> o[i]]
  BY <1>1 DEF Overwrite
<1> HIDE DEF o, k
<1>5. o \in Seq(Byte) /\ Len(o) = Len(b)
  BY <1>1, <1>2, <1>3, <1>4, IsASeq
<1>6. n \in 0..Len(o) /\ at \in 0..Len(b) /\ n \in Nat
  BY <1>1, <1>5 DEF k
<1>7. t \in Seq(Byte) /\ Len(t) = at /\ \A i \in 1..at : t[i] = b[i]
  BY <1>6, TakeDrop
<1> HIDE DEF n, t
<1>8. l \in Seq(Byte) /\ Len(l) = n /\ \A i \in 1..n : l[i] = o[i]
  BY <1>5, <1>6, TakeDrop
<1>9. t \in Seq(Byte)
  BY <1>7
<1>10. /\ r \in Seq(Byte) /\ Len(r) = Len(t) + Len(bytes)
       /\ \A i \in 1..(Len(t) + Len(bytes)) : r[i] = IF i <= Len(t) THEN t[i] ELSE bytes[i - Len(t)]
  BY <1>9, CatIs
<1> HIDE DEF l, r
<1>11. Len(l) = Len(r)
  BY <1>7, <1>8, <1>10 DEF n, k
<1>12. ASSUME NEW i \in 1..Len(l) PROVE l[i] = r[i]
  <2>1. /\ i \in 1..n /\ i \in 1..Len(b) /\ i \in 1..(Len(t) + Len(bytes)) /\ l[i] = o[i]
        /\ i \in Nat /\ at \in Nat
    BY <1>5, <1>6, <1>8, <1>10, <1>11
  <2>2. CASE i <= at
    <3>1. ~ (i - at \in 1..k) /\ i \in 1..at /\ i <= Len(t)
      BY <1>1, <1>7, <2>1, <2>2
    <3>2. o[i] = b[i] /\ t[i] = b[i] /\ r[i] = t[i]
      BY <1>2, <1>7, <1>10, <2>1, <3>1
    <3> QED
      BY <2>1, <3>2
  <2>3. CASE ~ (i <= at)
    <3>1. i - at \in 1..k /\ ~ (i <= Len(t)) /\ i - Len(t) = i - at
      BY <1>1, <1>7, <2>1, <2>3 DEF n
    <3>2. o[i] = bytes[i - at] /\ r[i] = bytes[i - Len(t)]
      BY <1>2, <1>10, <2>1, <3>1
    <3> QED
      BY <2>1, <3>1, <3>2
  <2> QED
    BY <2>2, <2>3
<1>13. l = r
  BY <1>8, <1>10, <1>11, <1>12, SeqEqual
<1> QED
  BY <1>5, <1>13 DEF o, l, r, n, k, t

(* The buffer holds what is to be read.                                     *)
LEMMA GrownIs ==
  ASSUME NEW b \in Seq(Byte), NEW n \in Nat
  PROVE  Grown(b, n) \in Seq(Byte) /\ Len(Grown(b, n)) >= n /\ Len(Grown(b, n)) >= Len(b)
         /\ Len(Grown(b, n)) \in Nat
<1> DEFINE l == Len(b)  m == n - Least(n, l)  z == [i \in 1..m |-> 0]
<1>1. l \in Nat /\ m \in Nat /\ l + m >= n /\ l + m >= l
  <2>1. l \in Nat
    OBVIOUS
  <2> HIDE DEF l
  <2> QED
    BY <2>1 DEF Least
<1> HIDE DEF m
<1>2. z \in Seq(Byte) /\ Len(z) = m
  <2>1. 0 \in Byte
    BY ConnectionAssumption DEF Byte
  <2> QED
    BY <1>1, <2>1, IsASeq
<1> HIDE DEF z
<1>a. z \in Seq(Byte)
  BY <1>2
<1>3. Cat(b, z) \in Seq(Byte) /\ Len(Cat(b, z)) = Len(b) + Len(z)
  BY <1>a, CatIs
<1>4. Grown(b, n) = Cat(b, z)
  BY DEF Grown, Cat, z, m
<1> QED
  BY <1>1, <1>2, <1>3, <1>4

(* The first message on the way is the next one to be delivered.            *)
LEMMA NextIsDelivered ==
  ASSUME ReadOK, NEW rest \in Seq(Messages), rest # <<>>, queue \in Seq(Messages),
         sent = Cat(delivered, Cat(rest, queue)),
         delivered' = Append(delivered, Head(rest)), UNCHANGED <<sent, queue>>
  PROVE  /\ Link!Deliver
         /\ sent' = Cat(delivered', Cat(Tail(rest), queue'))
         /\ delivered' \in Seq(Messages) /\ Tail(rest) \in Seq(Messages)
<1> DEFINE h == Head(rest)  x == <<h>>  t == Tail(rest)  q == Cat(t, queue)
<1>1. delivered \in Seq(Messages) /\ Len(delivered) \in Nat
  BY DEF ReadOK
<1>2. rest = Cat(x, t) /\ h \in Messages /\ t \in Seq(Messages) /\ x \in Seq(Messages) /\ Len(x) = 1 /\ x[1] = h
  BY HeadTailCat
<1> HIDE DEF h, x, t
<1>3. q \in Seq(Messages) /\ Len(q) \in Nat
  BY <1>2, CatIs
<1>4. Cat(rest, queue) = Cat(x, q)
  BY <1>2, Assoc
<1>5. Append(delivered, h) = Cat(delivered, x) /\ Append(delivered, h) \in Seq(Messages)
  BY <1>1, <1>2, AppendCat DEF x
<1> HIDE DEF q
<1>6. Cat(Cat(delivered, x), q) = Cat(delivered, Cat(x, q))
  BY <1>1, <1>2, <1>3, Assoc
<1>7. sent = Cat(Append(delivered, h), q)
  BY <1>4, <1>5, <1>6
<1>8. Len(delivered) < Len(sent) /\ sent[Len(delivered) + 1] = h
  <2> DEFINE d == Append(delivered, h)  n == Len(delivered)
  <2>1. d \in Seq(Messages) /\ Len(d) = n + 1 /\ d[n + 1] = h
    BY <1>1, <1>2, AppendProperties
  <2> HIDE DEF d
  <2>a. d \in Seq(Messages)
    BY <2>1
  <2>2. /\ Len(Cat(d, q)) = Len(d) + Len(q)
        /\ \A i \in 1..(Len(d) + Len(q)) : Cat(d, q)[i] = IF i <= Len(d) THEN d[i] ELSE q[i - Len(d)]
    BY <1>3, <2>a, CatIs
  <2>3. n + 1 \in 1..(Len(d) + Len(q)) /\ n + 1 <= Len(d)
    BY <1>1, <1>3, <2>1
  <2>4. sent = Cat(d, q)
    BY <1>7 DEF d
  <2>5. sent[n + 1] = h
    BY <2>1, <2>2, <2>3, <2>4
  <2>6. n < Len(sent)
    BY <1>1, <1>3, <2>1, <2>2, <2>4
  <2> QED
    BY <2>5, <2>6
<1>9. Link!Deliver
  BY <1>8 DEF Link!Deliver, h
<1>10. sent' = Cat(delivered', Cat(Tail(rest), queue'))
  BY <1>7 DEF q, t, h
<1> QED
  BY <1>2, <1>5, <1>9, <1>10 DEF t, h

(* A read puts the first bytes on the way behind those that are there.  If  *)
(* they are a length, it is the length of the first message on the way; if  *)
(* they are a message, it is that one.                                      *)
LEMMA AdvanceFrames ==
  ASSUME FrameInv, NEW bytes \in Seq(Byte), Len(bytes) \in 1..Wanted, Advance(bytes),
         NEW after \in Seq(Byte), InTransit' = after, InTransit = Cat(bytes, after),
         SendOK', reader_buf' \in Seq(Byte), UNCHANGED <<queue, sent>>
  PROVE  FrameInv' /\ (Link!Deliver \/ UNCHANGED delivered)
<1>1. PICK rest \in Seq(Messages) : OnTheWay(rest)
  BY DEF FrameInv
<1> DEFINE old == reader.buffer  at == reader.read  b == Overwrite(old, at, bytes)
           r == at + Len(bytes)  len == reader.length  p == Prefix  t == Take(old, at)
           B == Take(b, r)  s == Cat(Got, InTransit)
<1>2. /\ SendOK /\ ReadOK /\ at \in Nat /\ len \in Nat /\ old \in Seq(Byte) /\ Len(old) \in Nat
      /\ at < len /\ len <= Len(old) /\ LenSize <= Len(old) /\ LenSize \in Nat \ {0}
      /\ Len(bytes) \in 1..(len - at)
      /\ queue \in Seq(Messages) /\ sent \in Seq(Messages) /\ delivered \in Seq(Messages)
  BY ConnectionAssumption DEF FrameInv, ReadOK, SendOK, Wanted
<1>3. p \in Seq(Byte) /\ t \in Seq(Byte) /\ Got = Cat(p, t) /\ s \in Seq(Byte)
  BY <1>2, AllBytes DEF Got
<1>4. Frames(s, rest) /\ sent = Cat(delivered, Cat(rest, queue))
      /\ (reader.state = "Payload" => rest # <<>> /\ len = Len(Head(rest)))
  BY <1>1 DEF OnTheWay
<1>5. /\ IF r # len THEN /\ reader' = [reader EXCEPT !.buffer = b, !.read = r]
                         /\ UNCHANGED delivered
         ELSE IF reader.state = "Length" THEN
              /\ reader' = [state |-> "Payload", read |-> 0, length |-> Decode(Take(b, LenSize)),
                            buffer |-> Grown(b, Decode(Take(b, LenSize)))]
              /\ UNCHANGED delivered
         ELSE /\ reader' = [state |-> "Length", read |-> 0, length |-> LenSize, buffer |-> b]
              /\ delivered' = Append(delivered, Take(b, len))
  BY DEF Advance
<1>6. reader.state \in {"Length", "Payload"} /\ (reader.state = "Length" => len = LenSize)
  BY <1>2 DEF ReadOK
<1>7. p = IF reader.state = "Length" THEN <<>> ELSE Encode(len)
  BY DEF Prefix
<1> HIDE DEF p, s
<1>8. at + Len(bytes) <= Len(old) /\ r \in Nat /\ r <= len /\ r <= Len(old)
  <2> HIDE DEF at, len, old
  <2> QED
    BY <1>2 DEF r
<1>9. /\ b \in Seq(Byte) /\ Len(b) = Len(old) /\ B = Cat(t, bytes)
  BY <1>2, <1>8, Overwritten
<1> HIDE DEF old, at, t, b, len
<1>10. r \in 0..Len(b)
  BY <1>8, <1>9
<1>11. B \in Seq(Byte) /\ Len(B) = r
  <2> HIDE DEF r
  <2> QED
    BY <1>9, <1>10, TakeDrop
<1>12. s = Cat(Cat(p, B), after) /\ Cat(p, B) \in Seq(Byte)
  <2>1. Cat(p, t) \in Seq(Byte)
    BY <1>3, CatIs
  <2>2. Cat(Cat(Cat(p, t), bytes), after) = Cat(Cat(p, t), Cat(bytes, after))
    BY <2>1, Assoc
  <2>3. Cat(Cat(p, t), bytes) = Cat(p, Cat(t, bytes))
    BY <1>3, Assoc
  <2>4. Cat(p, B) \in Seq(Byte)
    BY <1>3, <1>11, CatIs
  <2> QED
    BY <1>3, <1>9, <2>2, <2>3, <2>4 DEF s
<1> HIDE DEF r, B
<1>13. CASE r # len
  <2>1. /\ reader'.state = reader.state /\ reader'.read = r /\ reader'.length = len /\ reader'.buffer = b
        /\ reader' \in [state : {"Length", "Payload"}, read : Nat, length : Nat, buffer : Seq(Byte)]
    BY <1>2, <1>5, <1>8, <1>9, <1>13 DEF ReadOK, len
  <2>2. delivered' = delivered
    BY <1>5, <1>13
  <2>3. r < len /\ r <= Len(b)
    BY <1>2, <1>8, <1>9, <1>13
  <2>4. ReadOK'
    <3>1. len <= Len(b) /\ LenSize <= Len(b)
      BY <1>2, <1>9
    <3> QED
      BY <1>2, <1>6, <2>1, <2>2, <2>3, <3>1 DEF ReadOK
  <2>5. Prefix' = p
    BY <1>7, <2>1 DEF Prefix
  <2>6. Got' = Cat(p, B)
    BY <2>1, <2>5 DEF Got, B
  <2>7. Cat(Got', InTransit') = s
    BY <1>12, <2>6
  <2>8. OnTheWay(rest)'
    BY <1>4, <2>1, <2>2, <2>7 DEF OnTheWay
  <2> QED
    BY <2>2, <2>4, <2>8 DEF FrameInv
<1>14. CASE r = len /\ reader.state = "Length"
  <2>1. len = LenSize /\ B = Take(b, LenSize) /\ Len(B) = LenSize /\ p = <<>>
    BY <1>6, <1>7, <1>11, <1>14 DEF B
  <2>2. s = Cat(B, after)
    BY <1>11, <1>12, <2>1, CatIs
  <2>3. rest # <<>>
    <3>1. Len(Cat(B, after)) = Len(B) + Len(after) /\ Len(after) \in Nat
      BY <1>11, CatIs
    <3>2. s # <<>>
      BY <1>2, <2>1, <2>2, <3>1, EmptySeq
    <3> QED
      BY <1>3, <1>4, <3>2, NoFrames
  <2>4. PICK u \in Seq(Byte) : s = Cat(Frame(Head(rest)), u)
    BY <1>3, <1>4, <2>3, FrameRead
  <2>5. PICK h : h = Head(rest)
    OBVIOUS
  <2>6. h \in Messages
    BY <2>3, <2>5, HeadTailCat
  <2> DEFINE e == Encode(Len(h))
  <2>7. /\ h \in Seq(Byte) /\ Len(h) \in 1..(Power[LenSize] - 1) /\ Len(h) \in Nat \ {0}
        /\ e \in Seq(Byte) /\ Len(e) = LenSize
    BY <2>6, FrameIs
  <2>8. s = Cat(e, Cat(h, u)) /\ Cat(h, u) \in Seq(Byte)
    <3> HIDE DEF e
    <3>1. Cat(Cat(e, h), u) = Cat(e, Cat(h, u))
      BY <2>7, Assoc
    <3>2. Cat(h, u) \in Seq(Byte)
      BY <2>7, CatIs
    <3> QED
      BY <2>4, <2>5, <3>1, <3>2 DEF Frame, e
  <2>9. B = e
    <3> HIDE DEF e
    <3>1. Cat(B, after) = Cat(e, Cat(h, u)) /\ Len(B) = Len(e)
      BY <2>1, <2>2, <2>7, <2>8
    <3> DEFINE v == Cat(h, u)
    <3>2. v \in Seq(Byte) /\ Cat(B, after) = Cat(e, v)
      BY <2>8, <3>1
    <3> HIDE DEF v
    <3> QED
      BY <1>11, <2>7, <3>1, <3>2, Cancel
  <2>10. Decode(Take(b, LenSize)) = Len(h)
    <3>1. Power[LenSize] \in Nat
      BY <1>2, PowerPositive
    <3>2. Len(h) \in 0..(Power[LenSize] - 1)
      BY <2>7, <3>1
    <3> QED
      BY <2>1, <2>9, <3>2, DecodeEncode
  <2> DEFINE g == Grown(b, Len(h))
  <2>11. g \in Seq(Byte) /\ Len(g) >= Len(h) /\ Len(g) >= Len(b) /\ Len(g) \in Nat
    BY <1>9, <2>7, GrownIs
  <2>12. /\ reader' = [state |-> "Payload", read |-> 0, length |-> Len(h), buffer |-> g]
         /\ delivered' = delivered
    BY <1>5, <1>14, <2>10
  <2> HIDE DEF g
  <2>13. /\ reader'.state = "Payload" /\ reader'.read = 0 /\ reader'.length = Len(h) /\ reader'.buffer = g
         /\ reader' \in [state : {"Length", "Payload"}, read : Nat, length : Nat, buffer : Seq(Byte)]
    BY <2>7, <2>11, <2>12
  <2>14. ReadOK'
    <3>1. 0 < Len(h) /\ Len(h) <= Len(g)
      BY <2>7, <2>11
    <3>2. LenSize <= Len(g)
      BY <1>2, <1>9, <2>11
    <3>3. reader'.read < reader'.length /\ reader'.length <= Len(reader'.buffer) /\ LenSize <= Len(reader'.buffer)
      BY <2>13, <3>1, <3>2
    <3> QED
      BY <1>2, <2>12, <2>13, <3>3 DEF ReadOK
  <2>15. Prefix' = e
    BY <2>13 DEF Prefix
  <2>16. Take(g, 0) = <<>>
    BY <2>11, Whole
  <2>17. Got' = Cat(e, <<>>)
    BY <2>13, <2>15, <2>16 DEF Got
  <2>18. Got' = B
    <3> HIDE DEF e
    <3> QED
      BY <2>7, <2>9, <2>17, CatIs
  <2>19. Cat(Got', InTransit') = s
    BY <2>2, <2>18
  <2>20. OnTheWay(rest)'
    BY <1>4, <2>3, <2>5, <2>12, <2>13, <2>19 DEF OnTheWay
  <2> QED
    BY <2>12, <2>14, <2>20 DEF FrameInv
<1>15. CASE r = len /\ reader.state = "Payload"
  <2>1. rest # <<>> /\ len = Len(Head(rest))
    BY <1>4, <1>15
  <2>2. PICK h : h = Head(rest)
    OBVIOUS
  <2>3. h \in Messages
    BY <2>1, <2>2, HeadTailCat
  <2>4. PICK u \in Seq(Byte) : s = Cat(Frame(h), u) /\ Frames(u, Tail(rest))
    BY <1>3, <1>4, <2>1, <2>2, FrameRead
  <2> DEFINE e == Encode(Len(h))  f == Frame(h)  c == Cat(p, B)
  <2>5. /\ h \in Seq(Byte) /\ e \in Seq(Byte) /\ Len(h) \in Nat /\ Len(e) \in Nat
        /\ f \in Seq(Byte) /\ p = e /\ Len(B) = Len(h)
    BY <1>7, <1>11, <1>15, <2>1, <2>2, <2>3, FrameIs
  <2>6. f = Cat(e, h)
    BY DEF Frame
  <2> HIDE DEF e, f
  <2>7. Len(c) = Len(f) /\ c \in Seq(Byte)
    <3>1. Len(Cat(e, B)) = Len(e) + Len(B)
      BY <1>11, <2>5, CatLen
    <3>2. Len(Cat(e, h)) = Len(e) + Len(h)
      BY <2>5, CatLen
    <3> QED
      BY <1>12, <2>5, <2>6, <3>1, <3>2
  <2>8. c = f /\ after = u
    <3>1. Cat(c, after) = Cat(f, u)
      BY <1>12, <2>4 DEF f
    <3> HIDE DEF c
    <3> QED
      BY <2>5, <2>7, <3>1, Cancel
  <2>9. B = h
    <3>1. Cat(e, B) = Cat(e, h)
      BY <2>5, <2>6, <2>8
    <3> QED
      BY <1>11, <2>5, <3>1, Cancel
  <2>10. /\ reader' = [state |-> "Length", read |-> 0, length |-> LenSize, buffer |-> b]
         /\ delivered' = Append(delivered, h)
    BY <1>5, <1>15, <2>9 DEF B
  <2>11. /\ Link!Deliver
         /\ sent' = Cat(delivered', Cat(Tail(rest), queue'))
         /\ delivered' \in Seq(Messages) /\ Tail(rest) \in Seq(Messages)
    BY <1>2, <1>4, <2>1, <2>2, <2>10, NextIsDelivered
  <2>12. /\ reader'.state = "Length" /\ reader'.read = 0 /\ reader'.length = LenSize /\ reader'.buffer = b
         /\ reader' \in [state : {"Length", "Payload"}, read : Nat, length : Nat, buffer : Seq(Byte)]
    BY <1>2, <1>9, <2>10
  <2>13. ReadOK'
    <3>1. 0 < LenSize /\ LenSize <= Len(b)
      BY <1>2, <1>9
    <3>2. sent' \in Seq(Messages) /\ delivered' \in Seq(Messages)
      BY <1>2, <2>11
    <3> QED
      BY <2>12, <3>1, <3>2 DEF ReadOK
  <2>14. Prefix' = <<>> /\ Take(b, 0) = <<>>
    BY <1>9, <2>12, Whole DEF Prefix
  <2>15. Got' = <<>>
    BY <2>12, <2>14, CatIs, EmptySeq DEF Got
  <2>16. Cat(Got', InTransit') = u
    BY <2>8, <2>15, CatIs
  <2>17. OnTheWay(Tail(rest))'
    BY <2>4, <2>11, <2>12, <2>16 DEF OnTheWay
  <2> QED
    BY <2>11, <2>13, <2>17 DEF FrameInv
<1> QED
  BY <1>6, <1>13, <1>14, <1>15

(* A read out of the BufReader.                                             *)
LEMMA ReadBufferedFrames ==
  ASSUME FrameInv, ReadBuffered
  PROVE  FrameInv' /\ (Link!Deliver \/ UNCHANGED delivered) /\ UNCHANGED sent
<1>1. PICK n : n = Least(Wanted, Len(reader_buf))
  OBVIOUS
<1>2. PICK bytes : bytes = Take(reader_buf, n)
  OBVIOUS
<1>3. /\ SendOK /\ ReadOK /\ reader_buf # <<>> /\ Advance(bytes) /\ reader_buf' = Drop(reader_buf, n)
      /\ UNCHANGED senderVars /\ UNCHANGED pipe
  BY <1>1, <1>2 DEF FrameInv, ReadBuffered
<1>4. pipe \in Seq(Byte) /\ reader_buf \in Seq(Byte) /\ Len(reader_buf) \in Nat \ {0}
  BY <1>3, EmptySeq DEF SendOK, ReadOK
<1>5. Wanted \in Nat \ {0}
  BY <1>3 DEF ReadOK, Wanted
<1>6. n \in 1..Wanted /\ n \in 0..Len(reader_buf)
  BY <1>1, <1>4, <1>5 DEF Least
<1>7. /\ bytes \in Seq(Byte) /\ Len(bytes) = n /\ reader_buf' \in Seq(Byte)
      /\ Cat(bytes, reader_buf') = reader_buf
  BY <1>2, <1>3, <1>4, <1>6, TakeDrop DEF Cat
<1>8. SendOK' /\ ToWrite' = ToWrite /\ UNCHANGED <<queue, writer, writer_buf, sent>>
  BY <1>3, <1>4, SendKept
<1> DEFINE x == Cat(pipe, Cat(writer_buf, ToWrite))
<1>9. x \in Seq(Byte)
  BY <1>3, Sliced
<1>10. InTransit = Cat(reader_buf, x) /\ InTransit' = Cat(reader_buf', x)
  BY <1>3, <1>8 DEF InTransit
<1> HIDE DEF x
<1>11. InTransit = Cat(bytes, InTransit')
  BY <1>7, <1>9, <1>10, Assoc
<1>12. InTransit' \in Seq(Byte)
  BY <1>7, <1>9, <1>10, CatIs
<1>13. PICK after : after = InTransit'
  OBVIOUS
<1> QED
  BY <1>3, <1>6, <1>7, <1>8, <1>11, <1>12, <1>13, AdvanceFrames

(* A read past the BufReader.                                               *)
LEMMA ReadThroughFrames ==
  ASSUME FrameInv, NEW n, ReadThrough(n)
  PROVE  FrameInv' /\ (Link!Deliver \/ UNCHANGED delivered) /\ UNCHANGED sent
<1>1. PICK bytes : bytes = Take(pipe, n)
  OBVIOUS
<1>2. /\ SendOK /\ ReadOK /\ reader_buf = <<>> /\ n <= Wanted /\ FromPipe(n) /\ Advance(bytes)
      /\ UNCHANGED senderVars /\ UNCHANGED reader_buf
  BY <1>1 DEF FrameInv, ReadThrough
<1>3. /\ n \in 1..Len(pipe) /\ pipe \in Seq(Byte) /\ pipe' \in Seq(Byte)
      /\ bytes \in Seq(Byte) /\ Len(bytes) = n /\ Cat(bytes, pipe') = pipe
  BY <1>1, <1>2, Taken
<1>4. Wanted \in Nat
  BY <1>2 DEF ReadOK, Wanted
<1>5. Len(bytes) \in 1..Wanted
  BY <1>2, <1>3, <1>4
<1>6. SendOK' /\ ToWrite' = ToWrite /\ UNCHANGED <<queue, writer, writer_buf, sent>>
  BY <1>2, <1>3, SendKept
<1> DEFINE x == Cat(writer_buf, ToWrite)
<1>7. x \in Seq(Byte) /\ Cat(pipe, x) \in Seq(Byte)
  BY <1>2, Sliced
<1>8. InTransit = Cat(reader_buf, Cat(pipe, x)) /\ InTransit' = Cat(reader_buf', Cat(pipe', x))
  BY <1>6 DEF InTransit
<1> HIDE DEF x
<1>9. Cat(pipe', x) \in Seq(Byte)
  BY <1>3, <1>7, CatIs
<1>10. InTransit = Cat(pipe, x) /\ InTransit' = Cat(pipe', x)
  BY <1>2, <1>7, <1>8, <1>9, CatIs
<1>11. InTransit = Cat(bytes, InTransit')
  BY <1>3, <1>7, <1>10, Assoc
<1>12. PICK after : after = InTransit'
  OBVIOUS
<1>13. reader_buf' \in Seq(Byte)
  BY <1>2, EmptySeq
<1> QED
  BY <1>2, <1>3, <1>5, <1>6, <1>9, <1>10, <1>11, <1>12, <1>13, AdvanceFrames

(* Every step keeps the invariant, and is a step of the Fifo or none of it. *)
LEMMA FrameStep ==
  FrameInv /\ [ConnNext]_connVars => FrameInv' /\ [Link!FifoNext]_(Link!fifoVars)
<1> SUFFICES ASSUME FrameInv, [ConnNext]_connVars
             PROVE  FrameInv' /\ (Link!FifoNext \/ UNCHANGED <<sent, delivered>>)
  BY DEF Link!fifoVars
<1>1. ASSUME NEW m \in Messages, Write(m) PROVE FrameInv' /\ Link!FifoNext
  <2>1. Link!Send(m)
    BY <1>1 DEF Write, receiverVars, Link!Send
  <2> QED
    BY <1>1, <2>1, WriteFrames DEF Link!FifoNext
<1>2. ASSUME SenderStep PROVE FrameInv' /\ UNCHANGED <<sent, delivered>>
  <2>1. CASE RegisterWriteInterest
    BY <2>1, NothingMoves DEF RegisterWriteInterest, receiverVars
  <2>2. CASE ProcessWritable
    BY <2>2, NothingMoves DEF ProcessWritable, receiverVars
  <2>3. ASSUME NEW n \in 1..PipeSize, Flush(n) PROVE FrameInv' /\ UNCHANGED <<sent, delivered>>
    <3>1. UNCHANGED <<sent, delivered>>
      BY <2>3 DEF Flush, OnlyWriter, receiverVars
    <3> QED
      BY <2>3, <3>1, FlushFrames
  <2>4. ASSUME NEW n \in 1..PipeSize, WriteThrough(n) PROVE FrameInv' /\ UNCHANGED <<sent, delivered>>
    <3>1. UNCHANGED <<sent, delivered>>
      BY <2>4 DEF WriteThrough, OnlyWriter, receiverVars
    <3> QED
      BY <2>4, <3>1, WriteThroughFrames
  <2>5. CASE WriteBuffered
    BY <2>5, WriteBufferedFrames DEF WriteBuffered, OnlyWriter, receiverVars
  <2>6. CASE WriteBlocks
    BY <2>6, NothingMoves DEF WriteBlocks, receiverVars
  <2>7. CASE LengthWritten
    BY <2>7, LengthWrittenFrames DEF LengthWritten, OnlyWriter, receiverVars
  <2>8. CASE NextMessage
    BY <2>8, NextMessageFrames DEF NextMessage, receiverVars
  <2>9. CASE QueueEmpty
    BY <2>9, NothingMoves DEF QueueEmpty, receiverVars
  <2>10. CASE Complete
    BY <2>10, NothingMoves DEF Complete, receiverVars
  <2> QED
    BY <1>2, <2>1, <2>2, <2>3, <2>4, <2>5, <2>6, <2>7, <2>8, <2>9, <2>10 DEF SenderStep
<1>3. ASSUME ReceiverStep PROVE FrameInv' /\ (Link!FifoNext \/ UNCHANGED <<sent, delivered>>)
  <2>1. CASE ProcessReadable
    BY <2>1, NothingMoves DEF ProcessReadable, senderVars
  <2>2. ASSUME NEW n \in 1..PipeSize, Fill(n) PROVE FrameInv' /\ UNCHANGED <<sent, delivered>>
    <3>1. UNCHANGED <<sent, delivered>>
      BY <2>2 DEF Fill, senderVars
    <3> QED
      BY <2>2, <3>1, FillFrames
  <2>3. ASSUME NEW n \in 1..PipeSize, ReadThrough(n)
        PROVE  FrameInv' /\ (Link!FifoNext \/ UNCHANGED <<sent, delivered>>)
    BY <2>3, ReadThroughFrames DEF Link!FifoNext
  <2>4. CASE ReadBuffered
    BY <2>4, ReadBufferedFrames DEF Link!FifoNext
  <2>5. CASE ReadBlocks
    BY <2>5, NothingMoves DEF ReadBlocks, senderVars
  <2>6. CASE ReadEOF
    BY <2>6, NothingMoves DEF ReadEOF, senderVars
  <2> QED
    BY <1>3, <2>1, <2>2, <2>3, <2>4, <2>5, <2>6 DEF ReceiverStep
<1>4. CASE Close
  BY <1>4, NothingMoves DEF Close, senderVars, receiverVars
<1>5. CASE UNCHANGED connVars
  BY <1>5, NothingMoves DEF connVars, senderVars, receiverVars
<1> QED
  BY <1>1, <1>2, <1>3, <1>4, <1>5 DEF ConnNext

(* InOrder for all messages, any size of a length, and any sizes of the     *)
(* buffers: however the frames are cut into reads and writes, ReadContext   *)
(* undoes WriteContext (peer.rs:29-72, peer.rs:97-155).                     *)
THEOREM InOrderCorrect == ConnSpec => InOrder
<1>1. ConnInit => FrameInv /\ Link!FifoInit
  BY FrameInit DEF ConnInit, Link!FifoInit
<1>2. FrameInv /\ [ConnNext]_connVars => FrameInv' /\ [Link!FifoNext]_(Link!fifoVars)
  BY FrameStep
<1> QED
  BY <1>1, <1>2, PTL DEF ConnSpec, InOrder, Link!FifoSpec
====
