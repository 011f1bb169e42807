----------------------------- MODULE Connection -----------------------------
(***************************************************************************)
(* One direction of a connection between two nodes: the sending end's      *)
(* queue and WriteContext, the receiving end's ReadContext                 *)
(* (src/src/network/peer.rs), and what the event loops at either end do    *)
(* for it (src/src/network/server.rs).                                     *)
(*                                                                         *)
(* A message goes over the wire as its length, in LenSize bytes, and its   *)
(* bytes.  BufWriter, BufReader and the socket take and give as many bytes *)
(* as they like.  Events are edge-triggered: one is raised when there is   *)
(* something new, and not again because it is still there.                 *)
(***************************************************************************)
EXTENDS Naturals, Sequences, SequencesExt

CONSTANTS
    Base,        \* the number of values of a byte (256)
    LenSize,     \* size_of::<u32>()
    Messages,    \* serialized messages, sequences of bytes
    MaxSent,     \* bound: how many messages are written
    WriterSize,  \* the capacity of the BufWriter
    ReaderSize,  \* the capacity of the BufReader
    PipeSize,    \* the bytes that the sockets hold
    MayClose     \* the sender's process may end

Byte == 0..(Base - 1)

(* Base ^ n: n bytes hold the numbers below. *)
Power[n \in Nat] == IF n = 0 THEN 1 ELSE Power[n - 1] * Base

(* bincode writes the variant of a message first: it is never empty.        *)
ASSUME ConnectionAssumption ==
    /\ Base \in Nat \ {0, 1}
    /\ {LenSize, WriterSize, ReaderSize, PipeSize} \subseteq Nat \ {0}
    /\ MaxSent \in Nat /\ MayClose \in BOOLEAN
    /\ \A m \in Messages : m \in Seq(Byte) /\ Len(m) \in 1..(Power[LenSize] - 1)

VARIABLES
    queue,         \* write_queue: messages not yet taken by the WriteContext
    writer,        \* WriteContext
    writer_buf,    \* what its BufWriter holds
    writer_pc,     \* where the sender's server thread is in process_writable
    queue_armed,   \* the queue is registered (oneshot)
    write_armed,   \* the socket is registered for writability
    events,        \* the events raised and not yet handled
    pipe,          \* bytes in the sockets
    open,          \* the sender's process runs
    reader,        \* ReadContext
    reader_buf,    \* what its BufReader holds
    reader_pc,     \* where the receiver's server thread is in process_readable
    sent,          \* history: the messages written to the queue
    delivered      \* history: the messages sent on to new_msg_chan
senderVars == <<queue, writer, writer_buf, writer_pc, queue_armed, write_armed, sent>>
receiverVars == <<reader, reader_buf, reader_pc, delivered>>
connVars == <<senderVars, receiverVars, events, pipe, open>>

(* u32::to_be_bytes and from_be_bytes. *)
Encode(n) == [i \in 1..LenSize |-> (n \div Power[LenSize - i]) % Base]
Decode(bytes) == FoldLeft(LAMBDA n, byte : n * Base + byte, 0, bytes)

Take(s, n) == SubSeq(s, 1, n)
Drop(s, n) == SubSeq(s, n + 1, Len(s))
Least(a, b) == IF a <= b THEN a ELSE b

ConnInit ==
    /\ queue = <<>> /\ pipe = <<>> /\ open = TRUE
    /\ writer = [state |-> "Payload", written |-> 0, msg |-> <<>>, len |-> Encode(0)]
    /\ writer_buf = <<>> /\ writer_pc = "idle"
    /\ queue_armed = TRUE /\ write_armed = FALSE /\ events = {}
    /\ reader = [state |-> "Length", read |-> 0, length |-> LenSize, buffer |-> Encode(0)]
    /\ reader_buf = <<>> /\ reader_pc = "idle"
    /\ sent = <<>> /\ delivered = <<>>
-----------------------------------------------------------------------------
(* The sender. *)

(* Handle::write, by a worker or by a broadcast of the server. *)
Write(m) ==
    /\ open /\ Len(sent) < MaxSent
    /\ sent' = Append(sent, m)
    /\ queue' = Append(queue, m)
    /\ events' = IF queue_armed THEN events \cup {"queue"} ELSE events
    /\ UNCHANGED <<writer, writer_buf, writer_pc, queue_armed, write_armed, pipe, open,
                   receiverVars>>

Room == PipeSize - Len(pipe)

(* The queue is readable: the socket is registered for writability, and if  *)
(* it is writable already, that is an event.                                *)
RegisterWriteInterest ==
    /\ open /\ writer_pc = "idle" /\ "queue" \in events
    /\ queue_armed' = FALSE /\ write_armed' = TRUE
    /\ events' = (events \ {"queue"}) \cup {e \in {"writable"} : Room # 0}
    /\ UNCHANGED <<queue, writer, writer_buf, writer_pc, sent, pipe, open, receiverVars>>

(* process_writable calls WriteContext::write, a loop. *)
ProcessWritable ==
    /\ open /\ writer_pc = "idle" /\ "writable" \in events
    /\ writer_pc' = "write" /\ events' = events \ {"writable"}
    /\ UNCHANGED <<queue, writer, writer_buf, queue_armed, write_armed, sent, pipe, open,
                   receiverVars>>

InWrite == open /\ writer_pc = "write"
OnlyWriter == UNCHANGED <<queue, writer_pc, queue_armed, write_armed, sent, open, receiverVars>>

(* What is left of the part being written. *)
Slice == Drop(IF writer.state = "Length" THEN writer.len ELSE writer.msg, writer.written)
Written(n) == writer' = [writer EXCEPT !.written = @ + n]

(* BufWriter: a slice that does not fit needs a flush first, one that is no *)
(* shorter than the buffer bypasses it.  The end of a message is flushed.   *)
MustFlush ==
    /\ writer_buf # <<>>
    /\ \/ Len(writer_buf) + Len(Slice) > WriterSize
       \/ writer.state = "Payload" /\ Slice = <<>>
Bypass == writer_buf = <<>> /\ Len(Slice) >= WriterSize

(* The socket takes n of the bytes; the other end becomes readable.         *)
IntoPipe(bytes, n) ==
    /\ n \in 1..Least(Len(bytes), Room)
    /\ pipe' = pipe \o Take(bytes, n)
    /\ events' = events \cup {"readable"}

Flush(n) ==
    /\ InWrite /\ MustFlush
    /\ IntoPipe(writer_buf, n)
    /\ writer_buf' = Drop(writer_buf, n)
    /\ UNCHANGED writer /\ OnlyWriter
WriteThrough(n) ==
    /\ InWrite /\ Bypass
    /\ IntoPipe(Slice, n)
    /\ Written(n)
    /\ UNCHANGED writer_buf /\ OnlyWriter
WriteBuffered ==
    /\ InWrite /\ ~ MustFlush /\ ~ Bypass /\ Slice # <<>>
    /\ writer_buf' = writer_buf \o Slice
    /\ Written(Len(Slice))
    /\ UNCHANGED <<pipe, events>> /\ OnlyWriter

(* WouldBlock.  The cursors say where to go on. *)
WriteBlocks ==
    /\ InWrite /\ (MustFlush \/ Bypass) /\ Room = 0
    /\ writer_pc' = "idle"
    /\ UNCHANGED <<queue, writer, writer_buf, queue_armed, write_armed, events, sent, pipe, open,
                   receiverVars>>

LengthWritten ==
    /\ InWrite /\ writer.state = "Length" /\ Slice = <<>>
    /\ writer' = [writer EXCEPT !.written = 0, !.state = "Payload"]
    /\ UNCHANGED <<writer_buf, pipe, events>> /\ OnlyWriter

(* The message is out and flushed: the next one, or none.                   *)
PayloadWritten_Unflushed == \* slip: the message may still be in the BufWriter
    writer.state = "Payload" /\ Slice = <<>>
PayloadWritten == writer.state = "Payload" /\ Slice = <<>> /\ writer_buf = <<>>
NextMessage ==
    /\ InWrite /\ PayloadWritten /\ queue # <<>>
    /\ writer' = [state |-> "Length", written |-> 0, msg |-> Head(queue),
                  len |-> Encode(Len(Head(queue)))]
    /\ queue' = Tail(queue)
    /\ UNCHANGED <<writer_buf, writer_pc, queue_armed, write_armed, sent, events, pipe, open,
                   receiverVars>>
QueueEmpty ==
    /\ InWrite /\ PayloadWritten /\ queue = <<>>
    /\ writer_pc' = "complete"
    /\ UNCHANGED <<queue, writer, writer_buf, queue_armed, write_armed, sent, events, pipe, open,
                   receiverVars>>

(* WriteResult::Complete.  Registering the queue raises an event if a       *)
(* message has come since the queue was found empty.                        *)
Complete_Unarmed ==       \* slip: the queue is not registered again
    /\ open /\ writer_pc = "complete"
    /\ writer_pc' = "idle" /\ write_armed' = FALSE
    /\ events' = events \ {"writable"}
    /\ UNCHANGED <<queue, queue_armed, writer, writer_buf, sent, pipe, open, receiverVars>>
Complete ==
    /\ open /\ writer_pc = "complete"
    /\ writer_pc' = "idle" /\ write_armed' = FALSE /\ queue_armed' = TRUE
    /\ events' = (events \ {"writable"}) \cup {e \in {"queue"} : queue # <<>>}
    /\ UNCHANGED <<queue, writer, writer_buf, sent, pipe, open, receiverVars>>

(* The process ends; what the sockets hold still arrives, then EOF.         *)
Close ==
    /\ MayClose /\ open
    /\ open' = FALSE
    /\ events' = events \cup {"readable"}
    /\ UNCHANGED <<senderVars, receiverVars, pipe>>
-----------------------------------------------------------------------------
(* The receiver. *)

(* process_readable calls ReadContext::read until it would block.           *)
ProcessReadable ==
    /\ reader_pc = "idle" /\ "readable" \in events
    /\ reader_pc' = "read" /\ events' = events \ {"readable"}
    /\ UNCHANGED <<senderVars, reader, reader_buf, delivered, pipe, open>>

Wanted == reader.length - reader.read

(* n bytes leave the sockets; if they were full, the sender's is writable.  *)
FromPipe(n) ==
    /\ n \in 1..Len(pipe)
    /\ pipe' = Drop(pipe, n)
    /\ events' = IF Room = 0 /\ write_armed THEN events \cup {"writable"} ELSE events

(* BufReader: what it holds first; a slice that is no shorter than its      *)
(* buffer bypasses it.                                                      *)
Fill(n) ==
    /\ reader_pc = "read" /\ reader_buf = <<>> /\ Wanted < ReaderSize
    /\ n <= ReaderSize /\ FromPipe(n)
    /\ reader_buf' = Take(pipe, n)
    /\ UNCHANGED <<senderVars, reader, reader_pc, delivered, open>>

(* The bytes that read puts at the cursor.  A full buffer is a length or a  *)
(* message.                                                                 *)
Overwrite(buffer, at, bytes) ==
    [i \in DOMAIN buffer |-> IF i - at \in DOMAIN bytes THEN bytes[i - at] ELSE buffer[i]]
Grown(buffer, n) == buffer \o [i \in 1..(n - Least(n, Len(buffer))) |-> 0]

Advance_Stale(bytes) ==   \* slip: the whole buffer is handed on, not the message
    LET buffer == Overwrite(reader.buffer, reader.read, bytes)
        read   == reader.read + Len(bytes)
        length == Decode(Take(buffer, LenSize))
    IN  IF read # reader.length THEN
            /\ reader' = [reader EXCEPT !.buffer = buffer, !.read = read]
            /\ UNCHANGED delivered
        ELSE IF reader.state = "Length" THEN
            /\ reader' = [state |-> "Payload", read |-> 0, length |-> length,
                          buffer |-> Grown(buffer, length)]
            /\ UNCHANGED delivered
        ELSE
            /\ reader' = [state |-> "Length", read |-> 0, length |-> LenSize, buffer |-> buffer]
            /\ delivered' = Append(delivered, buffer)
Advance(bytes) ==
    LET buffer == Overwrite(reader.buffer, reader.read, bytes)
        read   == reader.read + Len(bytes)
        length == Decode(Take(buffer, LenSize))
    IN  IF read # reader.length THEN
            /\ reader' = [reader EXCEPT !.buffer = buffer, !.read = read]
            /\ UNCHANGED delivered
        ELSE IF reader.state = "Length" THEN
            /\ reader' = [state |-> "Payload", read |-> 0, length |-> length,
                          buffer |-> Grown(buffer, length)]
            /\ UNCHANGED delivered
        ELSE
            /\ reader' = [state |-> "Length", read |-> 0, length |-> LenSize, buffer |-> buffer]
            /\ delivered' = Append(delivered, Take(buffer, reader.length))

ReadBuffered ==
    /\ reader_pc = "read" /\ reader_buf # <<>>
    /\ LET n == Least(Wanted, Len(reader_buf))
       IN  Advance(Take(reader_buf, n)) /\ reader_buf' = Drop(reader_buf, n)
    /\ UNCHANGED <<senderVars, reader_pc, events, pipe, open>>
ReadThrough(n) ==
    /\ reader_pc = "read" /\ reader_buf = <<>> /\ Wanted >= ReaderSize
    /\ n <= Wanted /\ FromPipe(n)
    /\ Advance(Take(pipe, n))
    /\ UNCHANGED <<senderVars, reader_buf, reader_pc, open>>

(* WouldBlock. *)
ReadBlocks ==
    /\ reader_pc = "read" /\ reader_buf = <<>> /\ pipe = <<>> /\ open
    /\ reader_pc' = "idle"
    /\ UNCHANGED <<senderVars, reader, reader_buf, delivered, events, pipe, open>>

(* EOF: the peer is removed.  (A read of no bytes would look the same, but  *)
(* no message is empty.)                                                    *)
ReadEOF ==
    /\ reader_pc = "read" /\ reader_buf = <<>> /\ pipe = <<>> /\ ~ open
    /\ reader_pc' = "removed"
    /\ UNCHANGED <<senderVars, reader, reader_buf, delivered, events, pipe, open>>
-----------------------------------------------------------------------------
SenderStep ==
    \/ RegisterWriteInterest \/ ProcessWritable
    \/ \E n \in 1..PipeSize : Flush(n) \/ WriteThrough(n)
    \/ WriteBuffered \/ WriteBlocks \/ LengthWritten \/ NextMessage \/ QueueEmpty \/ Complete

ReceiverStep ==
    \/ ProcessReadable
    \/ \E n \in 1..PipeSize : Fill(n) \/ ReadThrough(n)
    \/ ReadBuffered \/ ReadBlocks \/ ReadEOF

ConnNext == (\E m \in Messages : Write(m)) \/ SenderStep \/ ReceiverStep \/ Close

ConnSpec == ConnInit /\ [][ConnNext]_connVars

(* Both event loops are scheduled.  Nobody has to write. *)
FairConnSpec == ConnSpec /\ WF_connVars(SenderStep) /\ WF_connVars(ReceiverStep)
-----------------------------------------------------------------------------
(* The frames on the way, split at any byte between buffers, sockets and    *)
(* cursors, come out as the messages that went in: peer.rs:29-72 undoes     *)
(* peer.rs:97-155.                                                          *)
Link == INSTANCE Fifo
InOrder == Link!FifoSpec

(* And the event loops never leave one behind (server.rs:144-256), unless   *)
(* the sender's process ends: its queue goes with it.                       *)
AllDelivered == ([]open) => Link!NothingStays

(* No wake-up is lost although events are raised once (edge, oneshot) and   *)
(* messages, bytes and the end come at any time: an event loop that has     *)
(* left a queue or a socket comes back if something is left to do, or the   *)
(* other end's next read will call it (server.rs:144-256).                  *)
Unfinished == queue # <<>> \/ writer_buf # <<>> \/ Slice # <<>> \/ writer.state = "Length"
SenderWakes ==
    open /\ writer_pc = "idle" /\ Unfinished =>
        \/ "queue" \in events
        \/ write_armed /\ ("writable" \in events \/ Room = 0)
ReceiverWakes ==
    /\ reader_pc = "idle" /\ (pipe # <<>> \/ ~ open) => "readable" \in events
    /\ reader_pc = "idle" => reader_buf = <<>>
NoLostWakeup == SenderWakes /\ ReceiverWakes
=============================================================================
