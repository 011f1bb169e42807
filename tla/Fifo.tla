-------------------------------- MODULE Fifo --------------------------------
(***************************************************************************)
(* What a connection between two nodes promises: the messages written at   *)
(* one end come out at the other, whole, once and in the order of writing. *)
(***************************************************************************)
EXTENDS Naturals, Sequences

CONSTANT Messages

VARIABLES
    sent,       \* the messages written so far
    delivered   \* the messages handed to the workers of the other node
fifoVars == <<sent, delivered>>

FifoInit == sent = <<>> /\ delivered = <<>>

Send(m) == sent' = Append(sent, m) /\ UNCHANGED delivered

Deliver ==
    /\ Len(delivered) < Len(sent)
    /\ delivered' = Append(delivered, sent[Len(delivered) + 1])
    /\ UNCHANGED sent

FifoNext == (\E m \in Messages : Send(m)) \/ Deliver

FifoSpec == FifoInit /\ [][FifoNext]_fifoVars

(* Nothing stays on the way. *)
NothingStays == WF_fifoVars(Deliver)
=============================================================================
