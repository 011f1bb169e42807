---------------------------- MODULE MCConnection ----------------------------
(***************************************************************************)
(* Connection for TLC: bytes are bits, lengths have two of them.  The      *)
(* messages are shorter than, as long as and longer than the buffers.      *)
(***************************************************************************)
EXTENDS Connection

mcMessages == {<<1>>, <<0, 1>>, <<1, 0, 1>>}
=============================================================================
