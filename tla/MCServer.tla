------------------------------ MODULE MCServer ------------------------------
(***************************************************************************)
(* Server for TLC, two slots.  Two connections come up and a message is    *)
(* broadcast; or two are open and idle and the third comes up, which is    *)
(* refused or takes the slot of one that went; or one is open, a second    *)
(* comes up, and two messages are broadcast.                               *)
(***************************************************************************)
EXTENDS Server, TLC

CONSTANTS c1, c2, c3
mcConns == {c1, c2, c3}

(* The connections in open came up one after the other when m messages had  *)
(* been broadcast, those in new may come up, the others have been here.     *)
Situation(m, open, new) ==
    /\ peers = [k \in 0..(Len(open) - 1) |-> open[k + 1]]
    /\ vacant = <<>> /\ peer_list = [i \in DOMAIN open |-> i - 1]
    /\ control = <<>> /\ backlog = {} /\ raised = {} /\ batch = <<>>
    /\ conn = [c \in Conns |->
                 CASE c \in ToSet(open) -> [NewConn EXCEPT !.stage = "open", !.armed = TRUE,
                                                           !.joined = m]
                   [] c \in new         -> NewConn
                   [] OTHER             -> [NewConn EXCEPT !.stage = "refused"]]
    /\ asked = m /\ done = m /\ alive = TRUE
mcInit ==
    \/ Situation(1, <<>>, {c1, c2})
    \/ Situation(1, <<c1, c2>>, {c3})
    \/ Situation(0, <<c1>>, {c2})
mcSpec == mcInit /\ [][ServerNext]_serverVars /\ ServerFairness
=============================================================================
