------------------------------- MODULE Server -------------------------------
(***************************************************************************)
(* The server thread of a node (src/src/network/server.rs): the slab of    *)
(* peers with its keys, peer_list, connect, accept and broadcast, and the  *)
(* event loop that handles what poll() returned one event after the other. *)
(* What one connection does with its bytes is Connection's matter: here a  *)
(* readable socket may or may not be at its end, a writable one takes the  *)
(* whole queue or not.                                                     *)
(***************************************************************************)
EXTENDS Naturals, Sequences, SequencesExt, FiniteSets, Functions

CONSTANTS
    Conns,      \* TCP connections, in the order in which they may come up
    None,       \* a vacant entry of the slab
    MaxPeers,   \* MAX_INCOMING_CLIENT
    MaxMsgs     \* bound: the messages that are broadcast

(* The network's connections are not messages. *)
ASSUME ServerAssumption ==
    /\ None \notin Conns /\ Conns \cap Nat = {}
    /\ MaxPeers \in Nat /\ MaxMsgs \in Nat

VARIABLES
    peers,      \* the slab: key -> connection or None
    vacant,     \* the slab's free keys, the last freed first
    peer_list,
    control,    \* control_chan: connections to make, messages (numbers)
    backlog,    \* connections that accept() will return
    raised,     \* what mio has to report of the queue and the listener
    batch,      \* the events of poll() that are not handled yet
    conn,       \* connection -> its side of the server
    asked,      \* messages handed to Handle::broadcast so far
    done,       \* those the server has written to its peers
    alive       \* the server thread runs
serverVars == <<peers, vacant, peer_list, control, backlog, raised, batch, conn,
                asked, done, alive>>
slabVars == <<peers, vacant, peer_list>>

Occupied == {k \in DOMAIN peers : peers[k] # None}

(* A connection: queue is what its writer has to send, armed and writing    *)
(* the registrations of queue and socket, events what mio has raised;       *)
(* joined and got are history: the broadcasts done when it was registered,  *)
(* those it was given.                                                      *)
NewConn == [stage |-> "new", queue |-> <<>>, armed |-> FALSE, writing |-> FALSE,
            events |-> {}, joined |-> 0, got |-> <<>>]

ServerInit ==
    /\ peers = [k \in {} |-> None] /\ vacant = <<>> /\ peer_list = <<>>
    /\ control = <<>> /\ backlog = {} /\ raised = {} /\ batch = <<>>
    /\ conn = [c \in Conns |-> NewConn]
    /\ asked = 0 /\ done = 0 /\ alive = TRUE
-----------------------------------------------------------------------------
(* Other threads, other nodes and the operating system. *)
CallBroadcast ==
    /\ asked < MaxMsgs
    /\ asked' = asked + 1
    /\ control' = Append(control, asked + 1)
    /\ raised' = raised \cup {"CONTROL"}
    /\ UNCHANGED <<slabVars, backlog, batch, conn, done, alive>>
CallConnect(c) ==
    /\ conn[c].stage = "new"
    /\ conn' = [conn EXCEPT ![c].stage = "asked"]
    /\ control' = Append(control, c)
    /\ raised' = raised \cup {"CONTROL"}
    /\ UNCHANGED <<slabVars, backlog, batch, asked, done, alive>>
Arrive(c) ==
    /\ conn[c].stage = "new"
    /\ conn' = [conn EXCEPT ![c].stage = "asked"]
    /\ backlog' = backlog \cup {c}
    /\ raised' = raised \cup {"INCOMING"}
    /\ UNCHANGED <<slabVars, control, batch, asked, done, alive>>

(* A socket has bytes, its end or an error to read; room to write. *)
SocketEvent(c, e) ==
    /\ conn[c].stage = "open"
    /\ e = "writable" => conn[c].writing
    /\ conn' = [conn EXCEPT ![c].events = @ \cup {e}]
    /\ UNCHANGED <<slabVars, control, backlog, raised, batch, asked, done, alive>>
-----------------------------------------------------------------------------
(* poll(): every event that was raised, in any order.  The queue is         *)
(* registered oneshot.                                                      *)
SocketEvents(k) == conn[peers[k]].events \ {"queue"}
Event(token, k, flags) == [token |-> token, key |-> k, flags |-> flags]
Raised ==
    {Event(t, 0, {}) : t \in raised}
    \cup {Event("socket", k, SocketEvents(k)) : k \in {j \in Occupied : SocketEvents(j) # {}}}
    \cup {Event("queue", k, {}) : k \in {j \in Occupied : "queue" \in conn[peers[j]].events}}

Poll ==
    /\ alive /\ batch = <<>> /\ Raised # {}
    /\ batch' \in SetToSeqs(Raised)
    /\ raised' = {}
    /\ conn' = [c \in Conns |-> [conn[c] EXCEPT !.events = {},
                                                !.armed = @ /\ "queue" \notin conn[c].events]]
    /\ UNCHANGED <<slabVars, control, backlog, asked, done, alive>>

Handling(token) == alive /\ batch # <<>> /\ Head(batch).token = token
Key == Head(batch).key
Next1 == batch' = Tail(batch)
-----------------------------------------------------------------------------
(* slab: the key freed last, or a new one at the end. *)
NextKey == IF vacant = <<>> THEN Cardinality(DOMAIN peers) ELSE Head(vacant)

(* register: the connection is dropped if its key would be too large.  The  *)
(* errors of the calls before the insertion (server.rs:76-90) drop it too,  *)
(* with nothing changed, and are left out.                                  *)
Register_Early(c) ==        \* slip: one key too few
    IF NextKey + 1 >= MaxPeers
    THEN /\ conn' = [conn EXCEPT ![c].stage = "refused"]
         /\ UNCHANGED slabVars
    ELSE /\ peers' = [k \in DOMAIN peers \cup {NextKey} |-> IF k = NextKey THEN c ELSE peers[k]]
         /\ vacant' = IF vacant = <<>> THEN vacant ELSE Tail(vacant)
         /\ peer_list' = Append(peer_list, NextKey)
         /\ conn' = [conn EXCEPT ![c] = [NewConn EXCEPT !.stage = "open", !.armed = TRUE,
                                                        !.joined = done]]
Register(c) ==
    IF NextKey >= MaxPeers
    THEN /\ conn' = [conn EXCEPT ![c].stage = "refused"]
         /\ UNCHANGED slabVars
    ELSE /\ peers' = [k \in DOMAIN peers \cup {NextKey} |-> IF k = NextKey THEN c ELSE peers[k]]
         /\ vacant' = IF vacant = <<>> THEN vacant ELSE Tail(vacant)
         /\ peer_list' = Append(peer_list, NextKey)
         /\ conn' = [conn EXCEPT ![c] = [NewConn EXCEPT !.stage = "open", !.armed = TRUE,
                                                        !.joined = done]]

(* Vec::swap_remove: the last element takes the place of element i. *)
SwapRemove(s, i) == SubSeq([s EXCEPT ![i] = Last(s)], 1, Len(s) - 1)
Position(k) == CHOOSE i \in DOMAIN peer_list : peer_list[i] = k
RemovePeer_ByKey(k) ==          \* slip: swap_remove(peer_id)
    /\ conn' = [conn EXCEPT ![peers[k]].stage = "gone"]
    /\ peers' = [peers EXCEPT ![k] = None]
    /\ vacant' = <<k>> \o vacant
    /\ peer_list' = IF k < Len(peer_list) THEN SwapRemove(peer_list, k + 1) ELSE peer_list
RemovePeer(k) ==
    /\ conn' = [conn EXCEPT ![peers[k]].stage = "gone"]
    /\ peers' = [peers EXCEPT ![k] = None]
    /\ vacant' = <<k>> \o vacant
    /\ peer_list' = SwapRemove(peer_list, Position(k))
-----------------------------------------------------------------------------
(* CONTROL: the requests until there is none.                               *)
Take == control' = Tail(control) /\ UNCHANGED <<backlog, raised, batch, asked, alive>>
ProcessConnect ==
    /\ Handling("CONTROL") /\ control # <<>> /\ Head(control) \in Conns
    /\ Register(Head(control))
    /\ Take /\ UNCHANGED done

(* handle.write of every peer in the list; its queue raises an event if it  *)
(* is registered.  By PeerListMatches the index never panics here.          *)
Given(c, m) ==
    [conn[c] EXCEPT !.queue = Append(@, m), !.got = Append(@, m),
                    !.events = IF conn[c].armed THEN @ \cup {"queue"} ELSE @]
ProcessBroadcast ==
    /\ Handling("CONTROL") /\ control # <<>> /\ Head(control) \notin Conns
    /\ conn' = [c \in Conns |-> IF \E i \in DOMAIN peer_list : peers[peer_list[i]] = c
                                THEN Given(c, Head(control)) ELSE conn[c]]
    /\ done' = Head(control)
    /\ Take /\ UNCHANGED slabVars
ControlDrained ==
    /\ Handling("CONTROL") /\ control = <<>> /\ Next1
    /\ UNCHANGED <<slabVars, control, backlog, raised, conn, asked, done, alive>>

(* INCOMING: the connections until accept() would block; any other error of *)
(* accept() ends the thread.                                                *)
AcceptOne(c) ==
    /\ Handling("INCOMING") /\ c \in backlog
    /\ backlog' = backlog \ {c}
    /\ Register(c)
    /\ UNCHANGED <<control, raised, batch, asked, done, alive>>
AcceptBlocks ==
    /\ Handling("INCOMING") /\ backlog = {} /\ Next1
    /\ UNCHANGED <<slabVars, control, backlog, raised, conn, asked, done, alive>>
AcceptFails ==
    /\ Handling("INCOMING") /\ alive' = FALSE
    /\ UNCHANGED <<slabVars, control, backlog, raised, batch, conn, asked, done>>

(* A socket.  Its key may have been vacated earlier in the batch: skipped.  *)
Quiet == UNCHANGED <<control, backlog, raised, asked, done, alive>>
SkipSocket ==
    /\ Handling("socket") /\ (Key \notin Occupied \/ Head(batch).flags = {})
    /\ Next1 /\ Quiet /\ UNCHANGED <<slabVars, conn>>
Handled(flag) == batch' = [batch EXCEPT ![1].flags = @ \ {flag}]
Readable == Handling("socket") /\ Key \in Occupied /\ "readable" \in Head(batch).flags
ReadSome == Readable /\ Handled("readable") /\ Quiet /\ UNCHANGED <<slabVars, conn>>
ReadEnd == Readable /\ RemovePeer(Key) /\ Next1 /\ Quiet

Writable ==
    /\ Handling("socket") /\ Key \in Occupied
    /\ Head(batch).flags = {"writable"}
WriteAll_Unarmed ==         \* slip: the queue is not registered again
    /\ Writable /\ Handled("writable") /\ Quiet
    /\ conn' = [conn EXCEPT ![peers[Key]] =
                  [@ EXCEPT !.queue = <<>>, !.writing = FALSE]]
    /\ UNCHANGED slabVars
WriteAll ==
    /\ Writable /\ Handled("writable") /\ Quiet
    /\ conn' = [conn EXCEPT ![peers[Key]] =
                  [@ EXCEPT !.queue = <<>>, !.writing = FALSE, !.armed = TRUE]]
    /\ UNCHANGED slabVars
WriteBlocks == Writable /\ Handled("writable") /\ Quiet /\ UNCHANGED <<slabVars, conn>>
WriteEnd == Writable /\ RemovePeer(Key) /\ Next1 /\ Quiet

(* A queue: register_write_interest indexes the slab, and panics if the     *)
(* key is vacant.                                                           *)
RegisterWriteInterest ==
    /\ Handling("queue") /\ Key \in Occupied
    /\ conn' = [conn EXCEPT ![peers[Key]].writing = TRUE]
    /\ Next1 /\ Quiet /\ UNCHANGED slabVars
QueuePanics ==
    /\ Handling("queue") /\ Key \notin Occupied /\ alive' = FALSE
    /\ UNCHANGED <<slabVars, control, backlog, raised, batch, conn, asked, done>>
-----------------------------------------------------------------------------
ControlStep == ProcessConnect \/ ProcessBroadcast \/ ControlDrained
IncomingStep == (\E c \in Conns : AcceptOne(c)) \/ AcceptBlocks
SocketStep == SkipSocket \/ ReadSome \/ WriteAll \/ WriteBlocks \/ ReadEnd \/ WriteEnd
LoopStep == Poll \/ ControlStep \/ IncomingStep \/ SocketStep \/ RegisterWriteInterest \/ QueuePanics
Environment ==
    \/ CallBroadcast
    \/ \E c \in Conns : CallConnect(c) \/ Arrive(c)
    \/ \E c \in Conns, e \in {"readable", "writable"} : SocketEvent(c, e)

ServerNext == LoopStep \/ AcceptFails \/ Environment
ServerSpec == ServerInit /\ [][ServerNext]_serverVars

(* The thread is scheduled; a socket in which the server waits to write     *)
(* becomes writable and takes the queue in the end, for its peer reads.     *)
ServerFairness ==
    /\ WF_serverVars(LoopStep) /\ SF_serverVars(WriteAll)
    /\ \A c \in Conns : WF_serverVars(SocketEvent(c, "writable"))
FairServerSpec == ServerSpec /\ ServerFairness
-----------------------------------------------------------------------------
(* peer_list, which broadcast goes through, names each occupied key of the  *)
(* slab exactly once, although keys are used again (server.rs:95, 136, 168, *)
(* 191, 228, 250), and the slab's free keys are the others.                 *)
PeerListMatches ==
    /\ IsInjective(peer_list) /\ ToSet(peer_list) = Occupied
    /\ IsInjective(vacant) /\ ToSet(vacant) = DOMAIN peers \ Occupied

(* Every connection that is open has been given every message broadcast     *)
(* since it was registered, each once and in order, whatever other          *)
(* connections came, went and left their key to it.                         *)
BroadcastsReachAll ==
    \A k \in Occupied :
        LET c == conn[peers[k]] IN c.got = [i \in 1..(done - c.joined) |-> c.joined + i]

(* A connection is refused only if as many are open as may be. *)
RefusedOnlyWhenFull ==
    [][ \A c \in Conns :
          conn'[c].stage = "refused" /\ conn[c].stage # "refused" =>
              Cardinality(Occupied) = MaxPeers ]_serverVars

(* What is in the queue of an open connection is sent in the end, or the    *)
(* connection is gone, or the thread has stopped: also when an event meant  *)
(* for the last owner of its key was taken for one of its own.              *)
QueueIsSent ==
    \A c \in Conns :
        [](conn[c].queue # <<>> =>
              <>(conn[c].queue = <<>> \/ conn[c].stage = "gone" \/ ~ alive))
=============================================================================
