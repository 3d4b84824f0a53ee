----------------------------- MODULE TCPServer ------------------------------
(***************************************************************************)
(* Utils::TCPServer (include/communication/tcp_server.h): the server polls *)
(* its kqueue, accepts and drops connections, and reads from every socket  *)
(* it tracks, in rounds of poll() and sendAndRecv(); its peers connect,    *)
(* send and close at any time.                                             *)
(*                                                                         *)
(* A TCPSocket is its heap address, which operator new may give out again. *)
(* The kernel (external) holds the backlog, the unread messages and, for   *)
(* each accepted connection, a knote with the address that addToKqueueList *)
(* registered; a knote is ready while there is something to read or the    *)
(* peer has closed.  No descriptor is ever closed, no knote removed, and   *)
(* EVFILT_WRITE never registered: send_sockets_ stays empty, left out.     *)
(***************************************************************************)
EXTENDS Naturals, Sequences, FiniteSets

CONSTANTS
  Conns,         \* the connections that peers may make
  Addresses,     \* where a TCPSocket may be allocated
  RecvRoom,      \* the messages that an inbound_data_ holds
  MaxMessages,   \* bound on the messages a peer sends
  None           \* no address, no connection

ASSUME ServerAssumption ==
  /\ IsFiniteSet(Conns) /\ IsFiniteSet(Addresses)
  /\ Cardinality(Addresses) >= Cardinality(Conns)
  /\ RecvRoom \in Nat \ {0} /\ MaxMessages \in Nat
  /\ None \notin Conns \cup Addresses

VARIABLES
  conn,              \* none | backlog | accepted
  closed,            \* the connections whose peer has closed
  unread, sent,      \* messages in the kernel, and sent so far
  knote,             \* the address registered with the connection, or None
  heap,              \* the connection (socket_fd_) of each allocated TCPSocket
  receive_sockets_,
  events,            \* what kevent() returned and is not yet handled
  have_new_connection,
  unvisited,         \* the sockets sendAndRecv() has still to visit
  recv,
  left,              \* history: what the round has still to read of each connection
  pc,                \* listen | idle | events | accept | polled | recv | corrupt | exit
  shared             \* history: the connections at an address with an older knote

kernel == <<conn, closed, unread, sent>>
poll_  == <<events, have_new_connection>>
round  == <<unvisited, recv, left>>
vars   == <<conn, closed, unread, sent, knote, heap, receive_sockets_, events,
            have_new_connection, unvisited, recv, left, pc, shared>>

Event == [conn : Conns, udata : Addresses, eof : BOOLEAN]

TypeOK ==
  /\ conn \in [Conns -> {"none", "backlog", "accepted"}]
  /\ closed \subseteq Conns /\ shared \subseteq Conns
  /\ left \in [Conns -> 0 .. RecvRoom]
  /\ unread \in [Conns -> 0 .. MaxMessages] /\ sent \in [Conns -> 0 .. MaxMessages]
  /\ knote \in [Conns -> Addresses \cup {None}]
  /\ heap \in [Addresses -> Conns \cup {None}]
  /\ receive_sockets_ \in Seq(Addresses) /\ unvisited \in Seq(Addresses)
  /\ events \subseteq Event
  /\ have_new_connection \in BOOLEAN /\ recv \in BOOLEAN
  /\ pc \in {"listen", "idle", "events", "accept", "polled", "recv", "corrupt", "exit"}

Init ==
  /\ conn = [c \in Conns |-> "none"] /\ closed = {}
  /\ unread = [c \in Conns |-> 0] /\ sent = [c \in Conns |-> 0]
  /\ knote = [c \in Conns |-> None] /\ heap = [a \in Addresses |-> None]
  /\ receive_sockets_ = <<>>
  /\ events = {} /\ have_new_connection = FALSE
  /\ unvisited = <<>> /\ recv = FALSE /\ left = [c \in Conns |-> 0]
  /\ pc = "listen" /\ shared = {}

AddressesOf(s) == {s[i] : i \in DOMAIN s}

Backlog == {c \in Conns : conn[c] = "backlog"}

-----------------------------------------------------------------------------
(* The peers.                                                              *)

connect(c) ==
  /\ pc # "listen" /\ conn[c] = "none"
  /\ conn' = [conn EXCEPT ![c] = "backlog"]
  /\ UNCHANGED <<closed, unread, sent, knote, heap, receive_sockets_, poll_, round, pc, shared>>

peerSends(c) ==
  /\ conn[c] # "none" /\ c \notin closed /\ sent[c] < MaxMessages
  /\ unread' = [unread EXCEPT ![c] = @ + 1] /\ sent' = [sent EXCEPT ![c] = @ + 1]
  /\ UNCHANGED <<conn, closed, knote, heap, receive_sockets_, poll_, round, pc, shared>>

peerCloses(c) ==
  /\ conn[c] # "none" /\ c \notin closed
  /\ closed' = closed \cup {c}
  /\ UNCHANGED <<conn, unread, sent, knote, heap, receive_sockets_, poll_, round, pc, shared>>

-----------------------------------------------------------------------------
(* listen() and poll().                                                    *)

\* kqueue(), the listener's connect() or its registration may fail.
listen ==
  /\ pc = "listen"
  /\ pc' \in {"idle", "exit"}
  /\ UNCHANGED <<kernel, knote, heap, receive_sockets_, poll_, round, shared>>

ReadyConns == {c \in Conns : knote[c] # None /\ (unread[c] > 0 \/ c \in closed)}
Reported(c) == [conn |-> c, udata |-> knote[c], eof |-> c \in closed]

\* The room for events; mutant: none for the listener.
RoomForSockets == Len(receive_sockets_)

MaxEvents == 1 + Len(receive_sockets_)

\* kevent() returns as many of the ready knotes as there is room for; the
\* listener's is one of them.  The order of the events is any.
kevent(cs, listener) ==
  LET ready == Cardinality(ReadyConns) + (IF Backlog # {} THEN 1 ELSE 0)
      n     == Cardinality(cs) + (IF listener THEN 1 ELSE 0)
  IN  /\ pc = "idle"
      /\ listener => Backlog # {}
      /\ n = IF ready <= MaxEvents THEN ready ELSE MaxEvents
      /\ events' = {Reported(c) : c \in cs}
      /\ have_new_connection' = listener
      /\ pc' = "events"
      /\ UNCHANGED <<kernel, knote, heap, receive_sockets_, round, shared>>

\* An event puts its socket on the list, once; mutant: without the std::find.
PushedBack(a) == Append(receive_sockets_, a)

Tracked(a) == IF a \in AddressesOf(receive_sockets_) THEN receive_sockets_
              ELSE Append(receive_sockets_, a)

\* Which events end a connection; mutant: all, as if any flag would do.
Flagged(e) == TRUE

Dead(e) == e.eof

\* std::remove and erase: all others stay, in their order.
Erasures(s, a) ==
  LET kept == {i \in DOMAIN s : s[i] # a}
      n    == Cardinality(kept)
      up   == {f \in [1 .. n -> kept] : \A i, j \in 1 .. n : i < j => f[i] < f[j]}
  IN  {[i \in 1 .. n |-> s[f[i]]] : f \in up}

\* A dead socket is deleted, again if the address was freed before: the
\* process is then corrupt.
handleEvent(e) ==
  /\ pc = "events" /\ e \in events
  /\ events' = events \ {e}
  /\ IF Dead(e)
     THEN /\ receive_sockets_' \in Erasures(Tracked(e.udata), e.udata)
          /\ heap' = [heap EXCEPT ![e.udata] = None]
          /\ pc' = IF heap[e.udata] = None THEN "corrupt" ELSE "events"
     ELSE receive_sockets_' = Tracked(e.udata) /\ UNCHANGED <<heap, pc>>
  /\ UNCHANGED <<kernel, knote, have_new_connection, round, shared>>

eventsDone ==
  /\ pc = "events" /\ events = {}
  /\ pc' = IF have_new_connection THEN "accept" ELSE "polled"
  /\ UNCHANGED <<kernel, knote, heap, receive_sockets_, poll_, round, shared>>

accept(c, a) ==
  /\ pc = "accept" /\ c \in Backlog /\ heap[a] = None
  /\ conn' = [conn EXCEPT ![c] = "accepted"]
  /\ heap' = [heap EXCEPT ![a] = c]
  /\ shared' = IF \E d \in Conns : knote[d] = a THEN shared \cup {c} ELSE shared
  /\ knote' = [knote EXCEPT ![c] = a]
  /\ receive_sockets_' = Append(receive_sockets_, a)
  /\ UNCHANGED <<closed, unread, sent, poll_, round, pc>>

acceptOne == \E c \in Conns, a \in Addresses : accept(c, a)

\* disableNagle() fails on a connection that was closed in the backlog.
acceptFails(c) ==
  /\ pc = "accept" /\ c \in Backlog \cap closed
  /\ conn' = [conn EXCEPT ![c] = "accepted"]
  /\ pc' = "exit"
  /\ UNCHANGED <<closed, unread, sent, knote, heap, receive_sockets_, poll_, round, shared>>

\* accept() = -1: the backlog is empty, or the call fails for another reason.
acceptsDone ==
  /\ pc = "accept"
  /\ have_new_connection' = FALSE
  /\ pc' = "polled"
  /\ UNCHANGED <<kernel, knote, heap, receive_sockets_, events, round, shared>>

-----------------------------------------------------------------------------
(* sendAndRecv().                                                          *)

\* The sockets of a round; mutant: all but the last.
AllButLast == SubSeq(receive_sockets_, 1, Len(receive_sockets_) - 1)

Visited == receive_sockets_

\* What recvmsg() takes of a socket at once: the callback has emptied the buffer.
Read(c) == IF unread[c] <= RecvRoom THEN unread[c] ELSE RecvRoom

\* Due in this round is what an accepted connection holds whose peer has not
\* closed, tracked or not, as far as a buffer has room for it.
roundBegins ==
  /\ pc = "polled"
  /\ unvisited' = Visited /\ recv' = FALSE
  /\ left' = [c \in Conns |-> IF conn[c] = "accepted" /\ c \notin closed THEN Read(c) ELSE 0]
  /\ pc' = "recv"
  /\ UNCHANGED <<kernel, knote, heap, receive_sockets_, poll_, shared>>

sendAndRecv ==
  LET c == heap[Head(unvisited)]
  IN  /\ pc = "recv" /\ unvisited # <<>> /\ c # None
      /\ unread' = [unread EXCEPT ![c] = @ - Read(c)]
      /\ left' = [left EXCEPT ![c] = IF @ <= Read(c) THEN 0 ELSE @ - Read(c)]
      /\ recv' = (recv \/ unread[c] > 0)
      /\ unvisited' = Tail(unvisited)
      /\ UNCHANGED <<conn, closed, sent, knote, heap, receive_sockets_, poll_, pc, shared>>

sendAndRecvFreed ==
  /\ pc = "recv" /\ unvisited # <<>> /\ heap[Head(unvisited)] = None
  /\ pc' = "corrupt"
  /\ UNCHANGED <<kernel, knote, heap, receive_sockets_, poll_, round, shared>>

\* recv_finished_callback_ is called if recv; then the next round may come.
roundEnds ==
  /\ pc = "recv" /\ unvisited = <<>>
  /\ pc' = "idle"
  /\ UNCHANGED <<kernel, knote, heap, receive_sockets_, poll_, round, shared>>

Poll ==
  \/ \E cs \in SUBSET ReadyConns, listener \in BOOLEAN : kevent(cs, listener)
  \/ \E e \in events : handleEvent(e)
  \/ eventsDone
  \/ acceptOne
  \/ \E c \in Conns : acceptFails(c)
  \/ acceptsDone

Server == listen \/ Poll \/ roundBegins \/ sendAndRecv \/ sendAndRecvFreed \/ roundEnds

Halted == pc \in {"corrupt", "exit"}
Over   == Halted /\ UNCHANGED vars

Next ==
  \/ Server
  \/ \E c \in Conns : connect(c) \/ peerSends(c) \/ peerCloses(c)
  \/ Over

\* The server's loop of poll() and sendAndRecv() goes on, and nothing in it
\* blocks; accept() does not fail forever.  Peers do as they like.
Spec == Init /\ [][Next]_vars /\ WF_vars(Server) /\ SF_vars(acceptOne)

-----------------------------------------------------------------------------
TrackedConns == {heap[a] : a \in AddressesOf(receive_sockets_)}

\* Whatever stale events arrive, receive_sockets_ leaves out no socket that is
\* allocated; and it lists each once, and no freed one, as long as no TCPSocket
\* was allocated where one was deleted.
TrackedAlive ==
  LET tracked   == AddressesOf(receive_sockets_)
      allocated == {a \in Addresses : heap[a] # None}
  IN  /\ TypeOK
      /\ allocated \subseteq tracked
      /\ shared = {} => /\ tracked \subseteq allocated
                        /\ Len(receive_sockets_) = Cardinality(tracked)

\* An accepted connection that is no longer served was closed by its peer, or
\* its TCPSocket lies where one was deleted whose knote is still there; and no
\* socket is deleted twice or read from after it before a peer has closed.
DropsJustified ==
  /\ \A c \in Conns : (conn[c] = "accepted" /\ pc # "exit" /\ c \notin TrackedConns) =>
       c \in closed \cup shared
  /\ pc = "corrupt" => closed # {}

\* "All data across all TCPSockets has been read and dispatched this round" when
\* recv_finished_callback_ may be called: whatever was dropped, deleted or listed
\* twice before, a connection that was accepted and not closed when the round
\* began has been read, up to a buffer full, unless it shares its address.
AllReadByRoundEnd ==
  (pc = "recv" /\ unvisited = <<>>) => \A c \in Conns \ shared : left[c] = 0

\* Every connection in the backlog is accepted in the end.
EveryConnectionAccepted ==
  \A c \in Conns : conn[c] = "backlog" ~> (conn[c] = "accepted" \/ Halted)

\* Every message of a peer that stays is read in the end.
EveryMessageRead ==
  \A c \in Conns : (conn[c] = "accepted" /\ unread[c] > 0) ~>
    (unread[c] = 0 \/ c \in closed \cup shared \/ Halted)
=============================================================================
