----------------------------- MODULE Connection -----------------------------
(***************************************************************************)
(* A TCPSocket from its connect() on (include/communication/tcp_socket.h): *)
(* createSocket() of SocketUtils makes the descriptor, and the socket of a *)
(* TCP client then sends and receives as in TCPSocket, whether or not the  *)
(* connection has been made: nothing tells it.                             *)
(***************************************************************************)
EXTENDS TCPSocket

VARIABLES cfg, iface, lingers, at, fd, link, failed, status

Setup == INSTANCE SocketUtils

setup == <<cfg, iface, lingers, at, fd, link, failed, status>>
cvars == <<vars, setup>>

CInit == Init /\ Setup!Init

\* The socket of a TCP client that connect() has returned.
InUse == status = "returned" /\ ~cfg.is_udp /\ ~cfg.is_listening

connecting == Setup!createSocket /\ UNCHANGED vars
deciding   == Setup!decided /\ UNCHANGED vars

streaming(e) == InUse /\ link = "connected" /\ sendAndRecv(e) /\ UNCHANGED setup

\* Without a connection recvmsg() and ::send() fail, which sendAndRecv() takes
\* for no data and does not look at.
unconnected ==
  /\ InUse /\ link # "connected"
  /\ recvNothing("client") \/ publish("client", 0)
  /\ UNCHANGED setup

writing(e, len) ==
  /\ InUse /\ (e = "client" \/ link = "connected")
  /\ callerSends(e, len)
  /\ UNCHANGED setup

Exited == status = "exit" /\ UNCHANGED cvars

\* A socket that is not a TCP client's is handed to its owner.
HandedOver == status = "returned" /\ ~InUse /\ UNCHANGED cvars

CNext ==
  \/ connecting \/ deciding \/ unconnected
  \/ \E e \in Ends : streaming(e) \/ \E len \in 1 .. MaxBurst : writing(e, len)
  \/ Exited \/ HandedOver

\* The system's calls return, and both ends call sendAndRecv() over and over.
CSpec ==
  /\ CInit /\ [][CNext]_cvars
  /\ WF_cvars(connecting)
  /\ WF_cvars(streaming("server")) /\ WF_cvars(streaming("client") \/ unconnected)

-----------------------------------------------------------------------------
\* Whatever fails during createSocket(), except for what a failing connect() or
\* fcntl(F_GETFL) leaves undone: it never waits for the peer, a server that is
\* restarted gets its port back, and a descriptor that is returned can do what
\* its configuration says.
ReturnedConfigured == Setup!ReturnedConfigured
=============================================================================
