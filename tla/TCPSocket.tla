----------------------------- MODULE TCPSocket ------------------------------
(***************************************************************************)
(* Utils::TCPSocket (include/communication/tcp_socket.h): the two ends of  *)
(* one connection, each with its send and receive buffer, and between them *)
(* the streams of the kernel (external).  sendAndRecv() is split at its    *)
(* system calls and at the callback.                                       *)
(*                                                                         *)
(* The k-th byte that an end passes to send() is the number k; a buffer is *)
(* the sequence of its valid bytes.  As all callbacks in the repository    *)
(* do, the callback takes all that was received and sets                   *)
(* next_rcv_valid_index_ to 0; it may send() a reply.  The kernel may take *)
(* any part of what ::send() offers, or nothing: the call does not block.  *)
(***************************************************************************)
EXTENDS Naturals, Sequences

CONSTANTS
  TCPBufferSize,
  KernelBuffer,    \* bytes that the kernel holds for one direction
  MaxBurst,        \* bytes that an end passes to send() per sendAndRecv()
  MaxBytes         \* bound on the bytes that an end passes to send()

ASSUME SocketAssumption ==
  /\ TCPBufferSize \in Nat /\ KernelBuffer \in Nat /\ MaxBytes \in Nat
  /\ MaxBurst \in 0 .. TCPBufferSize

VARIABLES
  outbound, inbound,   \* outbound_data_, inbound_data_ up to their valid index
  wire,                \* wire[e]: bytes in the kernel, on the way to e
  pc,                  \* idle | callback | publish
  written,             \* bytes passed to send()
  burst,               \* those of them since the last sendAndRecv()
  delivered,           \* history: the bytes that callbacks took
  short                \* history: ::send() did not take all

buffers == <<outbound, inbound, wire>>
vars    == <<outbound, inbound, wire, pc, written, burst, delivered, short>>

Ends    == {"client", "server"}
Peer(e) == IF e = "client" THEN "server" ELSE "client"

TypeOK ==
  /\ outbound \in [Ends -> Seq(Nat)] /\ inbound \in [Ends -> Seq(Nat)]
  /\ wire \in [Ends -> Seq(Nat)] /\ delivered \in [Ends -> Seq(Nat)]
  /\ pc \in [Ends -> {"idle", "callback", "publish"}]
  /\ written \in [Ends -> 0 .. MaxBytes]
  /\ burst \in [Ends -> 0 .. MaxBurst]
  /\ short \in [Ends -> BOOLEAN]

Init ==
  /\ outbound = [e \in Ends |-> <<>>] /\ inbound = [e \in Ends |-> <<>>]
  /\ wire = [e \in Ends |-> <<>>] /\ delivered = [e \in Ends |-> <<>>]
  /\ pc = [e \in Ends |-> "idle"]
  /\ written = [e \in Ends |-> 0] /\ burst = [e \in Ends |-> 0]
  /\ short = [e \in Ends |-> FALSE]

AtMost(a, b) == IF a <= b THEN a ELSE b
From(s, k)   == SubSeq(s, k, Len(s))

\* send(data, len): memcpy behind the valid bytes, without a look at the size.
send(e, len) ==
  /\ written[e] + len <= MaxBytes /\ burst[e] + len <= MaxBurst
  /\ outbound' = [outbound EXCEPT ![e] = @ \o [i \in 1 .. len |-> written[e] + i]]
  /\ written' = [written EXCEPT ![e] = @ + len]
  /\ burst' = [burst EXCEPT ![e] = @ + len]

callerSends(e, len) ==
  /\ pc[e] = "idle"
  /\ send(e, len)
  /\ UNCHANGED <<inbound, wire, pc, delivered, short>>

-----------------------------------------------------------------------------
(* sendAndRecv().                                                          *)

\* recvmsg() reads what has arrived into the rest of the receive buffer.
recvmsg(e, n) ==
  /\ pc[e] = "idle"
  /\ n <= AtMost(Len(wire[e]), TCPBufferSize - Len(inbound[e]))
  /\ inbound' = [inbound EXCEPT ![e] = @ \o SubSeq(wire[e], 1, n)]
  /\ wire' = [wire EXCEPT ![e] = From(@, n + 1)]
  /\ pc' = [pc EXCEPT ![e] = "callback"]
  /\ UNCHANGED <<outbound, written, burst, delivered, short>>

\* Where sendAndRecv() goes without data; mutant: it returns.
ReturnEarly == "idle"

GoOnToSend == "publish"

recvNothing(e) ==
  /\ pc[e] = "idle" /\ wire[e] = <<>>
  /\ pc' = [pc EXCEPT ![e] = GoOnToSend]
  /\ UNCHANGED <<buffers, written, burst, delivered, short>>

recv_callback_(e, len) ==
  /\ pc[e] = "callback"
  /\ delivered' = [delivered EXCEPT ![e] = @ \o inbound[e]]
  /\ inbound' = [inbound EXCEPT ![e] = <<>>]
  /\ send(e, len)
  /\ pc' = [pc EXCEPT ![e] = "publish"]
  /\ UNCHANGED <<wire, short>>

\* The send buffer after ::send() took n bytes: emptied, whatever n is.
\* Mutant: not emptied.
Everything(e, n) == outbound[e]

Emptied(e, n) == <<>>

\* The bytes that ::send() takes; mutant: from the second on.
TakenLate(e, n) == SubSeq(outbound[e], 2, n)

Taken(e, n) == SubSeq(outbound[e], 1, n)

publish(e, n) ==
  /\ pc[e] = "publish"
  /\ n <= AtMost(Len(outbound[e]), KernelBuffer - Len(wire[Peer(e)]))
  /\ wire' = [wire EXCEPT ![Peer(e)] = @ \o Taken(e, n)]
  /\ outbound' = [outbound EXCEPT ![e] = Emptied(e, n)]
  /\ short' = [short EXCEPT ![e] = @ \/ n < Len(outbound[e])]
  /\ burst' = [burst EXCEPT ![e] = 0]
  /\ pc' = [pc EXCEPT ![e] = "idle"]
  /\ UNCHANGED <<inbound, written, delivered>>

sendAndRecv(e) ==
  \/ \E n \in 1 .. TCPBufferSize : recvmsg(e, n)
  \/ recvNothing(e)
  \/ \E len \in 0 .. MaxBurst : recv_callback_(e, len)
  \/ \E n \in 0 .. KernelBuffer : publish(e, n)

-----------------------------------------------------------------------------
Arriving(e) == delivered[e] \o inbound[e] \o wire[e]

\* The bytes arrive in the order in which the other end wrote them, and none
\* arrives twice, whatever part of its buffer sendAndRecv() got rid of.
InOrderOnce ==
  /\ TypeOK
  /\ \A e \in Ends : \A i \in 1 .. (Len(Arriving(e)) - 1) : Arriving(e)[i] < Arriving(e)[i + 1]

\* If every ::send() took all it was offered, nothing is missing: what was
\* written is, in order, delivered, in a buffer or in the kernel.  And send() does
\* not run over the end of outbound_data_ with callers that write at most
\* TCPBufferSize bytes between two calls of sendAndRecv(), even if the kernel
\* takes nothing for long.
LossOnlyByShortSend ==
  \A e \in Ends :
    /\ ~short[e] => Arriving(Peer(e)) \o outbound[e] = [i \in 1 .. written[e] |-> i]
    /\ Len(outbound[e]) <= TCPBufferSize

\* Every byte written is delivered, if every ::send() takes all it is offered.
EveryByteArrives ==
  \A e \in Ends, k \in 1 .. MaxBytes :
    written[e] >= k ~> (short[e] \/ \E i \in 1 .. Len(delivered[Peer(e)]) : delivered[Peer(e)][i] = k)
=============================================================================
