--------------------------- MODULE FifoSequencer ----------------------------
(***************************************************************************)
(* Communication::FifoSequencer (include/communication/fifo_sequencer.h)   *)
(* behind the server's rounds: the round visits the clients' sockets in    *)
(* their order, recv_callback_ hands all that a socket has read to         *)
(* addRequest() with the one timestamp of the read, and                    *)
(* recv_finished_callback_ calls sequenceAndPublish().  The wiring of the  *)
(* callbacks is external: the headers are made for it, no file does it.    *)
(*                                                                         *)
(* The clock is the number of requests that have arrived; it stamps        *)
(* arrivals, and a read has the stamp of the last request in it.  When the *)
(* kernel delivers none, kernel_time is 0, or what an earlier read left in *)
(* ctrl, which sendAndRecv() does not clear.                               *)
(***************************************************************************)
EXTENDS Naturals, Sequences, FiniteSets

CONSTANTS
  NumClients,
  MAX_PENDING_REQUESTS,
  Unstamped,             \* the kernel may deliver a read without a timestamp
  MaxRequests            \* bound on the requests that arrive

ASSUME SequencerAssumption ==
  /\ NumClients \in Nat \ {0} /\ MAX_PENDING_REQUESTS \in Nat
  /\ Unstamped \in BOOLEAN /\ MaxRequests \in Nat

VARIABLES
  kernel,             \* the requests of each client that have arrived
  clock,
  visiting,           \* the client whose socket is next in the round
  reading,            \* what the callback has not yet added of this read
  timestamp,          \* kernel_time of the last read
  stamped,            \* history: the kernel delivered it with that read
  pending_requests,   \* up to pending_requests_index
  published,          \* history: what was pushed into the request queue
  roundNo,            \* history: rounds so far, idle ones not counted
  status              \* running | exit

vars == <<kernel, clock, visiting, reading, timestamp, stamped, pending_requests,
          published, roundNo, status>>

Clients == 1 .. NumClients
Rounds  == 1 .. 2 * MaxRequests + 1
Request == [client : Clients, arrival : 1 .. MaxRequests, round : Rounds]
\* History: whether the stamp is the kernel's, and the round of the batch.
Pending == [receive_timestamp : 0 .. MaxRequests, request : Request,
            stamped : BOOLEAN, batch : Rounds]

TypeOK ==
  /\ kernel \in [Clients -> Seq(Request)] /\ reading \in Seq(Request)
  /\ clock \in 0 .. MaxRequests /\ timestamp \in 0 .. MaxRequests
  /\ stamped \in BOOLEAN
  /\ visiting \in 1 .. NumClients + 1
  /\ pending_requests \in Seq(Pending) /\ published \in Seq(Pending)
  /\ roundNo \in Rounds
  /\ status \in {"running", "exit"}

Init ==
  /\ kernel = [c \in Clients |-> <<>>] /\ clock = 0
  /\ visiting = 1 /\ reading = <<>> /\ timestamp = 0 /\ stamped = FALSE
  /\ pending_requests = <<>> /\ published = <<>>
  /\ roundNo = 1 /\ status = "running"

arrive(c) ==
  /\ status = "running" /\ clock < MaxRequests
  /\ clock' = clock + 1
  /\ kernel' = [kernel EXCEPT ![c] =
                  Append(@, [client |-> c, arrival |-> clock', round |-> roundNo])]
  /\ UNCHANGED <<visiting, reading, timestamp, stamped, pending_requests, published,
                 roundNo, status>>

\* kernel_time of a read that takes something, with the control message or
\* without.
Stamps(read, delivered) ==
  IF delivered THEN {read[Len(read)].arrival} ELSE {0, timestamp}

\* One recvmsg() takes all that a socket has: far more than MAX_PENDING_REQUESTS
\* requests fit its buffer.
readSocket ==
  LET read == kernel[visiting]
  IN  /\ status = "running" /\ reading = <<>> /\ visiting <= NumClients
      /\ reading' = read
      /\ IF read = <<>> THEN UNCHANGED <<timestamp, stamped>>
         ELSE /\ stamped' \in IF Unstamped THEN BOOLEAN ELSE {TRUE}
              /\ timestamp' \in Stamps(read, stamped')
      /\ kernel' = [kernel EXCEPT ![visiting] = <<>>]
      /\ visiting' = visiting + 1
      /\ UNCHANGED <<clock, pending_requests, published, roundNo, status>>

addRequest ==
  /\ status = "running" /\ reading # <<>>
  /\ Len(pending_requests) < MAX_PENDING_REQUESTS
  /\ pending_requests' = Append(pending_requests,
       [receive_timestamp |-> timestamp, request |-> Head(reading),
        stamped |-> stamped, batch |-> roundNo])
  /\ reading' = Tail(reading)
  /\ UNCHANGED <<kernel, clock, visiting, timestamp, stamped, published, roundNo, status>>

tooManyPending ==
  /\ status = "running" /\ reading # <<>>
  /\ Len(pending_requests) = MAX_PENDING_REQUESTS
  /\ status' = "exit"
  /\ UNCHANGED <<kernel, clock, visiting, reading, timestamp, stamped, pending_requests,
                 published, roundNo>>

\* std::sort by receive_timestamp: requests with equal stamps in any order;
\* mutant: not called.
AsAdded(s) == {s}

Sorted(s) ==
  LET n     == Len(s)
      perms == {p \in [1 .. n -> 1 .. n] : \A i, j \in 1 .. n : i # j => p[i] # p[j]}
  IN  {t \in {[i \in 1 .. n |-> s[p[i]]] : p \in perms} :
         \A i, j \in 1 .. n : i < j => t[i].receive_timestamp <= t[j].receive_timestamp}

\* What the loop pushes of the sorted batch; mutant: all but the last.
AllButTheLast(s) == SubSeq(s, 1, Len(s) - 1)

TheBatch(s) == s

\* pending_requests_index = 0; mutant: forgotten.
NotReset(s) == s

Reset(s) == <<>>

\* recv_finished_callback_, called if the round has read something.
sequenceAndPublish ==
  /\ status = "running" /\ reading = <<>> /\ visiting = NumClients + 1
  /\ pending_requests # <<>>
  /\ \E s \in Sorted(pending_requests) :
       /\ published' = published \o TheBatch(s)
       /\ pending_requests' = Reset(s)
  /\ visiting' = 1 /\ roundNo' = roundNo + 1
  /\ UNCHANGED <<kernel, clock, reading, timestamp, stamped, status>>

roundWithoutData ==
  /\ status = "running" /\ reading = <<>> /\ visiting = NumClients + 1
  /\ pending_requests = <<>>
  /\ visiting' = 1
  /\ roundNo' = IF \A c \in Clients : kernel[c] = <<>> THEN roundNo ELSE roundNo + 1
  /\ UNCHANGED <<kernel, clock, reading, timestamp, stamped, pending_requests, published,
                 status>>

Server ==
  readSocket \/ addRequest \/ tooManyPending \/ sequenceAndPublish \/ roundWithoutData

Over == status = "exit" /\ UNCHANGED vars

Next == Server \/ (\E c \in Clients : arrive(c)) \/ Over

\* The server goes from round to round and does not block.
Spec == Init /\ [][Next]_vars /\ WF_vars(Server)

-----------------------------------------------------------------------------
Published == {published[i].request : i \in DOMAIN published}
Waiting   == {pending_requests[i].request : i \in DOMAIN pending_requests}
             \cup {reading[i] : i \in DOMAIN reading}
             \cup UNION {{kernel[c][i] : i \in DOMAIN kernel[c]} : c \in Clients}

\* Every request that arrived is waiting or published, and published once:
\* nothing is lost between two rounds and no batch is published again.  And
\* addRequest() ends the process only with more than MAX_PENDING_REQUESTS
\* requests unpublished.
PublishedOnce ==
  /\ TypeOK
  /\ {q.arrival : q \in Published \cup Waiting} = 1 .. clock
  /\ Published \cap Waiting = {} /\ Cardinality(Published) = Len(published)
  /\ status = "exit" => clock - Len(published) > MAX_PENDING_REQUESTS

\* A request is overtaken only by such that arrive before the end of the round
\* after its own, whatever the timestamps are.  And in a batch, of two requests
\* that the kernel stamped the later one comes first only if the same read took
\* a request of the earlier one's client that is not older: all get its stamp.
OvertakenWithinARound ==
  \A i, j \in DOMAIN published :
    LET ahead == published[i]  behind == published[j]
    IN  i < j /\ ahead.request.arrival > behind.request.arrival =>
          /\ ahead.request.round <= behind.request.round + 1
          /\ ahead.stamped /\ behind.stamped /\ ahead.batch = behind.batch =>
               \E k \in DOMAIN published :
                 /\ published[k].batch = behind.batch
                 /\ published[k].request.client = behind.request.client
                 /\ published[k].request.arrival >= ahead.request.arrival

\* Every request is published in the end, unless too many come at once.
EveryRequestPublished ==
  \A n \in 1 .. MaxRequests :
    clock >= n ~> ((\E q \in Published : q.arrival = n) \/ status = "exit")
=============================================================================
