------------------------- MODULE ExchangeProperties -------------------------
(***************************************************************************)
(* The properties of the Exchange (include/cppexchange/cppexchange.h).     *)
(***************************************************************************)
EXTENDS Exchange

\* The map, the id counters and the books are used by one thread at a time:
\* stop() returns only after the run thread has left run(), so the owner that
\* calls in between does not meet a request half served.
OneThreadAtATime ==
  /\ TypeOK
  /\ ~(pc["run"] \in Inside /\ pc["owner"] \in Inside)

\* The responses that accept an order, and the ids they give.
Accepts(i) == response_queue[i].type = "ADD"
IdOf(i)    == response_queue[i].order_id

\* getNextOrderId() never gives two orders the same id, whichever thread adds
\* them.
OwnOrderIds == \A i, j \in 1 .. Len(response_queue) :
                 i # j /\ Accepts(i) /\ Accepts(j) => IdOf(i) # IdOf(j)

\* run() serves the queued requests in their order, each one once, and none is
\* left out by a stop() that comes in between: a popped request has been
\* answered, is being served, or was INVALID.  The orders get the ids 1, 2, 3, ...
\* as they are accepted, across stop() and start() and over all books.
Taken     == Len(log) - Len(request_queue)
Answer(n) == \E i \in 1 .. Len(response_queue) : response_queue[i].n = n

ServedOnceInOrder ==
  /\ \A j \in 1 .. Len(response_queue) : \A i \in 1 .. (j - 1) :
       response_queue[j].n # 0 => response_queue[i].n < response_queue[j].n
  /\ \A n \in 1 .. Taken :
       Answer(n) \/ log[n].type = "INVALID"
                 \/ (call["run"].n = n /\ pc["run"] \in Inside)
  /\ \A j \in 1 .. Len(response_queue) : Accepts(j) =>
       /\ IdOf(j) > 0
       /\ \A i \in 1 .. (j - 1) : Accepts(i) => IdOf(i) < IdOf(j)
       /\ \A k \in 1 .. (IdOf(j) - 1) : \E i \in 1 .. (j - 1) : Accepts(i) /\ IdOf(i) = k

\* A null book is met only for a ticker that addTicker() never added, and the
\* ticker limit ends the process only when that many tickers have been added.
HaltsJustified ==
  /\ status = "segv" => \E t \in Threads : pc[t] = "lookup" /\ call[t].ticker \notin added
  /\ status = "exit" => Cardinality(added) = MAX_TICKERS

\* stop() returns: the run thread sees running = false and ends.
StopReturns == pc["owner"] = "join" ~> (pc["owner"] = "idle" \/ status # "running")

\* A request in the queue is taken, unless the exchange is stopped before.
RequestsTaken ==
  \A n \in 1 .. MaxPush :
    (Len(log) >= n /\ running) ~> (Taken >= n \/ ~running \/ status # "running")
=============================================================================
