--------------------------- MODULE ExchangeProofs ---------------------------
(***************************************************************************)
(* The Exchange, for every set of tickers and every number of requests and *)
(* of calls of the owner; and the multi-threaded benchmark around it, for  *)
(* every number of orders and every size of the window.  What is proved of *)
(* Spec uses ExchangeAssumption only; BenchmarkAssumption, which fixes     *)
(* MaxPush to the benchmark's orders, is used only in what is proved of    *)
(* BSpec.                                                                  *)
(***************************************************************************)
EXTENDS ExchangeProperties, Benchmark, TLAPS

InACall == Inside \ {"insert"}

\* What the place of a thread says about the call it is in.
Placed ==
  /\ pc["run"] \in {"ended", "test", "pop"} \cup InACall
  /\ pc["owner"] \in {"idle", "join"} \cup Inside
  /\ \A t \in Threads :
       /\ pc[t] \in InACall => call[t].type \in {"ADD", "CANCEL"}
       /\ pc[t] \in {"readId", "writeId"} => call[t].type = "ADD"

\* The run thread works only while it is joinable, and the owner that keeps to
\* the rule calls the books only while it is not.
Disciplined ==
  /\ pc["run"] # "ended" => joinable
  /\ pc["owner"] \in Inside => ~joinable

Apart == ~(pc["run"] \in Inside /\ pc["owner"] \in Inside)

\* The map holds a book for the tickers that were added, and nothing else: the
\* null entry of a failed look-up is the end of the process.
MapKnown ==
  status # "segv" =>
    \A k \in Tickers : order_books_map[k] = IF k \in added THEN "book" ELSE "absent"

\* The queue holds what was pushed and is not taken; the run thread serves what
\* it took last.
QueueKnown ==
  /\ Len(request_queue) <= Len(log)
  /\ \A n \in 1 .. Len(log) : log[n].n = n
  /\ \A i \in 1 .. Len(request_queue) : request_queue[i] = log[Taken + i]
  /\ pc["run"] \in Inside => Taken >= 1 /\ call["run"] = log[Taken]
  /\ call["owner"].n = 0

\* The run thread has taken a request and still owes the answer.
Owes == pc["run"] \in InACall /\ ~(pc["run"] = "leave" /\ call["run"].type = "ADD")

\* Responses are in the order of the requests, and only the last one is owed.
AnswersKnown ==
  /\ \A j \in 1 .. Len(response_queue) :
       /\ response_queue[j].n <= Taken
       /\ Owes => response_queue[j].n < Taken
       /\ \A i \in 1 .. (j - 1) :
            response_queue[j].n # 0 => response_queue[i].n < response_queue[j].n
  /\ \A n \in 1 .. Taken : Answer(n) \/ log[n].type = "INVALID" \/ (n = Taken /\ Owes)

\* The order id that a thread has read is still its own.
HasId(t) == pc[t] = "book" /\ call[t].type = "ADD"

TicketKnown ==
  /\ next_order_id >= 1
  /\ \A t \in Threads :
       /\ pc[t] = "writeId" => id[t] = next_order_id
       /\ HasId(t) => id[t] = next_order_id - 1 /\ id[t] >= 1

\* The last id that a response has given, and the ids given so far.
LastId == IF \E t \in Threads : HasId(t) THEN next_order_id - 2 ELSE next_order_id - 1

IdsKnown ==
  /\ \A j \in 1 .. Len(response_queue) : Accepts(j) =>
       /\ IdOf(j) \in 1 .. LastId
       /\ \A i \in 1 .. (j - 1) : Accepts(i) => IdOf(i) < IdOf(j)
  /\ \A k \in 1 .. LastId : \E j \in 1 .. Len(response_queue) : Accepts(j) /\ IdOf(j) = k

-----------------------------------------------------------------------------
(* Types and places.                                                       *)

\* The steps that a thread takes in addOrder() or cancelOrder().
LEMMA CallPlaced ==
  ASSUME TypeOK, Placed, NEW t \in Threads, InCall(t)
  PROVE  TypeOK' /\ Placed'
<1> USE ExchangeAssumption DEF TypeOK, Placed, At, Goto, Threads, Inside, InACall, Request,
      RequestType
<1>1. call[t] \in Request /\ id[t] \in Nat
  OBVIOUS
<1>2. CASE lookup(t)
  BY <1>2 DEF lookup, thread, books, queue
<1>3. CASE lookupNull(t)
  BY <1>3 DEF lookupNull, thread, books, queue
<1>4. CASE readId(t)
  BY <1>4 DEF readId, thread, books, queue
<1>5. CASE writeId(t)
  BY <1>5 DEF writeId, thread, books, queue
<1>6. Answered(t) \in Seq([type : RequestType, order_id : Nat, n : 0 .. MaxPush])
  BY <1>1 DEF Answered
<1>7. CASE enterBook(t)
  BY <1>6, <1>7 DEF enterBook, thread, books, queue
<1>8. CASE leaveBook(t)
  <2>1. NoRequest(call[t]) \in Request
    BY <1>1 DEF NoRequest
  <2> QED  BY <1>6, <1>8, <2>1 DEF leaveBook, thread, books, queue
<1> QED  BY <1>2, <1>3, <1>4, <1>5, <1>7, <1>8 DEF InCall

LEMMA StepPlaced ==
  ASSUME TypeOK, Placed, [Next]_vars
  PROVE  TypeOK' /\ Placed'
<1> USE ExchangeAssumption DEF TypeOK, Placed, At, Goto, Threads, Inside, InACall, Request,
      RequestType
<1>1. ASSUME NEW type \in RequestType, NEW k \in Tickers, push(type, k)
      PROVE  TypeOK' /\ Placed'
  <2> DEFINE r == [type |-> type, ticker |-> k, n |-> Len(log) + 1]
  <2>1. r \in Request
    BY <1>1 DEF push
  <2> QED  BY <1>1, <2>1 DEF push, thread, books, queue
<1>2. ASSUME NEW type \in {"ADD", "CANCEL"}, NEW k \in Tickers, callBook(type, k)
      PROVE  TypeOK' /\ Placed'
  BY <1>2 DEF callBook, Called, thread, books, queue
<1>3. ASSUME NEW k \in Tickers, addTicker(k)
      PROVE  TypeOK' /\ Placed'
  <2>1. call["owner"] \in Request /\ call' = [call EXCEPT !["owner"] = [@ EXCEPT !.ticker = k]]
    BY <1>3 DEF addTicker
  <2>2. [call["owner"] EXCEPT !.ticker = k] \in Request
    BY <2>1
  <2>3. call' \in [Threads -> Request]
    BY <2>1, <2>2
  <2>4. call'["run"] = call["run"]
    BY <2>1
  <2>5. /\ pc["owner"] = "idle"
        /\ pc' = pc \/ pc' = [pc EXCEPT !["owner"] = "insert"]
        /\ status' = status \/ status' = "exit"
        /\ calls' \in 0 .. MaxCalls
    BY <1>3 DEF addTicker, Called
  <2>6. UNCHANGED <<running, seen, joinable, order_books_map, next_order_id, request_queue,
                    response_queue, id, log, added>>
    BY <1>3 DEF addTicker, thread, books, queue
  <2>7. TypeOK'
    BY <2>3, <2>5, <2>6
  <2>8. Placed'
    BY <2>3, <2>4, <2>5
  <2> QED  BY <2>7, <2>8
<1>4. CASE start
  BY <1>4 DEF start, Called, thread, books, queue
<1>5. CASE stop
  <2>1. /\ pc["owner"] = "idle"
        /\ pc' = pc \/ pc' = [pc EXCEPT !["owner"] = "join"]
        /\ status' = status \/ status' = "terminate"
        /\ calls' \in 0 .. MaxCalls
    BY <1>5 DEF stop, Called
  <2>2. /\ running' = FALSE
        /\ UNCHANGED <<seen, joinable, order_books_map, next_order_id, request_queue,
                       response_queue, id, log, added, call>>
    BY <1>5 DEF stop, books, queue
  <2>3. TypeOK'
    BY <2>1, <2>2, ZenonT(60)
  <2>4. Placed'
    BY <2>1, <2>2
  <2> QED  BY <2>3, <2>4
<1>6. CASE destroy
  BY <1>6 DEF destroy, Called, thread, books, queue
<1>7. CASE joined
  BY <1>7 DEF joined, thread, books, queue
<1>8. CASE insertBook
  BY <1>8 DEF insertBook, thread, books, queue
<1>9. CASE testRunning
  BY <1>9 DEF testRunning, thread, books, queue
<1>10. CASE popNothing
  BY <1>10 DEF popNothing, thread, books, queue
<1>11. CASE processRequest
  <2>1. Head(request_queue) \in Request /\ Tail(request_queue) \in Seq(Request)
    <3>1. request_queue \in Seq(Request) /\ request_queue # <<>>
      BY <1>11 DEF processRequest
    <3> HIDE DEF Request
    <3> QED  BY <3>1
  <2> QED  BY <1>11, <2>1, ZenonT(60) DEF processRequest, Dispatch, thread, books, queue
<1>12. CASE runningSeen
  BY <1>12 DEF runningSeen, thread, books, queue
<1>13. CASE UNCHANGED vars
  BY <1>13 DEF vars
<1> QED
  BY <1>1, <1>2, <1>3, <1>4, <1>5, <1>6, <1>7, <1>8, <1>9, <1>10, <1>11, <1>12, <1>13, CallPlaced
  DEF Next, InOwnerCall, RunThread, Over, Threads

-----------------------------------------------------------------------------
(* One thread at a time.                                                   *)

LEMMA StepDisciplined ==
  ASSUME ~Overlap, TypeOK, Placed, Disciplined, [Next]_vars
  PROVE  Disciplined'
<1> USE DEF TypeOK, Placed, Disciplined, At, Goto, Threads, Inside, InACall
<1>1. ASSUME NEW t \in Threads, InCall(t)
      PROVE  Disciplined'
  BY <1>1 DEF InCall, lookup, lookupNull, readId, writeId, enterBook, leaveBook, thread
<1>2. ASSUME NEW type \in RequestType, NEW k \in Tickers, push(type, k)
      PROVE  Disciplined'
  BY <1>2 DEF push, thread
<1>3. ASSUME NEW type \in {"ADD", "CANCEL"}, NEW k \in Tickers, callBook(type, k)
      PROVE  Disciplined'
  BY <1>3 DEF callBook, Called, MayCallBooks, thread
<1>4. ASSUME NEW k \in Tickers, addTicker(k)
      PROVE  Disciplined'
  BY <1>4 DEF addTicker, Called, MayCallBooks, thread
<1>5. CASE start
  BY <1>5 DEF start, Called
<1>6. CASE stop
  BY <1>6 DEF stop, Called
<1>7. CASE destroy
  BY <1>7 DEF destroy, thread
<1>8. CASE joined
  BY <1>8 DEF joined, RunThreadEnded
<1>9. CASE insertBook
  BY <1>9 DEF insertBook, thread
<1>10. CASE testRunning \/ popNothing \/ processRequest
  BY <1>10 DEF testRunning, popNothing, processRequest, thread
<1>11. CASE runningSeen
  BY <1>11 DEF runningSeen
<1>12. CASE UNCHANGED vars
  BY <1>12 DEF vars
<1> QED
  BY <1>1, <1>2, <1>3, <1>4, <1>5, <1>6, <1>7, <1>8, <1>9, <1>10, <1>11, <1>12
  DEF Next, InOwnerCall, RunThread, Over

LEMMA DisciplinedApart ==
  ASSUME Disciplined
  PROVE  Apart
BY DEF Disciplined, Apart, Inside

LEMMA InitPlaced ==
  ASSUME Init
  PROVE  TypeOK /\ Placed /\ Disciplined
<1>1. (CHOOSE k \in Tickers : TRUE) \in Tickers
  BY ExchangeAssumption
<1> DEFINE first == CHOOSE k \in Tickers : TRUE
<1>2. call \in [Threads -> [type : {"INVALID"}, ticker : {first}, n : {0}]]
  BY DEF Init
<1> HIDE DEF first
<1>3. call \in [Threads -> Request]
  BY <1>1, <1>2, ExchangeAssumption DEF Request, RequestType, first
<1>4. TypeOK
  <2>1. /\ request_queue \in Seq(Request) /\ log \in Seq(Request)
        /\ response_queue \in Seq([type : RequestType, order_id : Nat, n : 0 .. MaxPush])
    BY DEF Init
  <2>2. /\ pc \in [Threads -> Inside \cup {"idle", "test", "pop", "ended", "join"}]
        /\ id \in [Threads -> Nat]
        /\ order_books_map \in [Tickers -> {"absent", "null", "book"}]
    BY DEF Init
  <2>3. /\ next_order_id \in Nat /\ calls \in 0 .. MaxCalls
        /\ status \in {"running", "segv", "exit", "terminate", "destroyed"}
        /\ added \subseteq Tickers
    BY ExchangeAssumption DEF Init
  <2>4. running \in BOOLEAN /\ seen \in BOOLEAN /\ joinable \in BOOLEAN
    BY DEF Init
  <2> QED  BY <1>3, <2>1, <2>2, <2>3, <2>4, Zenon DEF TypeOK
<1>5. Placed /\ Disciplined
  BY DEF Init, Placed, Disciplined, Threads, Inside, InACall
<1> QED  BY <1>4, <1>5

\* An owner that calls addTicker(), addOrder() and cancelOrder() only before
\* start() and after stop() never meets the run thread in the map, the id
\* counters or a book: join() is what makes it so.
THEOREM ExchangeOneThreadAtATime ==
  ASSUME ~Overlap
  PROVE  Spec => []OneThreadAtATime
<1> DEFINE Inv == TypeOK /\ Placed /\ Disciplined
<1>1. Init => Inv
  BY InitPlaced
<1>2. Inv /\ [Next]_vars => Inv'
  BY StepPlaced, StepDisciplined
<1>3. Inv => OneThreadAtATime
  BY DisciplinedApart DEF OneThreadAtATime, Apart
<1> QED  BY <1>1, <1>2, <1>3, PTL DEF Spec

-----------------------------------------------------------------------------
(* The books of the map.                                                   *)

LEMMA StepMapKnown ==
  ASSUME TypeOK, Placed, MapKnown, HaltsJustified, [Next]_vars
  PROVE  MapKnown' /\ HaltsJustified'
<1> USE DEF MapKnown, HaltsJustified, At, Goto, Threads
<1>1. ASSUME NEW t \in Threads, InCall(t)
      PROVE  MapKnown' /\ HaltsJustified'
  <2>1. CASE lookupNull(t)
    <3>1. call[t].ticker \in Tickers
      BY DEF TypeOK, Request
    <3> QED  BY <2>1, <3>1 DEF lookupNull
  <2>2. CASE lookup(t) \/ readId(t) \/ writeId(t) \/ enterBook(t) \/ leaveBook(t)
    BY <2>2 DEF lookup, readId, writeId, enterBook, leaveBook, books
  <2> QED  BY <1>1, <2>1, <2>2 DEF InCall
<1>2. ASSUME NEW k \in Tickers, addTicker(k)
      PROVE  MapKnown' /\ HaltsJustified'
  <2>1. status = "running" /\ UNCHANGED <<order_books_map, added>>
    BY <1>2 DEF addTicker, Called, books
  <2>2. {j \in Tickers : order_books_map[j] # "absent"} = added
    BY <2>1 DEF TypeOK
  <2>3. status' = "running" \/ (status' = "exit" /\ Cardinality(added) = MAX_TICKERS)
    BY <1>2, <2>1, <2>2 DEF addTicker, MapFull
  <2> QED  BY <2>1, <2>3
<1>3. CASE insertBook
  BY <1>3 DEF insertBook, HasNoBook, TypeOK, Request
<1>4. CASE \/ \E type \in RequestType, k \in Tickers : push(type, k)
           \/ \E type \in {"ADD", "CANCEL"}, k \in Tickers : callBook(type, k)
  BY <1>4 DEF push, callBook, Called, books
<1>5. CASE start \/ stop \/ destroy \/ joined
  BY <1>5 DEF start, stop, destroy, joined, Called, books
<1>6. CASE testRunning \/ popNothing \/ processRequest \/ runningSeen
  BY <1>6 DEF testRunning, popNothing, processRequest, runningSeen, books
<1>7. CASE UNCHANGED vars
  BY <1>7 DEF vars
<1> QED
  BY <1>1, <1>2, <1>3, <1>4, <1>5, <1>6, <1>7
  DEF Next, InOwnerCall, RunThread, Over

\* Even with an owner that calls the books while the run thread serves the
\* queue, a look-up meets a null book only for a ticker that was not added, and
\* addTicker() ends the process only when MAX_TICKERS tickers have been added.
THEOREM ExchangeHaltsJustified ==
  Spec => []HaltsJustified
<1> DEFINE Inv == TypeOK /\ Placed /\ MapKnown /\ HaltsJustified
<1>1. Init => Inv
  <2>1. Init => MapKnown /\ HaltsJustified
    BY DEF Init, MapKnown, HaltsJustified
  <2> QED  BY <2>1, InitPlaced
<1>2. Inv /\ [Next]_vars => Inv'
  BY StepPlaced, StepMapKnown
<1> QED  BY <1>1, <1>2, PTL DEF Spec

-----------------------------------------------------------------------------
(* The queue and the request that is being served.                         *)

LEMMA StepQueueKnown ==
  ASSUME TypeOK, Placed, QueueKnown, [Next]_vars
  PROVE  QueueKnown'
<1> USE DEF TypeOK, QueueKnown, Taken, At, Goto, Threads, Inside
<1>1. ASSUME NEW t \in Threads, InCall(t)
      PROVE  QueueKnown'
  <2>1. UNCHANGED <<request_queue, log>>
    BY <1>1 DEF InCall, lookup, lookupNull, readId, writeId, enterBook, leaveBook, queue
  <2>2. CASE leaveBook(t)
    <3>1. call'["owner"].n = 0
      BY <2>2 DEF leaveBook, NoRequest, Request
    <3>2. pc'["run"] \in Inside => pc["run"] \in Inside /\ call'["run"] = call["run"]
      BY <2>2 DEF leaveBook
    <3> QED  BY <2>1, <3>1, <3>2
  <2>3. CASE lookup(t) \/ lookupNull(t) \/ readId(t) \/ writeId(t) \/ enterBook(t)
    <3>1. /\ call' = call
          /\ pc'["run"] \in Inside => pc["run"] \in Inside
      BY <2>3 DEF lookup, lookupNull, readId, writeId, enterBook
    <3> QED  BY <2>1, <3>1
  <2> QED  BY <1>1, <2>2, <2>3 DEF InCall
<1>2. ASSUME NEW type \in RequestType, NEW k \in Tickers, push(type, k)
      PROVE  QueueKnown'
  <2> DEFINE r == [type |-> type, ticker |-> k, n |-> Len(log) + 1]
  <2>1. /\ request_queue' = Append(request_queue, r) /\ log' = Append(log, r)
        /\ UNCHANGED <<pc, call>>
    BY <1>2 DEF push
  <2>2. r.n = Len(log) + 1
    OBVIOUS
  <2> HIDE DEF r
  <2>0. Len(log) \in Nat /\ Len(request_queue) \in Nat /\ Len(request_queue) <= Len(log)
    OBVIOUS
  <2>3. Len(log') = Len(log) + 1 /\ Len(request_queue') = Len(request_queue) + 1 /\ Taken' = Taken
    BY <2>1
  <2>4. \A n \in 1 .. Len(log') : log'[n] = IF n = Len(log) + 1 THEN r ELSE log[n]
    BY <2>1
  <2>5. \A i \in 1 .. Len(request_queue') :
          request_queue'[i] = IF i = Len(request_queue) + 1 THEN r ELSE request_queue[i]
    BY <2>1
  <2>6. \A n \in 1 .. Len(log') : log'[n].n = n
    <3> TAKE n \in 1 .. Len(log')
    <3>1. CASE n = Len(log) + 1
      BY <2>2, <2>4, <3>1
    <3>2. CASE n \in 1 .. Len(log)
      <4>1. log'[n] = log[n]
        BY <2>0, <2>3, <2>4, <3>2
      <4>2. log[n].n = n
        BY <3>2
      <4> QED  BY <4>1, <4>2
    <3> HIDE DEF TypeOK, QueueKnown
    <3>3. n = Len(log) + 1 \/ n \in 1 .. Len(log)
      BY <2>0, <2>3
    <3> QED  BY <3>1, <3>2, <3>3
  <2>7. \A i \in 1 .. Len(request_queue') : request_queue'[i] = log'[Taken' + i]
    <3> HIDE DEF TypeOK
    <3> TAKE i \in 1 .. Len(request_queue')
    <3>1. CASE i = Len(request_queue) + 1
      BY <2>0, <2>3, <2>4, <2>5, <3>1
    <3>2. CASE i \in 1 .. Len(request_queue)
      <4>1. request_queue'[i] = request_queue[i] /\ request_queue[i] = log[Taken + i]
        BY <2>0, <2>3, <2>5, <3>2
      <4>2. Taken + i \in 1 .. Len(log)
        BY <2>0, <3>2
      <4>3. log'[Taken + i] = log[Taken + i]
        BY <2>0, <2>3, <2>4, <4>2
      <4> QED  BY <2>3, <4>1, <4>3
    <3> QED  BY <2>0, <2>3, <3>1, <3>2
  <2>8. pc["run"] \in Inside => Taken \in 1 .. Len(log)
    OBVIOUS
  <2>9. pc'["run"] \in Inside => Taken' >= 1 /\ call'["run"] = log'[Taken']
    <3> HIDE DEF TypeOK
    <3> QED  BY <2>0, <2>1, <2>3, <2>4, <2>8
  <2>10. Len(request_queue') <= Len(log')
    BY <2>0, <2>3
  <2>11. call'["owner"].n = 0
    BY <2>1
  <2> HIDE DEF Taken
  <2> QED  BY <2>6, <2>7, <2>9, <2>10, <2>11
<1>3. ASSUME NEW type \in {"ADD", "CANCEL"}, NEW k \in Tickers, callBook(type, k)
      PROVE  QueueKnown'
  BY <1>3 DEF callBook, Called, queue
<1>4. ASSUME NEW k \in Tickers, addTicker(k)
      PROVE  QueueKnown'
  <2>1. call["owner"] \in Request /\ call' = [call EXCEPT !["owner"] = [@ EXCEPT !.ticker = k]]
    BY <1>4 DEF addTicker
  <2>2. call'["owner"].n = call["owner"].n /\ call'["run"] = call["run"]
    BY <2>1 DEF Request
  <2> QED  BY <1>4, <2>2 DEF addTicker, Called, queue
<1>5. CASE processRequest
  <2>1. /\ request_queue # <<>> /\ request_queue' = Tail(request_queue)
        /\ log' = log
        /\ call' = [call EXCEPT !["run"] = Head(request_queue)]
    BY <1>5 DEF processRequest
  <2>2. Len(request_queue) >= 1 /\ Len(request_queue') = Len(request_queue) - 1
    BY <2>1
  <2>3. \A i \in 1 .. Len(request_queue') : request_queue'[i] = request_queue[i + 1]
    BY <2>1
  <2>4. Taken' = Taken + 1 /\ Taken' >= 1
    BY <2>1, <2>2
  <2>5. call'["run"] = log'[Taken'] /\ call'["owner"] = call["owner"]
    BY <2>1, <2>2, <2>4
  <2>6. \A i \in 1 .. Len(request_queue') : request_queue'[i] = log'[Taken' + i]
    BY <2>1, <2>2, <2>3, <2>4
  <2> QED  BY <2>1, <2>2, <2>4, <2>5, <2>6
<1>6. CASE start \/ stop \/ destroy \/ joined \/ insertBook
  BY <1>6 DEF start, stop, destroy, joined, insertBook, Called, queue
<1>7. CASE testRunning \/ popNothing \/ runningSeen
  BY <1>7 DEF testRunning, popNothing, runningSeen, queue
<1>8. CASE UNCHANGED vars
  BY <1>8 DEF vars
<1> QED
  BY <1>1, <1>2, <1>3, <1>4, <1>5, <1>6, <1>7, <1>8
  DEF Next, InOwnerCall, RunThread, Over

-----------------------------------------------------------------------------
(* The responses.                                                          *)

Response == [type : RequestType, order_id : Nat, n : 0 .. MaxPush]

LEMMA ResponsesTyped ==
  ASSUME TypeOK
  PROVE  /\ Len(response_queue) \in Nat
         /\ \A j \in 1 .. Len(response_queue) :
              response_queue[j].n \in Nat /\ response_queue[j].order_id \in Nat
<1>1. response_queue \in Seq(Response)
  BY DEF TypeOK, Response
<1>2. \A r \in Response : r.n \in Nat /\ r.order_id \in Nat
  BY ExchangeAssumption DEF Response
<1>3. \A j \in 1 .. Len(response_queue) : response_queue[j] \in Response
  BY <1>1
<1> QED  BY <1>1, <1>2, <1>3

\* A step that leaves the responses, and what the run thread owes, alone.
LEMMA AnswersKept ==
  ASSUME TypeOK, QueueKnown, AnswersKnown, response_queue' = response_queue, Taken' = Taken,
         \A n \in 1 .. Taken : log'[n] = log[n], Owes' <=> Owes
  PROVE  AnswersKnown'
BY DEF AnswersKnown, Answer

\* A response of the owner, or the one that the run thread owes.
LEMMA AnswerAppended ==
  ASSUME TypeOK, QueueKnown, AnswersKnown, NEW r \in Response,
         response_queue' = Append(response_queue, r), Taken' = Taken, log' = log,
         \/ r.n = 0 /\ (Owes' <=> Owes)
         \/ r.n = Taken /\ Owes /\ ~Owes'
  PROVE  AnswersKnown'
<1> DEFINE L == Len(response_queue)
<1>1. /\ L \in Nat /\ Len(response_queue') = L + 1
      /\ Taken \in Nat
      /\ \A j \in 1 .. L : response_queue'[j] = response_queue[j]
      /\ response_queue'[L + 1] = r
  BY DEF TypeOK, QueueKnown, Taken
<1>2. \A j \in 1 .. L : response_queue[j].n \in Nat
  BY ResponsesTyped
<1>3. Owes => Taken >= 1
  BY DEF QueueKnown, Owes, Inside, InACall
<1> HIDE DEF L
<1>4. \A j \in 1 .. L :
        /\ response_queue[j].n <= Taken
        /\ Owes => response_queue[j].n < Taken
        /\ \A i \in 1 .. (j - 1) :
             response_queue[j].n # 0 => response_queue[i].n < response_queue[j].n
  BY DEF AnswersKnown, L
<1>5. ASSUME NEW j \in 1 .. Len(response_queue')
      PROVE  /\ response_queue'[j].n <= Taken'
             /\ Owes' => response_queue'[j].n < Taken'
             /\ \A i \in 1 .. (j - 1) :
                  response_queue'[j].n # 0 => response_queue'[i].n < response_queue'[j].n
  <2>1. CASE j \in 1 .. L
    BY <1>1, <1>2, <1>4, <2>1
  <2>2. CASE j = L + 1
    <3>1. CASE r.n = 0 /\ (Owes' <=> Owes)
      BY <1>1, <1>3, <2>2, <3>1
    <3>2. CASE r.n = Taken /\ Owes /\ ~Owes'
      BY <1>1, <1>2, <1>4, <2>2, <3>2
    <3> QED  BY <3>1, <3>2
  <2> QED  BY <1>1, <1>5, <2>1, <2>2
<1>6. ASSUME NEW n \in 1 .. Taken'
      PROVE  Answer(n)' \/ log'[n].type = "INVALID" \/ (n = Taken' /\ Owes')
  <2>1. Answer(n) \/ log[n].type = "INVALID" \/ (n = Taken /\ Owes)
    BY <1>6 DEF AnswersKnown
  <2>2. ASSUME NEW j \in 1 .. L, response_queue[j].n = n
        PROVE  Answer(n)'
    BY <1>1, <2>2 DEF Answer
  <2>3. r.n = n => Answer(n)'
    BY <1>1 DEF Answer
  <2> QED  BY <1>1, <2>1, <2>2, <2>3 DEF Answer, L
<1> QED  BY <1>5, <1>6 DEF AnswersKnown

LEMMA CallAnswersKnown ==
  ASSUME TypeOK, Placed, QueueKnown, AnswersKnown, NEW t \in Threads, InCall(t)
  PROVE  AnswersKnown'
<1> USE DEF TypeOK, Placed, At, Goto, Threads, Inside, InACall
<1>1. UNCHANGED <<log, request_queue>> /\ Taken' = Taken
  BY DEF InCall, lookup, lookupNull, readId, writeId, enterBook, leaveBook, queue, Taken
<1> DEFINE r == [type |-> call[t].type, order_id |-> id[t], n |-> call[t].n]
<1>2. r \in Response
  BY DEF Response, Request
<1>3. Answered(t) = Append(response_queue, r) /\ r.n = call[t].n
  BY DEF Answered
<1>4. t = "owner" => r.n = 0
  BY <1>3 DEF QueueKnown
<1>5. t = "run" /\ pc["run"] \in Inside => r.n = Taken
  <2>1. pc["run"] \in Inside => Taken \in 1 .. Len(log) /\ call["run"] = log[Taken]
    BY DEF QueueKnown, Taken
  <2>2. pc["run"] \in Inside => call["run"].n = Taken
    BY <2>1 DEF QueueKnown
  <2> QED  BY <1>3, <2>2
<1> HIDE DEF r
<1>6. CASE lookup(t) \/ lookupNull(t) \/ readId(t) \/ writeId(t)
  <2>1. response_queue' = response_queue /\ (Owes' <=> Owes)
    BY <1>6 DEF lookup, lookupNull, readId, writeId, books, Owes
  <2> QED  BY <1>1, <2>1, AnswersKept
<1>7. CASE enterBook(t)
  <2>1. CASE call[t].type = "ADD"
    <3>1. response_queue' = Append(response_queue, r)
      BY <1>3, <1>7, <2>1 DEF enterBook
    <3>2. CASE t = "run"
      BY <1>1, <1>2, <1>5, <1>7, <2>1, <3>1, <3>2, AnswerAppended DEF enterBook, Owes
    <3>3. CASE t = "owner"
      <4>1. Owes' <=> Owes
        BY <1>7, <3>3 DEF enterBook, Owes
      <4> QED  BY <1>1, <1>2, <1>4, <3>1, <3>3, <4>1, AnswerAppended
    <3> QED  BY <3>2, <3>3
  <2>2. CASE call[t].type # "ADD"
    <3>1. response_queue' = response_queue /\ (Owes' <=> Owes)
      BY <1>7, <2>2 DEF enterBook, Owes
    <3> QED  BY <1>1, <3>1, AnswersKept
  <2> QED  BY <2>1, <2>2
<1>8. CASE leaveBook(t)
  <2>1. CASE call[t].type = "CANCEL"
    <3>1. response_queue' = Append(response_queue, r)
      BY <1>3, <1>8, <2>1 DEF leaveBook
    <3>2. CASE t = "run"
      BY <1>1, <1>2, <1>5, <1>8, <2>1, <3>1, <3>2, AnswerAppended DEF leaveBook, Owes
    <3>3. CASE t = "owner"
      <4>1. Owes' <=> Owes
        BY <1>8, <3>3 DEF leaveBook, Owes
      <4> QED  BY <1>1, <1>2, <1>4, <3>1, <3>3, <4>1, AnswerAppended
    <3> QED  BY <3>2, <3>3
  <2>2. CASE call[t].type # "CANCEL"
    <3>1. response_queue' = response_queue /\ (Owes' <=> Owes)
      BY <1>8, <2>2 DEF leaveBook, Owes
    <3> QED  BY <1>1, <3>1, AnswersKept
  <2> QED  BY <2>1, <2>2
<1> QED  BY <1>6, <1>7, <1>8 DEF InCall

LEMMA StepAnswersKnown ==
  ASSUME TypeOK, Placed, Disciplined, QueueKnown, AnswersKnown, [Next]_vars
  PROVE  AnswersKnown'
<1> USE DEF TypeOK, Placed, At, Goto, Threads, Inside, InACall
<1>1. ASSUME NEW type \in RequestType, NEW k \in Tickers, push(type, k)
      PROVE  AnswersKnown'
  <2> DEFINE r == [type |-> type, ticker |-> k, n |-> Len(log) + 1]
  <2>1. /\ request_queue' = Append(request_queue, r) /\ log' = Append(log, r)
        /\ UNCHANGED <<pc, call, response_queue>>
    BY <1>1 DEF push, books
  <2> HIDE DEF r
  <2>2. Taken' = Taken /\ Taken <= Len(log) /\ Taken \in Nat
    BY <2>1 DEF Taken, QueueKnown
  <2>3. \A n \in 1 .. Taken : log'[n] = log[n]
    BY <2>1, <2>2
  <2>4. Owes' <=> Owes
    BY <2>1 DEF Owes
  <2> QED  BY <2>1, <2>2, <2>3, <2>4, AnswersKept
<1>2. CASE processRequest
  <2>1. /\ request_queue # <<>> /\ request_queue' = Tail(request_queue)
        /\ UNCHANGED <<log, response_queue>>
        /\ call'["run"] = Head(request_queue)
        /\ pc["run"] = "pop" /\ pc'["run"] = Dispatch(Head(request_queue))
    BY <1>2 DEF processRequest, books
  <2>2. Taken' = Taken + 1 /\ Taken \in Nat
    BY <2>1 DEF Taken, QueueKnown
  <2>3. Head(request_queue) = log[Taken + 1]
    BY <2>1, SMTT(30) DEF QueueKnown
  <2>4. ~Owes
    BY <2>1 DEF Owes
  <2>5. log[Taken + 1].type = "INVALID" \/ Owes'
    BY <2>1, <2>3 DEF Owes, Dispatch
  <2>6. \A j \in 1 .. Len(response_queue) : response_queue[j].n \in Nat
    BY ResponsesTyped
  <2>7. \A n \in 1 .. Taken' : n \in 1 .. Taken \/ n = Taken + 1
    BY <2>2
  <2>8. ASSUME NEW j \in 1 .. Len(response_queue')
        PROVE  /\ response_queue'[j].n <= Taken'
               /\ response_queue'[j].n < Taken'
               /\ \A i \in 1 .. (j - 1) :
                    response_queue'[j].n # 0 => response_queue'[i].n < response_queue'[j].n
    <3>1. /\ response_queue[j].n \in Nat /\ response_queue[j].n <= Taken
          /\ \A i \in 1 .. (j - 1) :
               response_queue[j].n # 0 => response_queue[i].n < response_queue[j].n
      BY <2>1, <2>6, <2>8 DEF AnswersKnown
    <3> HIDE DEF TypeOK, Placed
    <3> QED  BY <2>1, <2>2, <3>1
  <2>9. \A n \in 1 .. Taken : Answer(n)' \/ log'[n].type = "INVALID"
    BY <2>1, <2>4 DEF AnswersKnown, Answer
  <2> QED  BY <2>1, <2>2, <2>5, <2>7, <2>8, <2>9 DEF AnswersKnown
<1>3. ASSUME NEW type \in {"ADD", "CANCEL"}, NEW k \in Tickers, callBook(type, k)
      PROVE  AnswersKnown'
  <2>1. UNCHANGED <<log, request_queue, response_queue>> /\ (Owes' <=> Owes)
    BY <1>3 DEF callBook, Called, queue, books, Owes
  <2> QED  BY <2>1, AnswersKept DEF Taken
<1>4. ASSUME NEW k \in Tickers, addTicker(k)
      PROVE  AnswersKnown'
  <2>1. UNCHANGED <<log, request_queue, response_queue>> /\ (Owes' <=> Owes)
    BY <1>4 DEF addTicker, Called, queue, books, Owes
  <2> QED  BY <2>1, AnswersKept DEF Taken
<1>5. CASE start \/ stop \/ destroy \/ joined \/ insertBook
  <2>1. UNCHANGED <<log, request_queue, response_queue, call>>
    BY <1>5 DEF start, stop, destroy, joined, insertBook, queue, books
  <2>2. pc'["run"] = pc["run"] \/ (pc["run"] = "ended" /\ pc'["run"] = "test")
    BY <1>5 DEF start, stop, destroy, joined, insertBook, Called, Disciplined
  <2>3. Owes' <=> Owes
    BY <2>1, <2>2 DEF Owes
  <2> QED  BY <2>1, <2>3, AnswersKept DEF Taken
<1>6. CASE testRunning \/ popNothing \/ runningSeen
  <2>1. UNCHANGED <<log, request_queue, response_queue>> /\ (Owes' <=> Owes)
    BY <1>6 DEF testRunning, popNothing, runningSeen, queue, books, Owes
  <2> QED  BY <2>1, AnswersKept DEF Taken
<1>7. CASE UNCHANGED vars
  <2>1. UNCHANGED <<log, request_queue, response_queue>> /\ (Owes' <=> Owes)
    BY <1>7 DEF vars, Owes
  <2> QED  BY <2>1, AnswersKept DEF Taken
<1> QED
  BY <1>1, <1>2, <1>3, <1>4, <1>5, <1>6, <1>7, CallAnswersKnown
  DEF Next, InOwnerCall, RunThread, Over

-----------------------------------------------------------------------------
(* The order ids.                                                          *)

\* With one thread at a time the read and the write of next_order_id++ belong
\* together.
LEMMA CallTicketKnown ==
  ASSUME TypeOK, Placed, Apart, TicketKnown, NEW t \in Threads, InCall(t)
  PROVE  TicketKnown'
<1> USE DEF TypeOK, Placed, TicketKnown, HasId, At, Goto, Threads, Inside, InACall
<1>1. CASE lookup(t) \/ lookupNull(t)
  BY <1>1 DEF lookup, lookupNull, books
<1>2. CASE readId(t)
  BY <1>2 DEF readId
<1>3. CASE writeId(t)
  <2>1. \A u \in Threads : u # t => pc[u] \notin Inside
    BY <1>3 DEF writeId, Apart
  <2> QED  BY <1>3, <2>1 DEF writeId
<1>4. CASE enterBook(t) \/ leaveBook(t)
  BY <1>4 DEF enterBook, leaveBook
<1> QED  BY <1>1, <1>2, <1>3, <1>4 DEF InCall

LEMMA StepTicketKnown ==
  ASSUME TypeOK, Placed, Apart, TicketKnown, [Next]_vars
  PROVE  TicketKnown'
<1> USE DEF TypeOK, Placed, TicketKnown, HasId, At, Goto, Threads, Inside, InACall
<1>1. CASE \E type \in RequestType, k \in Tickers : push(type, k)
  BY <1>1 DEF push, books
<1>2. CASE \E type \in {"ADD", "CANCEL"}, k \in Tickers : callBook(type, k)
  BY <1>2 DEF callBook, Called, books
<1>3. CASE \E k \in Tickers : addTicker(k)
  BY <1>3 DEF addTicker, Called, books
<1>4. CASE start \/ stop \/ destroy \/ joined \/ insertBook
  BY <1>4 DEF start, stop, destroy, joined, insertBook, Called, books
<1>5. CASE testRunning \/ popNothing \/ processRequest \/ runningSeen
  BY <1>5 DEF testRunning, popNothing, processRequest, runningSeen, Dispatch, books
<1>6. CASE UNCHANGED vars
  BY <1>6 DEF vars
<1> QED
  BY <1>1, <1>2, <1>3, <1>4, <1>5, <1>6, CallTicketKnown
  DEF Next, InOwnerCall, RunThread, Over

LEMMA LastIdNat ==
  ASSUME TypeOK, TicketKnown
  PROVE  LastId \in Nat
BY DEF TypeOK, TicketKnown, LastId, HasId

LEMMA IdsKept ==
  ASSUME IdsKnown, response_queue' = response_queue, LastId' = LastId
  PROVE  IdsKnown'
BY DEF IdsKnown, Accepts, IdOf

\* A response that accepts no order, or one with the id after the last.
LEMMA IdAppended ==
  ASSUME TypeOK, TicketKnown, IdsKnown, NEW r \in Response,
         response_queue' = Append(response_queue, r),
         \/ r.type # "ADD" /\ LastId' = LastId
         \/ r.type = "ADD" /\ r.order_id = LastId + 1 /\ LastId' = LastId + 1
  PROVE  IdsKnown'
<1>0. PICK L \in Nat : L = Len(response_queue)
  BY DEF TypeOK
<1>1. /\ L \in Nat /\ Len(response_queue') = L + 1
      /\ \A j \in 1 .. L : response_queue'[j] = response_queue[j]
      /\ response_queue'[L + 1] = r
  BY <1>0 DEF TypeOK
<1>2. LastId \in Nat /\ (LastId' = LastId \/ LastId' = LastId + 1)
  BY LastIdNat
<1>3. \A j \in 1 .. L : (Accepts(j)' <=> Accepts(j)) /\ IdOf(j)' = IdOf(j)
  BY <1>1 DEF Accepts, IdOf
<1>4. (Accepts(L + 1)' <=> r.type = "ADD") /\ IdOf(L + 1)' = r.order_id
  BY <1>1 DEF Accepts, IdOf
<1>5. \A j \in 1 .. L : Accepts(j) =>
        /\ IdOf(j) \in 1 .. LastId
        /\ \A i \in 1 .. (j - 1) : Accepts(i) => IdOf(i) < IdOf(j)
  BY <1>0 DEF IdsKnown
<1>6. \A k \in 1 .. LastId : \E j \in 1 .. L : Accepts(j) /\ IdOf(j) = k
  BY <1>0 DEF IdsKnown
<1>7. ASSUME NEW j \in 1 .. (L + 1), Accepts(j)'
      PROVE  /\ IdOf(j)' \in 1 .. LastId'
             /\ \A i \in 1 .. (j - 1) : Accepts(i)' => IdOf(i)' < IdOf(j)'
  <2>1. CASE j \in 1 .. L
    BY <1>1, <1>2, <1>3, <1>5, <1>7, <2>1
  <2>2. CASE j = L + 1
    BY <1>1, <1>2, <1>3, <1>4, <1>5, <1>7, <2>2
  <2> QED  BY <1>1, <1>7, <2>1, <2>2
<1>8. ASSUME NEW k \in 1 .. LastId'
      PROVE  \E j \in 1 .. (L + 1) : Accepts(j)' /\ IdOf(j)' = k
  <2>1. CASE k \in 1 .. LastId
    <3>1. PICK j \in 1 .. L : Accepts(j) /\ IdOf(j) = k
      BY <1>6, <2>1
    <3>2. j \in 1 .. (L + 1) /\ Accepts(j)' /\ IdOf(j)' = k
      BY <1>1, <1>3, <3>1
    <3> QED  BY <3>2
  <2>2. CASE k = LastId + 1
    <3>1. Accepts(L + 1)' /\ IdOf(L + 1)' = k
      BY <1>2, <1>4, <1>8, <2>2
    <3> QED  BY <1>1, <3>1
  <2> QED  BY <1>2, <1>8, <2>1, <2>2
<1> QED  BY <1>1, <1>7, <1>8 DEF IdsKnown

LEMMA CallIdsKnown ==
  ASSUME TypeOK, Placed, Apart, TicketKnown, IdsKnown, NEW t \in Threads, InCall(t)
  PROVE  IdsKnown'
<1> USE DEF TypeOK, Placed, HasId, At, Goto, Threads, Inside, InACall
<1> DEFINE r == [type |-> call[t].type, order_id |-> id[t], n |-> call[t].n]
<1>1. r \in Response /\ r.type = call[t].type /\ r.order_id = id[t]
  BY DEF Response, Request
<1>2. Answered(t) = Append(response_queue, r)
  BY DEF Answered
<1> HIDE DEF r
<1>3. pc[t] \in Inside
  BY DEF InCall, lookup, lookupNull, readId, writeId, enterBook, leaveBook
<1>4. \A u \in Threads : u # t => pc[u] \notin Inside
  BY <1>3 DEF Apart
<1>5. CASE lookup(t) \/ lookupNull(t) \/ readId(t)
  <2>1. UNCHANGED <<response_queue, next_order_id>> /\ ~HasId(t)
    BY <1>5 DEF lookup, lookupNull, readId, books
  <2>2. \A u \in Threads : HasId(u)' <=> HasId(u)
    BY <1>5, <2>1 DEF lookup, lookupNull, readId
  <2> QED  BY <2>1, <2>2, IdsKept DEF LastId
<1>6. CASE writeId(t)
  <2>1. response_queue' = response_queue /\ next_order_id' = next_order_id + 1
    BY <1>6 DEF writeId, TicketKnown
  <2>2. (\A u \in Threads : ~HasId(u)) /\ HasId(t)'
    BY <1>4, <1>6 DEF writeId
  <2>3. LastId' = LastId
    BY <2>1, <2>2 DEF LastId
  <2> QED  BY <2>1, <2>3, IdsKept
<1>7. CASE enterBook(t)
  <2>1. next_order_id' = next_order_id /\ \A u \in Threads : ~HasId(u)'
    BY <1>4, <1>7 DEF enterBook
  <2>2. CASE call[t].type = "ADD"
    <3>1. HasId(t) /\ response_queue' = Append(response_queue, r)
      BY <1>2, <1>7, <2>2 DEF enterBook
    <3>2. r.order_id = LastId + 1 /\ LastId' = LastId + 1
      BY <1>1, <2>1, <3>1 DEF LastId, TicketKnown
    <3> QED  BY <1>1, <2>2, <3>1, <3>2, IdAppended
  <2>3. CASE call[t].type # "ADD"
    <3>1. response_queue' = response_queue /\ \A u \in Threads : ~HasId(u)
      BY <1>4, <1>7, <2>3 DEF enterBook
    <3>2. LastId' = LastId
      BY <2>1, <3>1 DEF LastId
    <3> QED  BY <3>1, <3>2, IdsKept
  <2> QED  BY <2>2, <2>3
<1>8. CASE leaveBook(t)
  <2>1. /\ next_order_id' = next_order_id
        /\ \A u \in Threads : ~HasId(u) /\ ~HasId(u)'
    BY <1>4, <1>8 DEF leaveBook
  <2>2. LastId' = LastId
    BY <2>1 DEF LastId
  <2>3. CASE call[t].type = "CANCEL"
    <3>1. response_queue' = Append(response_queue, r)
      BY <1>2, <1>8, <2>3 DEF leaveBook
    <3> QED  BY <1>1, <2>2, <2>3, <3>1, IdAppended
  <2>4. CASE call[t].type # "CANCEL"
    <3>1. response_queue' = response_queue
      BY <1>8, <2>4 DEF leaveBook
    <3> QED  BY <2>2, <3>1, IdsKept
  <2> QED  BY <2>3, <2>4
<1> QED  BY <1>5, <1>6, <1>7, <1>8 DEF InCall

LEMMA StepIdsKnown ==
  ASSUME TypeOK, Placed, Disciplined, TicketKnown, IdsKnown, [Next]_vars
  PROVE  IdsKnown'
<1> USE DEF TypeOK, Placed, HasId, At, Goto, Threads, Inside, InACall
<1>1. ASSUME UNCHANGED <<response_queue, next_order_id>>,
             \A u \in Threads : HasId(u)' <=> HasId(u)
      PROVE  IdsKnown'
  BY <1>1, IdsKept DEF LastId
<1>2. CASE \E type \in RequestType, k \in Tickers : push(type, k)
  BY <1>1, <1>2 DEF push, books
<1>3. CASE \E type \in {"ADD", "CANCEL"}, k \in Tickers : callBook(type, k)
  BY <1>1, <1>3 DEF callBook, Called, books
<1>4. CASE \E k \in Tickers : addTicker(k)
  BY <1>1, <1>4 DEF addTicker, Called, books
<1>5. CASE start \/ stop \/ destroy \/ joined \/ insertBook
  BY <1>1, <1>5 DEF start, stop, destroy, joined, insertBook, Called, Disciplined, books
<1>6. CASE testRunning \/ popNothing \/ processRequest \/ runningSeen
  BY <1>1, <1>6 DEF testRunning, popNothing, processRequest, runningSeen, Dispatch, books
<1>7. CASE UNCHANGED vars
  BY <1>1, <1>7 DEF vars
<1> QED
  BY <1>2, <1>3, <1>4, <1>5, <1>6, <1>7, CallIdsKnown, DisciplinedApart
  DEF Next, InOwnerCall, RunThread, Over

ServingInvariant ==
  /\ TypeOK /\ Placed /\ Disciplined
  /\ QueueKnown /\ AnswersKnown /\ TicketKnown /\ IdsKnown

LEMMA InitServing ==
  ASSUME Init
  PROVE  ServingInvariant
<1>1. QueueKnown
  BY DEF Init, QueueKnown, Taken, Threads, Inside
<1>2. AnswersKnown
  BY DEF Init, AnswersKnown, Taken
<1>3. TicketKnown /\ LastId = 0
  BY DEF Init, TicketKnown, LastId, HasId, Threads
<1>4. IdsKnown
  BY <1>3 DEF Init, IdsKnown
<1> QED  BY <1>1, <1>2, <1>3, <1>4, InitPlaced DEF ServingInvariant

LEMMA ServedInOrder ==
  ASSUME ServingInvariant
  PROVE  ServedOnceInOrder
<1> USE DEF ServingInvariant
<1>1. \A j \in 1 .. Len(response_queue) : \A i \in 1 .. (j - 1) :
        response_queue[j].n # 0 => response_queue[i].n < response_queue[j].n
  BY DEF AnswersKnown
<1>2. ASSUME NEW n \in 1 .. Taken
      PROVE  Answer(n) \/ log[n].type = "INVALID" \/ (call["run"].n = n /\ pc["run"] \in Inside)
  <2>1. Answer(n) \/ log[n].type = "INVALID" \/ (n = Taken /\ Owes)
    BY <1>2 DEF AnswersKnown
  <2>2. Taken \in Nat /\ Taken <= Len(log) /\ Len(log) \in Nat
    BY DEF TypeOK, QueueKnown, Taken
  <2>3. log[n].n = n
    BY <1>2, <2>2 DEF QueueKnown
  <2>4. Owes => pc["run"] \in Inside /\ call["run"] = log[Taken]
    BY DEF QueueKnown, Owes, InACall
  <2> QED  BY <2>1, <2>3, <2>4
<1>3. ASSUME NEW j \in 1 .. Len(response_queue), Accepts(j)
      PROVE  /\ IdOf(j) > 0
             /\ \A i \in 1 .. (j - 1) : Accepts(i) => IdOf(i) < IdOf(j)
             /\ \A k \in 1 .. (IdOf(j) - 1) : \E i \in 1 .. (j - 1) : Accepts(i) /\ IdOf(i) = k
  <2>1. /\ IdOf(j) \in 1 .. LastId /\ LastId \in Nat
        /\ \A i \in 1 .. (j - 1) : Accepts(i) => IdOf(i) < IdOf(j)
    BY <1>3, LastIdNat DEF IdsKnown
  <2>2. ASSUME NEW k \in 1 .. (IdOf(j) - 1)
        PROVE  \E i \in 1 .. (j - 1) : Accepts(i) /\ IdOf(i) = k
    <3>1. PICK i \in 1 .. Len(response_queue) : Accepts(i) /\ IdOf(i) = k
      BY <2>1, <2>2 DEF IdsKnown
    <3>2. i # j
      BY <2>1, <2>2, <3>1
    <3>3. ~(j < i)
      <4>1. SUFFICES ASSUME j < i  PROVE FALSE
        OBVIOUS
      <4>2. j \in 1 .. (i - 1)
        BY <4>1
      <4>3. IdOf(j) < IdOf(i)
        BY <1>3, <3>1, <4>2 DEF IdsKnown
      <4> QED  BY <2>1, <2>2, <3>1, <4>3
    <3>4. i \in 1 .. (j - 1)
      BY <3>2, <3>3
    <3> QED  BY <3>1, <3>4
  <2> QED  BY <2>1, <2>2
<1> QED  BY <1>1, <1>2, <1>3 DEF ServedOnceInOrder

\* While the owner keeps out of the books as long as the run thread is on, every
\* queued request is served once and in its order across any number of stop()
\* and start(), and the orders get the ids 1, 2, 3, ... as they are accepted.
THEOREM ExchangeServedOnceInOrder ==
  ASSUME ~Overlap
  PROVE  Spec => []ServedOnceInOrder
<1>1. Init => ServingInvariant
  BY InitServing
<1>2. ServingInvariant /\ [Next]_vars => ServingInvariant'
  BY StepPlaced, StepDisciplined, DisciplinedApart, StepQueueKnown, StepAnswersKnown,
     StepTicketKnown, StepIdsKnown
  DEF ServingInvariant
<1>3. ServingInvariant => ServedOnceInOrder
  BY ServedInOrder
<1> QED  BY <1>1, <1>2, <1>3, PTL DEF Spec

-----------------------------------------------------------------------------
(***************************************************************************)
(* The benchmark: the exchange's invariants hold inside it, and the window *)
(* bounds what is under way.                                               *)
(***************************************************************************)

Early == {"start", "warm", "warmWait"}
Late  == {"producers", "consumer", "stop", "join", "report", "done"}
Ended == {"stop", "join", "report", "done"}

BenchTypeOK ==
  /\ main \in Early \cup Late
  /\ warmed \in Nat /\ sent \in Nat /\ received \in Nat /\ idx \in Nat
  /\ producer \in {"off", "window", "claim", "stamp", "push", "done"}
  /\ consumer \in {"off", "pop", "count", "measure", "done"}
  /\ latencies \in Seq([idx : Nat, n : Nat])

\* Where the three threads are, seen from one another.
Phases ==
  /\ main = "start" => pc["run"] = "ended"
  /\ pc["owner"] \in {"idle", "join"}
  /\ main \in Early => producer = "off" /\ consumer = "off" /\ sent = 0 /\ received = 0
  /\ main \in Late => producer # "off" /\ consumer # "off" /\ warmed = WARMUP_ORDERS
  /\ main \in Ended => consumer = "done"
  /\ consumer = "done" => received >= TOTAL_ORDERS
  /\ consumer = "measure" => received >= 1

\* The responses taken out of the queue, and all responses so far.
Popped    == warmed + received + (IF consumer = "count" THEN 1 ELSE 0)
Responses == Popped + Len(response_queue)

\* The orders that the producer has pushed; a claim comes before the push.
Claimed == {"stamp", "push", "done"}
Pushed  == IF producer \in Claimed THEN sent - 1 ELSE sent

\* Requests, responses and order ids are in step: each order is one of each.
InStep ==
  /\ \A n \in 1 .. Len(log) : log[n].type = "ADD"
  /\ Len(log) = warmed + (IF main = "warmWait" THEN 1 ELSE 0) + Pushed
  /\ Taken = Responses + (IF Owes THEN 1 ELSE 0)
  /\ next_order_id = Responses + 1 + (IF pc["run"] = "book" THEN 1 ELSE 0)

\* The i-th response from the beginning accepts the order with id i.
OrderResponse(i) == [type |-> "ADD", order_id |-> i, n |-> i]

ResponsesInOrder ==
  /\ \A i \in 1 .. Len(response_queue) : response_queue[i] = OrderResponse(Popped + i)
  /\ consumer \in {"count", "measure"} => resp = OrderResponse(Popped)

\* What the producer has read from the two counters.
Windowed ==
  /\ producer \in Claimed => sent >= 1 /\ idx = sent - 1
  /\ Pushed <= received + MAX_IN_FLIGHT
  /\ producer = "claim" => sent < received + MAX_IN_FLIGHT
  /\ producer \in {"stamp", "push"} => sent <= received + MAX_IN_FLIGHT
  /\ producer # "done" => sent <= TOTAL_ORDERS
  /\ producer = "done" => sent = TOTAL_ORDERS + 1
  /\ \A k \in 0 .. (Pushed - 1) : k \in send_ts
  /\ producer = "push" => idx \in send_ts

\* The latencies are those of the responses counted, in their order.
Measured ==
  /\ Len(latencies) = received - (IF consumer = "measure" THEN 1 ELSE 0)
  /\ \A i \in 1 .. Len(latencies) : latencies[i] = [idx |-> i - 1, n |-> WARMUP_ORDERS + i]

BenchInvariant ==
  /\ TypeOK /\ Placed /\ QueueKnown /\ TicketKnown
  /\ BenchTypeOK /\ Phases /\ InStep /\ ResponsesInOrder /\ Windowed /\ Measured

-----------------------------------------------------------------------------
(* The exchange inside the benchmark.                                      *)

LEMMA TickerKnown == ticker_id \in Tickers
BY ExchangeAssumption DEF ticker_id

LEMMA PopKept ==
  ASSUME TypeOK, Placed, QueueKnown, TicketKnown, Pop(response_queue)
  PROVE  (TypeOK /\ Placed /\ QueueKnown /\ TicketKnown)'
<1>1. UNCHANGED <<running, seen, joinable, order_books_map, next_order_id, id, request_queue,
                  log, pc, call, added, calls, status>>
  BY DEF Pop, thread, queue
<1>2. response_queue' \in Seq(Response)
  <2>1. response_queue \in Seq(Response)
    BY DEF TypeOK, Response
  <2> QED  BY <2>1 DEF Pop
<1>3. TypeOK'
  BY <1>1, <1>2 DEF TypeOK, Response
<1>4. Placed' /\ QueueKnown' /\ TicketKnown'
  BY <1>1 DEF Placed, QueueKnown, Taken, TicketKnown, HasId
<1> QED  BY <1>3, <1>4

\* A step of the benchmark is a step of the exchange, or takes a response.
LEMMA BenchExchange ==
  ASSUME BenchInvariant, [BNext]_bvars
  PROVE  (TypeOK /\ Placed /\ QueueKnown /\ TicketKnown)'
<1> USE DEF BenchInvariant
<1>1. Apart
  BY DEF Phases, Apart, Inside
<1>2. [Next]_vars \/ Pop(response_queue)
  <2>1. CASE MainThread
    <3>1. push("ADD", ticker_id) => Next
      BY TickerKnown DEF Next, RequestType
    <3>2. start \/ stop \/ joined => Next
      BY DEF Next, InOwnerCall
    <3> QED
      BY <2>1, <3>1, <3>2
      DEF MainThread, MainStart, WarmPush, WarmWait, Go, JoinThreads, MainStop, Report
  <2>2. CASE Producer
    <3>1. push("ADD", ticker_id) => Next
      BY TickerKnown DEF Next, RequestType
    <3> QED  BY <2>2, <3>1 DEF Producer, Window, Claim, Stamp, Send
  <2>3. CASE Consumer
    BY <2>3 DEF Consumer, PopResponse, Count, Measure, ConsumerEnds
  <2>4. CASE ExchangeThread
    BY <2>4 DEF ExchangeThread, Next
  <2>5. CASE Finished \/ UNCHANGED bvars
    BY <2>5 DEF Finished, bvars
  <2> QED  BY <2>1, <2>2, <2>3, <2>4, <2>5 DEF BNext
<1>3. CASE [Next]_vars
  BY <1>1, <1>3, StepPlaced, StepQueueKnown, StepTicketKnown
<1>4. CASE Pop(response_queue)
  BY <1>4, PopKept
<1> QED  BY <1>2, <1>3, <1>4

\* The counters are natural numbers, and no response comes before its request.
LEMMA Numbers ==
  ASSUME BenchInvariant
  PROVE  /\ Popped \in Nat /\ Responses \in Nat /\ Pushed \in Nat
         /\ Len(log) \in Nat /\ Len(request_queue) \in Nat /\ Len(response_queue) \in Nat
         /\ Taken \in Nat /\ Taken <= Len(log) /\ Responses <= Taken
         /\ received <= Pushed /\ Pushed <= sent
         /\ next_order_id \in Nat
<1> USE DEF BenchInvariant
<1>1. Len(log) \in Nat /\ Len(request_queue) \in Nat /\ Len(response_queue) \in Nat
      /\ next_order_id \in Nat
  BY DEF TypeOK
<1>2. Popped \in Nat /\ Responses \in Nat /\ Popped <= Responses
      /\ warmed + received <= Popped
  BY <1>1 DEF BenchTypeOK, Popped, Responses
<1>3. Pushed \in Nat /\ Pushed <= sent
  BY DEF BenchTypeOK, Windowed, Pushed
<1>4. Taken \in Nat /\ Taken <= Len(log)
  BY <1>1 DEF QueueKnown, Taken
<1>5. Responses <= Taken
  BY <1>2, <1>4 DEF InStep
<1>6. received <= Pushed
  <2>1. warmed + received <= Len(log) /\ warmed \in Nat /\ received \in Nat
    BY <1>1, <1>2, <1>4, <1>5 DEF BenchTypeOK
  <2>2. CASE main \in Early
    BY <1>3, <2>2 DEF Phases
  <2>3. CASE main \in Late
    BY <1>3, <2>1, <2>3 DEF InStep, Late
  <2> QED  BY <2>2, <2>3 DEF BenchTypeOK
<1> QED  BY <1>1, <1>2, <1>3, <1>4, <1>5, <1>6

-----------------------------------------------------------------------------
(* The run thread.                                                         *)

LEMMA ThreadsKept ==
  ASSUME BenchTypeOK, Windowed, Measured, UNCHANGED threads
  PROVE  (BenchTypeOK /\ Windowed /\ Measured)' /\ Popped' = Popped /\ Pushed' = Pushed
BY DEF BenchTypeOK, Windowed, Measured, Popped, Pushed, threads

\* What the run thread serves is the order after the last response.
LEMMA BenchServes ==
  ASSUME BenchInvariant, pc["run"] \in InACall
  PROVE  call["run"].type = "ADD" /\ call["run"].n = Taken /\ Taken >= 1
<1>1. Taken \in 1 .. Len(log) /\ call["run"] = log[Taken]
  BY Numbers DEF BenchInvariant, QueueKnown, Inside, InACall
<1> QED  BY <1>1 DEF BenchInvariant, QueueKnown, InStep

LEMMA BenchInCall ==
  ASSUME BenchInvariant, InCall("run"), UNCHANGED threads
  PROVE  (Phases /\ InStep /\ ResponsesInOrder)'
<1> USE DEF BenchInvariant
<1>1. /\ UNCHANGED <<log, request_queue>> /\ Taken' = Taken
      /\ pc["run"] \in InACall /\ pc'["run"] \in InACall \cup {"test"}
      /\ pc'["owner"] = pc["owner"]
  BY DEF InCall, lookup, lookupNull, readId, writeId, enterBook, leaveBook, queue, Taken, At,
         Goto, TypeOK, Threads, Inside, InACall
<1>2. UNCHANGED <<main, warmed, sent, received, producer, consumer, resp>>
      /\ Popped' = Popped /\ Pushed' = Pushed
  BY DEF threads, Popped, Pushed
<1>3. call["run"].type = "ADD" /\ call["run"].n = Taken /\ Taken >= 1
  BY <1>1, BenchServes
<1>4. Phases'
  BY <1>1, <1>2 DEF Phases, InACall, Inside
<1>5. CASE lookup("run") \/ lookupNull("run") \/ readId("run")
  <2>1. /\ UNCHANGED <<response_queue, next_order_id>>
        /\ Owes /\ Owes' /\ pc["run"] # "book" /\ pc'["run"] # "book"
    BY <1>3, <1>5
    DEF lookup, lookupNull, readId, books, At, Goto, TypeOK, Threads, Owes, InACall, Inside
  <2>2. InStep' /\ ResponsesInOrder'
    BY <1>1, <1>2, <2>1 DEF InStep, ResponsesInOrder, Responses
  <2> QED  BY <1>4, <2>2
<1>6. CASE writeId("run")
  <2>1. /\ response_queue' = response_queue /\ next_order_id' = next_order_id + 1
        /\ Owes /\ Owes' /\ pc["run"] = "writeId" /\ pc'["run"] = "book"
    BY <1>3, <1>6
    DEF writeId, At, Goto, TypeOK, TicketKnown, Threads, Owes, InACall, Inside
  <2>2. InStep' /\ ResponsesInOrder'
    BY <1>1, <1>2, <2>1, Numbers, SMTT(30) DEF InStep, ResponsesInOrder, Responses
  <2> QED  BY <1>4, <2>2
<1>7. CASE enterBook("run")
  <2>1. /\ response_queue' = Append(response_queue, [type |-> "ADD", order_id |-> id["run"],
                                                     n |-> Taken])
        /\ next_order_id' = next_order_id
        /\ Owes /\ ~Owes' /\ pc["run"] = "book" /\ pc'["run"] = "leave"
    BY <1>3, <1>7
    DEF enterBook, Answered, At, Goto, TypeOK, Threads, Owes, InACall, Inside
  <2>2. id["run"] = Responses + 1 /\ Taken = Responses + 1
    BY <1>3, <2>1, Numbers DEF InStep, TicketKnown, HasId, Threads
  <2>3. /\ response_queue' = Append(response_queue, OrderResponse(Responses + 1))
        /\ Responses = Popped + Len(response_queue)
    BY <2>1, <2>2 DEF OrderResponse, Responses
  <2>4. Len(response_queue') = Len(response_queue) + 1
    BY <2>3 DEF TypeOK
  <2>5. \A i \in 1 .. Len(response_queue') : response_queue'[i] = OrderResponse(Popped + i)
    <3> TAKE i \in 1 .. Len(response_queue')
    <3>1. CASE i \in 1 .. Len(response_queue)
      BY <2>3, <3>1 DEF ResponsesInOrder, TypeOK
    <3>2. CASE i = Len(response_queue) + 1
      <4>1. Popped + i = Responses + 1
        BY <2>3, <3>2, Numbers
      <4> QED  BY <2>3, <3>2, <4>1 DEF TypeOK
    <3> QED  BY <2>4, <3>1, <3>2, Numbers
  <2>6. Responses' = Responses + 1
    BY <1>2, <2>4, Numbers DEF Responses
  <2>7. InStep'
    BY <1>1, <1>2, <2>1, <2>2, <2>6, Numbers, SMTT(30) DEF InStep
  <2>8. ResponsesInOrder'
    BY <1>2, <2>5 DEF ResponsesInOrder, OrderResponse
  <2> QED  BY <1>4, <2>7, <2>8
<1>8. CASE leaveBook("run")
  <2>1. /\ UNCHANGED <<response_queue, next_order_id>>
        /\ ~Owes /\ ~Owes' /\ pc["run"] # "book" /\ pc'["run"] # "book"
    BY <1>3, <1>8
    DEF leaveBook, At, Goto, TypeOK, Threads, Owes, InACall, Inside
  <2>2. InStep' /\ ResponsesInOrder'
    BY <1>1, <1>2, <2>1 DEF InStep, ResponsesInOrder, Responses
  <2> QED  BY <1>4, <2>2
<1> QED  BY <1>5, <1>6, <1>7, <1>8 DEF InCall

LEMMA BenchExchangeThread ==
  ASSUME BenchInvariant, ExchangeThread
  PROVE  (BenchTypeOK /\ Phases /\ InStep /\ ResponsesInOrder /\ Windowed /\ Measured)'
<1> USE DEF BenchInvariant
<1>1. UNCHANGED threads
  BY DEF ExchangeThread
<1>2. (BenchTypeOK /\ Windowed /\ Measured)' /\ Popped' = Popped /\ Pushed' = Pushed
  BY <1>1, ThreadsKept
<1>3. UNCHANGED <<main, warmed, sent, received, producer, consumer, resp>>
  BY <1>1 DEF threads
<1>4. CASE InCall("run")
  BY <1>1, <1>2, <1>4, BenchInCall
<1>5. CASE testRunning \/ popNothing \/ runningSeen
  <2>1. /\ UNCHANGED <<log, request_queue, response_queue, next_order_id>>
        /\ pc'["owner"] = pc["owner"] /\ (main = "start" => pc'["run"] = "ended")
        /\ (Owes' <=> Owes) /\ (pc'["run"] = "book" <=> pc["run"] = "book")
    BY <1>5
    DEF testRunning, popNothing, runningSeen, queue, books, At, Goto, TypeOK, Threads, Owes,
        Phases, InACall, Inside
  <2>2. InStep' /\ ResponsesInOrder' /\ Phases'
    BY <1>2, <1>3, <2>1 DEF InStep, ResponsesInOrder, Responses, Taken, Phases
  <2> QED  BY <1>2, <2>2
<1>6. CASE processRequest
  <2>1. /\ request_queue # <<>> /\ request_queue' = Tail(request_queue)
        /\ UNCHANGED <<log, response_queue, next_order_id>>
        /\ call'["run"] = Head(request_queue) /\ pc'["owner"] = pc["owner"]
        /\ pc["run"] = "pop" /\ pc'["run"] = Dispatch(Head(request_queue))
    BY <1>6 DEF processRequest, books, At, Goto, TypeOK, Threads
  <2>2. Taken' = Taken + 1 /\ Taken + 1 \in 1 .. Len(log) /\ Head(request_queue) = log[Taken + 1]
    <3>1. /\ Len(request_queue) >= 1 /\ Len(request_queue') = Len(request_queue) - 1
          /\ Head(request_queue) = request_queue[1]
      BY <2>1 DEF TypeOK
    <3>2. request_queue[1] = log[Taken + 1]
      BY <3>1, Numbers DEF QueueKnown
    <3> QED  BY <2>1, <3>1, <3>2, Numbers DEF Taken
  <2>3. call'["run"].type = "ADD" /\ pc'["run"] = "lookup"
    BY <2>1, <2>2 DEF InStep, Dispatch
  <2>4. ~Owes /\ Owes'
    BY <2>1, <2>3 DEF Owes, InACall, Inside
  <2>5. InStep' /\ ResponsesInOrder' /\ Phases'
    BY <1>2, <1>3, <2>1, <2>2, <2>3, <2>4, Numbers, SMTT(30)
    DEF InStep, ResponsesInOrder, Responses, Phases
  <2> QED  BY <1>2, <2>5
<1> QED  BY <1>4, <1>5, <1>6 DEF ExchangeThread, RunThread

-----------------------------------------------------------------------------
(* The main thread, the producer and the consumer.                         *)

\* A step that leaves the queues and the exchange's counters alone.
LEMMA ExchangeKept ==
  ASSUME BenchInvariant, UNCHANGED vars
  PROVE  /\ UNCHANGED <<log, request_queue, response_queue, next_order_id, pc, call>>
         /\ Taken' = Taken /\ (Owes' <=> Owes)
BY DEF vars, Taken, Owes

\* A push of the next order.
LEMMA BenchPush ==
  ASSUME BenchInvariant, push("ADD", ticker_id)
  PROVE  /\ Len(log') = Len(log) + 1 /\ Taken' = Taken
         /\ \A n \in 1 .. Len(log') : log'[n].type = "ADD"
         /\ UNCHANGED <<response_queue, next_order_id, pc, call>> /\ (Owes' <=> Owes)
<1> DEFINE r == [type |-> "ADD", ticker |-> ticker_id, n |-> Len(log) + 1]
<1>1. /\ log' = Append(log, r) /\ request_queue' = Append(request_queue, r)
      /\ UNCHANGED <<response_queue, next_order_id, pc, call>>
  BY DEF push, books
<1>2. r.type = "ADD"
  OBVIOUS
<1> HIDE DEF r
<1>3. log \in Seq(Request) /\ request_queue \in Seq(Request)
  BY DEF BenchInvariant, TypeOK
<1>4. Len(log') = Len(log) + 1 /\ Taken' = Taken
  BY <1>1, <1>3, Numbers DEF Taken
<1>5. \A n \in 1 .. Len(log') : log'[n] = IF n = Len(log) + 1 THEN r ELSE log[n]
  BY <1>1, <1>3
<1>6. ASSUME NEW n \in 1 .. Len(log')
      PROVE  log'[n].type = "ADD"
  <2>1. CASE n = Len(log) + 1
    BY <1>2, <1>5, <1>6, <2>1
  <2>2. CASE n \in 1 .. Len(log)
    <3>1. log'[n] = log[n]
      BY <1>4, <1>5, <1>6, <2>2, Numbers
    <3>2. log[n].type = "ADD"
      BY <2>2 DEF BenchInvariant, InStep
    <3> QED  BY <3>1, <3>2
  <2> QED  BY <1>4, <1>6, <2>1, <2>2, Numbers
<1> QED  BY <1>1, <1>4, <1>6 DEF Owes

\* Taking a response.
LEMMA BenchPop ==
  ASSUME BenchInvariant, Pop(response_queue)
  PROVE  /\ Head(response_queue) = OrderResponse(Popped + 1)
         /\ Len(response_queue) >= 1 /\ Len(response_queue') = Len(response_queue) - 1
         /\ \A i \in 1 .. Len(response_queue') : response_queue'[i] = OrderResponse(Popped + 1 + i)
         /\ UNCHANGED <<log, request_queue, next_order_id, pc, call>>
         /\ Taken' = Taken /\ (Owes' <=> Owes)
<1>1. /\ response_queue # <<>> /\ response_queue' = Tail(response_queue)
      /\ UNCHANGED <<log, request_queue, next_order_id, pc, call>>
  BY DEF Pop, queue
<1>2. /\ Len(response_queue) >= 1 /\ Len(response_queue') = Len(response_queue) - 1
      /\ Head(response_queue) = response_queue[1]
      /\ \A i \in 1 .. Len(response_queue') : response_queue'[i] = response_queue[i + 1]
  BY <1>1 DEF BenchInvariant, TypeOK
<1>3. \A i \in 1 .. Len(response_queue) : response_queue[i] = OrderResponse(Popped + i)
  BY DEF BenchInvariant, ResponsesInOrder
<1>4. ASSUME NEW i \in 1 .. Len(response_queue')
      PROVE  response_queue'[i] = OrderResponse(Popped + 1 + i)
  <2>1. i + 1 \in 1 .. Len(response_queue) /\ Popped + (i + 1) = Popped + 1 + i
    BY <1>2, <1>4, Numbers
  <2>2. response_queue[i + 1] = OrderResponse(Popped + 1 + i)
    BY <1>3, <2>1
  <2> QED  BY <1>2, <1>4, <2>2
<1> QED  BY <1>1, <1>2, <1>3, <1>4, Numbers DEF Taken, Owes

LEMMA BenchMain ==
  ASSUME BenchInvariant, MainThread
  PROVE  (BenchTypeOK /\ Phases /\ InStep /\ ResponsesInOrder /\ Windowed /\ Measured)'
<1> USE BenchmarkAssumption DEF BenchInvariant, Early, Late, Ended
<1>1. CASE MainStart
  <2>1. /\ main = "start" /\ main' = "warm" /\ pc["run"] = "ended"
        /\ UNCHANGED <<warmed, sent, received, producer, idx, send_ts, consumer, resp, latencies>>
    BY <1>1 DEF MainStart, Phases
  <2>2. /\ UNCHANGED <<log, request_queue, response_queue, next_order_id, call>>
        /\ pc'["owner"] = pc["owner"] /\ pc'["run"] \in {"ended", "test"}
    BY <1>1, <2>1 DEF MainStart, start, books, queue, Called, At, Goto, TypeOK, Threads
  <2>3. Taken' = Taken /\ ~Owes /\ ~Owes' /\ Popped' = Popped /\ Pushed' = Pushed
        /\ Responses' = Responses
    BY <2>1, <2>2 DEF Taken, Owes, InACall, Inside, Popped, Pushed, Responses
  <2>4. BenchTypeOK' /\ Phases' /\ Windowed' /\ Measured'
    BY <2>1, <2>2, <2>3 DEF BenchTypeOK, Phases, Windowed, Measured
  <2>5. InStep' /\ ResponsesInOrder'
    BY <2>1, <2>2, <2>3 DEF InStep, ResponsesInOrder
  <2> QED  BY <2>4, <2>5
<1>2. CASE WarmPush
  <2>1. /\ main = "warm" /\ main' = "warmWait"
        /\ UNCHANGED <<warmed, sent, received, producer, idx, send_ts, consumer, resp, latencies>>
    BY <1>2 DEF WarmPush
  <2>2. /\ Len(log') = Len(log) + 1 /\ Taken' = Taken
        /\ \A n \in 1 .. Len(log') : log'[n].type = "ADD"
        /\ UNCHANGED <<response_queue, next_order_id, pc, call>> /\ (Owes' <=> Owes)
    BY <1>2, BenchPush DEF WarmPush
  <2>3. Popped' = Popped /\ Pushed' = Pushed /\ Responses' = Responses
    BY <2>1, <2>2 DEF Popped, Pushed, Responses
  <2>4. BenchTypeOK' /\ Phases' /\ Windowed' /\ Measured'
    BY <2>1, <2>2, <2>3 DEF BenchTypeOK, Phases, Windowed, Measured
  <2>5. InStep' /\ ResponsesInOrder'
    BY <2>1, <2>2, <2>3, Numbers, SMTT(30) DEF InStep, ResponsesInOrder, BenchTypeOK
  <2> QED  BY <2>4, <2>5
<1>3. CASE WarmWait
  <2>1. /\ main = "warmWait" /\ main' = "warm" /\ warmed' = warmed + 1 /\ consumer = "off"
        /\ UNCHANGED <<sent, received, producer, idx, send_ts, consumer, resp, latencies>>
    BY <1>3 DEF WarmWait, Phases
  <2>2. /\ Len(response_queue) >= 1 /\ Len(response_queue') = Len(response_queue) - 1
        /\ \A i \in 1 .. Len(response_queue') : response_queue'[i] = OrderResponse(Popped + 1 + i)
        /\ UNCHANGED <<log, request_queue, next_order_id, pc, call>>
        /\ Taken' = Taken /\ (Owes' <=> Owes)
    BY <1>3, BenchPop DEF WarmWait
  <2>3. Popped' = Popped + 1 /\ Pushed' = Pushed /\ Responses' = Responses
    BY <2>1, <2>2, Numbers DEF Popped, Pushed, Responses, BenchTypeOK
  <2>4. BenchTypeOK' /\ Phases' /\ Windowed' /\ Measured'
    BY <2>1, <2>2, <2>3 DEF BenchTypeOK, Phases, Windowed, Measured
  <2>5. InStep'
    <3>1. warmed \in Nat /\ Len(log) = warmed + 1 + Pushed
      BY <2>1 DEF InStep, BenchTypeOK
    <3>2. Len(log') = warmed' + 0 + Pushed'
      BY <2>1, <2>2, <2>3, <3>1, Numbers
    <3>3. main' # "warmWait"
      BY <2>1
    <3> QED  BY <2>2, <2>3, <3>2, <3>3 DEF InStep
  <2>6. ResponsesInOrder'
    BY <2>1, <2>2, <2>3 DEF ResponsesInOrder
  <2> QED  BY <2>4, <2>5, <2>6
<1>4. CASE Go
  <2>1. /\ main = "warm" /\ warmed = WARMUP_ORDERS
        /\ main' = "producers" /\ producer' = "window" /\ consumer' = "pop"
        /\ producer = "off" /\ consumer = "off"
        /\ UNCHANGED <<warmed, sent, received, idx, send_ts, resp, latencies>>
    BY <1>4 DEF Go, Phases
  <2>2. /\ UNCHANGED <<log, request_queue, response_queue, next_order_id, pc, call>>
        /\ Taken' = Taken /\ (Owes' <=> Owes)
    BY <1>4, ExchangeKept DEF Go
  <2>3. Popped' = Popped /\ Pushed' = Pushed /\ Responses' = Responses
    BY <2>1, <2>2 DEF Popped, Pushed, Responses, Claimed
  <2>4. BenchTypeOK' /\ Phases' /\ Windowed' /\ Measured'
    BY <2>1, <2>2, <2>3 DEF BenchTypeOK, Phases, Windowed, Measured, Claimed
  <2>5. InStep' /\ ResponsesInOrder'
    BY <2>1, <2>2, <2>3 DEF InStep, ResponsesInOrder
  <2> QED  BY <2>4, <2>5
<1>5. CASE JoinThreads \/ Report
  <2>1. /\ \/ main = "producers" /\ main' = "consumer"
           \/ main = "consumer" /\ main' = "stop" /\ consumer = "done"
           \/ main = "report" /\ main' = "done"
        /\ UNCHANGED <<warmed, sent, received, producer, idx, send_ts, consumer, resp, latencies>>
    BY <1>5 DEF JoinThreads, Report
  <2>2. /\ UNCHANGED <<log, request_queue, response_queue, next_order_id, pc, call>>
        /\ Taken' = Taken /\ (Owes' <=> Owes)
    BY <1>5, ExchangeKept DEF JoinThreads, Report
  <2>3. Popped' = Popped /\ Pushed' = Pushed /\ Responses' = Responses
    BY <2>1, <2>2 DEF Popped, Pushed, Responses
  <2>4. BenchTypeOK' /\ Phases' /\ Windowed' /\ Measured'
    BY <2>1, <2>2, <2>3 DEF BenchTypeOK, Phases, Windowed, Measured
  <2>5. InStep' /\ ResponsesInOrder'
    BY <2>1, <2>2, <2>3 DEF InStep, ResponsesInOrder
  <2> QED  BY <2>4, <2>5
<1>6. CASE MainStop
  <2>1. /\ \/ main = "stop" /\ main' = "join"
           \/ main = "join" /\ main' = "report"
        /\ UNCHANGED <<warmed, sent, received, producer, idx, send_ts, consumer, resp, latencies>>
    BY <1>6 DEF MainStop
  <2>2. /\ UNCHANGED <<log, request_queue, response_queue, next_order_id, call>>
        /\ pc'["run"] = pc["run"] /\ pc'["owner"] \in {"idle", "join"}
    BY <1>6
    DEF MainStop, stop, joined, Called, Phases, books, queue, At, Goto, TypeOK, Threads
  <2>3. /\ Popped' = Popped /\ Pushed' = Pushed /\ Responses' = Responses
        /\ Taken' = Taken /\ (Owes' <=> Owes)
    BY <2>1, <2>2 DEF Popped, Pushed, Responses, Taken, Owes
  <2>4. BenchTypeOK' /\ Phases' /\ Windowed' /\ Measured'
    BY <2>1, <2>2, <2>3 DEF BenchTypeOK, Phases, Windowed, Measured
  <2>5. InStep' /\ ResponsesInOrder'
    BY <2>1, <2>2, <2>3 DEF InStep, ResponsesInOrder
  <2> QED  BY <2>4, <2>5
<1> QED  BY <1>1, <1>2, <1>3, <1>4, <1>5, <1>6 DEF MainThread

LEMMA BenchProducer ==
  ASSUME BenchInvariant, Producer
  PROVE  (BenchTypeOK /\ Phases /\ InStep /\ ResponsesInOrder /\ Windowed /\ Measured)'
<1> USE BenchmarkAssumption DEF BenchInvariant, Early, Late, Ended, Claimed
<1>1. main \in Late
  BY DEF Producer, Window, Claim, Stamp, Send, Phases, BenchTypeOK
<1>2. ASSUME UNCHANGED vars,
             UNCHANGED <<main, warmed, received, consumer, resp, latencies>>,
             Pushed' = Pushed, producer' # "off", sent' \in Nat
      PROVE  (Phases /\ InStep /\ ResponsesInOrder /\ Measured)'
  <2>1. /\ UNCHANGED <<log, request_queue, response_queue, next_order_id, pc, call>>
        /\ Taken' = Taken /\ (Owes' <=> Owes)
    BY <1>2, ExchangeKept
  <2>2. Popped' = Popped /\ Responses' = Responses
    BY <1>2, <2>1 DEF Popped, Responses
  <2>3. Phases' /\ Measured'
    BY <1>1, <1>2, <2>1 DEF Phases, Measured
  <2>4. InStep' /\ ResponsesInOrder'
    BY <1>2, <2>1, <2>2 DEF InStep, ResponsesInOrder
  <2> QED  BY <2>3, <2>4
<1>3. CASE Window
  <2>1. /\ producer = "window" /\ producer' = "claim" /\ sent < received + MAX_IN_FLIGHT
        /\ UNCHANGED <<main, warmed, sent, received, idx, send_ts, consumer, resp, latencies>>
        /\ UNCHANGED vars
    BY <1>3 DEF Window, WindowOpen, BenchTypeOK
  <2>2. Pushed' = Pushed
    BY <2>1 DEF Pushed
  <2>3. BenchTypeOK' /\ Windowed'
    BY <2>1, <2>2 DEF BenchTypeOK, Windowed
  <2> QED  BY <1>2, <2>1, <2>2, <2>3 DEF BenchTypeOK
<1>4. CASE Claim
  <2>1. /\ producer = "claim" /\ idx' = sent /\ sent' = sent + 1
        /\ producer' = IF sent >= TOTAL_ORDERS THEN "done" ELSE "stamp"
        /\ UNCHANGED <<main, warmed, received, send_ts, consumer, resp, latencies>>
        /\ UNCHANGED vars
    BY <1>4 DEF Claim
  <2>2. Pushed' = Pushed
    BY <2>1 DEF Pushed, BenchTypeOK
  <2>3. BenchTypeOK' /\ Windowed'
    BY <2>1, <2>2 DEF BenchTypeOK, Windowed
  <2> QED  BY <1>2, <2>1, <2>2, <2>3 DEF BenchTypeOK
<1>5. CASE Stamp
  <2>1. /\ producer = "stamp" /\ producer' = "push" /\ send_ts' = send_ts \cup {idx}
        /\ UNCHANGED <<main, warmed, sent, received, idx, consumer, resp, latencies>>
        /\ UNCHANGED vars
    BY <1>5 DEF Stamp
  <2>2. Pushed' = Pushed
    BY <2>1 DEF Pushed
  <2>3. BenchTypeOK' /\ Windowed'
    BY <2>1, <2>2 DEF BenchTypeOK, Windowed
  <2> QED  BY <1>2, <2>1, <2>2, <2>3 DEF BenchTypeOK
<1>6. CASE Send
  <2>1. /\ producer = "push" /\ producer' = "window"
        /\ UNCHANGED <<main, warmed, sent, received, idx, send_ts, consumer, resp, latencies>>
    BY <1>6 DEF Send
  <2>2. /\ Len(log') = Len(log) + 1 /\ Taken' = Taken
        /\ \A n \in 1 .. Len(log') : log'[n].type = "ADD"
        /\ UNCHANGED <<response_queue, next_order_id, pc, call>> /\ (Owes' <=> Owes)
    BY <1>6, BenchPush DEF Send
  <2>3. /\ Popped' = Popped /\ Responses' = Responses
        /\ Pushed = sent - 1 /\ Pushed' = sent /\ sent \in Nat
    BY <2>1, <2>2 DEF Popped, Pushed, Responses, BenchTypeOK
  <2>4. \A k \in 0 .. (sent - 1) : k \in 0 .. (Pushed - 1) \/ k = idx
    BY <2>1, <2>3 DEF Windowed
  <2>5. BenchTypeOK' /\ Phases' /\ Measured'
    BY <1>1, <2>1, <2>2 DEF BenchTypeOK, Phases, Measured
  <2>6. Windowed'
    BY <2>1, <2>3, <2>4 DEF Windowed, BenchTypeOK
  <2>7. InStep' /\ ResponsesInOrder'
    BY <1>1, <2>1, <2>2, <2>3, Numbers DEF InStep, ResponsesInOrder, BenchTypeOK
  <2> QED  BY <2>5, <2>6, <2>7
<1> QED  BY <1>3, <1>4, <1>5, <1>6 DEF Producer

LEMMA BenchConsumer ==
  ASSUME BenchInvariant, Consumer
  PROVE  (BenchTypeOK /\ Phases /\ InStep /\ ResponsesInOrder /\ Windowed /\ Measured)'
<1> USE BenchmarkAssumption DEF BenchInvariant, Early, Late, Ended
<1>1. main \in Late /\ warmed = WARMUP_ORDERS
  BY DEF Consumer, PopResponse, Count, Measure, ConsumerEnds, Phases, BenchTypeOK
<1>2. CASE PopResponse
  <2>1. /\ consumer = "pop" /\ consumer' = "count" /\ resp' = Head(response_queue)
        /\ UNCHANGED <<main, warmed, sent, received, producer, idx, send_ts, latencies>>
    BY <1>2 DEF PopResponse
  <2>2. /\ Head(response_queue) = OrderResponse(Popped + 1)
        /\ Len(response_queue) >= 1 /\ Len(response_queue') = Len(response_queue) - 1
        /\ \A i \in 1 .. Len(response_queue') : response_queue'[i] = OrderResponse(Popped + 1 + i)
        /\ UNCHANGED <<log, request_queue, next_order_id, pc, call>>
        /\ Taken' = Taken /\ (Owes' <=> Owes)
    BY <1>2, BenchPop DEF PopResponse
  <2>3. Popped' = Popped + 1 /\ Pushed' = Pushed /\ Responses' = Responses
    BY <2>1, <2>2, Numbers DEF Popped, Pushed, Responses, BenchTypeOK
  <2>4. BenchTypeOK' /\ Phases' /\ Windowed' /\ Measured'
    BY <1>1, <2>1, <2>2, <2>3 DEF BenchTypeOK, Phases, Windowed, Measured
  <2>5. InStep' /\ ResponsesInOrder'
    BY <2>1, <2>2, <2>3, Numbers DEF InStep, ResponsesInOrder, BenchTypeOK
  <2> QED  BY <2>4, <2>5
<1>3. CASE Count
  <2>1. /\ consumer = "count" /\ consumer' = "measure" /\ received' = received + 1
        /\ UNCHANGED <<main, warmed, sent, producer, idx, send_ts, resp, latencies>>
        /\ UNCHANGED vars
    BY <1>3 DEF Count
  <2>2. /\ UNCHANGED <<log, request_queue, response_queue, next_order_id, pc, call>>
        /\ Taken' = Taken /\ (Owes' <=> Owes)
    BY <2>1, ExchangeKept
  <2>3. Popped' = Popped /\ Pushed' = Pushed /\ Responses' = Responses
    BY <2>1, <2>2, Numbers DEF Popped, Pushed, Responses, BenchTypeOK
  <2>4. BenchTypeOK' /\ Phases' /\ Windowed' /\ Measured'
    BY <1>1, <2>1, <2>2, <2>3, Numbers, SMTT(30) DEF BenchTypeOK, Phases, Windowed, Measured
  <2>5. InStep' /\ ResponsesInOrder'
    BY <2>1, <2>2, <2>3 DEF InStep, ResponsesInOrder
  <2> QED  BY <2>4, <2>5
<1>4. CASE Measure
  <2>1. /\ consumer = "measure" /\ consumer' = "pop"
        /\ UNCHANGED <<main, warmed, sent, received, producer, idx, send_ts, resp>>
        /\ UNCHANGED vars
    BY <1>4 DEF Measure
  <2>2. /\ UNCHANGED <<log, request_queue, response_queue, next_order_id, pc, call>>
        /\ Taken' = Taken /\ (Owes' <=> Owes)
    BY <2>1, ExchangeKept
  <2>3. Popped' = Popped /\ Pushed' = Pushed /\ Responses' = Responses
        /\ Popped = WARMUP_ORDERS + received
    BY <1>1, <2>1, <2>2 DEF Popped, Pushed, Responses, BenchTypeOK
  <2>4. resp = OrderResponse(WARMUP_ORDERS + received)
    BY <2>1, <2>3 DEF ResponsesInOrder
  <2>5. received \in Nat /\ received >= 1 /\ received <= TOTAL_ORDERS
    <3>1. sent \in Nat /\ Pushed <= TOTAL_ORDERS
      BY DEF Windowed, Pushed, Claimed, BenchTypeOK
    <3> QED  BY <2>1, <3>1, Numbers DEF Phases, BenchTypeOK
  <2>6. latencies' = Append(latencies, [idx |-> received - 1, n |-> WARMUP_ORDERS + received])
    <3>1. OrderIndex(resp) = WARMUP_ORDERS + received - 1
      <4>1. resp.order_id = WARMUP_ORDERS + received
        BY <2>4 DEF OrderResponse
      <4> QED  BY <2>5, <4>1 DEF OrderIndex
    <3>2. /\ OrderIndex(resp) >= WARMUP_ORDERS
          /\ OrderIndex(resp) - WARMUP_ORDERS = received - 1
          /\ received - 1 < TOTAL_ORDERS
      BY <2>5, <3>1
    <3>3. resp.type = "ADD" /\ resp.n = WARMUP_ORDERS + received
      BY <2>4 DEF OrderResponse
    <3> QED  BY <1>4, <3>2, <3>3 DEF Measure
  <2>7. latencies \in Seq([idx : Nat, n : Nat]) /\ Len(latencies) = received - 1
    BY <2>1 DEF Measured, BenchTypeOK
  <2>8. [idx |-> received - 1, n |-> WARMUP_ORDERS + received] \in [idx : Nat, n : Nat]
    BY <2>5
  <2> DEFINE l == [idx |-> received - 1, n |-> WARMUP_ORDERS + received]
  <2> HIDE DEF l
  <2>9. /\ latencies' \in Seq([idx : Nat, n : Nat]) /\ Len(latencies') = received
        /\ latencies'[received] = l
        /\ \A i \in 1 .. (received - 1) : latencies'[i] = latencies[i]
    BY <2>5, <2>6, <2>7, <2>8, SMTT(30) DEF l
  <2>10. \A i \in 1 .. received : latencies'[i] = [idx |-> i - 1, n |-> WARMUP_ORDERS + i]
    <3> TAKE i \in 1 .. received
    <3>1. CASE i \in 1 .. (received - 1)
      BY <2>7, <2>9, <3>1 DEF Measured
    <3>2. CASE i = received
      BY <2>9, <3>2 DEF l
    <3> QED  BY <2>5, <3>1, <3>2
  <2>11. Measured'
    BY <2>1, <2>5, <2>9, <2>10 DEF Measured
  <2>12. BenchTypeOK' /\ Phases' /\ Windowed'
    BY <1>1, <2>1, <2>2, <2>3, <2>9 DEF BenchTypeOK, Phases, Windowed
  <2>13. InStep' /\ ResponsesInOrder'
    BY <2>1, <2>2, <2>3 DEF InStep, ResponsesInOrder
  <2> QED  BY <2>11, <2>12, <2>13
<1>5. CASE ConsumerEnds
  <2>1. /\ consumer = "pop" /\ consumer' = "done" /\ received >= TOTAL_ORDERS
        /\ UNCHANGED <<main, warmed, sent, received, producer, idx, send_ts, resp, latencies>>
        /\ UNCHANGED vars
    BY <1>5 DEF ConsumerEnds, ReceivedAll
  <2>2. /\ UNCHANGED <<log, request_queue, response_queue, next_order_id, pc, call>>
        /\ Taken' = Taken /\ (Owes' <=> Owes)
    BY <2>1, ExchangeKept
  <2>3. Popped' = Popped /\ Pushed' = Pushed /\ Responses' = Responses
    BY <2>1, <2>2 DEF Popped, Pushed, Responses
  <2>4. BenchTypeOK' /\ Phases' /\ Windowed' /\ Measured'
    BY <1>1, <2>1, <2>2, <2>3 DEF BenchTypeOK, Phases, Windowed, Measured
  <2>5. InStep' /\ ResponsesInOrder'
    BY <2>1, <2>2, <2>3 DEF InStep, ResponsesInOrder
  <2> QED  BY <2>4, <2>5
<1> QED  BY <1>2, <1>3, <1>4, <1>5 DEF Consumer

-----------------------------------------------------------------------------
(* The theorems.                                                           *)

LEMMA InitBench ==
  ASSUME BInit
  PROVE  BenchInvariant
<1> USE ExchangeAssumption, BenchmarkAssumption
<1>1. call \in [Threads -> Request]
  BY TickerKnown DEF BInit, Request, RequestType
<1>2. TypeOK
  <2>1. /\ request_queue \in Seq(Request) /\ log \in Seq(Request)
        /\ response_queue \in Seq([type : RequestType, order_id : Nat, n : 0 .. MaxPush])
    BY DEF BInit
  <2>2. /\ pc \in [Threads -> Inside \cup {"idle", "test", "pop", "ended", "join"}]
        /\ id \in [Threads -> Nat]
        /\ order_books_map \in [Tickers -> {"absent", "null", "book"}]
    BY DEF BInit
  <2>3. /\ next_order_id \in Nat /\ calls \in 0 .. MaxCalls
        /\ status \in {"running", "segv", "exit", "terminate", "destroyed"}
        /\ added \subseteq Tickers
    BY DEF BInit
  <2>4. running \in BOOLEAN /\ seen \in BOOLEAN /\ joinable \in BOOLEAN
    BY DEF BInit
  <2> QED  BY <1>1, <2>1, <2>2, <2>3, <2>4, Zenon DEF TypeOK
<1>3. Placed /\ TicketKnown
  BY DEF BInit, Placed, TicketKnown, HasId, Threads, Inside, InACall
<1>4. QueueKnown /\ Taken = 0
  BY DEF BInit, QueueKnown, Taken, Threads, Inside
<1>5. BenchTypeOK /\ Phases /\ Windowed /\ Measured
  BY DEF BInit, BenchTypeOK, Phases, Windowed, Measured, Pushed, Claimed, Early, Late, Ended,
         Threads
<1>6. InStep /\ ResponsesInOrder
  BY <1>4
  DEF BInit, InStep, ResponsesInOrder, Responses, Popped, Pushed, Claimed, Owes, InACall, Inside,
      Threads
<1> QED  BY <1>2, <1>3, <1>4, <1>5, <1>6 DEF BenchInvariant

LEMMA StepBench ==
  ASSUME BenchInvariant, [BNext]_bvars
  PROVE  BenchInvariant'
<1>1. (TypeOK /\ Placed /\ QueueKnown /\ TicketKnown)'
  BY BenchExchange
<1>2. CASE Finished \/ UNCHANGED bvars
  <2>1. UNCHANGED vars /\ UNCHANGED threads
    BY <1>2 DEF Finished, bvars
  <2>2. /\ UNCHANGED <<log, request_queue, response_queue, next_order_id, pc, call>>
        /\ Taken' = Taken /\ (Owes' <=> Owes)
    BY <2>1, ExchangeKept
  <2>3. (BenchTypeOK /\ Windowed /\ Measured)' /\ Popped' = Popped /\ Pushed' = Pushed
    BY <2>1, ThreadsKept DEF BenchInvariant
  <2>4. Phases'
    BY <2>1, <2>2 DEF BenchInvariant, Phases, threads
  <2>5. InStep' /\ ResponsesInOrder'
    BY <2>1, <2>2, <2>3 DEF BenchInvariant, InStep, ResponsesInOrder, Responses, threads
  <2> QED  BY <1>1, <2>3, <2>4, <2>5 DEF BenchInvariant
<1> QED
  BY <1>1, <1>2, BenchMain, BenchProducer, BenchConsumer, BenchExchangeThread
  DEF BNext, BenchInvariant

\* For every number of orders and every window: at most MAX_IN_FLIGHT orders are
\* between their push and the count of their response, so neither ring holds
\* more, and the unsigned sent - received of the producer's loop never wraps.
THEOREM BenchInFlightBounded ==
  BSpec => []InFlightBounded
<1>1. BInit => BenchInvariant
  BY InitBench
<1>2. BenchInvariant /\ [BNext]_bvars => BenchInvariant'
  BY StepBench
<1>3. BenchInvariant => InFlightBounded
  <2> SUFFICES ASSUME BenchInvariant  PROVE InFlightBounded
    OBVIOUS
  <2> USE DEF BenchInvariant
  <2>1. received \in Nat /\ warmed \in Nat /\ sent \in Nat
    BY DEF BenchTypeOK
  <2>2. Len(log) = warmed + (IF main = "warmWait" THEN 1 ELSE 0) + Pushed
    BY DEF InStep
  <2>3. InFlight <= MAX_IN_FLIGHT
    <3>1. CASE main = "warmWait"
      BY <2>1, <2>2, <3>1, BenchmarkAssumption DEF Phases, Early, InFlight, Pushed, Claimed
    <3>2. CASE main # "warmWait"
      BY <2>1, <2>2, <3>2, Numbers, BenchmarkAssumption, SMTT(30) DEF Windowed, InFlight
    <3> QED  BY <3>1, <3>2
  <2>4. Len(request_queue) = Len(log) - Taken /\ Len(response_queue) = Responses - Popped
        /\ warmed + received <= Popped
    BY <2>1, Numbers DEF Taken, Responses, Popped
  <2>5. Len(request_queue) + Len(response_queue) <= InFlight
    BY <2>1, <2>4, Numbers, SMTT(30) DEF InFlight
  <2> QED  BY <2>1, <2>3, <2>5, Numbers DEF InFlightBounded
<1> QED  BY <1>1, <1>2, <1>3, PTL DEF BSpec

\* For every number of orders: each latency is computed from the send time of
\* its own order, no order is measured twice, and when the benchmark is done all
\* have been.
THEOREM BenchMeasuredAgainstOwnSend ==
  BSpec => []MeasuredAgainstOwnSend
<1>1. BInit => BenchInvariant
  BY InitBench
<1>2. BenchInvariant /\ [BNext]_bvars => BenchInvariant'
  BY StepBench
<1>3. BenchInvariant => MeasuredAgainstOwnSend
  <2> SUFFICES ASSUME BenchInvariant  PROVE MeasuredAgainstOwnSend
    OBVIOUS
  <2> USE BenchmarkAssumption DEF BenchInvariant
  <2>1. received \in Nat /\ sent \in Nat /\ Len(latencies) \in Nat
    BY DEF BenchTypeOK
  <2>2. Len(latencies) <= received
    BY <2>1 DEF Measured
  <2>3. ASSUME NEW i \in 1 .. Len(latencies)
        PROVE  /\ latencies[i].idx = i - 1 /\ latencies[i].n = WARMUP_ORDERS + i
               /\ i - 1 \in send_ts
    <3>1. latencies[i] = [idx |-> i - 1, n |-> WARMUP_ORDERS + i]
      BY <2>3 DEF Measured
    <3>2. i - 1 \in 0 .. (Pushed - 1)
      BY <2>1, <2>2, <2>3, Numbers
    <3>3. i - 1 \in send_ts
      BY <3>2 DEF Windowed
    <3> QED  BY <3>1, <3>3
  <2>4. main = "done" => Len(latencies) = TOTAL_ORDERS
    <3>1. SUFFICES ASSUME main = "done"  PROVE Len(latencies) = TOTAL_ORDERS
      OBVIOUS
    <3>2. consumer = "done" /\ received >= TOTAL_ORDERS
      BY <3>1 DEF Phases, Ended
    <3>3. Pushed <= TOTAL_ORDERS
      BY <2>1 DEF Windowed, Pushed, Claimed
    <3> QED  BY <2>1, <3>2, <3>3, Numbers DEF Measured
  <2>5. ASSUME NEW i \in 1 .. Len(latencies)
        PROVE  /\ latencies[i].n = WARMUP_ORDERS + latencies[i].idx + 1
               /\ latencies[i].idx \in send_ts
    BY <2>1, <2>3, <2>5
  <2>6. ASSUME NEW i \in 1 .. Len(latencies), NEW j \in 1 .. Len(latencies), i # j
        PROVE  latencies[i].idx # latencies[j].idx
    BY <2>1, <2>3, <2>6
  <2> QED  BY <2>4, <2>5, <2>6 DEF MeasuredAgainstOwnSend
<1> QED  BY <1>1, <1>2, <1>3, PTL DEF BSpec

=============================================================================
