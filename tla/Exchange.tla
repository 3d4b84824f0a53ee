------------------------------ MODULE Exchange ------------------------------
(***************************************************************************)
(* CPPExchange::Exchange (include/cppexchange/cppexchange.h): the thread   *)
(* that serves the request queue, the thread that owns the object and      *)
(* starts, stops and calls it, and the dispatch of requests to the books.  *)
(*                                                                         *)
(* The queues are the abstract ones of Fifo.  A book is seen from outside: *)
(* a call enters it and leaves it, and answers the client (OrderBook has   *)
(* the inside); add() answers ACCEPTED first of all, cancel() at the end.  *)
(* Nothing here is locked, so a call is split at its shared accesses.      *)
(***************************************************************************)
EXTENDS Naturals, Sequences, FiniteSets

CONSTANTS
  Tickers,
  MAX_TICKERS,
  Overlap,      \* the owner also calls the books while the run thread is on
  MaxPush,      \* bound on the requests that clients push
  MaxCalls      \* bound on the calls that the owner makes

ASSUME ExchangeAssumption ==
  /\ Tickers # {}
  /\ MAX_TICKERS \in Nat \ {0}
  /\ Overlap \in BOOLEAN
  /\ MaxPush \in Nat
  /\ MaxCalls \in Nat

VARIABLES
  running,          \* the plain bool that stop() writes
  seen,             \* the value of running that the run thread reads
  joinable,         \* run_thread.joinable()
  order_books_map,  \* ticker -> absent | null | book
  next_order_id,
  request_queue, response_queue,
  pc,               \* where the two threads are
  call,             \* the request that each thread serves
  id,               \* the order id that each thread has read
  log,              \* history: the requests pushed so far
  added,            \* history: the tickers for which addTicker() returned
  calls,            \* the number of calls of the owner
  status            \* running | segv | exit | terminate | destroyed

thread == <<running, seen, joinable>>
books  == <<order_books_map, next_order_id, response_queue, id>>
queue  == <<request_queue, log>>
vars   == <<running, seen, joinable, order_books_map, next_order_id, request_queue,
            response_queue, pc, call, id, log, added, calls, status>>

Threads      == {"run", "owner"}
RequestType  == {"INVALID", "ADD", "CANCEL"}
Request      == [type : RequestType, ticker : Tickers, n : 0 .. MaxPush]
NoRequest(r) == [r EXCEPT !.type = "INVALID"]

\* The places where a thread touches the map, the counters or a book.
Inside == {"insert", "lookup", "readId", "writeId", "book", "leave"}

TypeOK ==
  /\ running \in BOOLEAN /\ seen \in BOOLEAN /\ joinable \in BOOLEAN
  /\ order_books_map \in [Tickers -> {"absent", "null", "book"}]
  /\ next_order_id \in Nat
  /\ request_queue \in Seq(Request) /\ log \in Seq(Request)
  /\ response_queue \in Seq([type : RequestType, order_id : Nat, n : 0 .. MaxPush])
  /\ pc \in [Threads -> Inside \cup {"idle", "test", "pop", "ended", "join"}]
  /\ call \in [Threads -> Request]
  /\ id \in [Threads -> Nat]
  /\ added \subseteq Tickers
  /\ calls \in 0 .. MaxCalls
  /\ status \in {"running", "segv", "exit", "terminate", "destroyed"}

Init ==
  /\ running = FALSE /\ seen = FALSE /\ joinable = FALSE
  /\ order_books_map = [k \in Tickers |-> "absent"]
  /\ next_order_id = 1
  /\ request_queue = <<>> /\ response_queue = <<>> /\ log = <<>>
  /\ pc = [t \in Threads |-> IF t = "run" THEN "ended" ELSE "idle"]
  /\ call \in [Threads -> [type : {"INVALID"}, ticker : {CHOOSE k \in Tickers : TRUE}, n : {0}]]
  /\ id = [t \in Threads |-> 0]
  /\ added = {}
  /\ calls = 0
  /\ status = "running"

Goto(t, place) == pc' = [pc EXCEPT ![t] = place]

-----------------------------------------------------------------------------
(* addOrder() and cancelOrder(), on either thread.                         *)

At(t, place) == status = "running" /\ pc[t] = place

lookup(t) ==
  /\ At(t, "lookup")
  /\ order_books_map[call[t].ticker] = "book"
  /\ Goto(t, IF call[t].type = "ADD" THEN "readId" ELSE "book")
  /\ UNCHANGED <<thread, books, queue, call, added, calls, status>>

\* operator[] of the map makes a null entry for a ticker without a book, and
\* the call on it dereferences the null pointer.
lookupNull(t) ==
  /\ At(t, "lookup")
  /\ order_books_map[call[t].ticker] # "book"
  /\ order_books_map' = [order_books_map EXCEPT ![call[t].ticker] = "null"]
  /\ status' = "segv"
  /\ UNCHANGED <<thread, next_order_id, response_queue, id, queue, pc, call, added, calls>>

\* next_order_id++ is a read and a write.
readId(t) ==
  /\ At(t, "readId")
  /\ id' = [id EXCEPT ![t] = next_order_id]
  /\ Goto(t, "writeId")
  /\ UNCHANGED <<thread, order_books_map, next_order_id, response_queue, queue,
                 call, added, calls, status>>

writeId(t) ==
  /\ At(t, "writeId")
  /\ next_order_id' = id[t] + 1
  /\ Goto(t, "book")
  /\ UNCHANGED <<thread, order_books_map, response_queue, id, queue, call, added,
                 calls, status>>

Answered(t) ==
  Append(response_queue, [type |-> call[t].type, order_id |-> id[t], n |-> call[t].n])

enterBook(t) ==
  /\ At(t, "book")
  /\ response_queue' = IF call[t].type = "ADD" THEN Answered(t) ELSE response_queue
  /\ Goto(t, "leave")
  /\ UNCHANGED <<thread, order_books_map, next_order_id, id, queue, call, added,
                 calls, status>>

leaveBook(t) ==
  /\ At(t, "leave")
  /\ response_queue' = IF call[t].type = "CANCEL" THEN Answered(t) ELSE response_queue
  /\ Goto(t, IF t = "run" THEN "test" ELSE "idle")
  /\ call' = [call EXCEPT ![t] = NoRequest(@)]
  /\ UNCHANGED <<thread, order_books_map, next_order_id, id, queue, added, calls, status>>

InCall(t) ==
  lookup(t) \/ lookupNull(t) \/ readId(t) \/ writeId(t) \/ enterBook(t) \/ leaveBook(t)

-----------------------------------------------------------------------------
(* run() and processRequest().                                             *)

\* The condition of the loop; the mutant never looks at running.
GoesOnForever == TRUE

GoesOn == seen

testRunning ==
  /\ At("run", "test")
  /\ Goto("run", IF GoesOn THEN "pop" ELSE "ended")
  /\ UNCHANGED <<thread, books, queue, call, added, calls, status>>

popNothing ==
  /\ At("run", "pop") /\ request_queue = <<>>
  /\ Goto("run", "test")
  /\ UNCHANGED <<thread, books, queue, call, added, calls, status>>

\* Where the thread goes with request r.  Mutants: a request popped after
\* stop() is dropped; the break of the INVALID case leaves the loop.
DispatchUnlessStopped(r) ==
  CASE ~running -> "ended"
    [] running /\ r.type = "INVALID" -> "test"
    [] OTHER -> "lookup"

DispatchOrBreak(r) == IF r.type = "INVALID" THEN "ended" ELSE "lookup"

Dispatch(r) == IF r.type = "INVALID" THEN "test" ELSE "lookup"

processRequest ==
  /\ At("run", "pop") /\ request_queue # <<>>
  /\ call' = [call EXCEPT !["run"] = Head(request_queue)]
  /\ request_queue' = Tail(request_queue)
  /\ Goto("run", Dispatch(Head(request_queue)))
  /\ UNCHANGED <<thread, books, log, added, calls, status>>

\* The write of stop() reaches the run thread: running is not atomic, but the
\* acquire loads of pop() keep the compiler from reading it only once.
runningSeen ==
  /\ status = "running" /\ seen # running
  /\ seen' = running
  /\ UNCHANGED <<running, joinable, books, queue, pc, call, added, calls, status>>

RunThread == testRunning \/ popNothing \/ processRequest \/ InCall("run")

-----------------------------------------------------------------------------
(* The thread that owns the exchange.                                      *)

Called == At("owner", "idle") /\ calls < MaxCalls /\ calls' = calls + 1

\* Move-assigning to a joinable std::thread terminates the process.
start ==
  /\ Called
  /\ running' = TRUE /\ seen' = TRUE /\ joinable' = TRUE
  /\ IF joinable
     THEN status' = "terminate" /\ UNCHANGED pc
     ELSE Goto("run", "test") /\ UNCHANGED status
  /\ UNCHANGED <<books, queue, call, added>>

\* join() on a thread that is not joinable throws, and no caller catches.
stop ==
  /\ Called
  /\ running' = FALSE
  /\ IF joinable
     THEN Goto("owner", "join") /\ UNCHANGED status
     ELSE status' = "terminate" /\ UNCHANGED pc
  /\ UNCHANGED <<seen, joinable, books, queue, call, added>>

\* What join() waits for; the mutant is a detach().
NothingToWaitFor == TRUE

RunThreadEnded == pc["run"] = "ended"

joined ==
  /\ At("owner", "join") /\ RunThreadEnded
  /\ joinable' = FALSE
  /\ Goto("owner", "idle")
  /\ UNCHANGED <<running, seen, books, queue, call, added, calls, status>>

\* ~Exchange() destroys run_thread; a joinable one terminates the process.
destroy ==
  /\ Called
  /\ status' = IF joinable THEN "terminate" ELSE "destroyed"
  /\ UNCHANGED <<thread, books, queue, pc, call, added>>

MayCallBooks == Overlap \/ ~joinable

MapFull == Cardinality({k \in Tickers : order_books_map[k] # "absent"}) = MAX_TICKERS

\* The ASSERT comes before the look for the ticker.
addTicker(k) ==
  /\ MayCallBooks /\ Called
  /\ IF MapFull
     THEN status' = "exit" /\ UNCHANGED pc
     ELSE Goto("owner", "insert") /\ UNCHANGED status
  /\ call' = [call EXCEPT !["owner"].ticker = k]
  /\ UNCHANGED <<thread, books, queue, added>>

\* The condition of the insertion, and the mutant with the test inverted.
HasBook(k) == order_books_map[k] # "absent"

HasNoBook(k) == order_books_map[k] = "absent"

insertBook ==
  LET k == call["owner"].ticker
  IN  /\ At("owner", "insert")
      /\ order_books_map' = IF HasNoBook(k) THEN [order_books_map EXCEPT ![k] = "book"]
                            ELSE order_books_map
      /\ added' = added \cup {k}
      /\ Goto("owner", "idle")
      /\ UNCHANGED <<thread, next_order_id, response_queue, id, queue, call, calls, status>>

\* A direct addOrder() or cancelOrder().
callBook(type, k) ==
  /\ MayCallBooks /\ Called
  /\ call' = [call EXCEPT !["owner"] = [type |-> type, ticker |-> k, n |-> 0]]
  /\ Goto("owner", "lookup")
  /\ UNCHANGED <<thread, books, queue, added, status>>

InOwnerCall == joined \/ insertBook \/ InCall("owner")

-----------------------------------------------------------------------------
\* A client, or the sequencer, pushes a request.
push(type, k) ==
  LET r == [type |-> type, ticker |-> k, n |-> Len(log) + 1]
  IN  /\ status = "running" /\ Len(log) < MaxPush
      /\ request_queue' = Append(request_queue, r)
      /\ log' = Append(log, r)
      /\ UNCHANGED <<thread, books, pc, call, added, calls, status>>

\* The process is gone, or the exchange.
Over == status # "running" /\ UNCHANGED vars

Next ==
  \/ \E type \in RequestType, k \in Tickers : push(type, k)
  \/ \E type \in {"ADD", "CANCEL"}, k \in Tickers : callBook(type, k)
  \/ \E k \in Tickers : addTicker(k)
  \/ start \/ stop \/ destroy \/ InOwnerCall
  \/ RunThread \/ runningSeen
  \/ Over

\* The system schedules both threads, a write becomes visible in the end, and a
\* call that was begun goes on.  Nobody is obliged to make a call.
Spec ==
  /\ Init /\ [][Next]_vars
  /\ WF_vars(RunThread) /\ WF_vars(runningSeen) /\ WF_vars(InOwnerCall)
=============================================================================
