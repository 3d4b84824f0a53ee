----------------------------- MODULE Benchmark ------------------------------
(***************************************************************************)
(* standalone/benchmark_exchange_mt.cpp: a main thread that warms the      *)
(* exchange up, a producer that keeps at most MAX_IN_FLIGHT orders under   *)
(* way, and a consumer that counts the responses and measures latencies,   *)
(* around the Exchange, whose owner is the main thread.                    *)
(*                                                                         *)
(* All orders buy at one price, so each gets exactly one response.  A      *)
(* latency is recorded as the pair of the send index it was computed from  *)
(* and the position in which its request was pushed.                       *)
(***************************************************************************)
EXTENDS Exchange

CONSTANTS TOTAL_ORDERS, WARMUP_ORDERS, MAX_IN_FLIGHT

ASSUME BenchmarkAssumption ==
  /\ TOTAL_ORDERS \in Nat /\ WARMUP_ORDERS \in Nat /\ MAX_IN_FLIGHT \in Nat \ {0}
  /\ MaxPush = TOTAL_ORDERS + WARMUP_ORDERS
  /\ MaxCalls >= 2

VARIABLES
  main,        \* start | warm | warmWait | producers | consumer | stop | join | report | done
  warmed,      \* warmup orders answered
  sent, received,
  producer,    \* off | window | claim | stamp | push | done
  idx,         \* the producer's send index
  send_ts,     \* the indices with a send time
  consumer,    \* off | pop | count | measure | done
  resp,        \* the response that the consumer holds
  latencies

threads == <<main, warmed, sent, received, producer, idx, send_ts, consumer, resp, latencies>>
bvars   == <<vars, threads>>

ticker_id == CHOOSE k \in Tickers : TRUE

BInit ==
  /\ running = FALSE /\ seen = FALSE /\ joinable = FALSE
  /\ order_books_map = [k \in Tickers |-> "book"] /\ added = Tickers
  /\ next_order_id = 1
  /\ request_queue = <<>> /\ response_queue = <<>> /\ log = <<>>
  /\ pc = [t \in Threads |-> IF t = "run" THEN "ended" ELSE "idle"]
  /\ call = [t \in Threads |-> [type |-> "INVALID", ticker |-> ticker_id, n |-> 0]]
  /\ id = [t \in Threads |-> 0]
  /\ calls = 0 /\ status = "running"
  /\ main = "start" /\ warmed = 0 /\ sent = 0 /\ received = 0
  /\ producer = "off" /\ idx = 0 /\ send_ts = {}
  /\ consumer = "off" /\ resp = [type |-> "INVALID", order_id |-> 0, n |-> 0]
  /\ latencies = <<>>

-----------------------------------------------------------------------------
(* The main thread.                                                        *)

MainStart ==
  /\ main = "start" /\ start
  /\ main' = "warm"
  /\ UNCHANGED <<warmed, sent, received, producer, idx, send_ts, consumer, resp, latencies>>

WarmPush ==
  /\ main = "warm" /\ warmed < WARMUP_ORDERS
  /\ push("ADD", ticker_id)
  /\ main' = "warmWait"
  /\ UNCHANGED <<warmed, sent, received, producer, idx, send_ts, consumer, resp, latencies>>

Pop(q) == /\ q # <<>>
          /\ response_queue' = Tail(q)
          /\ UNCHANGED <<thread, order_books_map, next_order_id, id, queue, pc, call,
                         added, calls, status>>

WarmWait ==
  /\ main = "warmWait"
  /\ Pop(response_queue)
  /\ warmed' = warmed + 1 /\ main' = "warm"
  /\ UNCHANGED <<sent, received, producer, idx, send_ts, consumer, resp, latencies>>

\* The two threads are created, and wait for go.
Go ==
  /\ main = "warm" /\ warmed = WARMUP_ORDERS
  /\ main' = "producers" /\ producer' = "window" /\ consumer' = "pop"
  /\ UNCHANGED <<vars, warmed, sent, received, idx, send_ts, resp, latencies>>

JoinThreads ==
  /\ \/ main = "producers" /\ producer = "done" /\ main' = "consumer"
     \/ main = "consumer" /\ consumer = "done" /\ main' = "stop"
  /\ UNCHANGED <<vars, warmed, sent, received, producer, idx, send_ts, consumer, resp, latencies>>

MainStop ==
  /\ \/ main = "stop" /\ stop /\ main' = "join"
     \/ main = "join" /\ joined /\ main' = "report"
  /\ UNCHANGED <<warmed, sent, received, producer, idx, send_ts, consumer, resp, latencies>>

\* pct() reads latencies[p * (size - 1)]: there must be one.
Report ==
  /\ main = "report" /\ latencies # <<>>
  /\ main' = "done"
  /\ UNCHANGED <<vars, warmed, sent, received, producer, idx, send_ts, consumer, resp, latencies>>

MainThread ==
  MainStart \/ WarmPush \/ WarmWait \/ Go \/ JoinThreads \/ MainStop \/ Report

-----------------------------------------------------------------------------
(* The producer.                                                           *)

\* sent - received < MAX_IN_FLIGHT, a difference that wraps when received is
\* ahead; mutant: one too many.
WindowOpenWide == sent >= received /\ sent - received <= MAX_IN_FLIGHT

WindowOpen == sent >= received /\ sent - received < MAX_IN_FLIGHT

Window ==
  /\ producer = "window" /\ WindowOpen
  /\ producer' = "claim"
  /\ UNCHANGED <<vars, main, warmed, sent, received, idx, send_ts, consumer, resp, latencies>>

Claim ==
  /\ producer = "claim"
  /\ idx' = sent /\ sent' = sent + 1
  /\ producer' = IF sent >= TOTAL_ORDERS THEN "done" ELSE "stamp"
  /\ UNCHANGED <<vars, main, warmed, received, send_ts, consumer, resp, latencies>>

Stamp ==
  /\ producer = "stamp"
  /\ send_ts' = send_ts \cup {idx}
  /\ producer' = "push"
  /\ UNCHANGED <<vars, main, warmed, sent, received, idx, consumer, resp, latencies>>

Send ==
  /\ producer = "push"
  /\ push("ADD", ticker_id)
  /\ producer' = "window"
  /\ UNCHANGED <<main, warmed, sent, received, idx, send_ts, consumer, resp, latencies>>

Producer == Window \/ Claim \/ Stamp \/ Send

-----------------------------------------------------------------------------
(* The consumer.                                                           *)

\* The end of its loop; mutant: it waits for one more.
ReceivedMore == received > TOTAL_ORDERS

ReceivedAll == received >= TOTAL_ORDERS

PopResponse ==
  /\ consumer = "pop" /\ ~ReceivedAll
  /\ Pop(response_queue)
  /\ resp' = Head(response_queue) /\ consumer' = "count"
  /\ UNCHANGED <<main, warmed, sent, received, producer, idx, send_ts, latencies>>

Count ==
  /\ consumer = "count"
  /\ received' = received + 1 /\ consumer' = "measure"
  /\ UNCHANGED <<vars, main, warmed, sent, producer, idx, send_ts, resp, latencies>>

\* resp->order_id - 1; mutant: ids taken to start at 0.
OrderIdItself(r) == r.order_id

OrderIndex(r) == r.order_id - 1

Measure ==
  LET oid0 == OrderIndex(resp)
  IN  /\ consumer = "measure"
      /\ latencies' =
           IF /\ resp.type = "ADD"     \* ACCEPTED
              /\ oid0 >= WARMUP_ORDERS
              /\ oid0 - WARMUP_ORDERS < TOTAL_ORDERS
           THEN Append(latencies, [idx |-> oid0 - WARMUP_ORDERS, n |-> resp.n])
           ELSE latencies
      /\ consumer' = "pop"
      /\ UNCHANGED <<vars, main, warmed, sent, received, producer, idx, send_ts, resp>>

ConsumerEnds ==
  /\ consumer = "pop" /\ ReceivedAll
  /\ consumer' = "done"
  /\ UNCHANGED <<vars, main, warmed, sent, received, producer, idx, send_ts, resp, latencies>>

Consumer == PopResponse \/ Count \/ Measure \/ ConsumerEnds

-----------------------------------------------------------------------------
ExchangeThread == (RunThread \/ runningSeen) /\ UNCHANGED threads

Finished == main = "done" /\ UNCHANGED bvars

BNext == MainThread \/ Producer \/ Consumer \/ ExchangeThread \/ Finished

\* The system schedules every thread; all waiting is by polling or join().
BSpec ==
  /\ BInit /\ [][BNext]_bvars
  /\ WF_bvars(MainThread) /\ WF_bvars(Producer) /\ WF_bvars(Consumer)
  /\ WF_bvars(RunThread /\ UNCHANGED threads) /\ WF_bvars(runningSeen /\ UNCHANGED threads)

-----------------------------------------------------------------------------
\* No more than MAX_IN_FLIGHT orders are between the push of the producer and
\* the count of the consumer, so neither ring ever holds more: what LFQueue
\* needs of its users (Window < N), from the loop on sent - received; and that
\* unsigned difference never wraps: the consumer does not count a response to a
\* warmup order, nor one twice.
InFlight == Len(log) - (warmed + received)

InFlightBounded ==
  /\ Len(request_queue) + Len(response_queue) <= InFlight
  /\ InFlight <= MAX_IN_FLIGHT
  /\ received <= sent

\* Each latency is computed from the send time of the very order that the
\* response answers, written before, and no order is measured twice: the order
\* ids of the exchange and the send indices of the producer stay in step.  In the
\* end every order after the warmup has been measured.
MeasuredAgainstOwnSend ==
  /\ \A i \in 1 .. Len(latencies) :
       /\ latencies[i].n = WARMUP_ORDERS + latencies[i].idx + 1
       /\ latencies[i].idx \in send_ts
  /\ \A i, j \in 1 .. Len(latencies) : i # j => latencies[i].idx # latencies[j].idx
  /\ main = "done" => Len(latencies) = TOTAL_ORDERS

\* The benchmark ends: the last order opens the window for the claim that makes
\* the producer stop, the consumer sees all responses, and stop() returns.
Terminates == <>(main = "done")
=============================================================================
