# Verification of cpp-exchange

TLA+ models of the exchange in `src/`, model-checked with TLC and, for their
most important properties, proved with TLAPS. Paths below are relative to `src/`.

## 1. The system

The exchange takes client requests from a ring buffer, serves them on one
thread against one order book per ticker, and pushes client responses and
market updates into two other ring buffers. A TCP front end is being built: a
server reads requests from sockets, a sequencer sorts them by receive time and
publishes them to the request ring.

    TCPServer -> TCPSocket -> FifoSequencer -> [request LFQueue] -> Exchange::run
                                                                      |
                          [response LFQueue] <- OrderBook (per ticker) -> [update LFQueue]
                                                  |        |
                                              ObjectPool  OrdersPriceLevel

| Component | State | Operations | What makes it correct |
|---|---|---|---|
| `OrderBook` (`include/cppexchange/orderbook.h`) | two linked lists of price levels (`best_bids`, `best_asks`), the map `price_levels`, two pools | `add`, `cancel`; inside, `checkForMatch`, `match`, `getPriceLevel`, `insertPriceLevel`, `removePriceLevel` | price-time priority; trades within the limit; no crossed book; every unit of quantity accounted for; updates describe the book; no dangling or null pointer used |
| `Order`, `OrdersPriceLevel` (`order.h`) | circular doubly linked list of orders from `top_order` | `add`, `cancel`, `top` | arrival order kept; `cancel` unlinks the order it was asked to |
| `ObjectPool` (`include/utils/object_pool.h`) | blocks, flags, `next_free` | `getObject`, `releaseObject` | no block handed out twice; exits only when full |
| `LFQueue` (`include/communication/lf_queue.h`) | ring, read and write index | `push`, `pop`, `empty` | first in first out, nothing lost, the item returned by `pop` stays intact |
| `Exchange` (`cppexchange.h`) | `running`, `run_thread`, the books, the id counters | `start`, `stop`, `run`, `addTicker`, `addOrder`, `cancelOrder` | every request served once and in order; ids unique; `stop` returns |
| `FifoSequencer` (`fifo_sequencer.h`) | pending requests | `addRequest`, `sequenceAndPublish` | every request published once, in the order of receive times |
| `TCPSocket` (`tcp_socket.h`), `createSocket` (`socket_utils.h`) | buffers and their valid indices; the descriptor and its options | `connect`, `send`, `sendAndRecv` | no byte lost, doubled or reordered; a descriptor that is returned is set up as asked |
| `TCPServer` (`tcp_server.h`) | the listener, the kqueue, `receive_sockets_` | `listen`, `poll`, `sendAndRecv` | only live sockets used; live connections kept and served; a round reads all that was there |
| Benchmark (`standalone/benchmark_exchange_mt.cpp`) | `sent`, `received`, `send_ts`, `latencies` | main thread, producer, consumer | the in-flight window holds; each latency belongs to its order; the program ends |

Hard behaviours: the book is sequential, but its lists are pointers into
recycled memory, so an error shows many requests later; the rings are shared by
two threads without locks and without a check for space; the exchange can be
called from outside while its thread runs, and is stopped through a plain
`bool`; peers connect, send and close in the middle of a server's round, and
the kernel keeps pointers to sockets that were deleted; system calls fail or do
half of what they were asked; a failing `ASSERT` ends the process. `PROJECT.json` lists the hazards with their lines.

## 2. The modules

| Module | Models | Role |
|---|---|---|
| `ObjectPool` | `object_pool.h` | component, and the contract of the pools of `OrderBook` |
| `OrderBook` | `orderbook.h`, the records of `messages.h`, the id counters of `cppexchange.h` | component, composed with two instances of `ObjectPool` |
| `OrderBookProperties` | | its properties |
| `OrderQueue` | | abstract specification of one price level, as `OrderBook` uses it |
| `PriceLevel` | `OrdersPriceLevel` of `order.h` | component, implements `OrderQueue` |
| `Fifo` | | abstract specification of a queue |
| `LFQueue` | `lf_queue.h`, the window of the benchmark | component, implements `Fifo` |
| `Exchange`, `ExchangeProperties` | `cppexchange.h` | component, over abstract queues and books |
| `Benchmark` | `standalone/benchmark_exchange_mt.cpp` | composes three more threads with `Exchange` |
| `TCPSocket` | `send`, `sendAndRecv` of `tcp_socket.h` | component: the two ends of a stream |
| `SocketUtils` | `createSocket` of `socket_utils.h` | component |
| `Connection` | `connect` of `tcp_socket.h` | composes `SocketUtils` and `TCPSocket` |
| `TCPServer` | `tcp_server.h` | component |
| `FifoSequencer` | `fifo_sequencer.h` | component, behind the rounds of a server |
| `ObjectPoolProofs`, `OrderBookProofs`, `PriceLevelProofs`, `LFQueueProofs`, `ExchangeProofs` (with `Benchmark`), `ConnectionProofs`, `TCPServerProofs`, `FifoSequencerProofs` | | theorems and proofs |
| `MC...` | | the modules that TLC runs |

**ObjectPool.** `available`, `next_free` are the fields; `live` is the set of
blocks the callers hold. `FirstFree` is what the loop of `updateNextFree`
returns; `getObjectFails` is a `getObject` that ends in one of the two ASSERTs.

**OrderBook.** A price level is the index of its pool block, and its fields are
functions over all blocks. A released block therefore keeps its contents,
pointers to it dangle, and the pool may hand it out again, as in the code. The
circular list of a level is the sequence of its order ids, the first being
`top_order`. Order blocks are never released by the code, so an order is its
id and `order_pool` is a counter; `OrderPoolContract` shows that the counter
behaves as the pool. `pc` says where the serving thread is: the walks of
`checkForMatch`, `insertPriceLevel` and `removePriceLevel` take one step per
iteration, because on a damaged list they may not end. `status` becomes `segv`
at a null dereference and `exit` at a failing ASSERT.

| Action | Code |
|---|---|
| `add` | `add` up to the call of `checkForMatch` |
| `match` | one iteration of `checkForMatch` with `match`, up to `removePriceLevel` |
| `matchNullOrder` | `match` with a null `opposite_order` |
| `filled`, `getPriceLevel` | the end of the loop, without and with a remainder |
| `insertWalk`, `insertPriceLevel`, `priceLevelPoolFull` | `insertPriceLevel` |
| `placeOrder`, `orderPoolFull` | the rest of `add` |
| `cancel`, `cancelReply`, `cancelRejected` | `cancel` |
| `removeWalk`, `removeWalkNull`, `removePriceLevel` | `removePriceLevel` |

Three variables are history: `ledger` adds up what the responses say of each
order, `mirror` is the book that a subscriber rebuilds from the updates, and
`orphaned` says that a level has been created behind the best level of its
side, where `insertPriceLevel` does not link it. `responses` and `updates` hold
what the last step pushed. `side` is not validated by the code, and every side
but BUY is treated as SELL: `BookSide`. Neither the client nor the side of a
cancel request is compared with the order's, so `cancel` takes any.

Left out: ticker ids (one book), timestamps, the `executed` field (never
written), the wrap-around of the 32-bit ids, and the null entries that a lookup
leaves in `price_levels` (a null entry and no entry are the same to all code).

**LFQueue.** `push` is two steps, the write of the slot and the advance of the
index; `pop` is two steps, the look at the indices and the advance, followed by
the use of the pointer it returned. The indices are sequentially consistent
atomics and each thread writes only its own, so nothing finer is visible. The
producer starts a push only with fewer than `Window` items in flight, as the
benchmark's producer does (lines 101-103); the consumer counts an item before
it reads it, as the benchmark's consumer does (lines 72-79). The k-th item is
the number k.

**PriceLevel.** `top_order`, `next` and `previous` are the pointers; an order is
its id. `add` is one action; `cancel` sets the search off, `searchOn` is one
iteration of its loop, `found` unlinks, `notFound` returns null. The level's
callers are the book's: ids increase, and `cancel` is never called on an empty
level, which is `LevelsOccupied` of the book.

**Exchange.** Two threads, `run` and `owner`, each with its `pc` and the request
it serves. `lookup`, `readId`, `writeId`, `enterBook` and `leaveBook` are the
accesses to shared state that `addOrder` and `cancelOrder` make on either
thread; `testRunning`, `popNothing` and `processRequest` are `run`; the owner's
`start`, `stop` with `joined`, `addTicker` with `insertBook`, `callBook` and
`destroy` are the public calls and the destructor. `running` is a plain `bool`:
the run thread reads `seen`, which `runningSeen` brings up to date some time
later. `lookupNull` is the null book that `operator[]` makes for an unknown
ticker. `Overlap` says whether the owner calls the books while the run thread
is on; the documents do not forbid it, and a test does it.

**Benchmark.** The main thread is the owner of the `Exchange`; `Claim`, `Stamp`,
`Send` are the producer's loop behind `Window`, `PopResponse`, `Count`,
`Measure` the consumer's. Times are abstracted to which send index a latency is
computed from. All orders buy at one price, so each gets one response.

**TCPSocket, SocketUtils, Connection.** A buffer is the sequence of its valid
bytes, the k-th byte being k. `sendAndRecv` is split into `recvmsg` (or
`recvNothing`), the callback and `publish`; the kernel takes any prefix of what
`::send` offers, and the buffer is emptied whatever it took. `createSocket` is
the sequence `Order` of the system calls that a configuration asks for, each of
which succeeds or fails into an ASSERT. Two failures do not reach one:
`flagsUnread` is an `fcntl(F_GETFL)` whose -1 passes for a non-blocking
descriptor, after which `connectBlocks` may wait for the peer, and `connect`
takes every result for a success. `failed` records the calls that failed.
`Connection` uses the descriptor it returns: `unconnected` is a `sendAndRecv`
while the connection is not, or will never be, made.

**TCPServer.** A TCPSocket is its heap address. `knote` is what the kqueue keeps
of a connection: the address registered by `addToKqueueList`, never removed.
`kevent` returns some of the ready knotes, as many as there is room for;
`handleEvent` tracks or deletes the socket an event points to, and `accept` may
allocate at an address that was freed. `acceptsDone` is an `accept` that returns
-1, with an empty backlog or not. A visit of `sendAndRecv` takes at most
`RecvRoom` messages, what a buffer holds that the callback has emptied. `left`
is history: what a round owes to the connections that were accepted and not
closed when it began, tracked or not. `corrupt` is a double delete or the use
of a freed socket. `listen` and `acceptFails` end in a failing ASSERT. The
listener is taken to be non-blocking; with the failure of `flagsUnread` on it,
`poll` would wait in `accept` for the next connection.

**FifoSequencer.** One server round visits the sockets in their order,
`addRequest` takes each request of a read with the one timestamp of the read,
`sequenceAndPublish` sorts and pushes the batch and resets the index. No file
wires sequencer and server together; the model does it the way the headers'
callbacks are made for. The sort is any order that respects the timestamps.
The control message with the timestamp may be missing (`Unstamped`); the code
does not look at `msg_controllen`, and `Stamps` is then 0 or the stamp that an
earlier read left on the stack. `stamped` and `batch` of a pending request are
history: whether the kernel delivered its stamp, and the round it was read in.
A read takes all that a socket has: the buffer of 64 MB holds far more requests
than the 1024 at which `addRequest` ends the process.

The definitions called mutants in the comments (`Larger`, `UnlinkedLast`,
`NextBlock`, ...) are not used by any specification. Each is a plausible bug in
place of the definition after it, and each property of a passing run has been
seen to fail with one of them.

## 3. The runs

| Run | Question | Bounds |
|---|---|---|
| `book_matching` | Does matching respect limits, price and time, do responses and updates account for everything, and is the level pool used within its contract up to exhaustion? | 3 orders, quantities 0..2, 3 prices, 3 level blocks |
| `book_levels` | Are levels indexed and occupied, are the lists sound while levels are created at the head, and is the order pool used within its contract up to exhaustion? | 4 orders of quantity 1, 3 prices, 3 sides, 4 level blocks, 4 order blocks |
| `pool_reuse` | Is any block shared, over all orders of taking and releasing? | 7 blocks |
| `queue_window` | Is the ring a queue under a window of N - 1, and does everything arrive? | N = 4, 10 items |
| `level_queue` | Is the circular list the queue that the book takes it for? | 5 orders |
| `exchange_serving` | Are requests served once and in order across `stop` and `start`, is no request half served when `stop` returns, and does `stop` return? | 3 requests, 5 calls of the owner, 2 tickers, room for 1 |
| `benchmark` | Does the window hold, is each latency its order's, does the program end? | 5 orders after 2 warmup orders, window 3 |
| `connection` | Is the descriptor set up as asked whatever fails, and do the bytes arrive? | buffers of 2, 3 bytes per end |
| `server_rounds` | What does the server track, whom does it drop, and is everyone served? | 2 connections, 2 addresses, 2 messages each, room for 1 in a buffer |
| `sequencer_rounds` | Is every request published once, and how far can it be overtaken? | 2 clients, 4 requests, room for 3 pending |
| `book_crossed`, `exchange_overlap` | Expected violations, section 5 | |

Why the bounds are enough: quantities 0..2 give an empty order, an exact fill,
and a partial fill on either side; three prices give a level before, between
and after others; three orders and the cancels between them create and drain
two levels and cross the book, and a fourth order reuses released blocks. A pool
of three level blocks exits at the third level of `book_matching`; `book_levels`
has four and so keeps three levels in one list. Ten
items go round a ring of four slots more than twice. One client is enough, as
no code compares clients. The book's models deadlock nowhere: with the orders
used up, cancels are still possible. Five orders give a level with neighbours
on both sides of a gap, and gaps next to gaps. Five calls of the owner hold a
start, a stop, a restart and a direct call after `addTicker`; one place for two
tickers meets the limit. Five orders over a window of three close and reopen
it. Three bytes over buffers of two make a full kernel buffer, a short send and
a later one. Two connections at two addresses suffice for a stale event that
meets a freed address, and for one that meets a live socket of another
connection; two messages with room for one leave something for the next round.
Four requests of two clients with room for three give batches that
straddle a round, equal stamps, and the limit. Deadlock is not checked where the system may
rest: an exchange whose owner makes no more calls, a level whose ids are used
up and whose orders are all canceled.

What the properties say, beyond `TypeOK`:

- `TimePriority`, `PriceTimePriority`: orders of one price queue by acceptance;
  an incoming order trades with the best-priced, oldest order on the other side.
- `TradesWithinLimit`: no trade at a price worse than the taker's limit.
- `MirrorExact`: applying the market updates rebuilds exactly the book.
- `QuantityConserved`: accepted = filled + canceled + open, for each order.
- `LevelsIndexed`, `LevelsOccupied`: the map finds the levels in use and only
  those, and a level in use has orders, except in the middle of a request.
- `SoundUntilOrphaned`: while every level was created at the head of its list,
  lists are complete and sorted, the book is not crossed, nothing crashes.
- `LevelPoolContract`, `OrderPoolContract`: refinement of `ObjectPool`.
- `NoSharedBlock`, `ExitOnlyWhenFull`: the pool's own promises.
- `InOrder`, `NothingLost`, `ImplementsFifo`, `EveryItemArrives`: the ring.
- `Circular`, `ImplementsQueue`, `CancelReturns`: the links are one circle, closed
  in both directions, in the order of arrival from `top_order`; the list refines
  `OrderQueue`; and the search in it ends.
- `OneThreadAtATime`, `ServedOnceInOrder`: without overlapping calls, at most
  one thread is inside the books; requests are answered once and in order, none
  is dropped by a `stop` in between, and ids follow 1, 2, 3, ...
- `HaltsJustified`: a null book only for a ticker never added, the ticker limit
  only when it is reached. `StopReturns`, `RequestsTaken`: liveness.
- `InFlightBounded`, `MeasuredAgainstOwnSend`, `Terminates`: the benchmark. The
  first is what `LFQueue` assumes of its users (`Window < N`), obtained from
  the loop on `sent - received`, a difference that never wraps.
- `ReturnedConfigured`: only the failures of `connect` and of `fcntl(F_GETFL)` go
  unnoticed, and but for what these leave undone, a returned descriptor is set up
  as asked. `InOrderOnce`, `LossOnlyByShortSend`, `EveryByteArrives`: bytes in
  order and once, and complete unless a `::send` was short.
- `TrackedAlive`, `DropsJustified`, `AllReadByRoundEnd`: `receive_sockets_` lists
  all that is allocated and, until an address has been used again, nothing else
  and nothing twice; a connection is dropped only if its peer closed or
  its socket shares its address with a deleted one; a round reads, up to a buffer
  full, every other connection that was accepted and not closed when it began.
  `EveryConnectionAccepted`, `EveryMessageRead`: liveness.
- `PublishedOnce`, `OvertakenWithinARound`, `EveryRequestPublished`: the
  sequencer loses and repeats nothing; a request is overtaken only by such that
  arrive until the end of the next round, whatever the stamps are; and of two
  requests of a batch that the kernel stamped, the later comes first only if the
  read of the earlier one also took a request that is no older than the later.

`PriceTimePriority` and `SoundUntilOrphaned` carry the condition `~orphaned`
because the code does not link a level created behind the head; section 5 has
what happens then. The other properties hold with and without such levels.

**Fairness.** All of it but one is weak fairness, of steps that a thread takes once it is
scheduled; nothing is assumed of clients, peers and callers, who start a call
when they like.

- `LFQueue`: a started `push` completes and the consumer, which spins on `pop`,
  keeps taking steps.
- `PriceLevel`: the search of `cancel` goes on.
- `Exchange`: the run thread goes on, a call that the owner has begun goes on,
  and the write to `running` becomes visible. The last holds for the builds of
  this code because `pop` loads atomics in the loop: the compiler does not hoist
  the read of `running` out of it. The language does not promise it.
- `Benchmark`: the four threads are scheduled; all waiting is polling or `join`.
- `Connection`: the calls of `createSocket` return, a blocking `connect` when the
  peer answers or the system gives up, and each end calls
  `sendAndRecv` again and again, as `socket_example.cpp` does.
- `TCPServer`, `FifoSequencer`: the loop of `poll` and `sendAndRecv` goes on;
  nothing in it blocks. `accept` is strongly fair: its errors, such as an aborted
  connection, are transient, and the next poll reports the listener again while
  the backlog is not empty. This leaves out a process without descriptors.

## 4. The proofs

All hold for every value of the constants that the named assumptions allow:
any number of orders, prices, requests, connections and bytes, and any size of
pools, rings and buffers. Every theorem about a component is an invariant, an
action property or a refinement of its whole specification. Two carry a
hypothesis on how the component is used, which the code does not enforce:
`Window < N` for the ring, and `~Overlap` (the owner does not call the books
while the run thread is on) for the exchange.

| Module | Theorems |
|---|---|
| `ObjectPoolProofs` | `PoolNeverShares`, `PoolExitsOnlyWhenFull` |
| `OrderBookProofs` | `BookTypeCorrect`, `BookLevelsIndexed`, `BookLevelsOccupied`, `BookTimePriority`, `BookTradesWithinLimit`, `BookMirrorExact`, `BookQuantityConserved`, `BookLevelPoolContract`, `BookOrderPoolContract`; `BookSoundUntilOrphaned`, `BookPriceTimePriority` |
| `PriceLevelProofs` | `LevelCircular`, `LevelCancelsExactly` |
| `LFQueueProofs` | `ItemsInOrder`, `NoItemLost`, `RingImplementsFifo` |
| `ExchangeProofs` | `ExchangeOneThreadAtATime`, `ExchangeServedOnceInOrder`, `ExchangeHaltsJustified`; of the benchmark `BenchInFlightBounded`, `BenchMeasuredAgainstOwnSend` |
| `ConnectionProofs` | `ConnectionReturnedConfigured`, `ConnectionInOrderOnce`, `ConnectionLossOnlyByShortSend` |
| `TCPServerProofs` | `ServerTrackedAlive`, `ServerDropsJustified`, `ServerAllReadByRoundEnd` |
| `FifoSequencerProofs` | `SequencerPublishedOnce`, `SequencerOvertakenWithinARound` |

The arguments:

- `ObjectPoolProofs`: `PoolInvariant` (types, `NoSharedBlock`,
  `ExitOnlyWhenFull`) is inductive. The one fact that is not first-order is
  that the scan for a free block finds one: `LeastElement`, from the
  well-foundedness of `<` on the natural numbers.
- `LFQueueProofs`: assuming `Window < N`. The invariant `RingInvariant` locates
  every item: those between the indices are consecutive numbers, the one being
  pushed is at the write index, the one in use just before the read index. The
  write index is `Count` slots after the read index, and while a push may start
  `Count < N - 1`, so it is none of these slots. Under the invariant the
  abstract queue is an interval of numbers, and each step of the ring is a step
  of `Fifo` or a stutter: `RingImplementsFifo`.
- `OrderBookProofs`: `BookInvariant` consists of `TypeOK`, `LevelsIndexed`,
  `LevelsOccupied`, `TimePriority` and what the thread knows in the middle of a
  request: `RequestKnown`, `LevelKnown` (the level to create is not indexed, the
  one to fill is, the one to remove is empty and in use), `QueuedEarlier` (all
  queued orders are older than the one being added) and `FreeBlockReady`. None
  is inductive alone: that a fill takes the maker out of the right queue needs
  that its level is the one at its price (`OneLevel`), which needs the index and
  the occupancy. No condition on `orphaned`: these theorems also cover books
  with unreachable levels.
  On top of it, `StreamInvariant` is about what the book says: the accounts of
  ids not yet given are empty (`FreshAccounts`), and the order whose CANCELED is
  still to be pushed has left its level with its quantity unchanged
  (`CancelKnown`), which is what ties the ledger and the mirror to the book
  between the two pushes of a cancel. The pool contracts are refinements: each
  step of the book maps to `getObject`, `releaseObject`, a failing `getObject`
  or a stutter of `ObjectPool`, so the pool's theorems carry over to the book.
- `OrderBookProofs`, second part: `ChainInvariant` says that, without orphaned levels,
  each list links exactly the levels in use of its side, sorted, from the best;
  that bids and asks do not cross, and what is left of an order does not reach
  the other side's best level when it is placed (`RestPlaceable`); and that the walk of
  `removePriceLevel` is before the level it looks for (`RemovalOnTheWay`), which
  is why it never runs off the list. The lists are described by each level's
  successor (`First`, `Worse`), not by a recursive walk.
- `ExchangeProofs`: `Disciplined` (the run thread works only while it is
  joinable, the owner is inside the books only while it is not) gives mutual
  exclusion.
  `ServedOnceInOrder` needs where each request is (`QueueKnown`: the queue is the
  tail of the log, the served one the entry before it; `AnswersKnown`), where the
  id counter is during the read and the write (`TicketKnown`), and which ids the
  responses carry (`IdsKnown`). `HaltsJustified` needs no `~Overlap`: its
  invariant `MapKnown` is kept by interleaved calls.
- `ExchangeProofs`, second part: the exchange's invariants hold inside the benchmark
  (`BenchExchange`), and `InStep`, `ResponsesInOrder`, `Windowed`, `Measured`
  relate the four counters: claimed, pushed, answered, counted. The window bound
  follows because only the producer raises `sent`. It is the hypothesis
  `Window < N` of the ring's theorems for `MAX_IN_FLIGHT` smaller than the rings.
- `ConnectionProofs`: for `createSocket`, `CallsMade` says that exactly the calls
  before the next one that the configuration asks for have been made, except
  where `F_GETFL` failed; `ConnectMade` what a `connect` has left, and
  `FailuresKnown` which failures a process outlives. For the
  bytes, the `Stream` of an end (delivered, received, in the kernel, waiting in
  the send buffer) is what the steps of both ends preserve: `recvmsg` and the
  callback leave it as it is, `send` appends to it, `publish` cuts its end off.
  So it always rises up to `written`, and is `1, ..., written` until the first
  short `::send`. The lemmas on sequences (`Cut`, `Regrouped`, `RisingPart`,
  `UptoExtended`) carry the argument.
- `TCPServerProofs`: `ServerInvariant` follows a connection through the server's
  data: `KnotesKnown` (what the kqueue keeps of it), `SocketsKept` (who owns an
  address), `EventsKnown` (what the fetched events refer to), `Listed` and
  `RoundKnown` (what a round still owes is in the kernel, and at a socket not yet
  visited). That an accepted connection that has not closed and does not share is
  visited at all needs them together: its knote points to a socket that is still
  its own, and that socket is on the list. `Erasures` states `std::remove` by its result, with the lemmas on the list.
- `PriceLevelProofs`: `Circular` gives the order of the list by the ids, which
  grow with every `add`, so no walk is needed: an order's successor is the next
  larger linked id, or `top_order`. `SearchKnown` says that the search of `cancel`
  has passed no order equal to the one it looks for, so when it is back at
  `top_order` the order is not in the level.
- `FifoSequencerProofs`: `Placed` says that each arrival is in one place, once:
  at a socket, in the read at hand, pending or published. `RoundsKnown` bounds
  ages: all that is read in a round arrived in it or in the round before, because
  a round empties every socket it visits; what is published arrived earlier.
  `RoundsCounted` keeps the round number within its type: of two rounds that
  count, one publishes. `StampInvariant` follows the stamps: a read has the stamp
  of its youngest request (`ReadKnown`), which is in the batch with all that carry
  its stamp (`BatchKnown`), so that a request sorted before another is no younger
  than some request of the other's client (`OrderKnown`). That `std::sort` keeps the requests (`SortedMarks`) is
  that an injection of a finite set into itself is onto.

Each of these invariants was model-checked on small instances before it was
proved.

Only model-checked, being out of the prover's reach: liveness under fairness (`EveryItemArrives`, `CancelReturns`,
`StopReturns`, `RequestsTaken`, `Terminates`, `EveryByteArrives`,
`EveryConnectionAccepted`, `EveryMessageRead`, `EveryRequestPublished`), and
`ImplementsQueue`, whose mapping is what `PriceLevel`'s recursive `Walk` computes
for a list of any length. `LevelCircular` and `LevelCancelsExactly` state without
it what the refinement rests on.

## 5. Where the code and its documents disagree

Two disagreements have a run of their own:

- `book_crossed`: two sell orders, the second at the worse price; the first is
  canceled. `best_asks` is now null although an ask rests, and a buy order at
  its price is not matched (`orderbook.h:280`; expected by
  `test/include/cppexchange/orderbook_test.cpp:206`).
- `exchange_overlap`: `addOrder` on one thread while the run thread serves an
  ADD gives two orders one id (`cppexchange.h:75`; the exchange is used that way
  in `test/include/cppexchange/cppexchange_test.cpp:117-125`).

The others show in the condition under which a property holds:

- In the state of `book_crossed` before the first order is canceled, canceling
  the second one dereferences a null pointer (`orderbook.h:300`):
  `SoundUntilOrphaned` and `PriceTimePriority` need `~orphaned`.
- A pool of n blocks exits at the n-th object (`object_pool.h:72`):
  `ExitOnlyWhenFull` says so, and `OrderPoolContract` carries it to the book.
- n items pushed into a ring of n slots are lost, the indices being equal again
  (`lf_queue.h:25`), while `test/include/communication/lf_queue_test.cpp:21-36`
  pushes 10 items into a ring of 10 and expects them all, and lines 48-60 one into
  a ring of 1. The queue needs `Window < N`, which `InFlightBounded` gives for the
  benchmark only; with `Window = N`, TLC finds `NothingLost` violated. Nothing
  bounds what the sequencer pushes (`fifo_sequencer.h:47`).
- A failed `connect` goes unnoticed, its result being compared with 1
  (`socket_utils.h:135`), although an ASSERT is there for it (lines 134-137):
  `ReturnedConfigured` excepts that failure by name.
- A descriptor whose flags cannot be read counts as non-blocking, the -1 of
  `fcntl` having all bits set (`socket_utils.h:56`): `ReturnedConfigured` excepts
  that failure, after which `createSocket` may also wait in `connect`.
- What a short `::send` did not take, and all that is sent before the
  connection is made or after it failed, is lost (`tcp_socket.h:84`):
  `LossOnlyByShortSend` and `EveryByteArrives` except short sends.
- A dead socket stays in the kqueue (`tcp_server.h:66`). The next event for it
  deletes it again, or deletes a live connection allocated at its address:
  `DropsJustified` excepts `shared` connections, the second half of
  `TrackedAlive` holds as long as there are none, and the server may end up
  `corrupt` once a peer has closed. With four connections a stale event can put
  a freed address back on the list just before `accept` allocates there and adds
  it again: the new socket is then listed, and read, twice in a round. The proof
  of `ServerTrackedAlive` failed on that case; it is beyond the bounds of
  `server_rounds`.
- Requests are sorted within a round only, by a sort that is not stable
  (`fifo_sequencer.h:44`): `OvertakenWithinARound` is what remains of the order.

## 6. Not modelled, and the plan

Not modelled:

- `dotenv.h` (third-party, included by nothing), `alignment.cpp` (prints struct
  layouts), the time constants, `Singleton` and `createAndStartThread` (unused),
  the `MDP*` records of `messages.h` (unused);
- `socket_example.cpp` as a program: its loop and callbacks are the callers that
  `TCPSocket` and `TCPServer` assume, its messages one of their behaviours;
- the limit on descriptors, which dead connections use up;
- in `Exchange`, a book call that does not come back: `leaveBook` sees the book
  from outside, and `OrderBook` has the walks on a damaged list that crash or do
  not end. `StopReturns` and `RequestsTaken` are about books that return;
- writes beyond the send buffer: callers are taken to write at most `MaxBurst`
  bytes between two calls of `sendAndRecv` (`tcp_socket.h:91` does not check);
- the data that a peer leaves unread in the kernel when it closes: it is
  dropped with the connection, and nothing says what should happen to it;
- the destructors of `TCPServer` and of the message structures.

Done: all components, their runs, and the theorems of section 4, which state
every safety invariant and safety action property that a run checks. What is left:

1. `PriceLevel`: the refinement of `OrderQueue`, if the queue's contents can be
   given by the ids in place of `Walk`.
2. Action properties of the exchange and the server that no run states yet.
