------------------------------ MODULE LFQueue -------------------------------
(***************************************************************************)
(* Communication::LFQueue<T> (include/communication/lf_queue.h): the ring  *)
(* buffer between one producer thread and one consumer thread.  The        *)
(* indices are sequentially consistent atomics, so each step below is one  *)
(* access to an index together with the accesses to the data it orders.    *)
(*                                                                         *)
(* push() does not look for space.  What keeps the producer from running   *)
(* over the consumer is the caller: as in standalone/                      *)
(* benchmark_exchange_mt.cpp it starts a push only while fewer than        *)
(* Window items are in flight, and the consumer counts an item as received *)
(* when pop() returns it, before it reads it.                              *)
(*                                                                         *)
(* The k-th item pushed is the number k.                                   *)
(***************************************************************************)
EXTENDS Naturals, Sequences

CONSTANTS
  N,         \* data_.size()
  Window,    \* MAX_IN_FLIGHT
  MaxPush    \* bound on the number of items pushed

ASSUME QueueAssumption ==
  /\ N \in Nat \ {0}
  /\ Window \in Nat
  /\ MaxPush \in Nat

VARIABLES
  data_, next_write_index_, next_read_index_,
  producer,        \* idle | advance: data_ is written, the index is not
  consumer,        \* idle | advance: pop() found an item | use: it returned it
  item,            \* the slot that the pointer returned by pop() designates
  sent, received   \* items pushed (or being pushed), items popped

ring == <<data_, next_write_index_, next_read_index_>>
vars == <<data_, next_write_index_, next_read_index_, producer, consumer,
          item, sent, received>>

Slots == 0 .. (N - 1)

TypeOK ==
  /\ data_ \in [Slots -> Nat]
  /\ next_write_index_ \in Slots
  /\ next_read_index_ \in Slots
  /\ producer \in {"idle", "advance"}
  /\ consumer \in {"idle", "advance", "use"}
  /\ item \in Slots
  /\ sent \in Nat
  /\ received \in Nat

Init ==
  /\ data_ = [i \in Slots |-> 0]
  /\ next_write_index_ = 0
  /\ next_read_index_ = 0
  /\ producer = "idle"
  /\ consumer = "idle"
  /\ item = 0
  /\ sent = 0
  /\ received = 0

\* (i + 1) % data_.size(); mutant: a modulo off by one.
FollowingShort(i) == IF i + 1 >= N - 1 THEN 0 ELSE i + 1

Following(i) == IF i + 1 = N THEN 0 ELSE i + 1

\* empty(), and the mutant of a pop() that does not call it.
NeverEmpty == FALSE

empty == next_read_index_ = next_write_index_

-----------------------------------------------------------------------------
(* push(), called with room in the window.                                 *)

pushWrite ==
  /\ producer = "idle"
  /\ sent < MaxPush /\ sent < received + Window
  /\ sent' = sent + 1
  /\ data_' = [data_ EXCEPT ![next_write_index_] = sent + 1]
  /\ producer' = "advance"
  /\ UNCHANGED <<next_write_index_, next_read_index_, consumer, item, received>>

pushAdvance ==
  /\ producer = "advance"
  /\ next_write_index_' = Following(next_write_index_)
  /\ producer' = "idle"
  /\ UNCHANGED <<data_, next_read_index_, consumer, item, sent, received>>

-----------------------------------------------------------------------------
(* pop(), and the caller's use of the pointer it returned.                 *)

popFinds ==
  /\ consumer = "idle" /\ ~empty
  /\ item' = next_read_index_
  /\ consumer' = "advance"
  /\ UNCHANGED <<ring, producer, sent, received>>

popAdvance ==
  /\ consumer = "advance"
  /\ next_read_index_' = Following(next_read_index_)
  /\ received' = received + 1
  /\ consumer' = "use"
  /\ UNCHANGED <<data_, next_write_index_, producer, item, sent>>

\* The caller has read *item and calls pop() again.
used ==
  /\ consumer = "use"
  /\ consumer' = "idle"
  /\ UNCHANGED <<ring, producer, item, sent, received>>

\* All items went through; the consumer goes on polling an empty queue.
Polling ==
  /\ sent = MaxPush /\ received = sent
  /\ producer = "idle" /\ consumer = "idle"
  /\ UNCHANGED vars

Next ==
  \/ pushWrite \/ pushAdvance
  \/ popFinds \/ popAdvance \/ used
  \/ Polling

Spec == Init /\ [][Next]_vars

\* Both threads keep running: the operating system schedules them, push() does
\* not block, and the consumer spins on pop().  Nothing obliges the producer
\* to start another push.
Fairness ==
  /\ WF_vars(pushAdvance)
  /\ WF_vars(popFinds \/ popAdvance \/ used)

FairSpec == Spec /\ Fairness
-----------------------------------------------------------------------------
\* The items that empty() and pop() see, oldest first.
Count ==
  IF next_write_index_ >= next_read_index_
  THEN next_write_index_ - next_read_index_
  ELSE (next_write_index_ + N) - next_read_index_

SlotAt(k) ==
  IF next_read_index_ + k < N THEN next_read_index_ + k
  ELSE (next_read_index_ + k) - N

Contents == [k \in 1 .. Count |-> data_[SlotAt(k - 1)]]

\* The item that pop() returned last is the next one in the order of the
\* pushes, and stays so for as long as the caller uses the pointer: the
\* producer does not overwrite the slot (pop() returns a pointer into data_).
InOrder == consumer = "use" => data_[item] = received

\* pop() returns nullptr only if every completed push has been popped: items
\* are not lost when the write index comes round to the read index.
NothingLost == empty /\ consumer # "advance" =>
                 received = IF producer = "idle" THEN sent ELSE sent - 1

\* The ring buffer implements a queue of Window items.
FifoQueue == INSTANCE Fifo WITH
  Values   <- 1 .. MaxPush,
  Capacity <- Window,
  Nothing  <- 0,
  q        <- Contents,
  out      <- IF consumer = "use" THEN data_[item] ELSE 0

ImplementsFifo == FifoQueue!Spec

\* Every item pushed is received.
EveryItemArrives == \A k \in 1 .. MaxPush : (sent >= k) ~> (received >= k)
=============================================================================
