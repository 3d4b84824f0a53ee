----------------------------- MODULE PriceLevel -----------------------------
(***************************************************************************)
(* Orders::OrdersPriceLevel (include/cppexchange/order.h): the orders of   *)
(* one price as a circular doubly linked list that starts at top_order.    *)
(* An order is its order_id.  The search of cancel() takes one step per    *)
(* iteration, because it only ends if the links close the circle.          *)
(*                                                                         *)
(* The caller is the order book: an order is added once, ids increase, and *)
(* cancel() is not called on a level without orders (LevelsOccupied of     *)
(* OrderBookProperties).                                                   *)
(***************************************************************************)
EXTENDS Naturals, Sequences

CONSTANTS
  MaxOrders,    \* bound on the order ids
  Null          \* nullptr

Orders == 1 .. MaxOrders

ASSUME PriceLevelAssumption == MaxOrders \in Nat /\ Null \notin Orders

VARIABLES
  top_order, next, previous,
  last_id,        \* the largest order_id added so far
  pc,             \* idle | search: cancel(wanted) looks at order
  wanted, order,
  returned        \* what the last cancel() returned

links == <<top_order, next, previous>>
vars  == <<top_order, next, previous, last_id, pc, wanted, order, returned>>

Pointer == Orders \cup {Null}

TypeOK ==
  /\ top_order \in Pointer
  /\ next \in [Orders -> Pointer]
  /\ previous \in [Orders -> Pointer]
  /\ last_id \in 0 .. MaxOrders
  /\ pc \in {"idle", "search"}
  /\ wanted \in Pointer
  /\ order \in Pointer
  /\ returned \in Pointer

Init ==
  /\ top_order = Null
  /\ next = [o \in Orders |-> Null]
  /\ previous = [o \in Orders |-> Null]
  /\ last_id = 0
  /\ pc = "idle"
  /\ wanted = Null
  /\ order = Null
  /\ returned = Null

-----------------------------------------------------------------------------
(* add(): the first order points to itself, another one goes between the   *)
(* last order and top_order.                                               *)

addFirst(o) ==
  /\ top_order' = o
  /\ next' = [next EXCEPT ![o] = o]
  /\ previous' = [previous EXCEPT ![o] = o]

\* Mutant: order->previous->next = order is forgotten.
LinkedOneWay(o) == [next EXCEPT ![o] = top_order]

Linked(o) == [next EXCEPT ![o] = top_order, ![previous[top_order]] = o]

addLast(o) ==
  /\ next' = Linked(o)
  /\ previous' = [previous EXCEPT ![o] = previous[top_order], ![top_order] = o]
  /\ UNCHANGED top_order

add(o) ==
  /\ pc = "idle" /\ o > last_id
  /\ last_id' = o
  /\ IF top_order = Null THEN addFirst(o) ELSE addLast(o)
  /\ UNCHANGED <<pc, wanted, order, returned>>

-----------------------------------------------------------------------------
(* cancel(): search from top_order to its predecessor, then unlink.        *)

cancel(o) ==
  /\ pc = "idle" /\ top_order # Null
  /\ pc' = "search" /\ wanted' = o /\ order' = top_order
  /\ UNCHANGED <<links, last_id, returned>>

\* The search is at the last order; mutant: it waits for a null pointer.
AtNull == order = Null

AtLast == order = previous[top_order]

searchOn ==
  /\ pc = "search" /\ order # wanted /\ ~AtLast
  /\ order' = next[order]
  /\ UNCHANGED <<links, last_id, pc, wanted, returned>>

\* The next top_order; mutant: canceling the top order leaves none.
NoTop(o) == IF top_order = o THEN Null ELSE top_order

NewTop(o) ==
  CASE top_order # o -> top_order
    [] top_order = o /\ next[o] = o -> Null
    [] OTHER -> next[o]

\* The neighbours of the order point to each other, the order to none.
found ==
  /\ pc = "search" /\ order = wanted
  /\ next' = [next EXCEPT ![previous[order]] = next[order], ![order] = Null]
  /\ previous' = [previous EXCEPT ![next[order]] = previous[order], ![order] = Null]
  /\ top_order' = NewTop(order)
  /\ returned' = order
  /\ pc' = "idle" /\ wanted' = Null /\ order' = Null
  /\ UNCHANGED last_id

notFound ==
  /\ pc = "search" /\ order # wanted /\ AtLast
  /\ returned' = Null
  /\ pc' = "idle" /\ wanted' = Null /\ order' = Null
  /\ UNCHANGED <<links, last_id>>

Next ==
  \/ \E o \in Orders : add(o) \/ cancel(o)
  \/ searchOn \/ found \/ notFound

\* The serving thread does not stop in the middle of cancel().
Spec == Init /\ [][Next]_vars /\ WF_vars(searchOn \/ found \/ notFound)

-----------------------------------------------------------------------------
\* The orders that the walk from top_order along next meets before it is back.
Walk[k \in Nat] == IF k = 0 THEN top_order ELSE next[Walk[k - 1]]

Length ==
  IF top_order = Null THEN 0
  ELSE CHOOSE k \in Orders : Walk[k] = top_order /\ \A j \in 1 .. (k - 1) : Walk[j] # top_order

Contents == [i \in 1 .. Length |-> Walk[i - 1]]

\* The linked orders.
InList == {o \in Orders : next[o] # Null}

\* next and previous of OrdersPriceLevel are inverse to each other on the linked
\* orders, and no order that was unlinked is pointed to: add() finds the last
\* order through top_order->previous, cancel() closes the gap through both.  And
\* the circle is one: from top_order, the oldest, next leads through all orders in
\* the order in which they were added, and from the last one back.
Circular ==
  /\ TypeOK
  /\ \A o \in InList : next[o] \in InList /\ previous[next[o]] = o
  /\ \A o \in Orders : previous[o] # Null => previous[o] \in InList /\ next[previous[o]] = o
  /\ top_order # Null <=> InList # {}
  /\ top_order # Null => top_order \in InList
  /\ \A o, p \in InList :
       /\ top_order <= p
       /\ IF next[o] = top_order THEN p <= o ELSE o < next[o] /\ ~(o < p /\ p < next[o])

\* OrdersPriceLevel is a queue with cancels: add() appends, cancel() takes out
\* exactly the order asked for, wherever it is, and returns null without one.
Queue == INSTANCE OrderQueue WITH
  q     <- Contents,
  asked <- IF pc = "search" THEN wanted ELSE Null

ImplementsQueue == Queue!Spec

\* The search of OrdersPriceLevel::cancel() comes to an end.
CancelReturns == pc = "search" ~> pc = "idle"
=============================================================================
