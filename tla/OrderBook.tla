----------------------------- MODULE OrderBook ------------------------------
(***************************************************************************)
(* CPPExchange::OrderBook (include/cppexchange/orderbook.h): the limit     *)
(* order book of one ticker, with the price levels it links together       *)
(* (Orders::OrdersPriceLevel, include/cppexchange/order.h) and the two     *)
(* object pools it allocates from.                                         *)
(*                                                                         *)
(* A price level is the index of its block in price_level_pool, so that a  *)
(* released block keeps its contents, pointers to it dangle, and it can be *)
(* handed out again, as in the code.  The orders of a level are the        *)
(* sequence that its circular list holds, top_order first.  An order is    *)
(* its order_id: order blocks are never released, so they never alias.     *)
(*                                                                         *)
(* One request is served at a time, by one thread.  The loops of           *)
(* checkForMatch(), insertPriceLevel() and removePriceLevel() take one     *)
(* step per iteration; pc says which loop the thread is in.                *)
(***************************************************************************)
EXTENDS Naturals, Sequences

CONSTANTS
  Clients,
  Prices,
  RequestSides,     \* the sides that requests carry
  Quantities,       \* the quantities that requests carry
  MaxAdds,          \* bound on the number of add() calls
  MAX_PRICE_LEVELS, \* size of price_level_pool
  MAX_ORDER_IDS,    \* size of order_pool
  Null              \* nullptr, and the *_INVALID value of an identifier

OrderSide == {"INVALID", "BUY", "SELL"}
Levels    == 0 .. (MAX_PRICE_LEVELS - 1)
OrderIds  == 1 .. MaxAdds
Pointer   == Levels \cup {Null}

ASSUME ConstantsAssumption ==
  /\ Prices \subseteq Nat
  /\ RequestSides \subseteq OrderSide
  /\ Quantities \subseteq Nat
  /\ MaxAdds \in Nat
  /\ MAX_PRICE_LEVELS \in Nat \ {0}
  /\ MAX_ORDER_IDS \in Nat \ {0}
  /\ Null \notin Levels
  /\ Null \notin Prices

VARIABLES
  order,            \* the Order objects, by order_id
  level_side, level_price, level_next, level_orders,   \* the price levels
  available, next_free,                                \* price_level_pool
  orders_used,      \* blocks taken from order_pool, which releases none
  price_levels,     \* price -> level, Null where the map holds no level
  best,             \* best["BUY"] is best_bids, best["SELL"] is best_asks
  next_order_id, next_trade_id,    \* counters of the Exchange
  pc,               \* idle | match | insert | place | remove | reply
  req,              \* arguments of the current call; quantity is what remains
  cursor,           \* the level pointer of the current loop
  victim,           \* the argument of removePriceLevel()
  status,           \* running | segv (null dereferenced) | exit (ASSERT failed)
  responses, updates,    \* what the last step pushed to the two queues
  ledger,           \* history: what the responses told about each order
  mirror,           \* history: the book as the market updates describe it
  orphaned          \* history: a level was created away from the head

bookVars == <<order, level_side, level_price, level_next, level_orders,
              available, next_free, orders_used, price_levels, best>>
counters == <<next_order_id, next_trade_id>>
control  == <<pc, req, cursor, victim, status>>
outputs  == <<responses, updates, ledger, mirror>>
vars     == <<bookVars, counters, control, outputs, orphaned>>

\* price_level_pool; its objects are held through price_levels.
LevelPool == INSTANCE ObjectPool WITH
  Size   <- MAX_PRICE_LEVELS,
  live   <- {l \in Levels : \E p \in Prices : price_levels[p] = l},
  exited <- status = "exit" /\ pc # "place"

\* order_pool, whose state follows from the number of blocks taken.
OrderPoolExited == status = "exit" /\ pc = "place"

OrderPool == INSTANCE ObjectPool WITH
  Size      <- MAX_ORDER_IDS,
  available <- [b \in 0 .. (MAX_ORDER_IDS - 1) |-> b >= orders_used],
  next_free <- IF OrderPoolExited THEN MAX_ORDER_IDS - 1 ELSE orders_used,
  live      <- {b \in 0 .. (MAX_ORDER_IDS - 1) :
                  b < orders_used /\ ~(OrderPoolExited /\ b = MAX_ORDER_IDS - 1)},
  exited    <- OrderPoolExited

-----------------------------------------------------------------------------
OrderRecord ==
  [client : Clients \cup {Null}, side : OrderSide, quantity : Nat,
   limit_price : Prices \cup {Null}]

Request ==
  [type : {"NONE", "ADD", "CANCEL"}, order_id : Nat,
   client : Clients \cup {Null}, side : OrderSide, quantity : Nat,
   limit_price : Prices \cup {Null}]

NoRequest ==
  [type |-> "NONE", order_id |-> 0, client |-> Null, side |-> "INVALID",
   quantity |-> 0, limit_price |-> Null]

Accounts == [accepted : Nat, filled : Nat, canceled : Nat]
Quotes   == [side : OrderSide, quantity : Nat, price : Prices]

TypeOK ==
  /\ order \in [OrderIds -> OrderRecord]
  /\ level_side \in [Levels -> OrderSide]
  /\ level_price \in [Levels -> Prices \cup {Null}]
  /\ level_next \in [Levels -> Pointer]
  /\ level_orders \in [Levels -> Seq(OrderIds)]
  /\ available \in [Levels -> BOOLEAN]
  /\ next_free \in Levels
  /\ orders_used \in 0 .. MAX_ORDER_IDS
  /\ price_levels \in [Prices -> Pointer]
  /\ best \in [{"BUY", "SELL"} -> Pointer]
  /\ next_order_id \in 1 .. (MaxAdds + 1)
  /\ next_trade_id \in Nat
  /\ pc \in {"idle", "match", "insert", "place", "remove", "reply"}
  /\ req \in Request
  /\ cursor \in Pointer
  /\ victim \in Pointer
  /\ status \in {"running", "segv", "exit"}
  /\ ledger \in [OrderIds -> Accounts]
  /\ mirror \in [OrderIds -> Quotes \cup {Null}]
  /\ orphaned \in BOOLEAN

Init ==
  /\ order = [o \in OrderIds |-> [client |-> Null, side |-> "INVALID",
                                  quantity |-> 0, limit_price |-> Null]]
  /\ level_side = [l \in Levels |-> "INVALID"]
  /\ level_price = [l \in Levels |-> Null]
  /\ level_next = [l \in Levels |-> Null]
  /\ level_orders = [l \in Levels |-> <<>>]
  /\ available = [l \in Levels |-> TRUE]
  /\ next_free = 0
  /\ orders_used = 0
  /\ price_levels = [p \in Prices |-> Null]
  /\ best = [s \in {"BUY", "SELL"} |-> Null]
  /\ next_order_id = 1
  /\ next_trade_id = 1
  /\ pc = "idle"
  /\ req = NoRequest
  /\ cursor = Null
  /\ victim = Null
  /\ status = "running"
  /\ responses = <<>>
  /\ updates = <<>>
  /\ ledger = [o \in OrderIds |-> [accepted |-> 0, filled |-> 0, canceled |-> 0]]
  /\ mirror = [o \in OrderIds |-> Null]
  /\ orphaned = FALSE

-----------------------------------------------------------------------------
(* The messages, and what their recipients learn from them.                *)

ClientResponse(type, client, o, side, quantity, price) ==
  [type |-> type, client |-> client, order_id |-> o, side |-> side,
   quantity |-> quantity, price |-> price]

MarketUpdate(type, o, trade, side, quantity, price) ==
  [type |-> type, order_id |-> o, trade_id |-> trade, side |-> side,
   quantity |-> quantity, price |-> price]

\* A client adds up what it is told about its orders.
Booked(accounts, r) ==
  CASE r.type = "ACCEPTED" -> [accounts EXCEPT ![r.order_id].accepted = r.quantity]
    [] r.type = "FILLED"   -> [accounts EXCEPT ![r.order_id].filled = @ + r.quantity]
    [] r.type = "CANCELED" -> [accounts EXCEPT ![r.order_id].canceled = @ + r.quantity]
    [] OTHER               -> accounts

\* A subscriber rebuilds the book from the updates; trades do not change it.
Applied(quotes, u) ==
  CASE u.type \in {"ADD", "MODIFY"} ->
         [quotes EXCEPT ![u.order_id] =
            [side |-> u.side, quantity |-> u.quantity, price |-> u.price]]
    [] u.type = "REMOVE" -> [quotes EXCEPT ![u.order_id] = Null]
    [] OTHER             -> quotes

Silent ==
  /\ responses' = <<>>
  /\ updates' = <<>>
  /\ UNCHANGED <<ledger, mirror>>

-----------------------------------------------------------------------------
(* Helpers.  Code tests `side == BUY` and treats every other side as SELL. *)

BookSide(side) == IF side = "BUY" THEN "BUY" ELSE "SELL"
Opposite(side) == IF side = "BUY" THEN "SELL" ELSE "BUY"

\* On the given side of the book, price p comes before price q.
Better(side, p, q) == IF side = "BUY" THEN p > q ELSE p < q

\* std::min, and a mutant: the wrong one of the two.
Larger(a, b)  == IF a >= b THEN a ELSE b
Smaller(a, b) == IF a <= b THEN a ELSE b

\* OrdersPriceLevel::cancel() unlinks the order at position i of the list.
\* The mutant unlinks the one before top_order.
UnlinkedLast(s, i) == SubSeq(s, 1, Len(s) - 1)

Unlinked(s, i) ==
  [j \in 1 .. (Len(s) - 1) |-> IF j < i THEN s[j] ELSE s[j + 1]]

\* Where the search of OrdersPriceLevel::cancel() stops; mutant: at top_order.
TopPosition(s, o) == 1

Position(s, o) == CHOOSE i \in 1 .. Len(s) : s[i] = o

Holds(l, o) == \E i \in 1 .. Len(level_orders[l]) : level_orders[l][i] = o

\* The condition of the loops of checkForMatch(); the mutant drops the price.
CanMatchAtAnyPrice == req.quantity # 0 /\ best[Opposite(req.side)] # Null

CanMatch ==
  LET top == best[Opposite(req.side)]
  IN  /\ req.quantity # 0
      /\ top # Null
      /\ ~Better(Opposite(req.side), req.limit_price, level_price[top])

\* The step takes the last order of level l: top() is null.  The mutant does not
\* look.
NeverEmptied(l) == FALSE

Emptied(l) == level_orders'[l] = <<>>

\* Entry to removePriceLevel(l): prev_price_level is null when l is the best
\* level of its side, and the best level otherwise (null when there is none).
EnterRemove(l) ==
  /\ pc' = "remove"
  /\ victim' = l
  /\ cursor' = LET head == best[BookSide(level_side[l])]
               IN  IF l = head THEN Null ELSE head

-----------------------------------------------------------------------------
(* add() and checkForMatch().                                              *)

add(client, side, quantity, price) ==
  /\ pc = "idle" /\ status = "running" /\ next_order_id <= MaxAdds
  /\ req' = [type |-> "ADD", order_id |-> next_order_id, client |-> client,
             side |-> side, quantity |-> quantity, limit_price |-> price]
  /\ next_order_id' = next_order_id + 1
  /\ pc' = "match"
  /\ LET accepted == ClientResponse("ACCEPTED", client, next_order_id, side,
                                    quantity, price)
     IN  responses' = <<accepted>> /\ ledger' = Booked(ledger, accepted)
  /\ updates' = <<>>
  /\ UNCHANGED <<bookVars, next_trade_id, cursor, victim, status, mirror, orphaned>>

\* One iteration of checkForMatch(): match() against the top order of the best
\* opposite level, and removePriceLevel() if that level has become empty.
match ==
  /\ pc = "match" /\ status = "running" /\ CanMatch
  /\ LET top   == best[Opposite(req.side)]
         maker == Head(level_orders[top])
         price == order[maker].limit_price
         fill  == Smaller(req.quantity, order[maker].quantity)
         rest  == order[maker].quantity - fill
         home  == price_levels[price]      \* getPriceLevel(limit_price)
         trade == MarketUpdate("TRADE", Null, next_trade_id, req.side, fill, price)
         change ==
           IF rest = 0
           THEN MarketUpdate("REMOVE", maker, Null, order[maker].side, fill, price)
           ELSE MarketUpdate("MODIFY", maker, Null, order[maker].side, rest, price)
         toMaker == ClientResponse("FILLED", order[maker].client, maker,
                                   order[maker].side, fill, price)
         toTaker == ClientResponse("FILLED", req.client, req.order_id,
                                   req.side, fill, price)
     IN  /\ level_orders[top] # <<>>
         /\ order' = [order EXCEPT ![maker].quantity = rest]
         /\ req' = [req EXCEPT !.quantity = @ - fill]
         /\ next_trade_id' = next_trade_id + 1
         /\ level_orders' =
              IF rest = 0
              THEN [level_orders EXCEPT ![home] = Unlinked(@, Position(@, maker))]
              ELSE level_orders
         /\ responses' = <<toMaker, toTaker>>
         /\ updates' = <<trade, change>>
         /\ ledger' = Booked(Booked(ledger, toMaker), toTaker)
         /\ mirror' = Applied(Applied(mirror, trade), change)
         /\ IF Emptied(top)
            THEN EnterRemove(top)
            ELSE UNCHANGED <<pc, victim, cursor>>
  /\ UNCHANGED <<level_side, level_price, level_next, available, next_free,
                 orders_used, price_levels, best, next_order_id, status, orphaned>>

\* The best opposite level is an empty one: match() dereferences the null
\* top_order.
matchNullOrder ==
  /\ pc = "match" /\ status = "running" /\ CanMatch
  /\ level_orders[best[Opposite(req.side)]] = <<>>
  /\ status' = "segv"
  /\ Silent
  /\ UNCHANGED <<bookVars, counters, pc, req, cursor, victim, orphaned>>

\* The loop ends with nothing left to place.
filled ==
  /\ pc = "match" /\ status = "running" /\ ~CanMatch
  /\ req.quantity = 0
  /\ pc' = "idle" /\ req' = NoRequest /\ cursor' = Null /\ victim' = Null
  /\ Silent
  /\ UNCHANGED <<bookVars, counters, status, orphaned>>

\* The loop ends with a remainder: getPriceLevel(limit_price, side, true).
getPriceLevel ==
  /\ pc = "match" /\ status = "running" /\ ~CanMatch
  /\ req.quantity # 0
  /\ LET found == price_levels[req.limit_price]
     IN  IF found # Null
         THEN pc' = "place" /\ cursor' = found
         ELSE pc' = "insert" /\ cursor' = best[BookSide(req.side)]
  /\ victim' = Null
  /\ Silent
  /\ UNCHANGED <<bookVars, counters, req, status, orphaned>>

-----------------------------------------------------------------------------
(* insertPriceLevel() and the rest of add().                               *)

\* The condition of the walk to the place of the new level; in the mutant the
\* comparison is the other way round.
InsertGoesOnInverted ==
  cursor # Null /\ Better(BookSide(req.side), req.limit_price, level_price[cursor])

InsertGoesOn ==
  cursor # Null /\ Better(BookSide(req.side), level_price[cursor], req.limit_price)

insertWalk ==
  /\ pc = "insert" /\ status = "running" /\ InsertGoesOn
  /\ cursor' = level_next[cursor]
  /\ Silent
  /\ UNCHANGED <<bookVars, counters, pc, req, victim, status, orphaned>>

\* The new level points to the level the walk stopped at.  It becomes the best
\* level if that was the best one; no other level is made to point to it.
insertPriceLevel ==
  /\ pc = "insert" /\ status = "running" /\ ~InsertGoesOn
  /\ ~LevelPool!Full(LevelPool!Taken(available, next_free))
  /\ LET side == BookSide(req.side)
     IN  /\ level_side' = [level_side EXCEPT ![next_free] = req.side]
         /\ level_price' = [level_price EXCEPT ![next_free] = req.limit_price]
         /\ level_next' = [level_next EXCEPT ![next_free] = cursor]
         /\ level_orders' = [level_orders EXCEPT ![next_free] = <<>>]
         /\ price_levels' = [price_levels EXCEPT ![req.limit_price] = next_free]
         /\ best' = IF cursor = best[side]
                    THEN [best EXCEPT ![side] = next_free] ELSE best
         /\ orphaned' = (orphaned \/ cursor # best[side])
  /\ available' = LevelPool!Taken(available, next_free)
  /\ next_free' = LevelPool!FirstFree(available', next_free)
  /\ pc' = "place" /\ cursor' = next_free
  /\ Silent
  /\ UNCHANGED <<order, orders_used, counters, req, victim, status>>

\* The last price level block is taken: "Buffer is full."
priceLevelPoolFull ==
  /\ pc = "insert" /\ status = "running" /\ ~InsertGoesOn
  /\ LevelPool!Full(LevelPool!Taken(available, next_free))
  /\ available' = LevelPool!Taken(available, next_free)
  /\ status' = "exit"
  /\ Silent
  /\ UNCHANGED <<order, level_side, level_price, level_next, level_orders,
                 next_free, orders_used, price_levels, best, counters,
                 pc, req, cursor, victim, orphaned>>

\* order_pool has a block to hand out and one more for next_free; the mutant
\* forgets the second.
SomeOrderBlockLeft == orders_used < MAX_ORDER_IDS

OrderBlockLeft == orders_used + 1 < MAX_ORDER_IDS

\* order_pool.getObject(), OrdersPriceLevel::add() at the end of the list, and
\* the ADD update.
placeOrder ==
  /\ pc = "place" /\ status = "running"
  /\ OrderBlockLeft
  /\ LET o   == req.order_id
         new == MarketUpdate("ADD", o, Null, req.side, req.quantity, req.limit_price)
     IN  /\ orders_used' = orders_used + 1
         /\ order' = [order EXCEPT ![o] =
              [client |-> req.client, side |-> req.side,
               quantity |-> req.quantity, limit_price |-> req.limit_price]]
         /\ level_side' = IF level_orders[cursor] = <<>>
                          THEN [level_side EXCEPT ![cursor] = req.side]
                          ELSE level_side
         /\ level_orders' = [level_orders EXCEPT ![cursor] = Append(@, o)]
         /\ updates' = <<new>> /\ mirror' = Applied(mirror, new)
  /\ responses' = <<>>
  /\ pc' = "idle" /\ req' = NoRequest /\ cursor' = Null
  /\ UNCHANGED <<level_price, level_next, available, next_free, price_levels,
                 best, counters, victim, status, ledger, orphaned>>

\* The last order block is taken: "Buffer is full."
orderPoolFull ==
  /\ pc = "place" /\ status = "running"
  /\ ~OrderBlockLeft
  /\ orders_used' = MAX_ORDER_IDS
  /\ status' = "exit"
  /\ Silent
  /\ UNCHANGED <<order, level_side, level_price, level_next, level_orders,
                 available, next_free, price_levels, best, counters,
                 pc, req, cursor, victim, orphaned>>

-----------------------------------------------------------------------------
(* cancel().  Neither the client nor the side of the request is compared   *)
(* with the order's: the level at the price and the order id decide.       *)

cancel(client, o, side, price) ==
  LET l == price_levels[price]
  IN  /\ pc = "idle" /\ status = "running"
      /\ l # Null /\ Holds(l, o)
      /\ req' = [type |-> "CANCEL", order_id |-> o, client |-> client,
                 side |-> side, quantity |-> order[o].quantity,
                 limit_price |-> price]
      /\ level_orders' =
           [level_orders EXCEPT ![l] = Unlinked(@, Position(@, o))]
      /\ IF Emptied(l)
         THEN EnterRemove(l)
         ELSE pc' = "reply" /\ UNCHANGED <<victim, cursor>>
      /\ Silent
      /\ UNCHANGED <<order, level_side, level_price, level_next, available,
                     next_free, orders_used, price_levels, best, counters,
                     status, orphaned>>

cancelReply ==
  /\ pc = "reply" /\ status = "running"
  /\ LET canceled == ClientResponse("CANCELED", req.client, req.order_id,
                                    req.side, req.quantity, req.limit_price)
         removed  == MarketUpdate("REMOVE", req.order_id, Null, req.side,
                                  req.quantity, req.limit_price)
     IN  /\ responses' = <<canceled>> /\ ledger' = Booked(ledger, canceled)
         /\ updates' = <<removed>> /\ mirror' = Applied(mirror, removed)
  /\ pc' = "idle" /\ req' = NoRequest /\ cursor' = Null /\ victim' = Null
  /\ UNCHANGED <<bookVars, counters, status, orphaned>>

\* No level at that price, or no such order at that level.
cancelRejected(client, o, side, price) ==
  /\ pc = "idle" /\ status = "running"
  /\ price_levels[price] # Null => ~Holds(price_levels[price], o)
  /\ responses' = <<ClientResponse("CANCEL_REJECTED", client, o, "INVALID", Null, Null)>>
  /\ updates' = <<>>
  /\ UNCHANGED <<bookVars, counters, control, ledger, mirror, orphaned>>

-----------------------------------------------------------------------------
(* removePriceLevel(), called by checkForMatch() and by cancel().          *)

\* The loop condition compares the prices of the level after prev and of the
\* argument.
RemoveFound ==
  cursor # Null => /\ level_next[cursor] # Null
                   /\ level_price[level_next[cursor]] = level_price[victim]

removeWalk ==
  /\ pc = "remove" /\ status = "running"
  /\ cursor # Null /\ level_next[cursor] # Null /\ ~RemoveFound
  /\ cursor' = level_next[cursor]
  /\ Silent
  /\ UNCHANGED <<bookVars, counters, pc, req, victim, status, orphaned>>

\* The walk runs off the end of the list: null dereferenced.
removeWalkNull ==
  /\ pc = "remove" /\ status = "running"
  /\ cursor # Null /\ level_next[cursor] = Null
  /\ status' = "segv"
  /\ Silent
  /\ UNCHANGED <<bookVars, counters, pc, req, cursor, victim, orphaned>>

\* price_levels[getPriceLevelIndex(price)] = nullptr; the mutant leaves it out.
StillIndexed(l) == price_levels

Unindexed(l) == [price_levels EXCEPT ![level_price[l]] = Null]

removePriceLevel ==
  /\ pc = "remove" /\ status = "running" /\ RemoveFound
  /\ IF cursor = Null
     THEN /\ best' = [best EXCEPT ![BookSide(level_side[victim])] = level_next[victim]]
          /\ UNCHANGED level_next
     ELSE /\ level_next' = [level_next EXCEPT ![cursor] = level_next[victim]]
          /\ UNCHANGED best
  /\ price_levels' = Unindexed(victim)
  /\ available' = [available EXCEPT ![victim] = TRUE]
  /\ status' = IF available[victim] THEN "exit" ELSE status
  /\ pc' = IF req.type = "ADD" THEN "match" ELSE "reply"
  /\ cursor' = Null /\ victim' = Null
  /\ Silent
  /\ UNCHANGED <<order, level_side, level_price, level_orders, next_free,
                 orders_used, counters, req, orphaned>>

-----------------------------------------------------------------------------
\* After a crash or an exit() nothing happens.
Halted == status # "running" /\ UNCHANGED vars

Next ==
  \/ \E c \in Clients, s \in RequestSides, q \in Quantities, p \in Prices :
       add(c, s, q, p)
  \/ \E c \in Clients, o \in OrderIds, s \in RequestSides, p \in Prices :
       cancel(c, o, s, p) \/ cancelRejected(c, o, s, p)
  \/ match \/ matchNullOrder \/ filled
  \/ getPriceLevel \/ insertWalk \/ insertPriceLevel \/ priceLevelPoolFull
  \/ placeOrder \/ orderPoolFull
  \/ removeWalk \/ removeWalkNull \/ removePriceLevel \/ cancelReply
  \/ Halted

Spec == Init /\ [][Next]_vars
=============================================================================
