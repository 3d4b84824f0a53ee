------------------------ MODULE OrderBookProperties -------------------------
(***************************************************************************)
(* What the order book guarantees.  The first group of properties holds    *)
(* for every sequence of requests.  The second group holds as long as      *)
(* every price level has been created at the head of its side, which is    *)
(* where insertPriceLevel() links it (orphaned is FALSE); the last group   *)
(* states what the tests and documents expect without that restriction.    *)
(***************************************************************************)
EXTENDS OrderBook

Resting(o) == \E l \in Levels : Holds(l, o)

\* cancel() has taken order o out of its level and not yet reported it.
BeingCanceled(o) == req.type = "CANCEL" /\ req.order_id = o

-----------------------------------------------------------------------------
\* A price maps to a level exactly if that level's block is in use and has
\* that price.
LevelsIndexed ==
  /\ \A p \in Prices : price_levels[p] # Null =>
       /\ ~available[price_levels[p]]
       /\ level_price[price_levels[p]] = p
  /\ \A l \in Levels : ~available[l] /\ status # "exit" =>
       /\ level_price[l] \in Prices
       /\ price_levels[level_price[l]] = l

\* A level in use holds an order, except the one that is being removed or
\* has just been created: so the dereference of top_order in
\* OrdersPriceLevel::cancel() is safe, and no block is leaked.
LevelsOccupied ==
  \A l \in Levels :
    /\ level_orders[l] # <<>> => ~available[l]
    /\ ~available[l] /\ level_orders[l] = <<>> /\ status # "exit" =>
         \/ pc = "remove" /\ l = victim
         \/ pc = "place" /\ l = cursor

\* Orders at one price are queued in the order of their acceptance, each with
\* a positive quantity, at the level of its own limit price.
TimePriority ==
  \A l \in Levels : \A i \in 1 .. Len(level_orders[l]) :
    LET o == level_orders[l][i]
    IN  /\ order[o].quantity > 0
        /\ order[o].limit_price = level_price[l]
        /\ \A j \in 1 .. (i - 1) : level_orders[l][j] < o

\* Nobody is filled at a price worse than the limit of the incoming order.
TradesWithinLimit ==
  \A i \in 1 .. Len(updates) : updates[i].type = "TRADE" =>
    /\ req.type = "ADD"
    /\ ~Better(Opposite(req.side), req.limit_price, updates[i].price)

\* A subscriber that applies the market updates as they are pushed has the
\* exact book: every resting order, with its side, quantity and price.
MirrorExact ==
  \A o \in OrderIds :
    mirror[o] = IF Resting(o) \/ BeingCanceled(o)
                THEN [side |-> order[o].side, quantity |-> order[o].quantity,
                      price |-> order[o].limit_price]
                ELSE Null

\* The quantity accepted for an order is what was reported filled, what was
\* reported canceled, and what is still open.
OpenQuantity(o) ==
  IF req.order_id = o THEN req.quantity
  ELSE IF Resting(o) THEN order[o].quantity ELSE 0

QuantityConserved ==
  \A o \in OrderIds :
    ledger[o].accepted = ledger[o].filled + ledger[o].canceled + OpenQuantity(o)

-----------------------------------------------------------------------------
LiveOn(side) == {l \in Levels : ~available[l] /\ BookSide(level_side[l]) = side}

\* From the best level on, each list visits all levels of its side, from the
\* best price to the worst: a level's successor is the next worse level.
ChainComplete ==
  \A side \in {"BUY", "SELL"} :
    LET On == LiveOn(side)
    IN  /\ IF On = {} THEN best[side] = Null
           ELSE /\ best[side] \in On
                /\ \A l \in On : ~Better(side, level_price[l], level_price[best[side]])
        /\ \A l \in On :
             LET worse == {m \in On : Better(side, level_price[l], level_price[m])}
             IN  IF worse = {} THEN level_next[l] = Null
                 ELSE /\ level_next[l] \in worse
                      /\ \A m \in worse :
                           ~Better(side, level_price[m], level_price[level_next[l]])

\* Between requests no resting bid reaches a resting ask.
Uncrossed ==
  pc = "idle" =>
    \A b, a \in OrderIds :
      Resting(b) /\ Resting(a) /\ order[b].side = "BUY" /\ order[a].side # "BUY"
        => order[b].limit_price < order[a].limit_price

\* No null pointer has been dereferenced.
NoNullDereference == status # "segv"

\* Head insertions only: the book is sorted and complete, not crossed, and
\* no request crashes the process.  (A getObject() that exits has already taken
\* its block.)
SoundUntilOrphaned ==
  ~orphaned => /\ status # "exit" => ChainComplete
               /\ Uncrossed
               /\ NoNullDereference

\* Head insertions only: an incoming order trades with the resting order that
\* has the best price and, at that price, came first.
PriceTimeStep ==
  \A o, r \in OrderIds :
    /\ pc = "match" /\ order'[o].quantity < order[o].quantity
    /\ Resting(r) /\ BookSide(order[r].side) = BookSide(order[o].side)
    => /\ ~Better(BookSide(order[o].side), order[r].limit_price, order[o].limit_price)
       /\ order[r].limit_price = order[o].limit_price => o <= r

PriceTimePriority == [][~orphaned => PriceTimeStep]_vars

\* price_level_pool is used within its contract: the blocks that price_levels
\* refers to are the ones it holds, and each is released once.
LevelPoolContract == LevelPool!Spec

\* order_pool behaves as the counter orders_used says: no block is released,
\* and the process exits when the last one is taken.
OrderPoolContract == OrderPool!Spec
=============================================================================
