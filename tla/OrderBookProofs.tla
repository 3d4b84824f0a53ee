-------------------------- MODULE OrderBookProofs ---------------------------
(***************************************************************************)
(* OrderBook, for every set of prices and clients, every number of orders  *)
(* and every size of the pools.                                            *)
(***************************************************************************)
EXTENDS OrderBookProperties, TLAPS

\* What the thread knows about the request it is serving.
RequestKnown ==
  /\ pc = "idle" => req = NoRequest
  /\ pc \in {"match", "insert", "place"} => req.type = "ADD"
  /\ pc = "remove" => req.type \in {"ADD", "CANCEL"}
  /\ pc = "reply" => req.type = "CANCEL"
  /\ req.type # "NONE" => req.order_id \in OrderIds /\ req.limit_price \in Prices
  /\ pc \in {"insert", "place"} => req.quantity > 0

\* What the thread knows about the level it is about to create, fill or remove.
LevelKnown ==
  /\ pc = "insert" => price_levels[req.limit_price] = Null
  /\ pc = "place" => cursor # Null /\ price_levels[req.limit_price] = cursor
  /\ pc = "remove" => /\ victim \in Levels
                      /\ ~available[victim]
                      /\ level_orders[victim] = <<>>

\* Every queued order was accepted before the one that is being added.
QueuedEarlier ==
  /\ req.type = "ADD" => req.order_id < next_order_id
  /\ \A l \in Levels : \A i \in 1 .. Len(level_orders[l]) :
       /\ level_orders[l][i] < next_order_id
       /\ req.type = "ADD" => level_orders[l][i] < req.order_id

\* The pool is ready for the next getObject().
FreeBlockReady == status # "exit" => available[next_free]

BookInvariant ==
  /\ TypeOK
  /\ RequestKnown /\ LevelKnown /\ QueuedEarlier /\ FreeBlockReady
  /\ LevelsIndexed /\ LevelsOccupied /\ TimePriority

LevelPoolProofs == INSTANCE ObjectPoolProofs WITH
  Size   <- MAX_PRICE_LEVELS,
  live   <- {l \in Levels : \E p \in Prices : price_levels[p] = l},
  exited <- status = "exit" /\ pc # "place"

-----------------------------------------------------------------------------
(* The operators.                                                          *)

\* price_level_pool finds a free block unless all are taken.
LEMMA NextFreeAvailable ==
  ASSUME NEW avail \in [Levels -> BOOLEAN], NEW start \in Levels, ~LevelPool!Full(avail)
  PROVE  /\ LevelPool!FirstFree(avail, start) \in Levels
         /\ avail[LevelPool!FirstFree(avail, start)]
BY LevelPoolProofs!FirstFreeAvailable, ConstantsAssumption
   DEF Levels, LevelPoolProofs!Blocks, LevelPool!Blocks, LevelPoolProofs!Full, LevelPool!Full,
       LevelPoolProofs!FirstFree, LevelPool!FirstFree, LevelPool!StepsFrom, LevelPoolProofs!StepsFrom

\* What a client has added up stays a table of amounts.
LEMMA BookedType ==
  ASSUME NEW accounts \in [OrderIds -> Accounts], NEW r, r.quantity \in Nat
  PROVE  Booked(accounts, r) \in [OrderIds -> Accounts]
<1> DEFINE o == r.order_id
           A == accounts[o]
<1>1. CASE o \in OrderIds
  <2>1. A \in Accounts
    BY <1>1
  <2>2. /\ [A EXCEPT !.accepted = r.quantity] \in Accounts
        /\ [A EXCEPT !.filled = @ + r.quantity] \in Accounts
        /\ [A EXCEPT !.canceled = @ + r.quantity] \in Accounts
    BY <2>1 DEF Accounts
  <2> HIDE DEF A
  <2>3. \A a \in Accounts : [accounts EXCEPT ![o] = a] \in [OrderIds -> Accounts]
    BY <1>1
  <2> QED  BY <2>2, <2>3 DEF Booked, A
<1>2. CASE o \notin OrderIds
  BY <1>2 DEF Booked
<1> QED  BY <1>1, <1>2

\* What a subscriber has rebuilt stays a table of quotes.
LEMMA AppliedType ==
  ASSUME NEW quotes \in [OrderIds -> Quotes \cup {Null}], NEW u,
         u.side \in OrderSide, u.quantity \in Nat, u.price \in Prices
  PROVE  Applied(quotes, u) \in [OrderIds -> Quotes \cup {Null}]
BY DEF Applied, Quotes

\* A side of the book is one of the two.
LEMMA SidesAreTwo ==
  ASSUME NEW side
  PROVE  BookSide(side) \in {"BUY", "SELL"} /\ Opposite(side) \in {"BUY", "SELL"}
BY DEF BookSide, Opposite

\* Unlinking position i keeps the other orders, in their order.
LEMMA UnlinkedFacts ==
  ASSUME NEW s \in Seq(OrderIds), NEW i \in 1 .. Len(s)
  PROVE  /\ Unlinked(s, i) \in Seq(OrderIds)
         /\ Len(Unlinked(s, i)) = Len(s) - 1
         /\ \A j \in 1 .. (Len(s) - 1) :
              Unlinked(s, i)[j] = IF j < i THEN s[j] ELSE s[j + 1]
<1> DEFINE n == Len(s) - 1
           f == [j \in 1 .. n |-> IF j < i THEN s[j] ELSE s[j + 1]]
<1>1. n \in Nat
  OBVIOUS
<1>2. \A j \in 1 .. n : (IF j < i THEN s[j] ELSE s[j + 1]) \in OrderIds
  OBVIOUS
<1>3. f \in Seq(OrderIds) /\ Len(f) = n
  BY <1>1, <1>2
<1> QED  BY <1>3 DEF Unlinked

\* The position of an order that is in the list.
LEMMA PositionFacts ==
  ASSUME NEW s \in Seq(OrderIds), NEW o, \E i \in 1 .. Len(s) : s[i] = o
  PROVE  Position(s, o) \in 1 .. Len(s) /\ s[Position(s, o)] = o
BY DEF Position

-----------------------------------------------------------------------------
(* The initial states, and the steps that leave the book alone.            *)

LEMMA InitEstablishesBook == Init => BookInvariant
<1> SUFFICES ASSUME Init PROVE BookInvariant
  OBVIOUS
<1> USE ConstantsAssumption
<1>1. TypeOK
  <2>1. NoRequest \in Request
    BY DEF NoRequest, Request, OrderSide
  <2>2. 0 \in Levels
    BY DEF Levels
  <2>3. /\ order \in [OrderIds -> OrderRecord]
        /\ level_side \in [Levels -> OrderSide]
        /\ level_orders \in [Levels -> Seq(OrderIds)]
        /\ ledger \in [OrderIds -> Accounts]
    BY DEF Init, OrderRecord, OrderSide, Accounts
  <2>4. available \in [Levels -> BOOLEAN] /\ orphaned \in BOOLEAN
    BY DEF Init
  <2> QED  BY <2>1, <2>2, <2>3, <2>4 DEF Init, TypeOK, Pointer
<1>2. RequestKnown /\ LevelKnown /\ FreeBlockReady
  BY DEF Init, RequestKnown, LevelKnown, FreeBlockReady, NoRequest, Levels
<1>3. QueuedEarlier /\ LevelsOccupied /\ TimePriority
  BY DEF Init, QueuedEarlier, LevelsOccupied, TimePriority, NoRequest
<1>4. LevelsIndexed
  BY DEF Init, LevelsIndexed
<1> QED  BY <1>1, <1>2, <1>3, <1>4 DEF BookInvariant

\* The book and the exit status are unchanged: the queues, the index and the
\* pool are what they were.
LEMMA BookUntouched ==
  ASSUME BookInvariant, UNCHANGED bookVars, status' = "exit" <=> status = "exit"
  PROVE  LevelsIndexed' /\ TimePriority' /\ FreeBlockReady'
BY DEF BookInvariant, bookVars, LevelsIndexed, TimePriority, FreeBlockReady

LEMMA AddPreservesBook ==
  ASSUME BookInvariant, NEW c \in Clients, NEW s \in RequestSides,
         NEW n \in Quantities, NEW p \in Prices, add(c, s, n, p)
  PROVE  BookInvariant'
<1> USE DEF BookInvariant
<1>1. req' \in Request /\ n \in Nat /\ next_order_id \in OrderIds
  BY ConstantsAssumption DEF add, Request, TypeOK, OrderIds
<1>2. ledger' \in [OrderIds -> Accounts]
  BY <1>1, BookedType DEF add, TypeOK, ClientResponse
<1>3. TypeOK'
  BY <1>1, <1>2, ConstantsAssumption DEF add, TypeOK, bookVars
<1>4. RequestKnown' /\ LevelKnown'
  BY <1>1 DEF add, RequestKnown, LevelKnown
<1>5. QueuedEarlier'
  BY <1>1, ConstantsAssumption DEF add, QueuedEarlier, bookVars, TypeOK, OrderIds
<1>6. LevelsOccupied'
  BY DEF add, LevelsOccupied, bookVars
<1> QED  BY <1>3, <1>4, <1>5, <1>6, BookUntouched DEF add

LEMMA SilentStepsPreserveBook ==
  ASSUME BookInvariant, matchNullOrder \/ filled \/ insertWalk \/ removeWalk \/ removeWalkNull
  PROVE  BookInvariant'
<1> USE DEF BookInvariant
<1>1. CASE matchNullOrder
  BY <1>1, BookUntouched DEF matchNullOrder, Silent, bookVars, counters, TypeOK, RequestKnown,
     LevelKnown, QueuedEarlier, LevelsOccupied
<1>2. CASE filled
  <2>1. NoRequest \in Request
    BY ConstantsAssumption DEF NoRequest, Request, OrderSide
  <2>2. TypeOK'
    BY <1>2, <2>1 DEF filled, Silent, bookVars, counters, TypeOK, Pointer
  <2>3. RequestKnown' /\ LevelKnown' /\ QueuedEarlier' /\ LevelsOccupied'
    BY <1>2 DEF filled, bookVars, counters, NoRequest, RequestKnown, LevelKnown, QueuedEarlier,
       LevelsOccupied
  <2> QED  BY <1>2, <2>2, <2>3, BookUntouched DEF filled
<1>3. CASE insertWalk
  <2>1. cursor' \in Pointer
    BY <1>3 DEF insertWalk, InsertGoesOn, TypeOK, Pointer
  <2> QED
    BY <1>3, <2>1, BookUntouched DEF insertWalk, Silent, bookVars, counters, TypeOK, RequestKnown,
       LevelKnown, QueuedEarlier, LevelsOccupied
<1>4. CASE removeWalk
  <2>1. cursor' \in Pointer
    BY <1>4 DEF removeWalk, TypeOK, Pointer
  <2> QED
    BY <1>4, <2>1, BookUntouched DEF removeWalk, Silent, bookVars, counters, TypeOK, RequestKnown,
       LevelKnown, QueuedEarlier, LevelsOccupied
<1>5. CASE removeWalkNull
  BY <1>5, BookUntouched DEF removeWalkNull, Silent, bookVars, counters, TypeOK, RequestKnown,
     LevelKnown, QueuedEarlier, LevelsOccupied
<1> QED  BY <1>1, <1>2, <1>3, <1>4, <1>5

LEMMA GetPriceLevelPreservesBook ==
  ASSUME BookInvariant, getPriceLevel
  PROVE  BookInvariant'
<1> USE DEF BookInvariant
<1>1. req.limit_price \in Prices
  BY DEF getPriceLevel, RequestKnown
<1>2. cursor' \in Pointer /\ victim' \in Pointer /\ pc' \in {"insert", "place"}
  BY <1>1, SidesAreTwo DEF getPriceLevel, TypeOK, Pointer
<1>3. TypeOK'
  BY <1>2 DEF getPriceLevel, Silent, bookVars, counters, TypeOK
<1>4. RequestKnown'
  BY <1>2 DEF getPriceLevel, RequestKnown, TypeOK, Request
<1>5. LevelKnown'
  BY DEF getPriceLevel, LevelKnown, bookVars
<1>6. QueuedEarlier' /\ LevelsOccupied'
  BY DEF getPriceLevel, QueuedEarlier, LevelsOccupied, bookVars, counters
<1> QED  BY <1>3, <1>4, <1>5, <1>6, BookUntouched DEF getPriceLevel

LEMMA RepliesPreserveBook ==
  ASSUME BookInvariant,
         \/ cancelReply
         \/ \E c \in Clients, o \in OrderIds, s \in RequestSides, p \in Prices :
              cancelRejected(c, o, s, p)
         \/ Halted
         \/ UNCHANGED vars
  PROVE  BookInvariant'
<1> USE DEF BookInvariant
<1>1. CASE cancelReply
  <2>1. req.limit_price \in Prices /\ req.side \in OrderSide /\ req.quantity \in Nat
    BY <1>1 DEF cancelReply, RequestKnown, TypeOK, Request
  <2>2. ledger' \in [OrderIds -> Accounts] /\ mirror' \in [OrderIds -> Quotes \cup {Null}]
    BY <1>1, <2>1, BookedType, AppliedType DEF cancelReply, TypeOK, ClientResponse, MarketUpdate
  <2>3. NoRequest \in Request
    BY ConstantsAssumption DEF NoRequest, Request, OrderSide
  <2>4. TypeOK'
    BY <1>1, <2>2, <2>3 DEF cancelReply, bookVars, counters, TypeOK, Pointer
  <2>5. RequestKnown' /\ LevelKnown' /\ QueuedEarlier' /\ LevelsOccupied'
    BY <1>1 DEF cancelReply, bookVars, counters, NoRequest, RequestKnown, LevelKnown, QueuedEarlier,
       LevelsOccupied
  <2> QED  BY <1>1, <2>4, <2>5, BookUntouched DEF cancelReply
<1>2. ASSUME \/ \E c \in Clients, o \in OrderIds, s \in RequestSides, p \in Prices :
                  cancelRejected(c, o, s, p)
             \/ Halted \/ UNCHANGED vars
      PROVE  BookInvariant'
  <2>1. UNCHANGED <<bookVars, counters, control, ledger, mirror, orphaned>>
    BY <1>2 DEF cancelRejected, Halted, vars, outputs
  <2> QED
    BY <2>1, BookUntouched DEF bookVars, counters, control, TypeOK, RequestKnown, LevelKnown,
       QueuedEarlier, LevelsOccupied
<1> QED  BY <1>1, <1>2

-----------------------------------------------------------------------------
(* The steps that create, fill and remove levels.                          *)

LEMMA PoolsFullPreserveBook ==
  ASSUME BookInvariant, priceLevelPoolFull \/ orderPoolFull
  PROVE  BookInvariant'
<1> USE DEF BookInvariant
<1>1. CASE priceLevelPoolFull
  <2>1. available' = [available EXCEPT ![next_free] = FALSE] /\ status' = "exit"
    BY <1>1 DEF priceLevelPoolFull, LevelPool!Taken
  <2>2. TypeOK'
    BY <1>1, <2>1 DEF priceLevelPoolFull, Silent, counters, TypeOK
  <2>3. RequestKnown' /\ LevelKnown' /\ QueuedEarlier' /\ FreeBlockReady' /\ TimePriority'
    BY <1>1, <2>1 DEF priceLevelPoolFull, counters, RequestKnown, LevelKnown, QueuedEarlier,
       FreeBlockReady, TimePriority
  <2>4. LevelsIndexed' /\ LevelsOccupied'
    BY <1>1, <2>1 DEF priceLevelPoolFull, LevelsIndexed, LevelsOccupied, TypeOK, Pointer
  <2> QED  BY <2>2, <2>3, <2>4
<1>2. CASE orderPoolFull
  BY <1>2, ConstantsAssumption DEF orderPoolFull, Silent, counters, TypeOK, RequestKnown,
     LevelKnown, QueuedEarlier, FreeBlockReady, TimePriority, LevelsIndexed, LevelsOccupied
<1> QED  BY <1>1, <1>2

LEMMA InsertPreservesBook ==
  ASSUME BookInvariant, insertPriceLevel
  PROVE  BookInvariant'
<1> USE DEF BookInvariant
<1> DEFINE new == next_free
           p == req.limit_price
<1>1. /\ p \in Prices /\ p # Null /\ new \in Levels /\ new # Null /\ available[new]
      /\ price_levels[p] = Null /\ status = "running" /\ pc = "insert" /\ req.side \in OrderSide
  BY ConstantsAssumption
     DEF insertPriceLevel, RequestKnown, LevelKnown, FreeBlockReady, TypeOK, Request
<1>2. level_orders[new] = <<>> /\ level_orders' = level_orders
  <2>1. level_orders[new] = <<>>
    BY <1>1 DEF LevelsOccupied
  <2> QED  BY <2>1 DEF insertPriceLevel, TypeOK
<1>3. /\ available' = [available EXCEPT ![new] = FALSE]
      /\ next_free' \in Levels /\ available'[next_free']
  <2>1. available' = [available EXCEPT ![new] = FALSE] /\ ~LevelPool!Full(available')
    BY DEF insertPriceLevel, LevelPool!Taken
  <2>2. available' \in [Levels -> BOOLEAN]
    BY <2>1 DEF TypeOK
  <2>3. next_free' = LevelPool!FirstFree(available', new)
    BY DEF insertPriceLevel
  <2> QED  BY <1>1, <2>1, <2>2, <2>3, NextFreeAvailable
<1>4. /\ level_side' = [level_side EXCEPT ![new] = req.side]
      /\ level_price' = [level_price EXCEPT ![new] = p]
      /\ level_next' = [level_next EXCEPT ![new] = cursor]
      /\ price_levels' = [price_levels EXCEPT ![p] = new]
      /\ pc' = "place" /\ cursor' = new /\ req' = req /\ status' = status
      /\ order' = order /\ next_order_id' = next_order_id
  BY DEF insertPriceLevel, counters
<1>5. best' \in [{"BUY", "SELL"} -> Pointer] /\ orphaned' \in BOOLEAN
  BY <1>1, SidesAreTwo DEF insertPriceLevel, TypeOK, Pointer
<1>6. TypeOK'
  <2>1. available' \in [Levels -> BOOLEAN]
    BY <1>3 DEF TypeOK
  <2>2. /\ level_side' \in [Levels -> OrderSide] /\ level_price' \in [Levels -> Prices \cup {Null}]
        /\ level_next' \in [Levels -> Pointer] /\ price_levels' \in [Prices -> Pointer]
        /\ cursor' \in Pointer
    BY <1>1, <1>4 DEF TypeOK, Pointer
  <2> QED  BY <1>2, <1>3, <1>4, <1>5, <2>1, <2>2 DEF insertPriceLevel, counters, Silent, TypeOK
<1>7. RequestKnown' /\ LevelKnown' /\ QueuedEarlier'
  BY <1>1, <1>2, <1>4 DEF RequestKnown, LevelKnown, QueuedEarlier, TypeOK
<1>8. FreeBlockReady'
  BY <1>3 DEF FreeBlockReady
<1>9. TimePriority'
  BY <1>1, <1>2, <1>4 DEF TimePriority, TypeOK
<1>10. LevelsIndexed'
  <2>1. ASSUME NEW x \in Prices, price_levels'[x] # Null
        PROVE  ~available'[price_levels'[x]] /\ level_price'[price_levels'[x]] = x
    <3>1. CASE x = p
      BY <1>1, <1>3, <1>4, <3>1 DEF TypeOK
    <3>2. CASE x # p
      <4>1. price_levels'[x] = price_levels[x] /\ price_levels[x] \in Levels
        BY <1>4, <2>1, <3>2 DEF TypeOK, Pointer
      <4>2. ~available[price_levels[x]] /\ level_price[price_levels[x]] = x
        BY <2>1, <4>1 DEF LevelsIndexed
      <4> QED  BY <1>1, <1>3, <1>4, <4>1, <4>2 DEF TypeOK
    <3> QED  BY <3>1, <3>2
  <2>2. ASSUME NEW l \in Levels, ~available'[l]
        PROVE  level_price'[l] \in Prices /\ price_levels'[level_price'[l]] = l
    <3>1. CASE l = new
      BY <1>1, <1>4, <3>1 DEF TypeOK
    <3>2. CASE l # new
      <4>1. ~available[l] /\ level_price'[l] = level_price[l]
        BY <1>3, <1>4, <2>2, <3>2 DEF TypeOK
      <4>2. level_price[l] \in Prices /\ price_levels[level_price[l]] = l
        BY <1>1, <4>1 DEF LevelsIndexed
      <4>3. level_price[l] # p
        BY <1>1, <4>2, ConstantsAssumption
      <4> QED  BY <1>4, <4>1, <4>2, <4>3 DEF TypeOK
    <3> QED  BY <3>1, <3>2
  <2> QED  BY <2>1, <2>2 DEF LevelsIndexed
<1>11. LevelsOccupied'
  BY <1>1, <1>2, <1>3, <1>4 DEF LevelsOccupied, TypeOK
<1> QED  BY <1>6, <1>7, <1>8, <1>9, <1>10, <1>11

LEMMA PlacePreservesBook ==
  ASSUME BookInvariant, placeOrder
  PROVE  BookInvariant'
<1> USE DEF BookInvariant
<1> DEFINE o == req.order_id
           new == [client |-> req.client, side |-> req.side,
                   quantity |-> req.quantity, limit_price |-> req.limit_price]
<1>1. /\ pc = "place" /\ status = "running" /\ req.type = "ADD"
      /\ o \in OrderIds /\ req.limit_price \in Prices /\ req.quantity > 0
      /\ req.side \in OrderSide /\ req.quantity \in Nat
      /\ cursor \in Levels /\ price_levels[req.limit_price] = cursor
      /\ o < next_order_id
  BY DEF placeOrder, RequestKnown, LevelKnown, QueuedEarlier, TypeOK, Request, Pointer
<1>2. ~available[cursor] /\ level_price[cursor] = req.limit_price
  BY <1>1, ConstantsAssumption DEF LevelsIndexed, TypeOK
<1>3. /\ order' = [order EXCEPT ![o] = new] /\ new \in OrderRecord
      /\ level_orders' = [level_orders EXCEPT ![cursor] = Append(level_orders[cursor], o)]
      /\ req' = NoRequest /\ pc' = "idle" /\ cursor' = Null /\ status' = status
      /\ UNCHANGED <<level_price, available, next_free, price_levels, next_order_id>>
  BY <1>1 DEF placeOrder, counters, OrderRecord, TypeOK, Request
<1>4. \A l \in Levels : /\ level_orders'[l] \in Seq(OrderIds)
                        /\ l # cursor => level_orders'[l] = level_orders[l]
  BY <1>1, <1>3 DEF TypeOK
<1>5. /\ Len(level_orders'[cursor]) = Len(level_orders[cursor]) + 1
      /\ level_orders'[cursor][Len(level_orders[cursor]) + 1] = o
      /\ \A i \in 1 .. Len(level_orders[cursor]) : level_orders'[cursor][i] = level_orders[cursor][i]
  BY <1>1, <1>3 DEF TypeOK
<1>6. TypeOK'
  <2>1. mirror' \in [OrderIds -> Quotes \cup {Null}]
    BY <1>1, AppliedType DEF placeOrder, MarketUpdate, TypeOK
  <2>2. level_side' \in [Levels -> OrderSide]
    BY <1>1 DEF placeOrder, TypeOK
  <2>3. NoRequest \in Request
    BY ConstantsAssumption DEF NoRequest, Request, OrderSide
  <2>4. order' \in [OrderIds -> OrderRecord]
    BY <1>1, <1>3 DEF TypeOK
  <2>5. level_orders' \in [Levels -> Seq(OrderIds)]
    BY <1>1, <1>3 DEF TypeOK
  <2>6. orders_used' \in 0 .. MAX_ORDER_IDS
    BY ConstantsAssumption DEF placeOrder, OrderBlockLeft, TypeOK
  <2> QED
    BY <2>1, <2>2, <2>3, <2>4, <2>5, <2>6 DEF placeOrder, counters, TypeOK, Pointer
<1>7. RequestKnown' /\ LevelKnown' /\ FreeBlockReady' /\ LevelsIndexed'
  BY <1>1, <1>3 DEF RequestKnown, LevelKnown, FreeBlockReady, LevelsIndexed, NoRequest
<1>8. QueuedEarlier'
  <2> SUFFICES ASSUME NEW l \in Levels, NEW i \in 1 .. Len(level_orders'[l])
               PROVE  level_orders'[l][i] < next_order_id
    BY <1>3 DEF QueuedEarlier, NoRequest
  <2>1. CASE l # cursor
    BY <1>4, <2>1 DEF QueuedEarlier
  <2>2. CASE l = cursor /\ i \in 1 .. Len(level_orders[cursor])
    BY <1>5, <2>2 DEF QueuedEarlier
  <2>3. CASE l = cursor /\ i = Len(level_orders[cursor]) + 1
    BY <1>1, <1>5, <2>3
  <2> QED  BY <1>1, <1>5, <2>1, <2>2, <2>3 DEF TypeOK
<1>9. LevelsOccupied'
  BY <1>1, <1>2, <1>3, <1>4, <1>5 DEF LevelsOccupied, TypeOK
<1>10. TimePriority'
  <2>1. \A l \in Levels : \A i \in 1 .. Len(level_orders[l]) :
          /\ level_orders[l][i] # o /\ level_orders[l][i] < o
          /\ level_orders[l][i] \in OrderIds
          /\ order'[level_orders[l][i]] = order[level_orders[l][i]]
    <3> SUFFICES ASSUME NEW l \in Levels, NEW i \in 1 .. Len(level_orders[l])
                 PROVE  /\ level_orders[l][i] # o /\ level_orders[l][i] < o
                        /\ level_orders[l][i] \in OrderIds
                        /\ order'[level_orders[l][i]] = order[level_orders[l][i]]
      OBVIOUS
    <3>1. level_orders[l][i] \in OrderIds
      BY DEF TypeOK
    <3>2. level_orders[l][i] < o
      BY <1>1 DEF QueuedEarlier
    <3>3. level_orders[l][i] # o
      BY <1>1, <3>1, <3>2 DEF OrderIds
    <3> QED  BY <1>3, <3>1, <3>2, <3>3 DEF TypeOK
  <2>2. order'[o].quantity > 0 /\ order'[o].limit_price = level_price[cursor]
    BY <1>1, <1>2, <1>3 DEF TypeOK
  <2> SUFFICES ASSUME NEW l \in Levels, NEW i \in 1 .. Len(level_orders'[l])
               PROVE  /\ order'[level_orders'[l][i]].quantity > 0
                      /\ order'[level_orders'[l][i]].limit_price = level_price[l]
                      /\ \A j \in 1 .. (i - 1) : level_orders'[l][j] < level_orders'[l][i]
    BY <1>3 DEF TimePriority
  <2>3. CASE l # cursor
    BY <1>4, <2>1, <2>3 DEF TimePriority
  <2>4. CASE l = cursor /\ i \in 1 .. Len(level_orders[l])
    <3>1. \A j \in 1 .. i : level_orders'[l][j] = level_orders[l][j]
      BY <1>1, <1>5, <2>4 DEF TypeOK
    <3>2. /\ order[level_orders[l][i]].quantity > 0
          /\ order[level_orders[l][i]].limit_price = level_price[l]
          /\ \A j \in 1 .. (i - 1) : level_orders[l][j] < level_orders[l][i]
      BY <2>4 DEF TimePriority
    <3>3. order'[level_orders[l][i]] = order[level_orders[l][i]]
      BY <2>1, <2>4
    <3>4. level_orders'[l][i] = level_orders[l][i]
      BY <3>1, <2>4
    <3>5. \A j \in 1 .. (i - 1) : j \in 1 .. i
      BY <2>4
    <3> QED  BY <3>1, <3>2, <3>3, <3>4, <3>5
  <2>5. CASE l = cursor /\ i = Len(level_orders[l]) + 1
    <3>1. level_orders'[l][i] = o
      BY <1>5, <2>5
    <3>2. \A j \in 1 .. (i - 1) : j \in 1 .. Len(level_orders[l])
      BY <2>5 DEF TypeOK
    <3>3. \A j \in 1 .. (i - 1) : level_orders'[l][j] < o
      BY <1>5, <2>1, <2>5, <3>2
    <3> QED  BY <2>2, <2>5, <3>1, <3>3
  <2> QED  BY <1>5, <2>3, <2>4, <2>5 DEF TypeOK
<1> QED  BY <1>6, <1>7, <1>8, <1>9, <1>10

LEMMA RemovePreservesBook ==
  ASSUME BookInvariant, removePriceLevel
  PROVE  BookInvariant'
<1> USE DEF BookInvariant
<1>1. /\ victim \in Levels /\ ~available[victim] /\ level_orders[victim] = <<>>
      /\ pc = "remove" /\ status = "running"
  BY DEF removePriceLevel, LevelKnown
<1>2. level_price[victim] \in Prices /\ price_levels[level_price[victim]] = victim
  BY <1>1 DEF LevelsIndexed
<1>3. /\ available' = [available EXCEPT ![victim] = TRUE] /\ status' = "running"
      /\ price_levels' = [price_levels EXCEPT ![level_price[victim]] = Null]
      /\ pc' = IF req.type = "ADD" THEN "match" ELSE "reply"
      /\ UNCHANGED <<level_price, level_orders, next_free, req, order, next_order_id>>
  BY <1>1 DEF removePriceLevel, Unindexed, counters
<1>4. /\ best' \in [{"BUY", "SELL"} -> Pointer] /\ level_next' \in [Levels -> Pointer]
      /\ cursor' \in Pointer /\ victim' \in Pointer
  BY <1>1, SidesAreTwo DEF removePriceLevel, TypeOK, Pointer
<1>5. TypeOK'
  <2>1. available' \in [Levels -> BOOLEAN]
    BY <1>3 DEF TypeOK
  <2>2. price_levels' \in [Prices -> Pointer]
    BY <1>3 DEF TypeOK, Pointer
  <2> QED  BY <1>3, <1>4, <2>1, <2>2 DEF removePriceLevel, Silent, counters, TypeOK
<1>6. RequestKnown' /\ LevelKnown' /\ QueuedEarlier' /\ TimePriority'
  BY <1>1, <1>3 DEF RequestKnown, LevelKnown, QueuedEarlier, TimePriority
<1>7. FreeBlockReady'
  BY <1>1, <1>3 DEF FreeBlockReady, TypeOK
<1>8. LevelsIndexed'
  BY <1>1, <1>2, <1>3, ConstantsAssumption DEF LevelsIndexed, TypeOK, Pointer
<1>9. LevelsOccupied'
  BY <1>1, <1>3 DEF LevelsOccupied, TypeOK
<1> QED  BY <1>5, <1>6, <1>7, <1>8, <1>9

-----------------------------------------------------------------------------
(* The steps that take an order out of its level.                          *)

\* An order rests at one level only, as the levels have different prices.
LEMMA OneLevel ==
  ASSUME BookInvariant, status = "running", NEW l \in Levels, NEW m \in Levels, NEW o,
         Holds(l, o), Holds(m, o)
  PROVE  /\ l = m /\ ~available[l] /\ o \in OrderIds
         /\ order[o].limit_price \in Prices /\ order[o].limit_price = level_price[l]
         /\ price_levels[order[o].limit_price] = l /\ order[o].quantity > 0
<1> USE DEF BookInvariant
<1>1. PICK i \in 1 .. Len(level_orders[l]) : level_orders[l][i] = o
  BY DEF Holds
<1>2. PICK j \in 1 .. Len(level_orders[m]) : level_orders[m][j] = o
  BY DEF Holds
<1>3. level_orders[l] # <<>> /\ level_orders[m] # <<>>
  BY <1>1, <1>2 DEF TypeOK
<1>4. ~available[l] /\ ~available[m]
  BY <1>3 DEF LevelsOccupied
<1>5. order[o].limit_price = level_price[l] /\ order[o].quantity > 0
  BY <1>1 DEF TimePriority
<1>6. order[o].limit_price = level_price[m]
  BY <1>2 DEF TimePriority
<1>7. o \in OrderIds
  BY <1>1 DEF TypeOK
<1>8. /\ level_price[l] \in Prices /\ price_levels[level_price[l]] = l
      /\ price_levels[level_price[m]] = m
  BY <1>4 DEF LevelsIndexed
<1> QED  BY <1>4, <1>5, <1>6, <1>7, <1>8

\* A step that keeps the order of the queues, and adds no order to any of them;
\* only the queue of level l may lose some.
QueuesKept(l) ==
  /\ level_orders' \in [Levels -> Seq(OrderIds)]
  /\ \A m \in Levels : m # l => level_orders'[m] = level_orders[m]
  /\ \A m \in Levels : \A i \in 1 .. Len(level_orders'[m]) :
       /\ \E k \in 1 .. Len(level_orders[m]) : level_orders'[m][i] = level_orders[m][k]
       /\ \A j \in 1 .. (i - 1) : level_orders'[m][j] < level_orders'[m][i]

\* After the step no queue holds o.
Gone(o) == \A m \in Levels : \A i \in 1 .. Len(level_orders'[m]) : level_orders'[m][i] # o

\* Unlinking order o from its level l.
LEMMA OrderTakenOut ==
  ASSUME BookInvariant, status = "running", NEW l \in Levels, NEW o, Holds(l, o),
         level_orders' = [level_orders EXCEPT ![l] = Unlinked(@, Position(@, o))]
  PROVE  QueuesKept(l) /\ Gone(o)
<1> USE DEF BookInvariant
<1> DEFINE s == level_orders[l]
           n == Position(s, o)
<1>1. s \in Seq(OrderIds) /\ n \in 1 .. Len(s) /\ s[n] = o
  BY PositionFacts DEF TypeOK, Holds
<1>2. /\ Unlinked(s, n) \in Seq(OrderIds)
      /\ Len(Unlinked(s, n)) = Len(s) - 1
      /\ \A j \in 1 .. (Len(s) - 1) : Unlinked(s, n)[j] = IF j < n THEN s[j] ELSE s[j + 1]
  BY <1>1, UnlinkedFacts
<1>3. /\ level_orders'[l] = Unlinked(s, n)
      /\ \A m \in Levels : m # l => level_orders'[m] = level_orders[m]
  BY DEF TypeOK
<1>4. level_orders' \in [Levels -> Seq(OrderIds)]
  BY <1>2 DEF TypeOK
<1>5. \A i \in 1 .. Len(s) : \A j \in 1 .. (i - 1) : s[j] < s[i]
  BY DEF TimePriority
<1>6. \A i \in 1 .. Len(s) : s[i] \in Nat /\ (i # n => s[i] # o)
  <2> SUFFICES ASSUME NEW i \in 1 .. Len(s) PROVE s[i] \in Nat /\ (i # n => s[i] # o)
    OBVIOUS
  <2>1. s[i] \in Nat /\ s[n] \in Nat
    <3> HIDE DEF n, s
    <3>1. s[i] \in OrderIds /\ s[n] \in OrderIds
      BY <1>1
    <3> QED  BY <3>1 DEF OrderIds
  <2>2. CASE i < n
    <3>1. i \in 1 .. (n - 1)
      BY <1>1, <2>2
    <3> HIDE DEF n
    <3> QED  BY <1>1, <1>5, <2>1, <3>1
  <2>3. CASE n < i
    <3>1. n \in 1 .. (i - 1)
      BY <1>1, <2>3
    <3> HIDE DEF n
    <3> QED  BY <1>1, <1>5, <2>1, <3>1
  <2> HIDE DEF n
  <2> QED  BY <1>1, <2>1, <2>2, <2>3
<1>7. ASSUME NEW m \in Levels, NEW i \in 1 .. Len(level_orders'[m])
      PROVE  /\ level_orders'[m][i] # o
             /\ \E k \in 1 .. Len(level_orders[m]) : level_orders'[m][i] = level_orders[m][k]
             /\ \A j \in 1 .. (i - 1) : level_orders'[m][j] < level_orders'[m][i]
  <2>1. CASE m # l
    <3>1. level_orders'[m] = level_orders[m]
      BY <1>3, <2>1
    <3>2. level_orders[m][i] # o
      <4>1. SUFFICES ASSUME level_orders[m][i] = o PROVE FALSE
        OBVIOUS
      <4>2. Holds(m, o)
        BY <1>7, <3>1, <4>1 DEF Holds
      <4> QED  BY <2>1, <4>2, OneLevel
    <3> QED  BY <1>7, <3>1, <3>2 DEF TimePriority
  <2>2. CASE m = l
    <3> DEFINE t == Unlinked(s, n)
               at(j) == IF j < n THEN j ELSE j + 1
    <3>1. i \in 1 .. (Len(s) - 1) /\ level_orders'[m] = t
      BY <1>2, <1>3, <2>2
    <3>2. \A j \in 1 .. (Len(s) - 1) : at(j) \in 1 .. Len(s) /\ at(j) # n /\ t[j] = s[at(j)]
      <4> HIDE DEF n, s
      <4> QED  BY <1>1, <1>2
    <3>3. t[i] # o /\ \E k \in 1 .. Len(s) : t[i] = s[k]
      <4> HIDE DEF t, n, s, at
      <4> QED  BY <1>6, <3>1, <3>2
    <3>4. ASSUME NEW j \in 1 .. (i - 1) PROVE t[j] < t[i]
      <4>1. j \in 1 .. (Len(s) - 1) /\ at(j) \in 1 .. (at(i) - 1)
        <5> HIDE DEF n, s
        <5> QED  BY <1>1, <3>1, <3>4
      <4> HIDE DEF t, n, s, at
      <4> QED  BY <1>5, <3>1, <3>2, <4>1
    <3> QED  BY <2>2, <3>1, <3>3, <3>4
  <2> QED  BY <2>1, <2>2
<1> QED  BY <1>3, <1>4, <1>7 DEF QueuesKept, Gone

LEMMA CancelPreservesBook ==
  ASSUME BookInvariant, NEW c \in Clients, NEW o \in OrderIds, NEW s \in RequestSides,
         NEW p \in Prices, cancel(c, o, s, p)
  PROVE  BookInvariant'
<1> USE DEF BookInvariant
<1> DEFINE l == price_levels[p]
<1>1. /\ pc = "idle" /\ status = "running" /\ l \in Levels /\ Holds(l, o)
      /\ level_orders' = [level_orders EXCEPT ![l] = Unlinked(@, Position(@, o))]
  BY DEF cancel, TypeOK, Pointer
<1>2. /\ req' \in Request /\ req'.type = "CANCEL" /\ req'.order_id = o /\ req'.limit_price = p
      /\ pc' = IF level_orders'[l] = <<>> THEN "remove" ELSE "reply"
      /\ level_orders'[l] = <<>> => victim' = l
      /\ cursor' \in Pointer /\ victim' \in Pointer /\ status' = "running"
      /\ UNCHANGED <<order, level_price, available, next_free, price_levels, next_order_id>>
  <2>1. req' \in Request /\ req'.type = "CANCEL" /\ req'.order_id = o /\ req'.limit_price = p
    BY ConstantsAssumption DEF cancel, Request, TypeOK, OrderRecord, OrderIds
  <2>2. cursor' \in Pointer /\ victim' \in Pointer
    BY <1>1, SidesAreTwo DEF cancel, Emptied, EnterRemove, TypeOK, Pointer
  <2> QED  BY <1>1, <2>1, <2>2 DEF cancel, Emptied, EnterRemove, counters
<1>3. ~available[l]
  BY <1>1, OneLevel
<1>4. QueuesKept(l)
  BY <1>1, OrderTakenOut
<1> HIDE DEF l
<1>5. TypeOK'
  BY <1>1, <1>2, <1>4 DEF cancel, Silent, counters, TypeOK, QueuesKept
<1>6. RequestKnown' /\ LevelKnown' /\ FreeBlockReady' /\ LevelsIndexed'
  BY <1>1, <1>2, <1>3 DEF RequestKnown, LevelKnown, FreeBlockReady, LevelsIndexed
<1>7. QueuedEarlier'
  BY <1>2, <1>4 DEF QueuedEarlier, QueuesKept
<1>8. LevelsOccupied'
  BY <1>1, <1>2, <1>3, <1>4 DEF LevelsOccupied, QueuesKept
<1>9. TimePriority'
  <2> SUFFICES ASSUME NEW m \in Levels, NEW i \in 1 .. Len(level_orders'[m])
               PROVE  /\ order[level_orders'[m][i]].quantity > 0
                      /\ order[level_orders'[m][i]].limit_price = level_price[m]
                      /\ \A j \in 1 .. (i - 1) : level_orders'[m][j] < level_orders'[m][i]
    BY <1>2 DEF TimePriority
  <2>1. PICK k \in 1 .. Len(level_orders[m]) : level_orders'[m][i] = level_orders[m][k]
    BY <1>4 DEF QueuesKept
  <2>2. /\ order[level_orders[m][k]].quantity > 0
        /\ order[level_orders[m][k]].limit_price = level_price[m]
    BY DEF TimePriority
  <2> QED  BY <1>4, <2>1, <2>2 DEF QueuesKept
<1> QED  BY <1>5, <1>6, <1>7, <1>8, <1>9

\* A fill takes from neither order more than it has.
LEMMA SmallerFits ==
  ASSUME NEW a \in Nat, NEW b \in Nat
  PROVE  Smaller(a, b) \in Nat /\ a - Smaller(a, b) \in Nat /\ b - Smaller(a, b) \in Nat
BY DEF Smaller

LEMMA MatchPreservesBook ==
  ASSUME BookInvariant, match
  PROVE  BookInvariant'
<1> USE DEF BookInvariant
<1> DEFINE top   == best[Opposite(req.side)]
           maker == Head(level_orders[top])
           fill  == Smaller(req.quantity, order[maker].quantity)
           rest  == order[maker].quantity - fill
<1>1. /\ pc = "match" /\ status = "running" /\ req.type = "ADD"
      /\ top \in Levels /\ level_orders[top] # <<>> /\ Holds(top, maker)
  <2>1. pc = "match" /\ status = "running" /\ req.type = "ADD"
    BY DEF match, RequestKnown
  <2>2. top \in Levels
    BY SidesAreTwo DEF match, CanMatch, TypeOK, Pointer
  <2>3. level_orders[top] # <<>>
    BY DEF match
  <2> QED  BY <2>1, <2>2, <2>3 DEF Holds, TypeOK
<1>2. /\ ~available[top] /\ maker \in OrderIds
      /\ order[maker].limit_price \in Prices /\ order[maker].limit_price = level_price[top]
      /\ price_levels[order[maker].limit_price] = top /\ order[maker].quantity > 0
  BY <1>1, OneLevel
<1>3. /\ order[maker] \in OrderRecord /\ req.quantity \in Nat /\ req.side \in OrderSide
      /\ order[maker].quantity \in Nat /\ order[maker].side \in OrderSide
      /\ fill \in Nat /\ rest \in Nat /\ req.quantity - fill \in Nat
  <2>1. order[maker] \in OrderRecord /\ req.quantity \in Nat /\ req.side \in OrderSide
    BY <1>2 DEF TypeOK, Request
  <2>2. order[maker].quantity \in Nat /\ order[maker].side \in OrderSide
    BY <2>1 DEF OrderRecord
  <2>3. fill \in Nat /\ rest \in Nat /\ req.quantity - fill \in Nat
    BY <2>1, <2>2, SmallerFits
  <2> QED  BY <2>1, <2>2, <2>3
<1>4. /\ order' = [order EXCEPT ![maker].quantity = rest]
      /\ req' = [req EXCEPT !.quantity = @ - fill]
      /\ level_orders' = IF rest = 0
                         THEN [level_orders EXCEPT ![top] = Unlinked(@, Position(@, maker))]
                         ELSE level_orders
      /\ IF level_orders'[top] = <<>> THEN EnterRemove(top) ELSE UNCHANGED <<pc, victim, cursor>>
      /\ UNCHANGED <<level_side, level_price, level_next, available, next_free, orders_used,
                     price_levels, best, next_order_id, status, orphaned>>
  BY <1>2 DEF match, Emptied
<1>5. /\ ledger' \in [OrderIds -> Accounts] /\ mirror' \in [OrderIds -> Quotes \cup {Null}]
      /\ next_trade_id' \in Nat
  <2> DEFINE price == order[maker].limit_price
             trade == MarketUpdate("TRADE", Null, next_trade_id, req.side, fill, price)
             change ==
               IF rest = 0
               THEN MarketUpdate("REMOVE", maker, Null, order[maker].side, fill, price)
               ELSE MarketUpdate("MODIFY", maker, Null, order[maker].side, rest, price)
             toMaker == ClientResponse("FILLED", order[maker].client, maker,
                                       order[maker].side, fill, price)
             toTaker == ClientResponse("FILLED", req.client, req.order_id, req.side, fill, price)
  <2>1. ledger' = Booked(Booked(ledger, toMaker), toTaker) /\ next_trade_id' = next_trade_id + 1
    BY DEF match
  <2>2. mirror' = Applied(Applied(mirror, trade), change)
    BY DEF match
  <2>3. toMaker.quantity \in Nat /\ toTaker.quantity \in Nat
    BY <1>3 DEF ClientResponse
  <2>4. /\ trade.side \in OrderSide /\ trade.quantity \in Nat /\ trade.price \in Prices
        /\ change.side \in OrderSide /\ change.quantity \in Nat /\ change.price \in Prices
    BY <1>2, <1>3 DEF MarketUpdate
  <2> HIDE DEF trade, change, toMaker, toTaker
  <2>5. ledger' \in [OrderIds -> Accounts]
    BY <2>1, <2>3, BookedType DEF TypeOK
  <2>6. mirror' \in [OrderIds -> Quotes \cup {Null}]
    BY <2>2, <2>4, AppliedType DEF TypeOK
  <2> QED  BY <2>1, <2>5, <2>6 DEF TypeOK
<1>6. QueuesKept(top) /\ (rest = 0 => Gone(maker))
  <2>1. CASE rest = 0
    BY <1>1, <1>4, <2>1, OrderTakenOut
  <2>2. CASE rest # 0
    BY <1>4, <2>2 DEF TypeOK, TimePriority, QueuesKept
  <2> QED  BY <2>1, <2>2
<1> HIDE DEF rest, fill, maker, top
<1>7. /\ req' \in Request /\ req'.type = req.type /\ req'.order_id = req.order_id
      /\ req'.limit_price = req.limit_price
  BY <1>3, <1>4 DEF TypeOK, Request
<1>8. /\ pc' = (IF level_orders'[top] = <<>> THEN "remove" ELSE "match")
      /\ level_orders'[top] = <<>> => victim' = top
      /\ cursor' \in Pointer /\ victim' \in Pointer
  BY <1>1, <1>4, SidesAreTwo DEF EnterRemove, TypeOK, Pointer
<1>9. /\ order' \in [OrderIds -> OrderRecord]
      /\ \A o \in OrderIds : /\ o # maker => order'[o] = order[o]
                             /\ order'[o].limit_price = order[o].limit_price
      /\ order'[maker].quantity = rest
  BY <1>2, <1>3, <1>4 DEF TypeOK, OrderRecord
<1>10. TypeOK'
  BY <1>4, <1>5, <1>6, <1>7, <1>8, <1>9 DEF TypeOK, QueuesKept
<1>11. RequestKnown' /\ LevelKnown' /\ FreeBlockReady' /\ LevelsIndexed'
  BY <1>1, <1>2, <1>4, <1>7, <1>8
     DEF RequestKnown, LevelKnown, FreeBlockReady, LevelsIndexed
<1>12. QueuedEarlier'
  BY <1>4, <1>6, <1>7 DEF QueuedEarlier, QueuesKept
<1>13. LevelsOccupied'
  BY <1>1, <1>2, <1>4, <1>6, <1>8 DEF LevelsOccupied, QueuesKept
<1>14. TimePriority'
  <2> SUFFICES ASSUME NEW m \in Levels, NEW i \in 1 .. Len(level_orders'[m])
               PROVE  /\ order'[level_orders'[m][i]].quantity > 0
                      /\ order'[level_orders'[m][i]].limit_price = level_price[m]
                      /\ \A j \in 1 .. (i - 1) : level_orders'[m][j] < level_orders'[m][i]
    BY <1>4 DEF TimePriority
  <2> DEFINE o == level_orders'[m][i]
  <2>1. PICK k \in 1 .. Len(level_orders[m]) : o = level_orders[m][k]
    BY <1>6 DEF QueuesKept
  <2>2. o \in OrderIds /\ order[o].quantity > 0 /\ order[o].limit_price = level_price[m]
    BY <2>1 DEF TimePriority, TypeOK
  <2>3. order'[o].quantity > 0
    <3>1. rest = 0 => o # maker
      BY <1>6 DEF Gone
    <3> QED  BY <1>3, <1>9, <2>2, <3>1
  <2> QED  BY <1>6, <1>9, <2>2, <2>3 DEF QueuesKept
<1> QED  BY <1>10, <1>11, <1>12, <1>13, <1>14

-----------------------------------------------------------------------------
LEMMA NextPreservesBook == BookInvariant /\ [Next]_vars => BookInvariant'
BY AddPreservesBook, SilentStepsPreserveBook, GetPriceLevelPreservesBook, RepliesPreserveBook,
   PoolsFullPreserveBook, InsertPreservesBook, PlacePreservesBook, RemovePreservesBook,
   CancelPreservesBook, MatchPreservesBook DEF Next

\* The inductive invariant holds in every reachable state.
THEOREM BookInvariantHolds == Spec => []BookInvariant
BY InitEstablishesBook, NextPreservesBook, PTL DEF Spec

\* The variables keep their types.
THEOREM BookTypeCorrect == Spec => []TypeOK
BY BookInvariantHolds, PTL DEF BookInvariant

\* price_levels finds the levels in use and no others, whatever the sequence of
\* requests: also the levels that no list reaches any more.
THEOREM BookLevelsIndexed == Spec => []LevelsIndexed
BY BookInvariantHolds, PTL DEF BookInvariant

\* Between requests every level in use holds an order, and only levels in use
\* hold orders: top_order is not null where OrdersPriceLevel::cancel()
\* dereferences it, and no order is in a released block.
THEOREM BookLevelsOccupied == Spec => []LevelsOccupied
BY BookInvariantHolds, PTL DEF BookInvariant

\* The orders of a level are in the order of their acceptance, at the level of
\* their price, with a positive quantity.
THEOREM BookTimePriority == Spec => []TimePriority
BY BookInvariantHolds, PTL DEF BookInvariant

-----------------------------------------------------------------------------
(* What the two output streams say.                                        *)

\* No response has mentioned an order that is still to come.
FreshAccounts ==
  \A o \in OrderIds : o >= next_order_id =>
    ledger[o] = [accepted |-> 0, filled |-> 0, canceled |-> 0]

\* The order that cancel() is about to report was accepted, has left its level,
\* and is reported with what was open.
CancelKnown ==
  req.type = "CANCEL" =>
    /\ req.order_id < next_order_id
    /\ ~Resting(req.order_id)
    /\ req.quantity = order[req.order_id].quantity

StreamInvariant ==
  FreshAccounts /\ CancelKnown /\ QuantityConserved /\ MirrorExact /\ TradesWithinLimit

\* A response changes the account of its order only.
LEMMA BookedFacts ==
  ASSUME NEW accounts \in [OrderIds -> Accounts], NEW r,
         r.order_id \in OrderIds, r.quantity \in Nat
  PROVE  LET b == Booked(accounts, r)
             a == accounts[r.order_id]
             c == b[r.order_id]
         IN  /\ \A x \in OrderIds : x # r.order_id => b[x] = accounts[x]
             /\ c.accepted = IF r.type = "ACCEPTED" THEN r.quantity ELSE a.accepted
             /\ c.filled = IF r.type = "FILLED" THEN a.filled + r.quantity ELSE a.filled
             /\ c.canceled = IF r.type = "CANCELED" THEN a.canceled + r.quantity
                             ELSE a.canceled
<1> DEFINE o == r.order_id
           A == accounts[o]
<1>1. A \in Accounts /\ A = [accepted |-> A.accepted, filled |-> A.filled, canceled |-> A.canceled]
  BY DEF Accounts
<1>2. CASE r.type = "ACCEPTED"
  BY <1>1, <1>2 DEF Booked
<1>3. CASE r.type = "FILLED"
  BY <1>1, <1>3 DEF Booked
<1>4. CASE r.type = "CANCELED"
  BY <1>1, <1>4 DEF Booked
<1>5. CASE r.type \notin {"ACCEPTED", "FILLED", "CANCELED"}
  BY <1>1, <1>5 DEF Booked
<1> QED  BY <1>2, <1>3, <1>4, <1>5

\* An update changes the quote of its order only.
LEMMA AppliedFacts ==
  ASSUME NEW quotes \in [OrderIds -> Quotes \cup {Null}], NEW u,
         u.type # "TRADE" => u.order_id \in OrderIds,
         u.type \in {"ADD", "MODIFY", "REMOVE", "TRADE"}
  PROVE  LET a == Applied(quotes, u)
         IN  /\ u.type = "TRADE" => a = quotes
             /\ u.type # "TRADE" =>
                  /\ \A x \in OrderIds : x # u.order_id => a[x] = quotes[x]
                  /\ a[u.order_id] =
                       IF u.type = "REMOVE" THEN Null
                       ELSE [side |-> u.side, quantity |-> u.quantity, price |-> u.price]
BY DEF Applied

\* Taking order o out of its level leaves all the others where they are.
LEMMA OthersStay ==
  ASSUME BookInvariant, status = "running", NEW l \in Levels, NEW o, Holds(l, o),
         level_orders' = [level_orders EXCEPT ![l] = Unlinked(@, Position(@, o))]
  PROVE  \A x : Resting(x)' <=> Resting(x) /\ x # o
<1> USE DEF BookInvariant
<1>1. QueuesKept(l) /\ Gone(o)
  BY OrderTakenOut
<1>2. ASSUME NEW x, Resting(x)' PROVE Resting(x) /\ x # o
  <2>1. PICK m \in Levels : \E i \in 1 .. Len(level_orders'[m]) : level_orders'[m][i] = x
    BY <1>2 DEF Resting, Holds
  <2>2. PICK i \in 1 .. Len(level_orders'[m]) : level_orders'[m][i] = x
    BY <2>1
  <2>3. x # o /\ \E k \in 1 .. Len(level_orders[m]) : level_orders[m][k] = x
    BY <1>1, <2>2 DEF QueuesKept, Gone
  <2> QED  BY <2>3 DEF Resting, Holds
<1>3. ASSUME NEW x, Resting(x), x # o PROVE Resting(x)'
  <2> DEFINE s == level_orders[l]
             n == Position(s, o)
  <2>1. s \in Seq(OrderIds) /\ n \in 1 .. Len(s) /\ s[n] = o
    BY PositionFacts DEF TypeOK, Holds
  <2>2. PICK m \in Levels : \E k \in 1 .. Len(level_orders[m]) : level_orders[m][k] = x
    BY <1>3 DEF Resting, Holds
  <2>3. PICK k \in 1 .. Len(level_orders[m]) : level_orders[m][k] = x
    BY <2>2
  <2>4. CASE m # l
    <3>1. level_orders'[m] = level_orders[m]
      BY <2>4 DEF TypeOK
    <3> QED  BY <2>3, <3>1 DEF Resting, Holds
  <2>5. CASE m = l
    <3> DEFINE t == Unlinked(s, n)
               j == IF k < n THEN k ELSE k - 1
    <3>1. /\ Len(t) = Len(s) - 1
          /\ \A i \in 1 .. (Len(s) - 1) : t[i] = IF i < n THEN s[i] ELSE s[i + 1]
      BY <2>1, UnlinkedFacts
    <3>2. level_orders'[l] = t
      BY DEF TypeOK
    <3>3. k \in 1 .. Len(s) /\ s[k] = x /\ k # n
      BY <1>3, <2>1, <2>3, <2>5
    <3> HIDE DEF t, s, n
    <3>4. j \in 1 .. Len(t) /\ t[j] = x
      BY <2>1, <3>1, <3>3
    <3> HIDE DEF j
    <3> QED  BY <3>2, <3>4 DEF Resting, Holds
  <2> QED  BY <2>4, <2>5
<1> QED  BY <1>2, <1>3

\* Only accepted orders rest, each one earlier than the one being added.
LEMMA RestingFacts ==
  ASSUME BookInvariant, NEW o, Resting(o)
  PROVE  o \in OrderIds /\ o < next_order_id /\ (req.type = "ADD" => o # req.order_id)
<1> USE DEF BookInvariant
<1>1. PICK l \in Levels : \E i \in 1 .. Len(level_orders[l]) : level_orders[l][i] = o
  BY DEF Resting, Holds
<1>2. PICK i \in 1 .. Len(level_orders[l]) : level_orders[l][i] = o
  BY <1>1
<1>3. o \in OrderIds
  BY <1>2 DEF TypeOK
<1>4. o < next_order_id /\ (req.type = "ADD" => o < req.order_id)
  BY <1>2 DEF QueuedEarlier
<1> QED  BY <1>3, <1>4 DEF TypeOK, OrderIds, Request

-----------------------------------------------------------------------------
LEMMA InitEstablishesStreams == Init => StreamInvariant
BY ConstantsAssumption DEF Init, StreamInvariant, FreshAccounts, CancelKnown, QuantityConserved,
   MirrorExact, TradesWithinLimit, Resting, Holds, BeingCanceled, OpenQuantity, NoRequest, OrderIds

\* Nothing is said, and no order moves.
LEMMA StreamsUntouched ==
  ASSUME StreamInvariant,
         UNCHANGED <<order, level_orders, ledger, mirror, req, next_order_id>>,
         updates' = <<>> \/ updates' = updates
  PROVE  StreamInvariant'
<1> USE DEF StreamInvariant
<1>1. \A o : Resting(o)' <=> Resting(o)
  BY DEF Resting, Holds
<1>2. FreshAccounts' /\ CancelKnown' /\ QuantityConserved' /\ MirrorExact'
  BY <1>1 DEF FreshAccounts, CancelKnown, QuantityConserved, MirrorExact, BeingCanceled,
     OpenQuantity
<1>3. TradesWithinLimit'
  BY DEF TradesWithinLimit
<1> QED  BY <1>2, <1>3

LEMMA AddPreservesStreams ==
  ASSUME BookInvariant, StreamInvariant, NEW c \in Clients, NEW s \in RequestSides,
         NEW n \in Quantities, NEW p \in Prices, add(c, s, n, p)
  PROVE  StreamInvariant'
<1> USE DEF BookInvariant, StreamInvariant
<1> DEFINE new == next_order_id
           r == ClientResponse("ACCEPTED", c, new, s, n, p)
<1>1. /\ new \in OrderIds /\ n \in Nat /\ req = NoRequest /\ new \in Nat
      /\ req'.type = "ADD" /\ req'.order_id = new /\ req'.quantity = n
      /\ next_order_id' = new + 1 /\ ledger' = Booked(ledger, r) /\ updates' = <<>>
      /\ UNCHANGED <<order, level_orders, mirror>>
  BY ConstantsAssumption DEF add, TypeOK, OrderIds, RequestKnown, bookVars
<1>2. r.order_id = new /\ r.quantity = n /\ r.type = "ACCEPTED"
  BY DEF ClientResponse
<1> HIDE DEF r
<1>3. /\ \A x \in OrderIds : x # new => ledger'[x] = ledger[x]
      /\ ledger'[new].accepted = n
      /\ ledger'[new].filled = 0 /\ ledger'[new].canceled = 0
  <2>1. ledger[new] = [accepted |-> 0, filled |-> 0, canceled |-> 0]
    BY <1>1 DEF FreshAccounts
  <2>2. ledger \in [OrderIds -> Accounts]
    BY DEF TypeOK
  <2>3. /\ \A x \in OrderIds : x # new => Booked(ledger, r)[x] = ledger[x]
        /\ Booked(ledger, r)[new].accepted = n
        /\ Booked(ledger, r)[new].filled = ledger[new].filled
        /\ Booked(ledger, r)[new].canceled = ledger[new].canceled
    BY <1>1, <1>2, <2>2, BookedFacts
  <2> QED  BY <1>1, <2>1, <2>3
<1>4. ~Resting(new) /\ \A o : Resting(o)' <=> Resting(o)
  <2>1. ~Resting(new)
    BY <1>1, RestingFacts
  <2> QED  BY <1>1, <2>1 DEF Resting, Holds
<1>5. FreshAccounts'
  BY <1>1, <1>3 DEF FreshAccounts, OrderIds
<1>6. CancelKnown' /\ TradesWithinLimit'
  BY <1>1 DEF CancelKnown, TradesWithinLimit
<1>7. MirrorExact'
  BY <1>1, <1>4 DEF MirrorExact, BeingCanceled, NoRequest
<1>8. QuantityConserved'
  BY <1>1, <1>3, <1>4 DEF QuantityConserved, OpenQuantity, NoRequest, OrderIds
<1> QED  BY <1>5, <1>6, <1>7, <1>8

LEMMA SilentStepsPreserveStreams ==
  ASSUME BookInvariant, StreamInvariant,
         \/ matchNullOrder \/ getPriceLevel \/ insertWalk \/ insertPriceLevel
         \/ priceLevelPoolFull \/ orderPoolFull \/ removeWalk \/ removeWalkNull
         \/ removePriceLevel
         \/ \E c \in Clients, o \in OrderIds, s \in RequestSides, p \in Prices :
              cancelRejected(c, o, s, p)
         \/ Halted
         \/ UNCHANGED vars
  PROVE  StreamInvariant'
<1>1. CASE insertPriceLevel
  <2>1. level_orders[next_free] = <<>>
    BY <1>1 DEF insertPriceLevel, BookInvariant, FreeBlockReady, LevelsOccupied, TypeOK
  <2>2. level_orders' = level_orders
    BY <1>1, <2>1 DEF insertPriceLevel, BookInvariant, TypeOK
  <2> QED  BY <1>1, <2>2, StreamsUntouched DEF insertPriceLevel, Silent, counters
<1>2. CASE matchNullOrder \/ getPriceLevel \/ insertWalk \/ removeWalk \/ removeWalkNull
  BY <1>2, StreamsUntouched DEF matchNullOrder, getPriceLevel, insertWalk, removeWalk,
     removeWalkNull, Silent, bookVars, counters
<1>3. CASE priceLevelPoolFull \/ orderPoolFull \/ removePriceLevel
  BY <1>3, StreamsUntouched DEF priceLevelPoolFull, orderPoolFull, removePriceLevel, Silent,
     counters
<1>4. CASE \/ \E c \in Clients, o \in OrderIds, s \in RequestSides, p \in Prices :
                cancelRejected(c, o, s, p)
           \/ Halted \/ UNCHANGED vars
  BY <1>4, StreamsUntouched DEF cancelRejected, Halted, vars, bookVars, counters, control, outputs
<1> QED  BY <1>1, <1>2, <1>3, <1>4

LEMMA FilledPreservesStreams ==
  ASSUME BookInvariant, StreamInvariant, filled
  PROVE  StreamInvariant'
<1> USE DEF BookInvariant, StreamInvariant
<1>1. /\ req.type = "ADD" /\ req.quantity = 0 /\ req' = NoRequest /\ updates' = <<>>
      /\ UNCHANGED <<order, level_orders, ledger, mirror, next_order_id>>
  BY DEF filled, Silent, bookVars, counters, RequestKnown
<1>2. ~Resting(req.order_id) /\ \A o : Resting(o)' <=> Resting(o)
  <2>1. ~Resting(req.order_id)
    BY <1>1, RestingFacts
  <2> QED  BY <1>1, <2>1 DEF Resting, Holds
<1>3. FreshAccounts' /\ CancelKnown' /\ TradesWithinLimit'
  BY <1>1 DEF FreshAccounts, CancelKnown, TradesWithinLimit, NoRequest
<1>4. MirrorExact'
  BY <1>1, <1>2 DEF MirrorExact, BeingCanceled, NoRequest
<1>5. QuantityConserved'
  BY <1>1, <1>2 DEF QuantityConserved, OpenQuantity, NoRequest, OrderIds
<1> QED  BY <1>3, <1>4, <1>5

LEMMA PlacePreservesStreams ==
  ASSUME BookInvariant, StreamInvariant, placeOrder
  PROVE  StreamInvariant'
<1> USE DEF BookInvariant, StreamInvariant
<1> DEFINE o == req.order_id
           new == [client |-> req.client, side |-> req.side,
                   quantity |-> req.quantity, limit_price |-> req.limit_price]
           u == MarketUpdate("ADD", o, Null, req.side, req.quantity, req.limit_price)
<1>1. /\ req.type = "ADD" /\ o \in OrderIds /\ cursor \in Levels
      /\ order' = [order EXCEPT ![o] = new]
      /\ level_orders' = [level_orders EXCEPT ![cursor] = Append(level_orders[cursor], o)]
      /\ req' = NoRequest /\ updates' = <<u>> /\ mirror' = Applied(mirror, u)
      /\ UNCHANGED <<ledger, next_order_id>>
  BY DEF placeOrder, RequestKnown, LevelKnown, TypeOK, Pointer, counters
<1>2. /\ \A x \in OrderIds : x # o => order'[x] = order[x]
      /\ order'[o] = new
  BY <1>1 DEF TypeOK
<1>3. /\ u.type = "ADD" /\ u.order_id = o /\ u.side = req.side /\ u.quantity = req.quantity
      /\ u.price = req.limit_price
  BY DEF MarketUpdate
<1>4. ~Resting(o) /\ \A x : Resting(x)' <=> Resting(x) \/ x = o
  <2>1. ~Resting(o)
    BY <1>1, RestingFacts
  <2>2. \A l \in Levels : l # cursor => level_orders'[l] = level_orders[l]
    BY <1>1 DEF TypeOK
  <2>3. /\ level_orders[cursor] \in Seq(OrderIds)
        /\ Len(level_orders'[cursor]) = Len(level_orders[cursor]) + 1
        /\ level_orders'[cursor][Len(level_orders[cursor]) + 1] = o
        /\ \A i \in 1 .. Len(level_orders[cursor]) :
             level_orders'[cursor][i] = level_orders[cursor][i]
    BY <1>1 DEF TypeOK
  <2>4. \A x : \A l \in Levels : l # cursor => (Holds(l, x)' <=> Holds(l, x))
    BY <2>2 DEF Holds
  <2>5. \A x : Holds(cursor, x) \/ x = o => \E i \in 1 .. Len(level_orders'[cursor]) :
                                              level_orders'[cursor][i] = x
    BY <2>3 DEF Holds
  <2>6. \A x : (\E i \in 1 .. Len(level_orders'[cursor]) : level_orders'[cursor][i] = x)
                 => Holds(cursor, x) \/ x = o
    <3> SUFFICES ASSUME NEW x, NEW i \in 1 .. Len(level_orders'[cursor]),
                        level_orders'[cursor][i] = x, x # o
                 PROVE  Holds(cursor, x)
      OBVIOUS
    <3>1. i \in 1 .. Len(level_orders[cursor])
      BY <2>3
    <3> QED  BY <2>3, <3>1 DEF Holds
  <2>7. \A x : Resting(x)' <=> \/ \E l \in Levels : l # cursor /\ Holds(l, x)
                               \/ Holds(cursor, x) \/ x = o
    <3>1. \A x : Resting(x)' <=> \E l \in Levels : \E i \in 1 .. Len(level_orders'[l]) :
                                                      level_orders'[l][i] = x
      BY DEF Resting, Holds
    <3>2. ASSUME NEW x, Resting(x)'
          PROVE  (\E l \in Levels : l # cursor /\ Holds(l, x)) \/ Holds(cursor, x) \/ x = o
      <4>1. PICK l \in Levels : \E i \in 1 .. Len(level_orders'[l]) : level_orders'[l][i] = x
        BY <3>1, <3>2
      <4>2. CASE l = cursor
        BY <2>6, <4>1, <4>2
      <4>3. CASE l # cursor
        BY <2>2, <4>1, <4>3 DEF Holds
      <4> QED  BY <4>2, <4>3
    <3>3. ASSUME NEW x, (\E l \in Levels : l # cursor /\ Holds(l, x)) \/ Holds(cursor, x) \/ x = o
          PROVE  Resting(x)'
      <4>1. CASE Holds(cursor, x) \/ x = o
        BY <1>1, <2>5, <3>1, <4>1
      <4>2. CASE \E l \in Levels : l # cursor /\ Holds(l, x)
        <5>1. PICK l \in Levels : l # cursor /\ Holds(l, x)
          BY <4>2
        <5> QED  BY <2>2, <3>1, <5>1 DEF Holds
      <4> QED  BY <3>3, <4>1, <4>2
    <3> QED  BY <3>2, <3>3
  <2> QED  BY <1>1, <2>1, <2>7 DEF Resting
<1> HIDE DEF u, new
<1>5. FreshAccounts' /\ CancelKnown'
  BY <1>1 DEF FreshAccounts, CancelKnown, NoRequest
<1>6. TradesWithinLimit'
  BY <1>1, <1>3 DEF TradesWithinLimit
<1>7. MirrorExact'
  <2>1. /\ \A x \in OrderIds : x # o => mirror'[x] = mirror[x]
        /\ mirror'[o] = [side |-> req.side, quantity |-> req.quantity, price |-> req.limit_price]
    <3>1. mirror \in [OrderIds -> Quotes \cup {Null}]
      BY DEF TypeOK
    <3>2. /\ \A x \in OrderIds : x # o => Applied(mirror, u)[x] = mirror[x]
          /\ Applied(mirror, u)[o] = [side |-> u.side, quantity |-> u.quantity, price |-> u.price]
      BY <1>1, <1>3, <3>1, AppliedFacts
    <3> QED  BY <1>1, <1>3, <3>2
  <2>2. mirror'[o] = [side |-> order'[o].side, quantity |-> order'[o].quantity,
                      price |-> order'[o].limit_price]
    BY <1>2, <2>1 DEF new
  <2> QED  BY <1>1, <1>2, <1>4, <2>1, <2>2 DEF MirrorExact, BeingCanceled, NoRequest
<1>8. QuantityConserved'
  BY <1>1, <1>2, <1>4 DEF QuantityConserved, OpenQuantity, NoRequest, OrderIds, new
<1> QED  BY <1>5, <1>6, <1>7, <1>8

LEMMA CancelPreservesStreams ==
  ASSUME BookInvariant, StreamInvariant, NEW c \in Clients, NEW o \in OrderIds,
         NEW s \in RequestSides, NEW p \in Prices, cancel(c, o, s, p)
  PROVE  StreamInvariant'
<1> USE DEF BookInvariant, StreamInvariant
<1> DEFINE l == price_levels[p]
<1>1. /\ status = "running" /\ l \in Levels /\ Holds(l, o) /\ req = NoRequest
      /\ level_orders' = [level_orders EXCEPT ![l] = Unlinked(@, Position(@, o))]
      /\ req'.type = "CANCEL" /\ req'.order_id = o /\ req'.quantity = order[o].quantity
      /\ updates' = <<>> /\ UNCHANGED <<order, ledger, mirror, next_order_id>>
  BY DEF cancel, Silent, counters, RequestKnown, TypeOK, Pointer
<1>2. Resting(o) /\ \A x : Resting(x)' <=> Resting(x) /\ x # o
  <2>1. Resting(o)
    BY <1>1 DEF Resting
  <2> HIDE DEF l
  <2> QED  BY <1>1, <2>1, OthersStay
<1>3. FreshAccounts' /\ TradesWithinLimit'
  BY <1>1 DEF FreshAccounts, TradesWithinLimit
<1>4. CancelKnown'
  BY <1>1, <1>2, RestingFacts DEF CancelKnown
<1>5. MirrorExact'
  BY <1>1, <1>2 DEF MirrorExact, BeingCanceled, NoRequest
<1>6. QuantityConserved'
  BY <1>1, <1>2 DEF QuantityConserved, OpenQuantity, NoRequest, OrderIds
<1> QED  BY <1>3, <1>4, <1>5, <1>6

LEMMA ReplyPreservesStreams ==
  ASSUME BookInvariant, StreamInvariant, cancelReply
  PROVE  StreamInvariant'
<1> USE DEF BookInvariant, StreamInvariant
<1> DEFINE o == req.order_id
           r == ClientResponse("CANCELED", req.client, o, req.side, req.quantity, req.limit_price)
           u == MarketUpdate("REMOVE", o, Null, req.side, req.quantity, req.limit_price)
<1>1. /\ req.type = "CANCEL" /\ o \in OrderIds /\ req.quantity \in Nat
      /\ req' = NoRequest /\ updates' = <<u>> /\ mirror' = Applied(mirror, u)
      /\ ledger' = Booked(ledger, r)
      /\ UNCHANGED <<order, level_orders, next_order_id>>
  BY DEF cancelReply, RequestKnown, TypeOK, Request, bookVars, counters
<1>2. /\ u.type = "REMOVE" /\ u.order_id = o
      /\ r.type = "CANCELED" /\ r.order_id = o /\ r.quantity = req.quantity
  BY DEF MarketUpdate, ClientResponse
<1> HIDE DEF u, r
<1>3. ~Resting(o) /\ \A x : Resting(x)' <=> Resting(x)
  BY <1>1 DEF CancelKnown, Resting, Holds
<1>4. /\ \A x \in OrderIds : x # o => ledger'[x] = ledger[x]
      /\ ledger'[o].accepted = ledger[o].accepted /\ ledger'[o].filled = ledger[o].filled
      /\ ledger'[o].canceled = ledger[o].canceled + req.quantity
  <2>1. ledger \in [OrderIds -> Accounts]
    BY DEF TypeOK
  <2>2. /\ \A x \in OrderIds : x # o => Booked(ledger, r)[x] = ledger[x]
        /\ Booked(ledger, r)[o].accepted = ledger[o].accepted
        /\ Booked(ledger, r)[o].filled = ledger[o].filled
        /\ Booked(ledger, r)[o].canceled = ledger[o].canceled + req.quantity
    BY <1>1, <1>2, <2>1, BookedFacts
  <2> QED  BY <1>1, <2>2
<1>5. FreshAccounts'
  <2>1. o < next_order_id
    BY <1>1 DEF CancelKnown
  <2> QED  BY <1>1, <1>4, <2>1 DEF FreshAccounts, TypeOK, OrderIds
<1>6. CancelKnown' /\ TradesWithinLimit'
  BY <1>1, <1>2 DEF CancelKnown, TradesWithinLimit, NoRequest
<1>7. MirrorExact'
  <2>1. mirror'[o] = Null /\ \A x \in OrderIds : x # o => mirror'[x] = mirror[x]
    <3>1. mirror \in [OrderIds -> Quotes \cup {Null}]
      BY DEF TypeOK
    <3>2. /\ \A x \in OrderIds : x # o => Applied(mirror, u)[x] = mirror[x]
          /\ Applied(mirror, u)[o] = Null
      BY <1>1, <1>2, <3>1 DEF Applied
    <3> QED  BY <1>1, <1>2, <3>2
  <2> QED  BY <1>1, <1>3, <2>1 DEF MirrorExact, BeingCanceled, NoRequest
<1>8. QuantityConserved'
  <2>1. ledger[o].canceled \in Nat /\ ledger[o].filled \in Nat
    BY <1>1 DEF TypeOK, Accounts
  <2> QED  BY <1>1, <1>3, <1>4, <2>1 DEF QuantityConserved, OpenQuantity, NoRequest, OrderIds
<1> QED  BY <1>5, <1>6, <1>7, <1>8

LEMMA MatchPreservesStreams ==
  ASSUME BookInvariant, StreamInvariant, match
  PROVE  StreamInvariant'
<1> USE DEF BookInvariant, StreamInvariant
<1> DEFINE top   == best[Opposite(req.side)]
           maker == Head(level_orders[top])
           price == order[maker].limit_price
           fill  == Smaller(req.quantity, order[maker].quantity)
           rest  == order[maker].quantity - fill
           taker == req.order_id
           trade == MarketUpdate("TRADE", Null, next_trade_id, req.side, fill, price)
           change ==
             IF rest = 0
             THEN MarketUpdate("REMOVE", maker, Null, order[maker].side, fill, price)
             ELSE MarketUpdate("MODIFY", maker, Null, order[maker].side, rest, price)
           toMaker == ClientResponse("FILLED", order[maker].client, maker,
                                     order[maker].side, fill, price)
           toTaker == ClientResponse("FILLED", req.client, taker, req.side, fill, price)
<1>1. /\ status = "running" /\ req.type = "ADD" /\ taker \in OrderIds /\ taker < next_order_id
      /\ top \in Levels /\ level_orders[top] # <<>> /\ Holds(top, maker)
      /\ ~Better(Opposite(req.side), req.limit_price, level_price[top])
  <2>1. /\ status = "running" /\ req.type = "ADD" /\ taker \in OrderIds /\ taker < next_order_id
    BY DEF match, RequestKnown, QueuedEarlier
  <2>2. top \in Levels
    BY SidesAreTwo DEF match, CanMatch, TypeOK, Pointer
  <2>3. level_orders[top] # <<>> /\ ~Better(Opposite(req.side), req.limit_price, level_price[top])
    BY DEF match, CanMatch
  <2> QED  BY <2>1, <2>2, <2>3 DEF Holds, TypeOK
<1>2. /\ maker \in OrderIds /\ price = level_price[top] /\ price_levels[price] = top
      /\ order[maker].quantity > 0
  BY <1>1, OneLevel
<1>3. Resting(maker) /\ maker # taker /\ maker < next_order_id /\ ~Resting(taker)
  <2>1. Resting(maker)
    BY <1>1 DEF Resting
  <2> QED  BY <1>1, <2>1, RestingFacts
<1>4. /\ order[maker] \in OrderRecord /\ req.quantity \in Nat /\ order[maker].quantity \in Nat
      /\ fill \in Nat /\ rest \in Nat /\ req.quantity - fill \in Nat
  <2>1. order[maker] \in OrderRecord /\ req.quantity \in Nat
    BY <1>2 DEF TypeOK, Request
  <2>2. order[maker].quantity \in Nat
    BY <2>1 DEF OrderRecord
  <2>3. fill \in Nat /\ rest \in Nat /\ req.quantity - fill \in Nat
    BY <2>1, <2>2, SmallerFits
  <2> QED  BY <2>1, <2>2, <2>3
<1>5. /\ order' = [order EXCEPT ![maker].quantity = rest]
      /\ req' = [req EXCEPT !.quantity = @ - fill]
      /\ level_orders' = IF rest = 0
                         THEN [level_orders EXCEPT ![top] = Unlinked(@, Position(@, maker))]
                         ELSE level_orders
      /\ next_order_id' = next_order_id
      /\ updates' = <<trade, change>>
      /\ ledger' = Booked(Booked(ledger, toMaker), toTaker)
      /\ mirror' = Applied(Applied(mirror, trade), change)
  BY <1>2 DEF match
<1>6. /\ toMaker.type = "FILLED" /\ toMaker.order_id = maker /\ toMaker.quantity = fill
      /\ toTaker.type = "FILLED" /\ toTaker.order_id = taker /\ toTaker.quantity = fill
      /\ trade.type = "TRADE" /\ trade.price = price
      /\ change.type = (IF rest = 0 THEN "REMOVE" ELSE "MODIFY") /\ change.order_id = maker
      /\ rest # 0 => /\ change.side = order[maker].side /\ change.quantity = rest
                     /\ change.price = price
  BY DEF MarketUpdate, ClientResponse
<1>7. \A x : Resting(x)' <=> Resting(x) /\ (rest = 0 => x # maker)
  <2> HIDE DEF top, maker, rest
  <2>1. CASE rest = 0
    BY <1>1, <1>5, <2>1, OthersStay
  <2>2. CASE rest # 0
    BY <1>5, <2>2 DEF Resting, Holds
  <2> QED  BY <2>1, <2>2
<1> HIDE DEF trade, change, toMaker, toTaker, rest, fill, maker, top
<1>8. /\ req'.type = "ADD" /\ req'.order_id = taker /\ req'.quantity = req.quantity - fill
      /\ req'.side = req.side /\ req'.limit_price = req.limit_price
  BY <1>1, <1>5 DEF TypeOK, Request
<1>9. /\ \A x \in OrderIds : x # maker => order'[x] = order[x]
      /\ order'[maker].quantity = rest /\ order'[maker].side = order[maker].side
      /\ order'[maker].limit_price = price
  BY <1>2, <1>4, <1>5 DEF TypeOK, OrderRecord
<1>10. ledger \in [OrderIds -> Accounts] /\ mirror \in [OrderIds -> Quotes \cup {Null}]
  BY DEF TypeOK
<1>11. /\ \A x \in OrderIds : x \notin {maker, taker} => ledger'[x] = ledger[x]
       /\ \A x \in {maker, taker} : /\ ledger'[x].accepted = ledger[x].accepted
                                    /\ ledger'[x].filled = ledger[x].filled + fill
                                    /\ ledger'[x].canceled = ledger[x].canceled
  <2> DEFINE between == Booked(ledger, toMaker)
  <2>1. between \in [OrderIds -> Accounts]
    BY <1>4, <1>6, <1>10, BookedType
  <2>2. /\ \A x \in OrderIds : x # maker => between[x] = ledger[x]
        /\ between[maker].accepted = ledger[maker].accepted
        /\ between[maker].filled = ledger[maker].filled + fill
        /\ between[maker].canceled = ledger[maker].canceled
    BY <1>2, <1>4, <1>6, <1>10, BookedFacts
  <2> HIDE DEF between
  <2>3. /\ \A x \in OrderIds : x # taker => Booked(between, toTaker)[x] = between[x]
        /\ Booked(between, toTaker)[taker].accepted = between[taker].accepted
        /\ Booked(between, toTaker)[taker].filled = between[taker].filled + fill
        /\ Booked(between, toTaker)[taker].canceled = between[taker].canceled
    BY <1>1, <1>4, <1>6, <2>1, BookedFacts
  <2>4. ledger' = Booked(between, toTaker)
    BY <1>5 DEF between
  <2> QED  BY <1>1, <1>2, <1>3, <2>2, <2>3, <2>4
<1>12. /\ \A x \in OrderIds : x # maker => mirror'[x] = mirror[x]
       /\ mirror'[maker] = IF rest = 0 THEN Null
                           ELSE [side |-> order[maker].side, quantity |-> rest, price |-> price]
  <2>1. Applied(mirror, trade) = mirror
    BY <1>6, <1>10, AppliedFacts
  <2>2. /\ \A x \in OrderIds : x # maker => Applied(mirror, change)[x] = mirror[x]
        /\ Applied(mirror, change)[maker] =
             IF change.type = "REMOVE" THEN Null
             ELSE [side |-> change.side, quantity |-> change.quantity, price |-> change.price]
    BY <1>2, <1>6, <1>10, AppliedFacts
  <2> QED  BY <1>5, <1>6, <2>1, <2>2
<1>13. FreshAccounts' /\ CancelKnown'
  <2>1. CancelKnown'
    BY <1>8 DEF CancelKnown
  <2>2. ASSUME NEW x \in OrderIds, x >= next_order_id PROVE x \notin {maker, taker}
    BY <1>1, <1>3, <2>2 DEF TypeOK, OrderIds
  <2> QED  BY <1>5, <1>11, <2>1, <2>2 DEF FreshAccounts
<1>14. TradesWithinLimit'
  <2> SUFFICES ASSUME NEW i \in 1 .. 2, <<trade, change>>[i].type = "TRADE"
               PROVE  ~Better(Opposite(req.side), req.limit_price, <<trade, change>>[i].price)
    BY <1>5, <1>8 DEF TradesWithinLimit
  <2>1. <<trade, change>>[i] = trade
    BY <1>6
  <2> QED  BY <1>1, <1>2, <1>6, <2>1
<1>15. MirrorExact'
  BY <1>1, <1>3, <1>7, <1>8, <1>9, <1>12 DEF MirrorExact, BeingCanceled
<1>16. QuantityConserved'
  <2> SUFFICES ASSUME NEW x \in OrderIds
               PROVE  ledger'[x].accepted = ledger'[x].filled + ledger'[x].canceled
                                            + OpenQuantity(x)'
    BY DEF QuantityConserved
  <2>1. ledger[x].accepted = ledger[x].filled + ledger[x].canceled + OpenQuantity(x)
    BY DEF QuantityConserved
  <2>2. /\ ledger[x].accepted \in Nat /\ ledger[x].filled \in Nat /\ ledger[x].canceled \in Nat
    BY <1>10 DEF Accounts
  <2>3. CASE x = taker
    <3>1. OpenQuantity(x) = req.quantity /\ OpenQuantity(x)' = req.quantity - fill
      BY <1>8, <2>3 DEF OpenQuantity
    <3> QED  BY <1>4, <1>11, <2>1, <2>2, <2>3, <3>1
  <2>4. CASE x = maker
    <3>1. OpenQuantity(x) = order[maker].quantity /\ OpenQuantity(x)' = rest
      BY <1>3, <1>7, <1>8, <1>9, <2>4 DEF OpenQuantity
    <3>2. rest = order[maker].quantity - fill
      BY DEF rest
    <3> QED  BY <1>4, <1>11, <2>1, <2>2, <2>4, <3>1, <3>2
  <2>5. CASE x \notin {maker, taker}
    <3>1. OpenQuantity(x)' = OpenQuantity(x)
      BY <1>7, <1>8, <1>9, <2>5 DEF OpenQuantity
    <3> QED  BY <1>11, <2>1, <2>5, <3>1
  <2> QED  BY <2>3, <2>4, <2>5
<1> QED  BY <1>13, <1>14, <1>15, <1>16

LEMMA NextPreservesStreams ==
  BookInvariant /\ StreamInvariant /\ [Next]_vars => StreamInvariant'
BY AddPreservesStreams, SilentStepsPreserveStreams, FilledPreservesStreams, PlacePreservesStreams,
   CancelPreservesStreams, ReplyPreservesStreams, MatchPreservesStreams DEF Next

\* What the responses and the updates say is true in every reachable state.
THEOREM StreamInvariantHolds == Spec => []StreamInvariant
BY InitEstablishesStreams, NextPreservesStreams, BookInvariantHolds, PTL DEF Spec

\* Every trade that match() reports is at a price the incoming order accepts.
THEOREM BookTradesWithinLimit == Spec => []TradesWithinLimit
BY StreamInvariantHolds, PTL DEF StreamInvariant

\* The market updates describe the book exactly: add(), match() and cancel() push
\* an ADD, MODIFY or REMOVE for each change of a resting order, and no other.
THEOREM BookMirrorExact == Spec => []MirrorExact
BY StreamInvariantHolds, PTL DEF StreamInvariant

\* No unit of an order is reported twice or lost: ACCEPTED is the sum of FILLED,
\* CANCELED and what is open, also while a request is being served.
THEOREM BookQuantityConserved == Spec => []QuantityConserved
BY StreamInvariantHolds, PTL DEF StreamInvariant

-----------------------------------------------------------------------------
(* The two pools.                                                          *)

\* A step that does not touch price_level_pool.
LEMMA LevelPoolRests ==
  ASSUME UNCHANGED <<available, next_free, price_levels>>,
         status = "exit" => UNCHANGED <<status, pc>>,
         status' = "exit" => status = "exit" \/ pc' = "place"
  PROVE  UNCHANGED LevelPool!vars
<1>1. (status = "exit" /\ pc # "place")' = (status = "exit" /\ pc # "place")
  OBVIOUS
<1> QED  BY <1>1 DEF LevelPool!vars

\* insertPriceLevel() is getObject(), or the getObject() that exits;
\* removePriceLevel() is releaseObject(); nothing else touches the pool.
LEMMA LevelPoolStep ==
  BookInvariant /\ [Next]_vars => [LevelPool!Next]_(LevelPool!vars)
<1> SUFFICES ASSUME BookInvariant, [Next]_vars PROVE LevelPool!Next \/ UNCHANGED LevelPool!vars
  OBVIOUS
<1> USE DEF BookInvariant
<1> DEFINE Live == {l \in Levels : \E p \in Prices : price_levels[p] = l}
           Dead == status = "exit" /\ pc # "place"
<1>1. CASE insertPriceLevel
  <2>1. /\ pc = "insert" /\ status = "running" /\ status' = "running"
        /\ req.limit_price \in Prices /\ next_free \in Levels
        /\ available[next_free] /\ price_levels[req.limit_price] = Null
        /\ price_levels' = [price_levels EXCEPT ![req.limit_price] = next_free]
    BY <1>1 DEF insertPriceLevel, RequestKnown, LevelKnown, FreeBlockReady, TypeOK
  <2>2. Live' = Live \cup {next_free}
    <3>1. \A q \in Prices : price_levels'[q] =
                              IF q = req.limit_price THEN next_free ELSE price_levels[q]
      BY <2>1 DEF TypeOK
    <3>2. ASSUME NEW l \in Levels, NEW q \in Prices, price_levels[q] = l
          PROVE  price_levels'[q] = l
      BY <2>1, <3>1, <3>2, ConstantsAssumption
    <3>3. ASSUME NEW l \in Levels, NEW q \in Prices, price_levels'[q] = l
          PROVE  l = next_free \/ price_levels[q] = l
      BY <3>1, <3>3
    <3>4. price_levels'[req.limit_price] = next_free
      BY <2>1, <3>1
    <3> QED  BY <2>1, <3>2, <3>3, <3>4
  <2>3. Dead = FALSE /\ Dead' = FALSE
    BY <2>1
  <2>4. /\ ~LevelPool!Full(LevelPool!Taken(available, next_free))
        /\ available' = LevelPool!Taken(available, next_free)
        /\ next_free' = LevelPool!FirstFree(available', next_free)
    BY <1>1 DEF insertPriceLevel
  <2> HIDE DEF Live, Dead
  <2>5. LevelPool!getObject
    BY <2>1, <2>2, <2>3, <2>4 DEF LevelPool!getObject, Live, Dead
  <2> QED  BY <2>5 DEF LevelPool!Next
<1>2. CASE priceLevelPoolFull
  <2>1. Dead = FALSE /\ Dead' = TRUE /\ Live' = Live /\ next_free' = next_free
    BY <1>2 DEF priceLevelPoolFull
  <2>2. /\ LevelPool!Full(LevelPool!Taken(available, next_free))
        /\ available' = LevelPool!Taken(available, next_free)
    BY <1>2 DEF priceLevelPoolFull
  <2> HIDE DEF Live, Dead
  <2>3. LevelPool!getObjectFails
    BY <2>1, <2>2 DEF LevelPool!getObjectFails, Live, Dead
  <2> QED  BY <2>3 DEF LevelPool!Next
<1>3. CASE removePriceLevel
  <2>1. /\ victim \in Levels /\ victim # Null /\ ~available[victim]
        /\ status = "running" /\ status' = "running"
        /\ available' = [available EXCEPT ![victim] = TRUE] /\ next_free' = next_free
        /\ price_levels' = [price_levels EXCEPT ![level_price[victim]] = Null]
    BY <1>3, ConstantsAssumption DEF removePriceLevel, LevelKnown, Unindexed
  <2>2. level_price[victim] \in Prices /\ price_levels[level_price[victim]] = victim
    BY <2>1 DEF LevelsIndexed
  <2>3. \A q \in Prices : price_levels[q] = victim => q = level_price[victim]
    BY <2>1 DEF LevelsIndexed
  <2>4. victim \in Live /\ Live' = Live \ {victim}
    <3>1. \A q \in Prices : price_levels'[q] =
                              IF q = level_price[victim] THEN Null ELSE price_levels[q]
      BY <2>1, <2>2 DEF TypeOK
    <3> QED  BY <2>1, <2>2, <2>3, <3>1, ConstantsAssumption
  <2>5. Dead = FALSE /\ Dead' = available[victim]
    BY <2>1 DEF TypeOK
  <2> HIDE DEF Live, Dead
  <2>6. PICK block \in LevelPool!Blocks : block = victim
    BY <2>1 DEF LevelPool!Blocks, Levels
  <2>7. LevelPool!releaseObject(block)
    BY <2>1, <2>4, <2>5, <2>6 DEF LevelPool!releaseObject, Live, Dead
  <2> QED  BY <2>7, Zenon DEF LevelPool!Next
<1>4. CASE \/ \E c \in Clients, s \in RequestSides, q \in Quantities, p \in Prices :
                add(c, s, q, p)
           \/ \E c \in Clients, o \in OrderIds, s \in RequestSides, p \in Prices :
                cancel(c, o, s, p) \/ cancelRejected(c, o, s, p)
  BY <1>4, LevelPoolRests DEF add, cancel, cancelRejected, bookVars, control
<1>5. CASE match \/ matchNullOrder \/ filled \/ getPriceLevel \/ insertWalk \/ removeWalk
           \/ removeWalkNull \/ cancelReply
  BY <1>5, LevelPoolRests DEF match, matchNullOrder, filled, getPriceLevel, insertWalk, removeWalk,
     removeWalkNull, cancelReply, bookVars
<1>6. CASE placeOrder \/ orderPoolFull
  BY <1>6, LevelPoolRests DEF placeOrder, orderPoolFull
<1>7. CASE Halted \/ UNCHANGED vars
  BY <1>7, LevelPoolRests DEF Halted, vars, bookVars, control
<1> QED  BY <1>1, <1>2, <1>3, <1>4, <1>5, <1>6, <1>7 DEF Next

\* price_level_pool is used as ObjectPool allows, whatever the requests: so what
\* is proved of the pool (no shared block, exit only at the last one) holds of
\* the levels of the book.
THEOREM BookLevelPoolContract == Spec => LevelPoolContract
<1>1. Init => LevelPool!Init
  BY ConstantsAssumption DEF Init, LevelPool!Init, LevelPool!Blocks, Levels
<1> QED
  BY <1>1, LevelPoolStep, BookInvariantHolds, PTL DEF Spec, LevelPoolContract, LevelPool!Spec

\* Until order_pool has ended the process, it has a block for the next order.
OrdersLeft == ~OrderPoolExited => orders_used < MAX_ORDER_IDS

LEMMA NextPreservesOrdersLeft == TypeOK /\ OrdersLeft /\ [Next]_vars => OrdersLeft'
<1> SUFFICES ASSUME TypeOK, OrdersLeft, [Next]_vars PROVE OrdersLeft'
  OBVIOUS
<1> USE DEF OrdersLeft, OrderPoolExited
<1>1. CASE placeOrder \/ orderPoolFull
  BY <1>1, ConstantsAssumption DEF placeOrder, orderPoolFull, OrderBlockLeft, TypeOK
<1>2. CASE insertPriceLevel \/ priceLevelPoolFull \/ removePriceLevel
  BY <1>2 DEF insertPriceLevel, priceLevelPoolFull, removePriceLevel
<1>3. CASE \/ \E c \in Clients, s \in RequestSides, q \in Quantities, p \in Prices :
                add(c, s, q, p)
           \/ \E c \in Clients, o \in OrderIds, s \in RequestSides, p \in Prices :
                cancel(c, o, s, p) \/ cancelRejected(c, o, s, p)
  BY <1>3 DEF add, cancel, cancelRejected, bookVars, control
<1>4. CASE match \/ matchNullOrder \/ filled \/ getPriceLevel \/ insertWalk \/ removeWalk
           \/ removeWalkNull \/ cancelReply
  BY <1>4 DEF match, matchNullOrder, filled, getPriceLevel, insertWalk, removeWalk,
     removeWalkNull, cancelReply, bookVars
<1>5. CASE Halted \/ UNCHANGED vars
  BY <1>5 DEF Halted, vars, bookVars, control
<1> QED  BY <1>1, <1>2, <1>3, <1>4, <1>5 DEF Next

\* Until order_pool has ended the process, it has a block for the next order.
THEOREM BookOrdersLeft == Spec => []OrdersLeft
<1>1. Init => OrdersLeft
  BY ConstantsAssumption DEF Init, OrdersLeft
<1> QED  BY <1>1, NextPreservesOrdersLeft, BookTypeCorrect, PTL DEF Spec

\* A step that does not touch order_pool.
LEMMA OrderPoolRests ==
  ASSUME UNCHANGED orders_used, OrderPoolExited' <=> OrderPoolExited
  PROVE  UNCHANGED OrderPool!vars
<1>1. OrderPoolExited' = OrderPoolExited
  BY DEF OrderPoolExited
<1> HIDE DEF OrderPoolExited
<1> QED  BY <1>1 DEF OrderPool!vars

\* The first block from orders_used on that is still flagged is the next one.
LEMMA NextOrderBlock ==
  ASSUME NEW n \in Nat, n + 1 < MAX_ORDER_IDS
  PROVE  OrderPool!FirstFree([b \in 0 .. (MAX_ORDER_IDS - 1) |-> b >= n + 1], n) = n + 1
<1> DEFINE Blocks == 0 .. (MAX_ORDER_IDS - 1)
           flags == [b \in Blocks |-> b >= n + 1]
           steps(b) == IF b >= n THEN b - n ELSE (b + MAX_ORDER_IDS) - n
           first(b) == flags[b] /\ \A c \in Blocks : flags[c] => steps(b) <= steps(c)
<1>1. MAX_ORDER_IDS \in Nat
  BY ConstantsAssumption
<1>2. \A b \in Blocks : flags[b] <=> b >= n + 1
  OBVIOUS
<1>3. n + 1 \in Blocks /\ first(n + 1)
  <2>1. n + 1 \in Blocks
    BY <1>1
  <2> HIDE DEF flags
  <2>2. \A c \in Blocks : c >= n + 1 => steps(n + 1) <= steps(c)
    BY <1>1
  <2> HIDE DEF Blocks
  <2>3. flags[n + 1]
    BY <1>2, <2>1
  <2> QED  BY <1>2, <2>1, <2>2, <2>3
<1>4. \A b \in Blocks : first(b) => b = n + 1
  <2> SUFFICES ASSUME NEW b \in Blocks, flags[b], steps(b) <= steps(n + 1) PROVE b = n + 1
    BY <1>3
  <2>1. b >= n + 1
    BY <1>2
  <2> QED  BY <1>1, <2>1
<1>5. OrderPool!FirstFree(flags, n) = CHOOSE b \in Blocks : first(b)
  BY DEF OrderPool!FirstFree, OrderPool!StepsFrom, OrderPool!Blocks
<1> HIDE DEF first, flags, Blocks
<1>6. (CHOOSE b \in Blocks : first(b)) = n + 1
  BY <1>3, <1>4, Zenon
<1> QED  BY <1>5, <1>6 DEF flags, Blocks

\* placeOrder is getObject(), orderPoolFull the getObject() that exits.
LEMMA OrderPoolStep ==
  TypeOK /\ OrdersLeft /\ [Next]_vars => [OrderPool!Next]_(OrderPool!vars)
<1> SUFFICES ASSUME TypeOK, OrdersLeft, [Next]_vars
             PROVE  OrderPool!Next \/ UNCHANGED OrderPool!vars
  OBVIOUS
<1> DEFINE Blocks == 0 .. (MAX_ORDER_IDS - 1)
           flags == [b \in Blocks |-> b >= orders_used]
           next == IF OrderPoolExited THEN MAX_ORDER_IDS - 1 ELSE orders_used
           taken == {b \in Blocks : b < orders_used /\ ~(OrderPoolExited /\ b = MAX_ORDER_IDS - 1)}
<1>a. MAX_ORDER_IDS \in Nat /\ orders_used \in Nat
  BY ConstantsAssumption DEF TypeOK
<1>b. /\ flags \in [Blocks -> BOOLEAN] /\ flags' \in [Blocks -> BOOLEAN]
      /\ \A b \in Blocks : (flags[b] <=> b >= orders_used) /\ (flags'[b] <=> b >= orders_used')
  <2>1. flags \in [Blocks -> BOOLEAN] /\ flags' \in [Blocks -> BOOLEAN]
    BY <1>a DEF TypeOK
  <2>2. \A b \in Blocks : flags[b] <=> b >= orders_used
    OBVIOUS
  <2>3. \A b \in Blocks : flags'[b] <=> b >= orders_used'
    OBVIOUS
  <2> QED  BY <2>1, <2>2, <2>3
<1>1. CASE placeOrder
  <2>1. /\ OrderPoolExited = FALSE /\ OrderPoolExited' = FALSE
        /\ orders_used + 1 < MAX_ORDER_IDS /\ orders_used' = orders_used + 1
    BY <1>1 DEF placeOrder, OrderPoolExited, OrderBlockLeft
  <2>2. next = orders_used /\ next' = orders_used + 1
    BY <2>1
  <2>3. flags[next] /\ flags' = OrderPool!Taken(flags, next)
    <3>1. next \in Blocks /\ \A b \in Blocks : b >= orders_used' <=> b >= orders_used /\ b # next
      BY <1>a, <2>1, <2>2
    <3>2. next >= orders_used
      BY <1>a, <2>2
    <3> HIDE DEF flags, next, Blocks
    <3>3. flags[next] /\ \A b \in Blocks : flags'[b] = IF b = next THEN FALSE ELSE flags[b]
      BY <1>b, <3>1, <3>2
    <3> QED  BY <1>b, <3>1, <3>3 DEF OrderPool!Taken
  <2>4. ~OrderPool!Full(OrderPool!Taken(flags, next))
    <3>1. orders_used + 1 \in Blocks /\ orders_used + 1 >= orders_used'
      BY <1>a, <2>1
    <3> HIDE DEF flags, next
    <3>2. flags'[orders_used + 1]
      BY <1>b, <3>1
    <3> QED  BY <2>3, <3>1, <3>2 DEF OrderPool!Full, OrderPool!Blocks
  <2>5. next' = OrderPool!FirstFree(flags', next)
    <3>1. flags' = [b \in Blocks |-> b >= orders_used + 1]
      BY <2>1
    <3> QED  BY <1>a, <2>1, <2>2, <3>1, NextOrderBlock
  <2>6. taken' = taken \cup {next}
    BY <1>a, <2>1, <2>2
  <2> HIDE DEF flags, next, taken
  <2>7. OrderPool!getObject
    BY <2>1, <2>3, <2>4, <2>5, <2>6 DEF OrderPool!getObject, flags, next, taken
  <2> QED  BY <2>7 DEF OrderPool!Next
<1>2. CASE orderPoolFull
  <2>1. /\ OrderPoolExited = FALSE /\ OrderPoolExited' = TRUE
        /\ orders_used = MAX_ORDER_IDS - 1 /\ orders_used' = MAX_ORDER_IDS
    BY <1>a, <1>2 DEF orderPoolFull, OrderPoolExited, OrderBlockLeft, OrdersLeft
  <2>2. next = MAX_ORDER_IDS - 1 /\ next' = next
    BY <2>1
  <2>3. flags' = OrderPool!Taken(flags, next) /\ OrderPool!Full(flags')
    <3>1. /\ next \in Blocks /\ \A b \in Blocks : b >= orders_used <=> b = next
          /\ \A b \in Blocks : ~(b >= orders_used')
      BY <1>a, <2>1, <2>2, ConstantsAssumption
    <3> HIDE DEF flags, next, Blocks
    <3>2. \A b \in Blocks : flags'[b] = IF b = next THEN FALSE ELSE flags[b]
      BY <1>b, <3>1
    <3>3. flags' = OrderPool!Taken(flags, next)
      BY <1>b, <3>1, <3>2 DEF OrderPool!Taken
    <3>4. \A b \in Blocks : ~flags'[b]
      BY <1>b, <3>1
    <3> QED  BY <3>3, <3>4 DEF OrderPool!Full, OrderPool!Blocks, Blocks
  <2>4. taken' = taken
    BY <1>a, <2>1
  <2> HIDE DEF flags, next, taken
  <2>5. OrderPool!getObjectFails
    BY <2>1, <2>2, <2>3, <2>4 DEF OrderPool!getObjectFails, flags, next, taken
  <2> QED  BY <2>5 DEF OrderPool!Next
<1>3. CASE insertPriceLevel \/ priceLevelPoolFull \/ removePriceLevel
  BY <1>3, OrderPoolRests DEF insertPriceLevel, priceLevelPoolFull, removePriceLevel, OrderPoolExited
<1>4. CASE \/ \E c \in Clients, s \in RequestSides, q \in Quantities, p \in Prices :
                add(c, s, q, p)
           \/ \E c \in Clients, o \in OrderIds, s \in RequestSides, p \in Prices :
                cancel(c, o, s, p) \/ cancelRejected(c, o, s, p)
  BY <1>4, OrderPoolRests DEF add, cancel, cancelRejected, bookVars, control, OrderPoolExited
<1>5. CASE match \/ matchNullOrder \/ filled \/ getPriceLevel \/ insertWalk \/ removeWalk
           \/ removeWalkNull \/ cancelReply
  BY <1>5, OrderPoolRests DEF match, matchNullOrder, filled, getPriceLevel, insertWalk, removeWalk,
     removeWalkNull, cancelReply, bookVars, OrderPoolExited
<1>6. CASE Halted \/ UNCHANGED vars
  BY <1>6, OrderPoolRests DEF Halted, vars, bookVars, control, OrderPoolExited
<1> QED  BY <1>1, <1>2, <1>3, <1>4, <1>5, <1>6 DEF Next

\* Of order_pool the book only ever calls getObject(), and the number of orders
\* placed is all there is to its state: blocks are handed out in the order of
\* their index until the last one ends the process.
THEOREM BookOrderPoolContract == Spec => OrderPoolContract
<1>1. Init => OrderPool!Init
  <2> DEFINE Blocks == 0 .. (MAX_ORDER_IDS - 1)
  <2> SUFFICES ASSUME Init PROVE OrderPool!Init
    OBVIOUS
  <2>1. orders_used = 0 /\ OrderPoolExited = FALSE
    BY DEF Init, OrderPoolExited
  <2>2. \A b \in Blocks : (b >= 0) = TRUE /\ ~(b < 0)
    BY ConstantsAssumption
  <2>3. [b \in Blocks |-> b >= orders_used] = [b \in Blocks |-> TRUE]
    BY <2>1, <2>2
  <2>4. {b \in Blocks : b < orders_used /\ ~(OrderPoolExited /\ b = MAX_ORDER_IDS - 1)} = {}
    BY <2>1, <2>2
  <2> QED  BY <2>1, <2>3, <2>4 DEF OrderPool!Init, OrderPool!Blocks
<1> QED
  BY <1>1, OrderPoolStep, BookTypeCorrect, BookOrdersLeft, PTL
     DEF Spec, OrderPoolContract, OrderPool!Spec

-----------------------------------------------------------------------------
(***************************************************************************)
(* The book as long as every level has been created at the head of its     *)
(* list: the lists, the prices across them, and the order of the fills.    *)
(***************************************************************************)

\* No bid level reaches an ask level.
LevelsUncrossed ==
  \A b \in LiveOn("BUY"), a \in LiveOn("SELL") : level_price[b] < level_price[a]

\* The orders of a level are on the side of the level.
SidesAgree ==
  \A l \in Levels : \A i \in 1 .. Len(level_orders[l]) :
    BookSide(order[level_orders[l][i]].side) = BookSide(level_side[l])

\* What is left of an order when its matching has ended does not reach the best
\* level of the other side, and the level it is placed at is on its own side.
RestPlaceable ==
  LET top == best[Opposite(req.side)]
  IN  /\ pc \in {"insert", "place"} /\ top # Null =>
           Better(Opposite(req.side), req.limit_price, level_price[top])
      /\ pc = "place" => BookSide(level_side[cursor]) = BookSide(req.side)

\* The walk to the level before victim has not passed it, or victim is the first.
RemovalOnTheWay ==
  LET side == BookSide(level_side[victim])
  IN  pc = "remove" =>
        IF cursor = Null THEN victim = best[side]
        ELSE cursor \in LiveOn(side) /\ Better(side, level_price[cursor], level_price[victim])

Sound == ChainComplete /\ LevelsUncrossed /\ SidesAgree /\ RestPlaceable /\ RemovalOnTheWay

ChainInvariant ==
  /\ status = "exit" => pc \in {"insert", "place"}
  /\ ~orphaned => status # "segv"
  /\ ~orphaned /\ status # "exit" => Sound

-----------------------------------------------------------------------------
(* Sorted lists.                                                           *)

\* x is the best level of S, and Null if there is none.
First(side, price, x, S) ==
  \/ S = {} /\ x = Null
  \/ x \in S /\ \A m \in S : ~Better(side, price[m], price[x])

Worse(side, price, l, S) == {m \in S : Better(side, price[l], price[m])}

\* From head on, next leads through the levels of S from the best to the worst.
Chain(side, price, next, head, S) ==
  /\ First(side, price, head, S)
  /\ \A l \in S : First(side, price, next[l], Worse(side, price, l, S))

\* Levels with natural prices, no two of them with the same.
Ranked(price, S) ==
  /\ \A l \in S : l \in Levels /\ price[l] \in Nat
  /\ \A l, m \in S : price[l] = price[m] => l = m

LEMMA ChainCompleteIsChain ==
  /\ ChainComplete <=> \A side \in {"BUY", "SELL"} :
       Chain(side, level_price, level_next, best[side], LiveOn(side))
  /\ ChainComplete' <=> \A side \in {"BUY", "SELL"} :
       Chain(side, level_price', level_next', best'[side], LiveOn(side)')
<1>1. ASSUME NEW On, NEW price, NEW side, NEW x
      PROVE  First(side, price, x, On) <=>
               IF On = {} THEN x = Null
               ELSE x \in On /\ \A m \in On : ~Better(side, price[m], price[x])
  BY DEF First
<1>2. ChainComplete <=> \A side \in {"BUY", "SELL"} :
        Chain(side, level_price, level_next, best[side], LiveOn(side))
  BY <1>1, Zenon DEF ChainComplete, Chain, Worse
<1>3. ChainComplete' <=> \A side \in {"BUY", "SELL"} :
        Chain(side, level_price', level_next', best'[side], LiveOn(side)')
  BY <1>1, Zenon DEF ChainComplete, Chain, Worse
<1> QED  BY <1>2, <1>3

\* Nothing that the list depends on changes.
LEMMA ChainStays ==
  ASSUME NEW side, NEW price, NEW next, NEW head, NEW S, NEW price1, NEW next1,
         Chain(side, price, next, head, S),
         \A l \in S : price1[l] = price[l] /\ next1[l] = next[l]
  PROVE  Chain(side, price1, next1, head, S)
<1>1. First(side, price1, head, S)
  BY DEF Chain, First
<1>2. ASSUME NEW l \in S PROVE First(side, price1, next1[l], Worse(side, price1, l, S))
  <2>1. Worse(side, price1, l, S) = Worse(side, price, l, S)
    BY DEF Worse
  <2>2. First(side, price, next[l], Worse(side, price, l, S)) /\ Worse(side, price, l, S) \subseteq S
    BY DEF Chain, Worse
  <2> QED  BY <2>1, <2>2 DEF First
<1> QED  BY <1>1, <1>2 DEF Chain

\* A new level, better than all the others, becomes the head.
LEMMA ChainPush ==
  ASSUME NEW side, NEW price, NEW next, NEW head, NEW S, NEW price1, NEW next1, NEW new,
         Chain(side, price, next, head, S), Ranked(price, S), new \notin S,
         \A l \in S : price1[l] = price[l] /\ next1[l] = next[l],
         price1[new] \in Nat, next1[new] = head,
         \A l \in S : Better(side, price1[new], price[l])
  PROVE  Chain(side, price1, next1, new, S \cup {new})
<1> DEFINE T == S \cup {new}
<1>1. Chain(side, price1, next1, head, S)
  BY ChainStays
<1>2. \A l \in S : ~Better(side, price1[l], price1[new]) /\ Better(side, price1[new], price1[l])
  BY DEF Better, Ranked
<1>3. ~Better(side, price1[new], price1[new])
  BY DEF Better
<1>4. First(side, price1, new, T)
  BY <1>2, <1>3 DEF First
<1>5. Worse(side, price1, new, T) = S
  BY <1>2, <1>3 DEF Worse
<1>6. \A l \in S : Worse(side, price1, l, T) = Worse(side, price1, l, S)
  BY <1>2 DEF Worse
<1> QED  BY <1>1, <1>4, <1>5, <1>6 DEF Chain

\* The head is taken out.
LEMMA ChainPop ==
  ASSUME NEW side, NEW price, NEW next, NEW head, NEW S,
         Chain(side, price, next, head, S), Ranked(price, S), head \in S
  PROVE  Chain(side, price, next, next[head], S \ {head})
<1> DEFINE T == S \ {head}
<1>1. \A l \in S : ~Better(side, price[l], price[head])
  BY DEF Chain, First
<1>2. Worse(side, price, head, S) = T
  BY <1>1 DEF Worse, Ranked, Better
<1>3. \A l \in T : Worse(side, price, l, T) = Worse(side, price, l, S)
  BY <1>1 DEF Worse
<1> QED  BY <1>2, <1>3 DEF Chain

\* A level after the head is taken out.
LEMMA ChainUnlink ==
  ASSUME NEW side, NEW price, NEW next, NEW head, NEW S, NEW next1, NEW prev, NEW gone,
         Chain(side, price, next, head, S), Ranked(price, S), prev \in S, gone \in S,
         next[prev] = gone, next1[prev] = next[gone],
         \A l \in S : l # prev => next1[l] = next[l]
  PROVE  Chain(side, price, next1, head, S \ {gone})
<1> DEFINE T == S \ {gone}
<1>1. \A l \in S : First(side, price, next[l], Worse(side, price, l, S))
  BY DEF Chain
<1>2. S \subseteq Levels /\ Null \notin S
  BY ConstantsAssumption DEF Ranked
<1>3. /\ Better(side, price[prev], price[gone])
      /\ \A m \in S : Better(side, price[prev], price[m]) => ~Better(side, price[m], price[gone])
  BY <1>1, <1>2 DEF First, Worse
<1>4. First(side, price, head, T)
  <2>1. head \in S /\ \A m \in S : ~Better(side, price[m], price[head])
    BY DEF Chain, First
  <2>2. head # gone
    BY <1>3, <2>1
  <2> QED  BY <2>1, <2>2 DEF First
<1>5. ASSUME NEW l \in T PROVE First(side, price, next1[l], Worse(side, price, l, T))
  <2>1. Worse(side, price, l, T) = Worse(side, price, l, S) \ {gone}
    BY DEF Worse
  <2>2. CASE l = prev
    <3>1. Worse(side, price, prev, S) \ {gone} = Worse(side, price, gone, S)
      BY <1>3 DEF Worse, Better, Ranked
    <3> QED  BY <1>1, <2>1, <2>2, <3>1
  <2>3. CASE l # prev
    <3>1. next1[l] = next[l] /\ First(side, price, next[l], Worse(side, price, l, S))
      BY <1>1, <2>3
    <3>2. next[l] # gone
      <4>1. SUFFICES ASSUME next[l] = gone PROVE FALSE
        OBVIOUS
      <4>2. /\ Better(side, price[l], price[gone])
            /\ \A m \in S : Better(side, price[l], price[m]) => ~Better(side, price[m], price[gone])
        BY <1>2, <3>1, <4>1 DEF First, Worse
      <4>3. price[l] \in Nat /\ price[prev] \in Nat /\ price[l] # price[prev]
        BY <2>3 DEF Ranked
      <4>4. Better(side, price[l], price[prev]) \/ Better(side, price[prev], price[l])
        BY <4>3 DEF Better
      <4> QED  BY <1>3, <4>2, <4>4
    <3> QED  BY <2>1, <3>1, <3>2 DEF First
  <2> QED  BY <2>2, <2>3
<1> QED  BY <1>4, <1>5 DEF Chain

-----------------------------------------------------------------------------
(* The book.                                                               *)

\* The levels in use have different prices.
LEMMA LiveLevels ==
  ASSUME BookInvariant, status # "exit"
  PROVE  /\ \A side : Ranked(level_price, LiveOn(side))
         /\ \A side : \A l \in LiveOn(side) :
              /\ l \in Levels /\ l # Null /\ ~available[l] /\ BookSide(level_side[l]) = side
              /\ level_price[l] \in Prices /\ price_levels[level_price[l]] = l
<1>1. ASSUME NEW side, NEW l \in LiveOn(side)
      PROVE  /\ l \in Levels /\ l # Null /\ ~available[l] /\ BookSide(level_side[l]) = side
             /\ level_price[l] \in Prices /\ price_levels[level_price[l]] = l
             /\ level_price[l] \in Nat
  BY ConstantsAssumption DEF LiveOn, BookInvariant, LevelsIndexed
<1> QED  BY <1>1 DEF Ranked

\* The two sides, as code that tests `side == BUY` sees them.
LEMMA SideFacts ==
  ASSUME NEW s, NEW t
  PROVE  /\ BookSide(s) # Opposite(s)
         /\ BookSide(t) # BookSide(s) => BookSide(t) = Opposite(s)
         /\ BookSide(s) \in {"BUY", "SELL"} /\ Opposite(s) \in {"BUY", "SELL"}
BY DEF BookSide, Opposite

\* A best level that is not null is in use, on its side, and has the best price.
LEMMA BestLevel ==
  ASSUME BookInvariant, status # "exit", ChainComplete, NEW side \in {"BUY", "SELL"}
  PROVE  /\ best[side] = Null => LiveOn(side) = {}
         /\ best[side] # Null =>
              /\ best[side] \in LiveOn(side)
              /\ \A l \in LiveOn(side) :
                   /\ ~Better(side, level_price[l], level_price[best[side]])
                   /\ l # best[side] => Better(side, level_price[best[side]], level_price[l])
<1>1. First(side, level_price, best[side], LiveOn(side))
  BY ChainCompleteIsChain DEF Chain
<1>2. Ranked(level_price, LiveOn(side)) /\ \A l \in LiveOn(side) : l # Null
  BY LiveLevels
<1> QED  BY <1>1, <1>2 DEF First, Ranked, Better

\* The lists and the levels they link are unchanged.
LEMMA ListsUntouched ==
  ASSUME UNCHANGED <<available, level_side, level_price, level_next, best>>
  PROVE  /\ ChainComplete => ChainComplete'
         /\ LevelsUncrossed => LevelsUncrossed'
         /\ \A side : LiveOn(side)' = LiveOn(side)
<1>1. \A side : LiveOn(side)' = LiveOn(side)
  BY DEF LiveOn
<1>2. LevelsUncrossed => LevelsUncrossed'
  BY <1>1 DEF LevelsUncrossed
<1>3. ChainComplete => ChainComplete'
  BY <1>1, ChainCompleteIsChain
<1> QED  BY <1>1, <1>2, <1>3

\* A step in which the book keeps still.
LEMMA SoundUntouched ==
  ASSUME Sound, UNCHANGED bookVars, RestPlaceable', RemovalOnTheWay'
  PROVE  Sound'
BY ListsUntouched DEF Sound, bookVars, SidesAgree

LEMMA QuietStepsStaySound ==
  ASSUME BookInvariant, Sound,
         \/ \E c \in Clients, s \in RequestSides, q \in Quantities, p \in Prices : add(c, s, q, p)
         \/ \E c \in Clients, o \in OrderIds, s \in RequestSides, p \in Prices :
              cancelRejected(c, o, s, p)
         \/ filled \/ insertWalk \/ cancelReply \/ UNCHANGED vars
  PROVE  Sound'
<1>1. CASE \E c \in Clients, s \in RequestSides, q \in Quantities, p \in Prices : add(c, s, q, p)
  BY <1>1, SoundUntouched DEF add, RestPlaceable, RemovalOnTheWay
<1>2. CASE filled \/ cancelReply
  BY <1>2, SoundUntouched DEF filled, cancelReply, RestPlaceable, RemovalOnTheWay
<1>3. CASE insertWalk
  <2>1. RestPlaceable' /\ RemovalOnTheWay'
    BY <1>3 DEF insertWalk, bookVars, RestPlaceable, RemovalOnTheWay, Sound
  <2> QED  BY <1>3, <2>1, SoundUntouched DEF insertWalk
<1>4. CASE \/ \E c \in Clients, o \in OrderIds, s \in RequestSides, p \in Prices :
                cancelRejected(c, o, s, p)
           \/ UNCHANGED vars
  <2>1. UNCHANGED <<bookVars, control>>
    BY <1>4 DEF cancelRejected, vars
  <2>2. RestPlaceable' /\ RemovalOnTheWay'
    BY <2>1 DEF bookVars, control, RestPlaceable, RemovalOnTheWay, LiveOn, Sound
  <2> QED  BY <2>1, <2>2, SoundUntouched
<1> QED  BY <1>1, <1>2, <1>3, <1>4

\* A remainder that no longer matches goes to its own side of the book, also if
\* a level with its price exists.
LEMMA GetPriceLevelStaysSound ==
  ASSUME BookInvariant, Sound, getPriceLevel
  PROVE  Sound'
<1> USE DEF BookInvariant, Sound
<1> DEFINE opp == Opposite(req.side)
           found == price_levels[req.limit_price]
<1>1. /\ status = "running" /\ req.quantity # 0 /\ req.limit_price \in Prices
      /\ UNCHANGED <<bookVars, req>>
      /\ pc' = IF found # Null THEN "place" ELSE "insert"
      /\ found # Null => cursor' = found
  BY DEF getPriceLevel, RequestKnown
<1>2. best[opp] # Null => Better(opp, req.limit_price, level_price[best[opp]])
  BY <1>1 DEF getPriceLevel, CanMatch
<1>3. found # Null => BookSide(level_side[found]) = BookSide(req.side)
  <2>1. SUFFICES ASSUME found # Null, BookSide(level_side[found]) # BookSide(req.side) PROVE FALSE
    OBVIOUS
  <2>2. found \in LiveOn(opp) /\ level_price[found] = req.limit_price
    BY <1>1, <2>1, SideFacts DEF LevelsIndexed, LiveOn, TypeOK, Pointer
  <2>3. /\ best[opp] # Null
        /\ ~Better(opp, level_price[found], level_price[best[opp]])
    <3>1. opp \in {"BUY", "SELL"}
      BY SideFacts
    <3> QED  BY <1>1, <2>2, <3>1, BestLevel
  <2> QED  BY <1>2, <2>2, <2>3
<1>4. RestPlaceable' /\ RemovalOnTheWay'
  BY <1>1, <1>2, <1>3 DEF RestPlaceable, RemovalOnTheWay, bookVars
<1> QED  BY <1>1, <1>4, SoundUntouched

\* The walk of removePriceLevel() reaches the level before victim.
LEMMA RemoveWalkStaysSound ==
  ASSUME BookInvariant, Sound, pc = "remove", status = "running", cursor # Null
  PROVE  /\ level_next[cursor] # Null
         /\ removeWalk => Sound'
         /\ RemoveFound => level_next[cursor] = victim
<1> USE DEF BookInvariant, Sound
<1> DEFINE side == BookSide(level_side[victim])
           after == level_next[cursor]
<1>1. /\ cursor \in LiveOn(side) /\ Better(side, level_price[cursor], level_price[victim])
      /\ victim \in LiveOn(side) /\ side \in {"BUY", "SELL"}
  BY SideFacts DEF RemovalOnTheWay, LevelKnown, LiveOn
<1>2. Ranked(level_price, LiveOn(side)) /\ \A l \in LiveOn(side) : l # Null
  BY LiveLevels
<1>3. First(side, level_price, after, Worse(side, level_price, cursor, LiveOn(side)))
  BY <1>1, ChainCompleteIsChain DEF Chain
<1>4. /\ after \in LiveOn(side) /\ after # Null
      /\ ~Better(side, level_price[victim], level_price[after])
  BY <1>1, <1>2, <1>3 DEF First, Worse
<1>5. RemoveFound => after = victim
  BY <1>1, <1>2, <1>4 DEF RemoveFound, Ranked
<1>6. ASSUME removeWalk PROVE Sound'
  <2>1. level_price[after] # level_price[victim]
    BY <1>4, <1>6 DEF removeWalk, RemoveFound
  <2>2. Better(side, level_price[after], level_price[victim])
    BY <1>1, <1>2, <1>4, <2>1 DEF Ranked, Better
  <2>3. /\ UNCHANGED <<bookVars, victim, pc>> /\ cursor' = after
    BY <1>6 DEF removeWalk
  <2>4. RestPlaceable' /\ RemovalOnTheWay'
    BY <1>4, <2>2, <2>3 DEF RestPlaceable, RemovalOnTheWay, LiveOn, bookVars
  <2> QED  BY <2>3, <2>4, SoundUntouched
<1> QED  BY <1>4, <1>5, <1>6

\* A level in use on the list can be removed: it is the first one, or the walk
\* starts before it.
LEMMA RemovalStarts ==
  ASSUME BookInvariant, Sound, status = "running", NEW l \in Levels, ~available[l],
         EnterRemove(l), UNCHANGED <<available, level_side, level_price, best>>
  PROVE  RemovalOnTheWay' /\ RestPlaceable'
<1> USE DEF BookInvariant, Sound
<1> DEFINE side == BookSide(level_side[l])
<1>1. l \in LiveOn(side) /\ side \in {"BUY", "SELL"}
  BY SideFacts DEF LiveOn
<1>2. /\ best[side] \in LiveOn(side) /\ best[side] # Null
      /\ l # best[side] => Better(side, level_price[best[side]], level_price[l])
  BY <1>1, BestLevel
<1>3. \A s : LiveOn(s)' = LiveOn(s)
  BY DEF LiveOn
<1>4. /\ pc' = "remove" /\ victim' = l /\ cursor' = IF l = best[side] THEN Null ELSE best[side]
  BY DEF EnterRemove
<1> QED  BY <1>2, <1>3, <1>4 DEF RemovalOnTheWay, RestPlaceable

\* Orders leave their level, and no order changes its side.
LEMMA OrdersLeave ==
  ASSUME BookInvariant, Sound, NEW l, QueuesKept(l), UNCHANGED level_side,
         \A o \in OrderIds : order'[o].side = order[o].side
  PROVE  SidesAgree'
<1> SUFFICES ASSUME NEW m \in Levels, NEW i \in 1 .. Len(level_orders'[m])
             PROVE  BookSide(order'[level_orders'[m][i]].side) = BookSide(level_side[m])
  BY DEF SidesAgree
<1>1. PICK k \in 1 .. Len(level_orders[m]) : level_orders'[m][i] = level_orders[m][k]
  BY DEF QueuesKept
<1>2. level_orders[m][k] \in OrderIds
  BY DEF BookInvariant, TypeOK
<1>3. BookSide(order[level_orders[m][k]].side) = BookSide(level_side[m])
  BY DEF Sound, SidesAgree
<1> QED  BY <1>1, <1>2, <1>3

LEMMA CancelStaysSound ==
  ASSUME BookInvariant, Sound, NEW c \in Clients, NEW o \in OrderIds, NEW s \in RequestSides,
         NEW p \in Prices, cancel(c, o, s, p)
  PROVE  Sound'
<1> DEFINE l == price_levels[p]
<1>1. /\ status = "running" /\ l \in Levels /\ Holds(l, o)
      /\ level_orders' = [level_orders EXCEPT ![l] = Unlinked(@, Position(@, o))]
      /\ UNCHANGED <<order, level_side, level_price, level_next, available, best>>
      /\ IF Emptied(l) THEN EnterRemove(l) ELSE pc' = "reply"
  BY DEF cancel, BookInvariant, TypeOK, Pointer
<1>2. ~available[l] /\ QueuesKept(l)
  BY <1>1, OneLevel, OrderTakenOut
<1> HIDE DEF l
<1>3. SidesAgree'
  BY <1>1, <1>2, OrdersLeave
<1>4. RestPlaceable' /\ RemovalOnTheWay'
  <2>1. CASE EnterRemove(l)
    BY <1>1, <1>2, <2>1, RemovalStarts
  <2>2. CASE pc' = "reply"
    BY <2>2 DEF RestPlaceable, RemovalOnTheWay
  <2> QED  BY <1>1, <2>1, <2>2
<1> QED  BY <1>1, <1>3, <1>4, ListsUntouched DEF Sound

\* What match() takes: the first order of the best level of the other side.
LEMMA MatchFacts ==
  ASSUME BookInvariant, Sound, match
  PROVE  LET top   == best[Opposite(req.side)]
             maker == Head(level_orders[top])
         IN  /\ pc = "match" /\ status = "running"
             /\ top \in LiveOn(Opposite(req.side)) /\ top \in Levels /\ ~available[top]
             /\ Holds(top, maker) /\ maker \in OrderIds
             /\ \A i \in 1 .. Len(level_orders[top]) : maker <= level_orders[top][i]
             /\ \A o \in OrderIds : /\ o # maker => order'[o] = order[o]
                                    /\ order'[o].side = order[o].side
             /\ QueuesKept(top)
             /\ UNCHANGED <<level_side, level_price, level_next, available, best, orphaned, status>>
             /\ EnterRemove(top) \/ pc' = pc
<1> USE DEF BookInvariant
<1> DEFINE top   == best[Opposite(req.side)]
           maker == Head(level_orders[top])
           fill  == Smaller(req.quantity, order[maker].quantity)
           rest  == order[maker].quantity - fill
<1>1. /\ pc = "match" /\ status = "running" /\ level_orders[top] # <<>> /\ top # Null
  BY DEF match, CanMatch
<1>2. top \in LiveOn(Opposite(req.side)) /\ top \in Levels
  <2>1. Opposite(req.side) \in {"BUY", "SELL"}
    BY SideFacts
  <2> QED  BY <1>1, <2>1, BestLevel DEF Sound, LiveOn
<1>3. Holds(top, maker) /\ maker = level_orders[top][1] /\ level_orders[top] \in Seq(OrderIds)
  BY <1>1, <1>2 DEF Holds, TypeOK
<1>4. /\ ~available[top] /\ maker \in OrderIds /\ price_levels[order[maker].limit_price] = top
  BY <1>1, <1>2, <1>3, OneLevel
<1>5. /\ order' = [order EXCEPT ![maker].quantity = rest]
      /\ level_orders' = IF rest = 0
                         THEN [level_orders EXCEPT ![top] = Unlinked(@, Position(@, maker))]
                         ELSE level_orders
      /\ EnterRemove(top) \/ pc' = pc
      /\ UNCHANGED <<level_side, level_price, level_next, available, best, orphaned, status>>
  BY <1>4 DEF match
<1>6. QueuesKept(top)
  <2>1. CASE rest = 0
    BY <1>1, <1>2, <1>3, <1>5, <2>1, OrderTakenOut
  <2>2. CASE rest # 0
    BY <1>5, <2>2 DEF TypeOK, TimePriority, QueuesKept
  <2> QED  BY <2>1, <2>2
<1>7. \A i \in 1 .. Len(level_orders[top]) : maker <= level_orders[top][i]
  <2> SUFFICES ASSUME NEW i \in 1 .. Len(level_orders[top]) PROVE maker <= level_orders[top][i]
    OBVIOUS
  <2>1. \A j \in 1 .. (i - 1) : level_orders[top][j] < level_orders[top][i]
    BY <1>2 DEF TimePriority
  <2>2. level_orders[top][i] \in Nat
    <3>1. level_orders[top][i] \in OrderIds
      BY <1>3
    <3> QED  BY <3>1 DEF OrderIds
  <2>3. CASE i = 1
    BY <1>3, <2>2, <2>3
  <2>4. CASE i # 1
    <3>1. 1 \in 1 .. (i - 1) /\ maker \in Nat
      BY <1>4, <2>4 DEF OrderIds
    <3> QED  BY <1>3, <2>1, <2>2, <3>1
  <2> QED  BY <2>3, <2>4
<1> HIDE DEF rest, maker, top
<1>8. \A o \in OrderIds : (o # maker => order'[o] = order[o]) /\ order'[o].side = order[o].side
  BY <1>4, <1>5 DEF TypeOK, OrderRecord
<1> QED  BY <1>1, <1>2, <1>3, <1>4, <1>5, <1>6, <1>7, <1>8 DEF maker, top

LEMMA MatchStaysSound ==
  ASSUME BookInvariant, Sound, match
  PROVE  Sound'
<1> DEFINE top == best[Opposite(req.side)]
<1>1. /\ pc = "match" /\ status = "running" /\ top \in Levels /\ ~available[top]
      /\ \A o \in OrderIds : order'[o].side = order[o].side
      /\ QueuesKept(top)
      /\ UNCHANGED <<level_side, level_price, level_next, available, best>>
      /\ EnterRemove(top) \/ pc' = pc
  BY MatchFacts
<1> HIDE DEF top
<1>2. SidesAgree'
  BY <1>1, OrdersLeave
<1>3. RestPlaceable' /\ RemovalOnTheWay'
  <2>1. CASE EnterRemove(top)
    BY <1>1, <2>1, RemovalStarts
  <2>2. CASE pc' = pc
    BY <1>1, <2>2 DEF RestPlaceable, RemovalOnTheWay
  <2> QED  BY <1>1, <2>1, <2>2
<1> QED  BY <1>1, <1>2, <1>3, ListsUntouched DEF Sound

\* A level created at the head of its list is better than the levels behind it,
\* and does not reach the other side.
LEMMA InsertStaysSound ==
  ASSUME BookInvariant, BookInvariant', Sound, insertPriceLevel, ~orphaned'
  PROVE  Sound'
<1> USE DEF BookInvariant
<1> DEFINE new == next_free
           p == req.limit_price
<1>0. PICK side \in {"BUY", "SELL"}, opp \in {"BUY", "SELL"} :
        side = BookSide(req.side) /\ opp = Opposite(req.side)
  BY SideFacts
<1>1. /\ pc = "insert" /\ status = "running" /\ cursor = best[side] /\ ~InsertGoesOn
      /\ new \in Levels /\ available[new] /\ p \in Prices /\ p \in Nat /\ price_levels[p] = Null
      /\ side # opp
  BY <1>0, ConstantsAssumption, SideFacts
     DEF insertPriceLevel, FreeBlockReady, RequestKnown, LevelKnown, TypeOK
<1>2. level_orders' = level_orders /\ level_orders[new] = <<>>
  <2>1. level_orders[new] = <<>>
    BY <1>1 DEF LevelsOccupied
  <2> QED  BY <2>1 DEF insertPriceLevel, TypeOK
<1>3. /\ level_side' = [level_side EXCEPT ![new] = req.side]
      /\ level_price' = [level_price EXCEPT ![new] = p]
      /\ level_next' = [level_next EXCEPT ![new] = best[side]]
      /\ best' = [best EXCEPT ![side] = new]
      /\ available' = [available EXCEPT ![new] = FALSE]
      /\ pc' = "place" /\ cursor' = new /\ req' = req /\ order' = order
  BY <1>0, <1>1 DEF insertPriceLevel, LevelPool!Taken
<1>4. /\ best'[side] = new /\ best'[opp] = best[opp]
      /\ level_side'[new] = req.side /\ level_price'[new] = p /\ level_next'[new] = best[side]
      /\ \A l \in Levels : l # new =>
           /\ level_side'[l] = level_side[l] /\ level_price'[l] = level_price[l]
           /\ level_next'[l] = level_next[l] /\ available'[l] = available[l]
      /\ available'[new] = FALSE
  BY <1>1, <1>3 DEF TypeOK
<1>5. /\ LiveOn(side)' = LiveOn(side) \cup {new} /\ LiveOn(opp)' = LiveOn(opp)
      /\ new \notin LiveOn(side) /\ new \notin LiveOn(opp)
  <2>1. BookSide(level_side'[new]) = side
    BY <1>0, <1>4
  <2>2. /\ available[new] /\ ~available'[new]
        /\ \A l \in Levels : l # new => available'[l] = available[l] /\ level_side'[l] = level_side[l]
    BY <1>1, <1>4
  <2> HIDE DEF new
  <2> QED  BY <1>1, <2>1, <2>2 DEF LiveOn
<1>6. /\ Ranked(level_price, LiveOn(side)) /\ Ranked(level_price, LiveOn(opp))
      /\ \A l \in LiveOn(side) \cup LiveOn(opp) : l \in Levels /\ l # new
      /\ \A l \in LiveOn(side) : level_price[l] # p
  <2>1. /\ Ranked(level_price, LiveOn(side)) /\ Ranked(level_price, LiveOn(opp))
        /\ \A l \in LiveOn(side) : l # Null /\ price_levels[level_price[l]] = l
    BY <1>1, LiveLevels
  <2> QED  BY <1>1, <1>5, <2>1 DEF LiveOn
<1>7. \A l \in LiveOn(side) : Better(side, p, level_price[l])
  <2> SUFFICES ASSUME NEW l \in LiveOn(side) PROVE Better(side, p, level_price[l])
    OBVIOUS
  <2>1. /\ best[side] # Null /\ best[side] \in LiveOn(side)
        /\ ~Better(side, level_price[l], level_price[best[side]])
    BY <1>1, BestLevel DEF Sound
  <2>2. ~Better(side, level_price[best[side]], p)
    BY <1>0, <1>1, <2>1 DEF InsertGoesOn
  <2>3. level_price[best[side]] # p /\ level_price[best[side]] \in Nat /\ level_price[l] \in Nat
    BY <1>6, <2>1 DEF Ranked
  <2> QED  BY <1>1, <2>1, <2>2, <2>3 DEF Better
<1>8. \A l \in LiveOn(opp) : Better(opp, p, level_price[l])
  <2> SUFFICES ASSUME NEW l \in LiveOn(opp) PROVE Better(opp, p, level_price[l])
    OBVIOUS
  <2>1. /\ best[opp] # Null /\ best[opp] \in LiveOn(opp)
        /\ ~Better(opp, level_price[l], level_price[best[opp]])
    BY <1>1, BestLevel DEF Sound
  <2>2. Better(opp, p, level_price[best[opp]])
    BY <1>0, <1>1, <2>1 DEF Sound, RestPlaceable
  <2>3. level_price[best[opp]] \in Nat /\ level_price[l] \in Nat
    BY <1>6, <2>1 DEF Ranked
  <2> QED  BY <1>1, <2>1, <2>2, <2>3 DEF Better
<1>9. ChainComplete'
  <2>1. /\ Chain(side, level_price, level_next, best[side], LiveOn(side))
        /\ Chain(opp, level_price, level_next, best[opp], LiveOn(opp))
    BY <1>1, ChainCompleteIsChain DEF Sound
  <2>2. Chain(side, level_price', level_next', best'[side], LiveOn(side)')
    <3>1. \A l \in LiveOn(side) : level_price'[l] = level_price[l] /\ level_next'[l] = level_next[l]
      BY <1>4, <1>6
    <3>2. level_price'[new] \in Nat /\ \A l \in LiveOn(side) : Better(side, level_price'[new], level_price[l])
      BY <1>1, <1>4, <1>7
    <3> HIDE DEF new
    <3> QED  BY <1>4, <1>5, <1>6, <2>1, <3>1, <3>2, ChainPush
  <2>3. Chain(opp, level_price', level_next', best'[opp], LiveOn(opp)')
    <3>1. \A l \in LiveOn(opp) : level_price'[l] = level_price[l] /\ level_next'[l] = level_next[l]
      BY <1>4, <1>6
    <3> QED  BY <1>4, <1>5, <2>1, <3>1, ChainStays
  <2>4. {"BUY", "SELL"} = {side, opp}
    BY <1>1
  <2> QED  BY <2>2, <2>3, <2>4, ChainCompleteIsChain
<1>10. LevelsUncrossed'
  <2>1. \A l \in LiveOn(side) \cup LiveOn(opp) : level_price'[l] = level_price[l]
    BY <1>4, <1>6
  <2>2. CASE side = "BUY"
    <3>1. opp = "SELL"
      BY <1>1, <2>2
    <3> QED  BY <1>4, <1>5, <1>8, <2>1, <2>2, <3>1 DEF LevelsUncrossed, Better, Sound
  <2>3. CASE side = "SELL"
    <3>1. opp = "BUY"
      BY <1>1, <2>3
    <3>2. \A l \in LiveOn(opp) : level_price[l] < p
      BY <1>1, <1>6, <1>8, <3>1 DEF Better, Ranked
    <3> QED  BY <1>4, <1>5, <2>1, <2>3, <3>1, <3>2 DEF LevelsUncrossed, Sound
  <2> QED  BY <1>1, <2>2, <2>3
<1>11. SidesAgree'
  BY <1>2, <1>3, <1>4 DEF SidesAgree, Sound
<1>12. RestPlaceable'
  <2>1. best[opp] # Null => best[opp] \in Levels /\ best[opp] # new
    BY <1>1, <1>6, BestLevel DEF Sound
  <2> QED  BY <1>0, <1>1, <1>3, <1>4, <2>1 DEF RestPlaceable, Sound
<1> QED  BY <1>3, <1>9, <1>10, <1>11, <1>12 DEF Sound, RemovalOnTheWay

LEMMA PlaceStaysSound ==
  ASSUME BookInvariant, Sound, placeOrder
  PROVE  Sound'
<1> USE DEF BookInvariant
<1> DEFINE o == req.order_id
<1>1. /\ pc = "place" /\ req.type = "ADD" /\ o \in OrderIds /\ cursor \in Levels
      /\ BookSide(level_side[cursor]) = BookSide(req.side)
  BY DEF placeOrder, RequestKnown, LevelKnown, TypeOK, Pointer, Sound, RestPlaceable
<1>2. /\ order'[o].side = req.side /\ \A x \in OrderIds : x # o => order'[x] = order[x]
      /\ UNCHANGED <<level_price, level_next, available, best>> /\ pc' = "idle"
  BY <1>1 DEF placeOrder, TypeOK
<1>3. \A l \in Levels : BookSide(level_side'[l]) = BookSide(level_side[l])
  <2>1. \A l \in Levels : level_side'[l] = level_side[l] \/ (l = cursor /\ level_side'[l] = req.side)
    <3>1. level_side' = level_side \/ level_side' = [level_side EXCEPT ![cursor] = req.side]
      BY DEF placeOrder
    <3> QED  BY <1>1, <3>1 DEF TypeOK
  <2> QED  BY <1>1, <2>1
<1>4. \A side : LiveOn(side)' = LiveOn(side)
  BY <1>2, <1>3 DEF LiveOn
<1>5. ChainComplete' /\ LevelsUncrossed'
  BY <1>2, <1>4, ChainCompleteIsChain DEF LevelsUncrossed, Sound
<1>6. SidesAgree'
  <2> SUFFICES ASSUME NEW l \in Levels, NEW i \in 1 .. Len(level_orders'[l])
               PROVE  BookSide(order'[level_orders'[l][i]].side) = BookSide(level_side'[l])
    BY DEF SidesAgree
  <2>1. level_orders' = [level_orders EXCEPT ![cursor] = Append(level_orders[cursor], o)]
    BY DEF placeOrder
  <2>2. \/ l = cursor /\ level_orders'[l][i] = o
        \/ i \in 1 .. Len(level_orders[l]) /\ level_orders'[l][i] = level_orders[l][i]
    BY <1>1, <2>1 DEF TypeOK
  <2>3. CASE l = cursor /\ level_orders'[l][i] = o
    BY <1>1, <1>2, <1>3, <2>3
  <2>4. CASE i \in 1 .. Len(level_orders[l]) /\ level_orders'[l][i] = level_orders[l][i]
    <3>1. level_orders[l][i] \in OrderIds /\ level_orders[l][i] # o
      <4>1. level_orders[l][i] \in OrderIds
        BY <2>4 DEF TypeOK
      <4>2. level_orders[l][i] < o
        BY <1>1, <2>4 DEF QueuedEarlier
      <4> QED  BY <1>1, <4>1, <4>2 DEF OrderIds
    <3>2. BookSide(order[level_orders[l][i]].side) = BookSide(level_side[l])
      BY <2>4 DEF SidesAgree, Sound
    <3> QED  BY <1>2, <1>3, <2>4, <3>1, <3>2
  <2> QED  BY <2>2, <2>3, <2>4
<1> QED  BY <1>2, <1>5, <1>6 DEF Sound, RestPlaceable, RemovalOnTheWay

\* The list closes up over the removed level.
LEMMA RemoveStaysSound ==
  ASSUME BookInvariant, Sound, removePriceLevel
  PROVE  Sound'
<1> USE DEF BookInvariant
<1>0. PICK side \in {"BUY", "SELL"}, other \in {"BUY", "SELL"}, gone \in Levels, prev \in Pointer :
        /\ side = BookSide(level_side[victim]) /\ side # other
        /\ gone = victim /\ prev = cursor
  BY SideFacts DEF removePriceLevel, LevelKnown, TypeOK
<1>1. /\ pc = "remove" /\ status = "running" /\ ~available[gone] /\ RemoveFound
      /\ gone \in LiveOn(side) /\ gone \notin LiveOn(other)
  BY <1>0 DEF removePriceLevel, LevelKnown, LiveOn
<1>2. /\ available' = [available EXCEPT ![gone] = TRUE] /\ status' = "running"
      /\ pc' \in {"match", "reply"}
      /\ UNCHANGED <<level_side, level_price, level_orders, order>>
  BY <1>0, <1>1 DEF removePriceLevel
<1>3. LiveOn(side)' = LiveOn(side) \ {gone} /\ LiveOn(other)' = LiveOn(other)
  BY <1>0, <1>1, <1>2 DEF LiveOn, TypeOK
<1>4. /\ Ranked(level_price, LiveOn(side)) /\ Ranked(level_price, LiveOn(other))
      /\ Chain(side, level_price, level_next, best[side], LiveOn(side))
      /\ Chain(other, level_price, level_next, best[other], LiveOn(other))
  <2>1. Ranked(level_price, LiveOn(side)) /\ Ranked(level_price, LiveOn(other))
    BY <1>1, LiveLevels
  <2> QED  BY <2>1, ChainCompleteIsChain DEF Sound
<1>5. /\ Chain(side, level_price', level_next', best'[side], LiveOn(side)')
      /\ Chain(other, level_price', level_next', best'[other], LiveOn(other)')
  <2>1. CASE prev = Null
    <3>1. gone = best[side]
      BY <1>0, <1>1, <2>1 DEF Sound, RemovalOnTheWay
    <3>2. /\ best'[side] = level_next[gone] /\ best'[other] = best[other]
          /\ level_next' = level_next
      BY <1>0, <2>1 DEF removePriceLevel, TypeOK
    <3> QED  BY <1>1, <1>2, <1>3, <1>4, <3>1, <3>2, ChainPop
  <2>2. CASE prev # Null
    <3>1. prev \in LiveOn(side) /\ prev \in Levels /\ prev \notin LiveOn(other)
      BY <1>0, <1>1, <2>2 DEF Sound, RemovalOnTheWay, LiveOn
    <3>2. level_next[prev] = gone
      BY <1>0, <1>1, <2>2, RemoveWalkStaysSound
    <3>3. best' = best /\ level_next' = [level_next EXCEPT ![prev] = level_next[gone]]
      BY <1>0, <2>2 DEF removePriceLevel
    <3>4. /\ level_next'[prev] = level_next[gone]
          /\ \A l \in Levels : l # prev => level_next'[l] = level_next[l]
      BY <3>1, <3>3 DEF TypeOK
    <3>5. /\ \A l \in LiveOn(side) : l # prev => level_next'[l] = level_next[l]
          /\ \A l \in LiveOn(other) : level_next'[l] = level_next[l]
      BY <3>1, <3>4 DEF LiveOn
    <3>6. Chain(side, level_price, level_next', best[side], LiveOn(side) \ {gone})
      BY <1>1, <1>4, <3>1, <3>2, <3>4, <3>5, ChainUnlink
    <3>7. Chain(other, level_price, level_next', best[other], LiveOn(other))
      BY <1>4, <3>5, ChainStays
    <3> QED  BY <1>2, <1>3, <3>3, <3>6, <3>7
  <2> QED  BY <2>1, <2>2
<1>6. ChainComplete'
  <2>1. {"BUY", "SELL"} = {side, other}
    BY <1>0
  <2> QED  BY <1>5, <2>1, ChainCompleteIsChain
<1>7. LevelsUncrossed'
  <2>1. LiveOn("BUY")' \subseteq LiveOn("BUY") /\ LiveOn("SELL")' \subseteq LiveOn("SELL")
    BY <1>0, <1>3
  <2> QED  BY <1>2, <2>1 DEF LevelsUncrossed, Sound
<1>8. SidesAgree'
  BY <1>2 DEF SidesAgree, Sound
<1> QED  BY <1>2, <1>6, <1>7, <1>8 DEF Sound, RestPlaceable, RemovalOnTheWay

\* The best level of the other side holds an order when match() dereferences
\* its top_order.
LEMMA TopOrderThere ==
  ASSUME BookInvariant, Sound
  PROVE  ~matchNullOrder
<1> USE DEF BookInvariant
<1> SUFFICES ASSUME matchNullOrder PROVE FALSE
  OBVIOUS
<1> DEFINE top == best[Opposite(req.side)]
<1>1. pc = "match" /\ status = "running" /\ top # Null /\ level_orders[top] = <<>>
  BY DEF matchNullOrder, CanMatch
<1>2. top \in Levels /\ ~available[top]
  <2>1. Opposite(req.side) \in {"BUY", "SELL"}
    BY SideFacts
  <2>2. top \in LiveOn(Opposite(req.side))
    BY <1>1, <2>1, BestLevel DEF Sound
  <2> QED  BY <2>2 DEF LiveOn
<1> QED  BY <1>1, <1>2 DEF LevelsOccupied

-----------------------------------------------------------------------------
LEMMA InitEstablishesChain == Init => ChainInvariant
<1> SUFFICES ASSUME Init PROVE ChainInvariant
  OBVIOUS
<1>1. \A side : LiveOn(side) = {}
  BY DEF Init, LiveOn
<1>2. ChainComplete /\ LevelsUncrossed
  BY <1>1 DEF Init, ChainComplete, LevelsUncrossed
<1> QED
  BY <1>2 DEF Init, ChainInvariant, Sound, SidesAgree, RestPlaceable, RemovalOnTheWay

\* Until a level is created away from the head, a step leaves the book sound
\* and dereferences no null pointer.
LEMMA StepsStaySound ==
  ASSUME BookInvariant, Sound, status = "running", Next, ~orphaned'
  PROVE  \/ status' = "running" /\ Sound'
         \/ status' = "exit" /\ pc' \in {"insert", "place"}
<1>0. BookInvariant'
  BY NextPreservesBook
<1>1. CASE \/ \E c \in Clients, s \in RequestSides, q \in Quantities, p \in Prices : add(c, s, q, p)
           \/ \E c \in Clients, o \in OrderIds, s \in RequestSides, p \in Prices :
                cancelRejected(c, o, s, p)
           \/ filled \/ insertWalk \/ cancelReply
  <2>1. status' = "running"
    BY <1>1 DEF add, cancelRejected, filled, insertWalk, cancelReply, control
  <2> QED  BY <1>1, <2>1, QuietStepsStaySound
<1>2. CASE \E c \in Clients, o \in OrderIds, s \in RequestSides, p \in Prices : cancel(c, o, s, p)
  BY <1>2, CancelStaysSound DEF cancel
<1>3. CASE match
  BY <1>3, MatchStaysSound DEF match
<1>4. CASE matchNullOrder
  BY <1>4, TopOrderThere
<1>5. CASE getPriceLevel
  BY <1>5, GetPriceLevelStaysSound DEF getPriceLevel
<1>6. CASE insertPriceLevel
  BY <1>0, <1>6, InsertStaysSound DEF insertPriceLevel
<1>7. CASE priceLevelPoolFull \/ orderPoolFull
  BY <1>7 DEF priceLevelPoolFull, orderPoolFull
<1>8. CASE placeOrder
  BY <1>8, PlaceStaysSound DEF placeOrder
<1>9. CASE removeWalk \/ removeWalkNull
  BY <1>9, RemoveWalkStaysSound DEF removeWalk, removeWalkNull
<1>10. CASE removePriceLevel
  <2>1. ~available[victim]
    BY <1>10 DEF removePriceLevel, BookInvariant, LevelKnown
  <2> QED  BY <1>10, <2>1, RemoveStaysSound DEF removePriceLevel
<1>11. CASE Halted
  BY <1>11 DEF Halted
<1> QED
  BY <1>1, <1>2, <1>3, <1>4, <1>5, <1>6, <1>7, <1>8, <1>9, <1>10, <1>11 DEF Next

\* Whether a level was ever created away from the head is not forgotten, and the
\* process exits in the middle of an add().
LEMMA ExitsWhileAdding ==
  ASSUME BookInvariant, ChainInvariant, [Next]_vars
  PROVE  /\ orphaned => orphaned'
         /\ status' = "exit" => pc' \in {"insert", "place"}
         /\ status = "running" \/ UNCHANGED vars
<1> USE DEF ChainInvariant
<1>1. CASE \/ \E c \in Clients, s \in RequestSides, q \in Quantities, p \in Prices : add(c, s, q, p)
           \/ \E c \in Clients, o \in OrderIds, s \in RequestSides, p \in Prices :
                cancel(c, o, s, p) \/ cancelRejected(c, o, s, p)
  BY <1>1 DEF add, cancel, cancelRejected, control
<1>2. CASE match \/ matchNullOrder \/ filled \/ getPriceLevel \/ insertWalk \/ cancelReply
  <2>1. orphaned' = orphaned /\ status = "running" /\ status' # "exit"
    BY <1>2 DEF match, matchNullOrder, filled, getPriceLevel, insertWalk, cancelReply
  <2> QED  BY <2>1
<1>3. CASE insertPriceLevel \/ priceLevelPoolFull \/ placeOrder \/ orderPoolFull
  <2>1. status = "running" /\ (status' = "exit" => pc' \in {"insert", "place"})
    BY <1>3 DEF insertPriceLevel, priceLevelPoolFull, placeOrder, orderPoolFull
  <2>2. orphaned => orphaned'
    BY <1>3 DEF insertPriceLevel, priceLevelPoolFull, placeOrder, orderPoolFull
  <2> QED  BY <2>1, <2>2
<1>4. CASE removeWalk \/ removeWalkNull
  BY <1>4 DEF removeWalk, removeWalkNull
<1>5. CASE removePriceLevel
  <2>1. ~available[victim]
    BY <1>5 DEF removePriceLevel, BookInvariant, LevelKnown
  <2> QED  BY <1>5, <2>1 DEF removePriceLevel
<1>6. CASE Halted \/ UNCHANGED vars
  BY <1>6 DEF Halted, vars, control
<1> QED  BY <1>1, <1>2, <1>3, <1>4, <1>5, <1>6 DEF Next

LEMMA NextPreservesChain ==
  BookInvariant /\ ChainInvariant /\ [Next]_vars => ChainInvariant'
<1> SUFFICES ASSUME BookInvariant, ChainInvariant, [Next]_vars PROVE ChainInvariant'
  OBVIOUS
<1>1. CASE UNCHANGED vars
  <2>1. Sound => Sound'
    BY <1>1, QuietStepsStaySound
  <2> QED  BY <1>1, <2>1 DEF ChainInvariant, vars, control
<1>2. CASE status = "running" /\ Next
  <2>1. ~orphaned' => Sound
    BY <1>2, ExitsWhileAdding DEF ChainInvariant
  <2>2. ~orphaned' =>
          \/ status' = "running" /\ Sound'
          \/ status' = "exit" /\ pc' \in {"insert", "place"}
    BY <1>2, <2>1, StepsStaySound
  <2>3. status' = "exit" => pc' \in {"insert", "place"}
    BY ExitsWhileAdding
  <2> QED  BY <2>2, <2>3 DEF ChainInvariant
<1> QED  BY <1>1, <1>2, ExitsWhileAdding

\* The inductive invariant of the lists holds in every reachable state.
THEOREM ChainInvariantHolds == Spec => []ChainInvariant
BY InitEstablishesChain, NextPreservesChain, BookInvariantHolds, PTL DEF Spec

\* Between requests, levels that do not cross hold orders that do not cross.
LEMMA OrdersUncrossed ==
  ASSUME BookInvariant, Sound, status = "running"
  PROVE  Uncrossed
<1> USE DEF BookInvariant, Sound
<1> SUFFICES ASSUME NEW b \in OrderIds, NEW a \in OrderIds, Resting(b), Resting(a),
                    order[b].side = "BUY", order[a].side # "BUY"
             PROVE  order[b].limit_price < order[a].limit_price
  BY DEF Uncrossed
<1>1. PICK l \in Levels : Holds(l, b)
  BY DEF Resting
<1>2. PICK m \in Levels : Holds(m, a)
  BY DEF Resting
<1>3. /\ ~available[l] /\ order[b].limit_price = level_price[l]
      /\ ~available[m] /\ order[a].limit_price = level_price[m]
  BY <1>1, <1>2, OneLevel
<1>4. BookSide(level_side[l]) = "BUY" /\ BookSide(level_side[m]) = "SELL"
  BY <1>1, <1>2 DEF SidesAgree, Holds, BookSide
<1> QED  BY <1>3, <1>4 DEF LevelsUncrossed, LiveOn

\* As long as add() has created price levels at the head of their lists only, the
\* lists are complete and sorted, bids and asks do not cross, and neither match()
\* nor removePriceLevel() dereferences a null pointer.
THEOREM BookSoundUntilOrphaned == Spec => []SoundUntilOrphaned
<1>1. BookInvariant /\ ChainInvariant => SoundUntilOrphaned
  <2> SUFFICES ASSUME BookInvariant, ChainInvariant, ~orphaned
               PROVE  (status # "exit" => ChainComplete) /\ Uncrossed /\ NoNullDereference
    BY DEF SoundUntilOrphaned
  <2>1. CASE status = "exit"
    BY <2>1 DEF ChainInvariant, Uncrossed, NoNullDereference
  <2>2. CASE status # "exit"
    <3>1. Sound /\ status = "running"
      BY <2>2 DEF ChainInvariant, BookInvariant, TypeOK
    <3> QED  BY <3>1, OrdersUncrossed DEF Sound, NoNullDereference
  <2> QED  BY <2>1, <2>2
<1> QED  BY <1>1, BookInvariantHolds, ChainInvariantHolds, PTL

\* As long as add() has created price levels at the head of their lists only,
\* match() fills the order with the best price, and the oldest at that price.
THEOREM BookPriceTimePriority == Spec => PriceTimePriority
<1>1. BookInvariant /\ ChainInvariant /\ [Next]_vars => [~orphaned => PriceTimeStep]_vars
  <2> SUFFICES ASSUME BookInvariant, ChainInvariant, Next, ~orphaned, pc = "match",
                      NEW o \in OrderIds, NEW r \in OrderIds,
                      order'[o].quantity < order[o].quantity, Resting(r),
                      BookSide(order[r].side) = BookSide(order[o].side)
               PROVE  /\ ~Better(BookSide(order[o].side), order[r].limit_price, order[o].limit_price)
                      /\ order[r].limit_price = order[o].limit_price => o <= r
    BY DEF PriceTimeStep
  <2> USE DEF BookInvariant
  <2> DEFINE top == best[Opposite(req.side)]
             maker == Head(level_orders[top])
  <2>1. order[o].quantity \in Nat /\ order' # order
    BY DEF TypeOK, OrderRecord
  <2>2. match
    BY <2>1, ZenonT(60)
    DEF Next, add, cancel, cancelRejected, match, matchNullOrder, filled, getPriceLevel,
       insertWalk, insertPriceLevel, priceLevelPoolFull, placeOrder, orderPoolFull, removeWalk,
       removeWalkNull, removePriceLevel, cancelReply, Halted, vars, bookVars
  <2>3. Sound /\ status = "running"
    BY <2>2 DEF ChainInvariant, match
  <2>4. /\ top \in LiveOn(Opposite(req.side)) /\ top \in Levels /\ Holds(top, maker)
        /\ \A i \in 1 .. Len(level_orders[top]) : maker <= level_orders[top][i]
        /\ \A x \in OrderIds : x # maker => order'[x] = order[x]
    BY <2>2, <2>3, MatchFacts
  <2>5. o = maker
    BY <2>1, <2>4
  <2>6. PICK m \in Levels : Holds(m, r)
    BY DEF Resting
  <2>7. /\ order[o].limit_price = level_price[top] /\ order[r].limit_price = level_price[m]
        /\ ~available[top] /\ ~available[m]
        /\ level_price[top] = level_price[m] => top = m
    <3> HIDE DEF BookInvariant, top, maker
    <3>1. BookInvariant
      OBVIOUS
    <3>2. /\ order[o].limit_price = level_price[top] /\ ~available[top]
          /\ price_levels[order[o].limit_price] = top
      BY <2>3, <2>4, <2>5, <3>1, OneLevel
    <3>3. /\ order[r].limit_price = level_price[m] /\ ~available[m]
          /\ price_levels[order[r].limit_price] = m
      BY <2>3, <2>6, <3>1, OneLevel
    <3> QED  BY <3>2, <3>3
  <2>8. /\ BookSide(order[o].side) = Opposite(req.side)
        /\ m \in LiveOn(Opposite(req.side))
    <3>1. /\ BookSide(order[o].side) = BookSide(level_side[top])
          /\ BookSide(order[r].side) = BookSide(level_side[m])
      BY <2>3, <2>4, <2>5, <2>6 DEF Sound, SidesAgree, Holds
    <3> QED  BY <2>4, <2>7, <3>1 DEF LiveOn
  <2>9. ~Better(Opposite(req.side), level_price[m], level_price[top])
    <3>1. Opposite(req.side) \in {"BUY", "SELL"} /\ top # Null
      BY <2>4, SideFacts, ConstantsAssumption
    <3> QED  BY <2>3, <2>8, <3>1, BestLevel DEF Sound
  <2>10. top = m => o <= r
    BY <2>4, <2>5, <2>6 DEF Holds
  <2> QED  BY <2>7, <2>8, <2>9, <2>10
<1> QED  BY <1>1, BookInvariantHolds, ChainInvariantHolds, PTL DEF Spec, PriceTimePriority
=============================================================================
