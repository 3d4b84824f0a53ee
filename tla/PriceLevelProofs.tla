-------------------------- MODULE PriceLevelProofs --------------------------
(***************************************************************************)
(* OrdersPriceLevel, for any number of orders.                             *)
(***************************************************************************)
EXTENDS PriceLevel, TLAPS

\* Linked forwards is linked backwards, and what is linked was added.
BothWays == \A o \in InList : previous[o] # Null /\ o <= last_id

\* The search is at a linked order, and wanted is none of those it has passed.
SearchKnown ==
  pc = "search" =>
    /\ order \in InList /\ wanted \in Orders
    /\ \A o \in InList : o < order => o # wanted

LevelInvariant == Circular /\ BothWays /\ SearchKnown

LEMMA LevelBegins ==
  ASSUME Init
  PROVE  LevelInvariant
<1>1. InList = {}
  BY DEF Init, InList
<1>2. TypeOK
  BY PriceLevelAssumption DEF Init, TypeOK, Pointer
<1>3. Circular
  BY <1>1, <1>2 DEF Circular, Init
<1> QED  BY <1>1, <1>3 DEF LevelInvariant, BothWays, SearchKnown, Init

\* What the links of a linked order are.
LEMMA LinksKnown ==
  ASSUME LevelInvariant, NEW o \in InList
  PROVE  /\ o \in Orders /\ o \in Nat /\ o # Null
         /\ next[o] \in InList /\ previous[next[o]] = o
         /\ previous[o] \in InList /\ next[previous[o]] = o
         /\ top_order \in InList /\ top_order <= o
         /\ next[o] = top_order <=> \A x \in InList : x <= o
         /\ next[o] # top_order =>
              o < next[o] /\ \A x \in InList : x <= o \/ next[o] <= x
<1> USE PriceLevelAssumption DEF LevelInvariant
<1>1. o \in Orders /\ o \in Nat /\ o # Null /\ InList \subseteq Orders /\ Orders \subseteq Nat
  BY DEF InList, Orders
<1>2. next[o] \in InList /\ previous[next[o]] = o
  BY DEF Circular
<1>3. previous[o] \in InList /\ next[previous[o]] = o
  BY <1>1 DEF Circular, BothWays
<1>4. top_order \in InList /\ top_order <= o
  BY DEF Circular
<1>5. ASSUME next[o] = top_order, NEW x \in InList  PROVE x <= o
  BY <1>5 DEF Circular
<1>6. ASSUME next[o] # top_order
      PROVE  o < next[o] /\ \A x \in InList : x <= o \/ next[o] <= x
  <2>1. \A x \in InList : o < next[o] /\ ~(o < x /\ x < next[o])
    BY <1>6 DEF Circular
  <2>2. next[o] \in Nat /\ \A x \in InList : x \in Nat
    BY <1>1, <1>2
  <2> QED  BY <1>1, <1>2, <2>1, <2>2
<1>7. next[o] # top_order => \E x \in InList : ~(x <= o)
  <2>1. next[o] \in Nat
    BY <1>1, <1>2
  <2>2. next[o] # top_order => ~(next[o] <= o)
    BY <1>1, <1>6, <2>1
  <2> QED  BY <1>2, <2>2
<1> QED  BY <1>1, <1>2, <1>3, <1>4, <1>5, <1>6, <1>7

-----------------------------------------------------------------------------
(* The steps.                                                              *)

LEMMA AddFirstStep ==
  ASSUME LevelInvariant, NEW o \in Orders, add(o), top_order = Null
  PROVE  LevelInvariant'
<1> USE PriceLevelAssumption
<1>1. TypeOK /\ InList = {} /\ o \in Nat /\ o # Null
  BY DEF LevelInvariant, Circular, Orders
<1>2. /\ top_order' = o /\ next' = [next EXCEPT ![o] = o] /\ previous' = [previous EXCEPT ![o] = o]
      /\ last_id' = o /\ pc' = "idle" /\ UNCHANGED <<wanted, order, returned>>
  BY DEF add, addFirst
<1>3. TypeOK'
  BY <1>1, <1>2 DEF TypeOK, Pointer, Orders
<1>4. InList' = {o} /\ next'[o] = o /\ previous'[o] = o
  BY <1>1, <1>2 DEF InList, TypeOK
<1>5. \A x \in Orders : previous'[x] # Null => x = o
  BY <1>1, <1>2 DEF LevelInvariant, Circular, TypeOK
<1>6. Circular'
  BY <1>1, <1>2, <1>3, <1>4, <1>5 DEF Circular
<1>7. BothWays' /\ SearchKnown'
  BY <1>1, <1>2, <1>4 DEF BothWays, SearchKnown
<1> QED  BY <1>6, <1>7 DEF LevelInvariant

LEMMA AddLastStep ==
  ASSUME LevelInvariant, NEW o \in Orders, add(o), top_order # Null
  PROVE  LevelInvariant'
<1> USE PriceLevelAssumption
<1> DEFINE last == previous[top_order]
<1>1. TypeOK /\ o \in Nat /\ o # Null /\ o > last_id /\ InList \subseteq Orders
  BY DEF LevelInvariant, Circular, Orders, add, InList
<1>2. \A x \in InList : x \in Nat /\ x < o /\ x # o
  BY <1>1 DEF LevelInvariant, BothWays, TypeOK, Orders
<1>3. top_order \in InList
  BY DEF LevelInvariant, Circular
<1>4. last \in InList /\ next[last] = top_order /\ last # o /\ top_order # o /\ last # Null
  BY <1>2, <1>3, LinksKnown
<1>5. \A x \in InList : x <= last
  BY <1>4, LinksKnown
<1>6. /\ top_order' = top_order
      /\ next' = [next EXCEPT ![o] = top_order, ![last] = o]
      /\ previous' = [previous EXCEPT ![o] = last, ![top_order] = o]
      /\ last_id' = o /\ pc' = "idle" /\ UNCHANGED <<wanted, order, returned>>
  BY DEF add, addLast, Linked
<1> HIDE DEF last
<1>7. last \in Orders /\ top_order \in Orders
  BY <1>1, <1>3, <1>4
<1>8. /\ next'[o] = top_order /\ next'[last] = o
      /\ \A x \in Orders : x # o /\ x # last => next'[x] = next[x]
      /\ previous'[o] = last /\ previous'[top_order] = o
      /\ \A x \in Orders : x # o /\ x # top_order => previous'[x] = previous[x]
  BY <1>1, <1>4, <1>6, <1>7 DEF TypeOK
<1>9. TypeOK'
  <2>1. next' \in [Orders -> Pointer]
    BY <1>1, <1>6, <1>7 DEF TypeOK, Pointer
  <2>2. previous' \in [Orders -> Pointer]
    BY <1>1, <1>6, <1>7 DEF TypeOK, Pointer
  <2>3. last_id' \in 0 .. MaxOrders
    BY <1>6 DEF Orders
  <2> QED  BY <1>1, <1>6, <2>1, <2>2, <2>3 DEF TypeOK
<1>10. InList' = InList \cup {o}
  BY <1>1, <1>3, <1>4, <1>7, <1>8 DEF InList
<1>11. \A x \in InList : /\ next[x] \in InList /\ previous[next[x]] = x
                         /\ (next[x] = top_order <=> x = last)
                         /\ next[x] # top_order =>
                              x < next[x] /\ \A y \in InList : y <= x \/ next[x] <= y
  BY <1>4, LinksKnown
<1>12. \A x \in InList' : next'[x] \in InList' /\ previous'[next'[x]] = x
  <2> TAKE x \in InList'
  <2>1. CASE x = o \/ x = last
    BY <1>3, <1>4, <1>8, <1>10, <2>1
  <2>2. CASE x \in InList /\ x # last
    <3>1. next'[x] = next[x] /\ next[x] # top_order /\ next[x] # o /\ next[x] \in Orders
      BY <1>1, <1>2, <1>8, <1>11, <2>2
    <3> QED  BY <1>8, <1>10, <1>11, <2>2, <3>1
  <2> QED  BY <1>10, <2>1, <2>2
<1>13. \A x \in Orders : previous'[x] # Null => previous'[x] \in InList' /\ next'[previous'[x]] = x
  <2> SUFFICES ASSUME NEW x \in Orders, previous'[x] # Null
               PROVE  previous'[x] \in InList' /\ next'[previous'[x]] = x
    OBVIOUS
  <2>1. CASE x = o \/ x = top_order
    BY <1>4, <1>8, <1>10, <2>1
  <2>2. CASE x # o /\ x # top_order
    <3>1. previous'[x] = previous[x] /\ previous[x] \in InList /\ next[previous[x]] = x
      BY <1>8, <2>2 DEF LevelInvariant, Circular
    <3>2. previous[x] # last /\ previous[x] # o /\ previous[x] \in Orders
      BY <1>1, <1>2, <1>4, <2>2, <3>1
    <3> QED  BY <1>8, <1>10, <3>1, <3>2
  <2> QED  BY <2>1, <2>2
<1>14. ASSUME NEW x \in InList', NEW y \in InList'
       PROVE  /\ top_order' <= y
              /\ IF next'[x] = top_order' THEN y <= x
                 ELSE x < next'[x] /\ ~(x < y /\ y < next'[x])
  <2>1. top_order' <= y /\ y \in Nat /\ y <= o
    <3>1. CASE y = o
      BY <1>1, <1>2, <1>3, <1>6, <3>1
    <3>2. CASE y \in InList
      BY <1>1, <1>2, <1>6, <3>2, LinksKnown
    <3> QED  BY <1>10, <3>1, <3>2
  <2>2. CASE x = o
    BY <1>6, <1>8, <2>1, <2>2
  <2>3. CASE x = last
    <3>1. next'[x] = o /\ o # top_order' /\ x < o /\ x \in Nat
      BY <1>2, <1>4, <1>6, <1>8, <2>3
    <3>2. y = o \/ y <= x
      BY <1>5, <1>10, <2>3
    <3> QED  BY <1>1, <2>1, <3>1, <3>2
  <2>4. CASE x \in InList /\ x # last
    <3>1. next'[x] = next[x] /\ next[x] # top_order' /\ x < next[x] /\ next[x] \in InList
      BY <1>1, <1>2, <1>6, <1>8, <1>11, <2>4
    <3>2. y \in InList => y <= x \/ next[x] <= y
      BY <1>6, <1>11, <2>4, <3>1
    <3>3. next[x] \in Nat /\ next[x] < o /\ x \in Nat
      BY <1>2, <2>4, <3>1
    <3> QED  BY <1>1, <1>10, <2>1, <3>1, <3>2, <3>3
  <2> QED  BY <1>10, <2>2, <2>3, <2>4
<1>15. Circular'
  <2>1. top_order' # Null /\ top_order' \in InList' /\ InList' # {}
    BY <1>3, <1>6, <1>10
  <2> QED  BY <1>9, <1>12, <1>13, <1>14, <2>1 DEF Circular
<1>16. BothWays'
  <2> SUFFICES ASSUME NEW x \in InList'  PROVE previous'[x] # Null /\ x <= last_id'
    BY DEF BothWays
  <2>1. CASE x = o
    BY <1>1, <1>4, <1>6, <1>8, <2>1
  <2>2. CASE x \in InList
    <3>1. previous[x] # Null
      BY <2>2 DEF LevelInvariant, BothWays
    <3>2. previous'[x] # Null
      BY <1>1, <1>2, <1>8, <2>2, <3>1
    <3>3. x <= last_id'
      BY <1>1, <1>2, <1>6, <2>2
    <3> QED  BY <3>2, <3>3
  <2> QED  BY <1>10, <2>1, <2>2
<1> QED  BY <1>6, <1>15, <1>16 DEF LevelInvariant, SearchKnown

LEMMA CancelStep ==
  ASSUME LevelInvariant, NEW o \in Orders, cancel(o)
  PROVE  LevelInvariant'
<1> USE PriceLevelAssumption
<1>1. /\ UNCHANGED <<top_order, next, previous, last_id, returned>>
      /\ top_order # Null /\ pc' = "search" /\ wanted' = o /\ order' = top_order
  BY DEF cancel, links
<1>2. InList' = InList
  BY <1>1 DEF InList
<1>3. TypeOK'
  BY <1>1 DEF LevelInvariant, Circular, TypeOK, Pointer
<1>4. top_order \in InList /\ \A x \in InList : top_order <= x /\ x \in Nat
  BY LinksKnown, <1>1 DEF LevelInvariant, Circular
<1>5. SearchKnown'
  BY <1>1, <1>2, <1>4 DEF SearchKnown
<1>6. Circular' /\ BothWays'
  BY <1>1, <1>2, <1>3 DEF LevelInvariant, Circular, BothWays
<1> QED  BY <1>5, <1>6 DEF LevelInvariant

LEMMA SearchStep ==
  ASSUME LevelInvariant, searchOn
  PROVE  LevelInvariant'
<1> USE PriceLevelAssumption
<1>1. /\ UNCHANGED <<top_order, next, previous, last_id, returned, pc, wanted>>
      /\ pc = "search" /\ order # wanted /\ order # previous[top_order] /\ order' = next[order]
  BY DEF searchOn, links, AtLast
<1>2. InList' = InList
  BY <1>1 DEF InList
<1>3. order \in InList /\ wanted \in Orders /\ \A x \in InList : x < order => x # wanted
  BY <1>1 DEF LevelInvariant, SearchKnown
<1>4. next[order] \in InList /\ next[order] # top_order /\ order \in Nat
  BY <1>1, <1>3, LinksKnown
<1>5. \A x \in InList : (x <= order \/ next[order] <= x) /\ x \in Nat
  BY <1>3, <1>4, LinksKnown
<1>6. SearchKnown'
  <2>1. ASSUME NEW x \in InList, x < next[order]  PROVE x # wanted
    <3>1. x <= order
      BY <1>4, <1>5, <2>1, LinksKnown
    <3>2. x < order \/ x = order
      BY <1>4, <1>5, <3>1
    <3> QED  BY <1>1, <1>3, <3>2
  <2> QED  BY <1>1, <1>2, <1>3, <1>4, <2>1 DEF SearchKnown
<1>7. TypeOK'
  BY <1>1, <1>4 DEF LevelInvariant, Circular, TypeOK, Pointer, InList
<1>8. Circular' /\ BothWays'
  BY <1>1, <1>2, <1>7 DEF LevelInvariant, Circular, BothWays
<1> QED  BY <1>6, <1>8 DEF LevelInvariant

LEMMA NotFoundStep ==
  ASSUME LevelInvariant, notFound
  PROVE  LevelInvariant'
<1>1. /\ UNCHANGED <<top_order, next, previous, last_id>>
      /\ pc' = "idle" /\ wanted' = Null /\ order' = Null /\ returned' = Null
  BY DEF notFound, links
<1>2. InList' = InList
  BY <1>1 DEF InList
<1>3. TypeOK'
  BY <1>1 DEF LevelInvariant, Circular, TypeOK, Pointer
<1> QED  BY <1>1, <1>2, <1>3 DEF LevelInvariant, Circular, BothWays, SearchKnown

LEMMA FoundFacts ==
  ASSUME LevelInvariant, found
  PROVE  /\ order \in InList /\ order = wanted
         /\ next' = [next EXCEPT ![previous[order]] = next[order], ![order] = Null]
         /\ previous' = [previous EXCEPT ![next[order]] = previous[order], ![order] = Null]
         /\ top_order' = IF top_order # order THEN top_order
                         ELSE IF next[order] = order THEN Null ELSE next[order]
         /\ returned' = order /\ pc' = "idle" /\ wanted' = Null /\ order' = Null
         /\ last_id' = last_id /\ InList' = InList \ {order} /\ TypeOK'
<1> USE PriceLevelAssumption
<1>1. order \in InList /\ order = wanted /\ TypeOK
  BY DEF found, LevelInvariant, SearchKnown, Circular
<1>2. /\ next' = [next EXCEPT ![previous[order]] = next[order], ![order] = Null]
      /\ previous' = [previous EXCEPT ![next[order]] = previous[order], ![order] = Null]
      /\ returned' = order /\ pc' = "idle" /\ wanted' = Null /\ order' = Null
      /\ last_id' = last_id
  BY DEF found
<1>3. top_order' = IF top_order # order THEN top_order
                   ELSE IF next[order] = order THEN Null ELSE next[order]
  BY DEF found, NewTop
<1>4. /\ order \in Orders /\ next[order] \in Orders /\ previous[order] \in Orders
      /\ next[order] # Null /\ previous[order] \in InList
  BY <1>1, LinksKnown DEF InList
<1>5. InList' = InList \ {order}
  BY <1>1, <1>2, <1>4 DEF InList, TypeOK
<1>6. TypeOK'
  BY <1>1, <1>2, <1>3, <1>4 DEF TypeOK, Pointer
<1> QED  BY <1>1, <1>2, <1>3, <1>5, <1>6

LEMMA FoundStep ==
  ASSUME LevelInvariant, found
  PROVE  LevelInvariant'
<1> USE PriceLevelAssumption
<1> DEFINE o == order
           n == next[order]
           p == previous[order]
           L == InList
<1>1. /\ o \in L /\ next' = [next EXCEPT ![p] = n, ![o] = Null]
      /\ previous' = [previous EXCEPT ![n] = p, ![o] = Null]
      /\ top_order' = IF top_order # o THEN top_order ELSE IF n = o THEN Null ELSE n
      /\ pc' = "idle" /\ last_id' = last_id /\ InList' = L \ {o} /\ TypeOK' /\ TypeOK
  BY FoundFacts DEF LevelInvariant, Circular
<1>2. /\ n \in L /\ p \in L /\ previous[n] = o /\ next[p] = o
      /\ L \subseteq Orders /\ \A x \in L : x \in Nat /\ x # Null
  BY <1>1, LinksKnown
<1>3. \A x \in L : /\ next[x] \in L /\ previous[next[x]] = x
                   /\ previous[x] \in L /\ next[previous[x]] = x
                   /\ top_order \in L /\ top_order <= x
                   /\ next[x] = top_order <=> \A y \in L : y <= x
                   /\ next[x] # top_order =>
                        x < next[x] /\ \A y \in L : y <= x \/ next[x] <= y
  BY LinksKnown
<1> HIDE DEF o, n, p, L
<1>4. CASE n = o
  <2>1. p = o /\ next[o] = top_order
    BY <1>1, <1>2, <1>3, <1>4 DEF n, o, p
  <2>2. top_order = o /\ L = {o}
    BY <1>1, <1>2, <1>3, <1>4, <2>1 DEF n, o
  <2>3. InList' = {} /\ top_order' = Null
    BY <1>1, <1>4, <2>2
  <2>4. \A x \in Orders : previous'[x] = Null
    <3> TAKE x \in Orders
    <3>1. CASE x = o
      BY <1>1, <3>1 DEF TypeOK
    <3>2. CASE x # o
      <4>1. previous'[x] = previous[x]
        BY <1>1, <1>4, <3>2 DEF TypeOK
      <4>2. previous[x] # Null => previous[x] \in L /\ next[previous[x]] = x
        BY DEF LevelInvariant, Circular, L
      <4> QED  BY <1>4, <2>2, <3>2, <4>1, <4>2 DEF n, o
    <3> QED  BY <3>1, <3>2
  <2>5. Circular'
    BY <1>1, <2>3, <2>4 DEF Circular
  <2> QED  BY <1>1, <2>3, <2>5 DEF LevelInvariant, BothWays, SearchKnown
<1>5. CASE n # o
  <2>1. p # o /\ n \in L \ {o} /\ p \in L \ {o}
    BY <1>1, <1>2, <1>3, <1>5 DEF n, o, p
  <2>2. /\ next'[p] = n /\ next'[o] = Null /\ previous'[n] = p /\ previous'[o] = Null
        /\ \A x \in Orders : x # o /\ x # p => next'[x] = next[x]
        /\ \A x \in Orders : x # o /\ x # n => previous'[x] = previous[x]
    BY <1>1, <1>2, <1>5, <2>1 DEF TypeOK
  <2>3. \A x \in L \ {o} : next'[x] \in L \ {o} /\ previous'[next'[x]] = x
    <3> TAKE x \in L \ {o}
    <3>1. CASE x = p
      BY <2>1, <2>2, <3>1
    <3>2. CASE x # p
      <4>1. next'[x] = next[x] /\ next[x] \in L /\ previous[next[x]] = x
        BY <1>2, <1>3, <2>2, <3>2
      <4>2. next[x] # o /\ next[x] # n
        BY <1>2, <3>2, <4>1 DEF p, o
      <4> QED  BY <1>2, <2>2, <4>1, <4>2
    <3> QED  BY <3>1, <3>2
  <2>4. \A x \in Orders : previous'[x] # Null =>
          previous'[x] \in L \ {o} /\ next'[previous'[x]] = x
    <3> SUFFICES ASSUME NEW x \in Orders, previous'[x] # Null
                 PROVE  previous'[x] \in L \ {o} /\ next'[previous'[x]] = x
      OBVIOUS
    <3>1. CASE x = n
      BY <2>1, <2>2, <3>1
    <3>2. CASE x # n
      <4>1. x # o /\ previous'[x] = previous[x]
        BY <2>2, <3>2
      <4>2. previous[x] \in L /\ next[previous[x]] = x
        BY <4>1 DEF LevelInvariant, Circular, L
      <4>3. previous[x] # o /\ previous[x] # p
        BY <1>2, <3>2, <4>1, <4>2 DEF n, o
      <4> QED  BY <1>2, <2>2, <4>1, <4>2, <4>3
    <3> QED  BY <3>1, <3>2
  <2>5. top_order' \in L \ {o} /\ top_order' # Null
    BY <1>1, <1>2, <1>3, <1>5, <2>1
  <2>6. ASSUME NEW x \in L \ {o}, NEW y \in L \ {o}
        PROVE  /\ top_order' <= y
               /\ IF next'[x] = top_order' THEN y <= x
                  ELSE x < next'[x] /\ ~(x < y /\ y < next'[x])
    <3>1. /\ x \in Nat /\ y \in Nat /\ o \in Nat /\ n \in Nat /\ p \in Nat /\ top_order \in Nat
          /\ o # Null /\ n # Null /\ x \in Orders
      BY <1>1, <1>2, <1>3
    <3>2. next[o] = n /\ (top_order # o => next[p] # top_order)
      BY <1>2 DEF n, o
    <3>3. /\ n = top_order => y <= o
          /\ n # top_order => o < n /\ (y <= o \/ n <= y)
      BY <1>1, <1>3, <3>2
    <3>4. CASE top_order = o
      <4>1. top_order' = n /\ n # top_order
        BY <1>1, <1>5, <3>4
      <4>2. top_order' <= y
        BY <1>3, <3>1, <3>3, <3>4, <4>1
      <4>3. CASE x = p
        <5>1. next'[x] = top_order' /\ next[x] = top_order
          BY <1>2, <2>2, <3>4, <4>1, <4>3
        <5> QED  BY <1>3, <4>2, <5>1
      <4>4. CASE x # p
        <5>1. next'[x] = next[x] /\ next[x] # o /\ next[x] # n /\ next[x] \in L
          BY <1>2, <1>3, <2>2, <3>1, <4>4 DEF p, o
        <5>2. x < next[x] /\ (y <= x \/ next[x] <= y) /\ next[x] \in Nat
          BY <1>2, <1>3, <3>4, <5>1
        <5> QED  BY <3>1, <4>1, <4>2, <5>1, <5>2
      <4> QED  BY <4>3, <4>4
    <3>5. CASE top_order # o
      <4>1. top_order' = top_order /\ top_order' <= y
        BY <1>1, <1>3, <3>5
      <4>2. p < o /\ (y <= p \/ o <= y)
        BY <1>2, <1>3, <3>2, <3>5
      <4>3. CASE x = p
        <5>1. next'[x] = n
          BY <2>2, <4>3
        <5>2. CASE n = top_order
          BY <3>1, <3>3, <4>1, <4>2, <4>3, <5>1, <5>2
        <5>3. CASE n # top_order
          BY <3>1, <3>3, <4>1, <4>2, <4>3, <5>1, <5>3
        <5> QED  BY <5>2, <5>3
      <4>4. CASE x # p
        <5>1. next'[x] = next[x] /\ next[x] \in Nat
          BY <1>2, <1>3, <2>2, <3>1, <4>4
        <5>2. IF next[x] = top_order THEN y <= x
              ELSE x < next[x] /\ (y <= x \/ next[x] <= y)
          BY <1>3
        <5> QED  BY <3>1, <4>1, <5>1, <5>2
      <4> QED  BY <4>3, <4>4
    <3> QED  BY <3>4, <3>5
  <2>7. Circular'
    <3>1. InList' = L \ {o} /\ TypeOK' /\ InList' # {}
      BY <1>1, <2>1
    <3>2. \A x \in InList' : next'[x] \in InList' /\ previous'[next'[x]] = x
      BY <2>3, <3>1
    <3>3. \A x \in Orders : previous'[x] # Null =>
            previous'[x] \in InList' /\ next'[previous'[x]] = x
      BY <2>4, <3>1
    <3>4. top_order' \in InList' /\ top_order' # Null
      BY <2>5, <3>1
    <3>5. \A x, y \in InList' :
            /\ top_order' <= y
            /\ IF next'[x] = top_order' THEN y <= x
               ELSE x < next'[x] /\ ~(x < y /\ y < next'[x])
      BY <2>6, <3>1
    <3> QED  BY <3>1, <3>2, <3>3, <3>4, <3>5 DEF Circular
  <2>8. BothWays'
    <3> SUFFICES ASSUME NEW x \in L \ {o}  PROVE previous'[x] # Null /\ x <= last_id'
      BY <1>1 DEF BothWays
    <3>1. previous[x] # Null /\ x <= last_id
      BY DEF LevelInvariant, BothWays, L
    <3> QED  BY <1>1, <1>2, <2>1, <2>2, <3>1
  <2> QED  BY <1>1, <2>7, <2>8 DEF LevelInvariant, SearchKnown
<1> QED  BY <1>4, <1>5

LEMMA LevelStep ==
  ASSUME LevelInvariant, [Next]_vars
  PROVE  LevelInvariant'
<1>1. CASE UNCHANGED vars
  <2>1. InList' = InList
    BY <1>1 DEF vars, InList
  <2> QED
    BY <1>1, <2>1
    DEF vars, LevelInvariant, Circular, TypeOK, BothWays, SearchKnown
<1> QED
  BY <1>1, AddFirstStep, AddLastStep, CancelStep, SearchStep, FoundStep, NotFoundStep DEF Next

LEMMA LevelInvariantHolds == Spec => []LevelInvariant
<1>1. Init => LevelInvariant
  BY LevelBegins
<1>2. LevelInvariant /\ [Next]_vars => LevelInvariant'
  BY LevelStep
<1> QED  BY <1>1, <1>2, PTL DEF Spec

-----------------------------------------------------------------------------
\* For any number of orders, added and canceled in any order: the links of
\* OrdersPriceLevel are one circle, closed in both directions, that runs from
\* top_order through the orders as they were added.
THEOREM LevelCircular == Spec => []Circular
<1>1. LevelInvariant => Circular
  BY DEF LevelInvariant
<1> QED  BY <1>1, LevelInvariantHolds, PTL

\* What a cancel() that returns has done.
CancelsExactly ==
  pc = "search" /\ pc' = "idle" =>
    /\ returned' = IF wanted \in InList THEN wanted ELSE Null
    /\ InList' = InList \ {wanted}

\* OrdersPriceLevel::cancel() finds every order that is in the level, however long
\* its list, unlinks this one and no other, and returns null only without it.
THEOREM LevelCancelsExactly == Spec => [][CancelsExactly]_vars
<1>1. LevelInvariant /\ [Next]_vars => [CancelsExactly]_vars
  <2> SUFFICES ASSUME LevelInvariant, Next, pc = "search", pc' = "idle"
               PROVE  /\ returned' = IF wanted \in InList THEN wanted ELSE Null
                      /\ InList' = InList \ {wanted}
    BY DEF CancelsExactly
  <2>1. CASE found
    BY <2>1, FoundFacts
  <2>2. CASE notFound
    <3>1. InList' = InList /\ returned' = Null
      BY <2>2 DEF notFound, links, InList
    <3>2. /\ order \in InList /\ order # wanted /\ order = previous[top_order]
          /\ \A o \in InList : o < order => o # wanted
      BY <2>2 DEF notFound, AtLast, LevelInvariant, SearchKnown
    <3>3. next[order] = top_order /\ order \in Nat /\ \A o \in InList : o \in Nat
      BY <3>2, LinksKnown
    <3>4. \A o \in InList : o <= order
      BY <3>2, <3>3, LinksKnown
    <3>5. wanted \notin InList
      <4> SUFFICES ASSUME wanted \in InList  PROVE FALSE
        OBVIOUS
      <4>1. wanted <= order /\ wanted \in Nat
        BY <3>3, <3>4
      <4>2. wanted < order
        BY <3>2, <3>3, <4>1
      <4> QED  BY <3>2, <4>2
    <3> QED  BY <3>1, <3>5
  <2> QED  BY <2>1, <2>2 DEF Next, add, cancel, searchOn
<1> QED  BY <1>1, LevelInvariantHolds, PTL DEF Spec
=============================================================================
