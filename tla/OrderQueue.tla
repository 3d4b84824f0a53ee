----------------------------- MODULE OrderQueue -----------------------------
(***************************************************************************)
(* What a price level promises to the order book: a queue to whose end     *)
(* orders are added, and from which any order can be canceled by its id.   *)
(* OrderBook uses the levels through this interface: level_orders[l] is q. *)
(***************************************************************************)
EXTENDS Naturals, Sequences

CONSTANTS Orders, Null

VARIABLES
  q,          \* the orders, oldest first
  asked,      \* the order_id of the cancel() under way, or Null
  returned    \* what the last cancel() returned

vars == <<q, asked, returned>>

Init == q = <<>> /\ asked = Null /\ returned = Null

Add(o) ==
  /\ asked = Null
  /\ q' = Append(q, o)
  /\ UNCHANGED <<asked, returned>>

Ask(o) ==
  /\ asked = Null /\ q # <<>>
  /\ asked' = o
  /\ UNCHANGED <<q, returned>>

Answer ==
  /\ asked # Null
  /\ returned' = IF \E i \in 1 .. Len(q) : q[i] = asked THEN asked ELSE Null
  /\ q' = SelectSeq(q, LAMBDA o : o # asked)
  /\ asked' = Null

Next == (\E o \in Orders : Add(o) \/ Ask(o)) \/ Answer

Spec == Init /\ [][Next]_vars
=============================================================================
