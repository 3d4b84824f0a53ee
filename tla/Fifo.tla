-------------------------------- MODULE Fifo --------------------------------
(***************************************************************************)
(* What a single-producer single-consumer queue promises: items come out   *)
(* in the order they went in, none is lost or repeated, and the item the   *)
(* consumer is looking at does not change under its eyes.                  *)
(***************************************************************************)
EXTENDS Naturals, Sequences

CONSTANTS
  Values,
  Capacity,
  Nothing          \* the consumer holds no item

VARIABLES
  q,     \* items pushed and not yet popped
  out    \* the item the consumer holds

vars == <<q, out>>

Init == q = <<>> /\ out = Nothing

Push(v) ==
  /\ Len(q) < Capacity
  /\ q' = Append(q, v)
  /\ UNCHANGED out

Pop ==
  /\ q # <<>> /\ out = Nothing
  /\ out' = Head(q)
  /\ q' = Tail(q)

Release ==
  /\ out # Nothing
  /\ out' = Nothing
  /\ UNCHANGED q

Next == (\E v \in Values : Push(v)) \/ Pop \/ Release

Spec == Init /\ [][Next]_vars
=============================================================================
