----------------------------- MODULE ObjectPool -----------------------------
(***************************************************************************)
(* Utils::ObjectPool<T> (include/utils/object_pool.h): a pre-allocated     *)
(* vector of blocks, an availability flag per block, and next_free, the    *)
(* index the next getObject() will hand out.  The objects themselves are   *)
(* abstracted to the index of their block.                                 *)
(*                                                                         *)
(* A failing ASSERT ends the process: exited.                              *)
(***************************************************************************)
EXTENDS Naturals, FiniteSets

CONSTANT Size                     \* store.size()

ASSUME SizeAssumption == Size \in Nat \ {0}

VARIABLES
  available,   \* store[i].available
  next_free,
  live,        \* blocks the callers hold: returned and not yet released
  exited       \* an ASSERT failed, exit(EXIT_FAILURE)

vars == <<available, next_free, live, exited>>

Blocks == 0 .. (Size - 1)

TypeOK ==
  /\ available \in [Blocks -> BOOLEAN]
  /\ next_free \in Blocks
  /\ live \in SUBSET Blocks
  /\ exited \in BOOLEAN

Init ==
  /\ available = [b \in Blocks |-> TRUE]
  /\ next_free = 0
  /\ live = {}
  /\ exited = FALSE

(***************************************************************************)
(* updateNextFree(): from the block just taken, step forward with wrap-    *)
(* around to the first available block; back at the start, the pool is     *)
(* full and the ASSERT fails.                                              *)
(***************************************************************************)
StepsFrom(start, b) == IF b >= start THEN b - start ELSE (b + Size) - start

Full(avail) == \A b \in Blocks : ~avail[b]

\* Mutant: the flag is not looked at.
NextBlock(avail, start) == IF start + 1 = Size THEN 0 ELSE start + 1

FirstFree(avail, start) ==
  CHOOSE b \in Blocks :
    /\ avail[b]
    /\ \A c \in Blocks : avail[c] => StepsFrom(start, b) <= StepsFrom(start, c)

\* The flags once the block at index b has been handed out.
Taken(avail, b) == [avail EXCEPT ![b] = FALSE]

\* getObject(), with a free block left for the next call.
getObject ==
  /\ ~exited
  /\ available[next_free]
  /\ ~Full(Taken(available, next_free))
  /\ available' = Taken(available, next_free)
  /\ next_free' = FirstFree(available', next_free)
  /\ live' = live \cup {next_free}
  /\ UNCHANGED exited

\* getObject() whose ASSERT fails: the block is not free, or it was the last
\* free one ("Buffer is full."), and the process exits before returning it.
getObjectFails ==
  /\ ~exited
  /\ available[next_free] => Full(Taken(available, next_free))
  /\ available' = Taken(available, next_free)
  /\ exited' = TRUE
  /\ UNCHANGED <<next_free, live>>

\* releaseObject() of an object a caller holds.  The first ASSERT (the index is
\* in the store) holds for every block; the second one ends the process.
releaseObject(b) ==
  /\ ~exited
  /\ b \in live
  /\ exited' = available[b]
  /\ available' = [available EXCEPT ![b] = TRUE]
  /\ live' = live \ {b}
  /\ UNCHANGED next_free

\* After exit() nothing happens.
Exited == exited /\ UNCHANGED vars

Next ==
  \/ getObject
  \/ getObjectFails
  \/ \E b \in Blocks : releaseObject(b)
  \/ Exited

Spec == Init /\ [][Next]_vars
-----------------------------------------------------------------------------
\* A block is flagged available exactly when nobody holds it, and next_free
\* designates an available block: getObject() never hands out a block that is
\* in use, and the ASSERTs of lines 24 and 38 never fail.
NoSharedBlock ==
  ~exited => /\ available[next_free]
             /\ \A b \in Blocks : available[b] <=> b \notin live

\* The process exits only when the last block has been taken: with all the
\* others live, and never through the ASSERT of releaseObject().
ExitOnlyWhenFull ==
  exited => /\ Full(available)
            /\ live = Blocks \ {next_free}
=============================================================================
