-------------------------- MODULE ObjectPoolProofs --------------------------
(***************************************************************************)
(* ObjectPool, for a pool of any size: the flags are exact, no block is    *)
(* handed out twice, and the process exits only at the last free block.    *)
(***************************************************************************)
EXTENDS ObjectPool, WellFoundedInduction, TLAPS

\* A non-empty set of natural numbers has a least element.
LEMMA LeastElement ==
  ASSUME NEW S \in SUBSET Nat, S # {}
  PROVE  \E n \in S : \A m \in S : n <= m
<1> DEFINE R == OpToRel(<, Nat)
<1>1. PICK n \in S : \A m \in S : ~(<<m, n>> \in R)
  <2>1. IsWellFoundedOn(R, Nat)
    BY NatLessThanWellFounded
  <2> HIDE DEF R
  <2> QED  BY <2>1, WFMin, Zenon
<1>2. \A m \in S : <<m, n>> \in R <=> m < n
  BY DEF OpToRel
<1>3. \A m \in S : n <= m
  <2>1. \A m \in S : ~(m < n)
    BY <1>1, <1>2, Zenon
  <2> QED  BY <2>1
<1> QED  BY <1>3

\* updateNextFree(): unless every block is taken, the scan from any block
\* finds an available one.
LEMMA FirstFreeAvailable ==
  ASSUME NEW avail \in [Blocks -> BOOLEAN], NEW start \in Blocks, ~Full(avail)
  PROVE  /\ FirstFree(avail, start) \in Blocks
         /\ avail[FirstFree(avail, start)]
<1> DEFINE S == {StepsFrom(start, b) : b \in {c \in Blocks : avail[c]}}
<1>1. S \in SUBSET Nat /\ S # {}
  BY SizeAssumption DEF Full, Blocks, StepsFrom
<1>2. PICK n \in S : \A m \in S : n <= m
  <2> HIDE DEF S
  <2> QED  BY <1>1, LeastElement
<1>3. \E b \in Blocks :
        /\ avail[b]
        /\ \A c \in Blocks : avail[c] => StepsFrom(start, b) <= StepsFrom(start, c)
  BY <1>2
<1> QED  BY <1>3, Zenon DEF FirstFree

-----------------------------------------------------------------------------
\* The inductive invariant: each part needs the others, as the flags decide
\* which block next_free can reach and which one a release may return.
PoolInvariant == TypeOK /\ NoSharedBlock /\ ExitOnlyWhenFull

LEMMA InitEstablishesPoolInvariant == Init => PoolInvariant
<1> SUFFICES ASSUME Init PROVE PoolInvariant
  OBVIOUS
<1>1. 0 \in Blocks
  BY SizeAssumption DEF Blocks
<1>2. TypeOK /\ NoSharedBlock
  BY <1>1 DEF Init, TypeOK, NoSharedBlock
<1>3. ExitOnlyWhenFull
  BY DEF Init, ExitOnlyWhenFull
<1> QED  BY <1>2, <1>3 DEF PoolInvariant

LEMMA NextPreservesPoolInvariant == PoolInvariant /\ [Next]_vars => PoolInvariant'
<1> SUFFICES ASSUME PoolInvariant, [Next]_vars PROVE PoolInvariant'
  OBVIOUS
<1> USE DEF PoolInvariant
<1>1. CASE getObject
  <2> DEFINE taken == Taken(available, next_free)
  <2>1. taken \in [Blocks -> BOOLEAN] /\ next_free \in Blocks /\ ~Full(taken)
    BY <1>1 DEF getObject, Taken, TypeOK
  <2>2. next_free' \in Blocks /\ taken[next_free']
    <3> HIDE DEF taken
    <3>1. next_free' = FirstFree(taken, next_free)
      BY <1>1 DEF getObject, taken
    <3> QED  BY <2>1, <3>1, FirstFreeAvailable
  <2>3. TypeOK'
    BY <1>1, <2>1, <2>2 DEF getObject, TypeOK
  <2>4. NoSharedBlock'
    BY <1>1, <2>1, <2>2 DEF getObject, TypeOK, NoSharedBlock, Taken
  <2>5. ExitOnlyWhenFull'
    BY <1>1 DEF getObject, ExitOnlyWhenFull
  <2> QED  BY <2>3, <2>4, <2>5
<1>2. CASE getObjectFails
  <2>1. TypeOK'
    BY <1>2 DEF getObjectFails, TypeOK, Taken
  <2>2. ExitOnlyWhenFull'
    BY <1>2 DEF getObjectFails, TypeOK, Taken, NoSharedBlock, ExitOnlyWhenFull, Full
  <2> QED  BY <1>2, <2>1, <2>2 DEF getObjectFails, NoSharedBlock
<1>3. ASSUME NEW b \in Blocks, releaseObject(b) PROVE PoolInvariant'
  BY <1>3 DEF releaseObject, TypeOK, NoSharedBlock, ExitOnlyWhenFull
<1>4. CASE Exited
  BY <1>4 DEF Exited, vars, TypeOK, NoSharedBlock, ExitOnlyWhenFull, Full
<1>5. CASE UNCHANGED vars
  BY <1>5 DEF vars, TypeOK, NoSharedBlock, ExitOnlyWhenFull, Full
<1> QED  BY <1>1, <1>2, <1>3, <1>4, <1>5 DEF Next

\* The inductive invariant holds in every reachable state.
THEOREM PoolInvariantHolds == Spec => []PoolInvariant
BY InitEstablishesPoolInvariant, NextPreservesPoolInvariant, PTL DEF Spec

\* No block is shared, whatever the size of the pool: getObject() never returns
\* an object somebody holds, and its ASSERT on block->available never fails.
THEOREM PoolNeverShares == Spec => []NoSharedBlock
BY PoolInvariantHolds, PTL DEF PoolInvariant

\* The only way the pool ends the process is the "Buffer is full." ASSERT, when
\* all its other blocks are held.
THEOREM PoolExitsOnlyWhenFull == Spec => []ExitOnlyWhenFull
BY PoolInvariantHolds, PTL DEF PoolInvariant
=============================================================================
