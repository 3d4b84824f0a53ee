--------------------------- MODULE LFQueueProofs ----------------------------
(***************************************************************************)
(* LFQueue, for a ring of any size N and any number of pushes: a window of *)
(* at most N - 1 items in flight makes the ring buffer a faithful queue.   *)
(*                                                                         *)
(* The inductive invariant says where each item is: the items between the  *)
(* two indices are the consecutive numbers after received, the item being  *)
(* pushed is in the slot at the write index, and the item in use is in the *)
(* slot just before the read index, which the write index cannot reach     *)
(* within the window.                                                      *)
(***************************************************************************)
EXTENDS LFQueue, TLAPS

InFlight == Count + (IF producer = "advance" THEN 1 ELSE 0)

Counted ==
  /\ sent = received + InFlight
  /\ sent <= received + Window
  /\ sent <= MaxPush

PlacedInRing == \A k \in 1 .. Count : data_[SlotAt(k - 1)] = received + k

BeingPushed == producer = "advance" => data_[next_write_index_] = sent

BeingPopped == consumer = "advance" => item = next_read_index_ /\ Count > 0

InUse ==
  consumer = "use" =>
    /\ Following(item) = next_read_index_
    /\ data_[item] = received
    /\ received > 0

RingInvariant ==
  TypeOK /\ Counted /\ PlacedInRing /\ BeingPushed /\ BeingPopped /\ InUse

-----------------------------------------------------------------------------
(* Index arithmetic.                                                       *)

\* The next index is an index.
LEMMA FollowingType == \A i \in Slots : Following(i) \in Slots
BY QueueAssumption DEF Slots, Following

\* The number of items lies between 0 and N - 1, and the write index is that
\* many slots after the read index.
LEMMA CountFacts ==
  ASSUME TypeOK
  PROVE  /\ Count \in 0 .. (N - 1)
         /\ next_write_index_ = SlotAt(Count)
         /\ empty <=> Count = 0
BY QueueAssumption DEF TypeOK, Slots, Count, SlotAt, empty

\* Different offsets below N designate different slots.
LEMMA SlotsDiffer ==
  ASSUME TypeOK, NEW j \in 0 .. (N - 1), NEW k \in 0 .. (N - 1), j # k
  PROVE  SlotAt(j) \in Slots /\ SlotAt(k) \in Slots /\ SlotAt(j) # SlotAt(k)
BY QueueAssumption DEF TypeOK, Slots, SlotAt

\* The slot before the read index is the one at offset N - 1.
LEMMA SlotBefore ==
  ASSUME TypeOK, NEW i \in Slots, Following(i) = next_read_index_
  PROVE  i = SlotAt(N - 1)
BY QueueAssumption DEF TypeOK, Slots, SlotAt, Following
-----------------------------------------------------------------------------
LEMMA InitEstablishesRing == Init => RingInvariant
BY QueueAssumption DEF Init, RingInvariant, TypeOK, Slots, Counted, InFlight, Count,
   PlacedInRing, BeingPushed, BeingPopped, InUse

LEMMA WritePreservesRing ==
  ASSUME RingInvariant, Window < N, pushWrite
  PROVE  RingInvariant' /\ Count' = Count /\ Count < Window
         /\ data_' = [data_ EXCEPT ![SlotAt(Count)] = sent + 1]
<1> USE DEF RingInvariant
<1>1. /\ Count \in 0 .. (N - 1) /\ next_write_index_ = SlotAt(Count)
      /\ Count < Window /\ Count < N - 1 /\ sent = received + Count
  BY QueueAssumption, CountFacts DEF pushWrite, Counted, InFlight, TypeOK
<1>2. TypeOK'
  BY DEF pushWrite, TypeOK
<1>3. Count' = Count /\ \A k : SlotAt(k)' = SlotAt(k)
  BY DEF pushWrite, Count, SlotAt
<1>4. Counted'
  BY QueueAssumption, <1>1, <1>3 DEF pushWrite, Counted, InFlight, TypeOK
<1>5. PlacedInRing'
  <2> SUFFICES ASSUME NEW k \in 1 .. Count PROVE data_'[SlotAt(k - 1)] = received + k
    BY <1>3 DEF PlacedInRing, pushWrite
  <2>1. k - 1 \in 0 .. (N - 1) /\ k - 1 # Count
    BY QueueAssumption, <1>1
  <2>2. SlotAt(k - 1) \in Slots /\ SlotAt(k - 1) # next_write_index_
    BY <1>1, <2>1, SlotsDiffer
  <2> QED  BY <2>2 DEF PlacedInRing, pushWrite, TypeOK
<1>6. BeingPushed'
  BY DEF BeingPushed, pushWrite, TypeOK
<1>7. BeingPopped'
  BY <1>3 DEF BeingPopped, pushWrite
<1>8. InUse'
  <2> SUFFICES ASSUME consumer = "use"
               PROVE  item # next_write_index_
    BY DEF InUse, pushWrite, TypeOK
  <2>1. item = SlotAt(N - 1)
    BY SlotBefore DEF InUse, TypeOK
  <2>2. N - 1 \in 0 .. (N - 1) /\ N - 1 # Count
    BY QueueAssumption, <1>1
  <2> QED  BY <1>1, <2>1, <2>2, SlotsDiffer
<1> QED  BY <1>1, <1>2, <1>3, <1>4, <1>5, <1>6, <1>7, <1>8 DEF pushWrite

LEMMA AdvancePreservesRing ==
  ASSUME RingInvariant, Window < N, pushAdvance
  PROVE  RingInvariant' /\ Count' = Count + 1 /\ Count < Window
         /\ data_[SlotAt(Count)] = sent
<1> USE DEF RingInvariant
<1>1. /\ Count \in 0 .. (N - 1) /\ next_write_index_ = SlotAt(Count)
      /\ Count < Window /\ Count < N - 1 /\ sent = received + Count + 1
  BY QueueAssumption, CountFacts DEF pushAdvance, Counted, InFlight, TypeOK
<1>2. TypeOK'
  BY FollowingType DEF pushAdvance, TypeOK
<1>3. Count' = Count + 1
  BY QueueAssumption, <1>1 DEF pushAdvance, Count, Following, TypeOK, Slots
<1>4. \A k : SlotAt(k)' = SlotAt(k)
  BY DEF pushAdvance, SlotAt
<1>5. Counted'
  BY <1>1, <1>3 DEF pushAdvance, Counted, InFlight, TypeOK
<1>6. PlacedInRing'
  <2> SUFFICES ASSUME NEW k \in 1 .. (Count + 1) PROVE data_[SlotAt(k - 1)] = received + k
    BY <1>3, <1>4 DEF PlacedInRing, pushAdvance
  <2>1. CASE k = Count + 1
    <3>1. k - 1 = Count
      BY <1>1, <2>1
    <3>2. data_[SlotAt(Count)] = sent
      BY <1>1 DEF BeingPushed, pushAdvance
    <3> QED  BY <1>1, <2>1, <3>1, <3>2 DEF TypeOK
  <2>2. CASE k \in 1 .. Count
    BY <2>2 DEF PlacedInRing
  <2> QED  BY <1>1, <2>1, <2>2
<1>7. BeingPushed' /\ InUse'
  BY DEF BeingPushed, InUse, pushAdvance
<1>8. BeingPopped'
  BY <1>1, <1>3 DEF BeingPopped, pushAdvance
<1>9. data_[SlotAt(Count)] = sent
  BY <1>1 DEF BeingPushed, pushAdvance
<1> QED  BY <1>1, <1>2, <1>3, <1>5, <1>6, <1>7, <1>8, <1>9

LEMMA FindPreservesRing ==
  ASSUME RingInvariant, popFinds
  PROVE  RingInvariant' /\ Count' = Count
<1> USE DEF RingInvariant
<1>1. Count' = Count /\ \A k : SlotAt(k)' = SlotAt(k)
  BY DEF popFinds, ring, Count, SlotAt
<1>2. TypeOK' /\ Counted' /\ BeingPushed' /\ InUse'
  BY <1>1 DEF popFinds, ring, TypeOK, Counted, InFlight, BeingPushed, InUse
<1>3. PlacedInRing'
  BY <1>1 DEF popFinds, ring, PlacedInRing
<1>4. BeingPopped'
  BY <1>1, CountFacts DEF popFinds, ring, BeingPopped
<1> QED  BY <1>1, <1>2, <1>3, <1>4

LEMMA PopPreservesRing ==
  ASSUME RingInvariant, popAdvance
  PROVE  /\ RingInvariant' /\ Count > 0 /\ Count' = Count - 1
         /\ \A k \in 0 .. (Count - 1) : SlotAt(k)' = SlotAt(k + 1)
<1> USE DEF RingInvariant
<1>1. /\ Count \in 1 .. (N - 1) /\ item = next_read_index_
      /\ SlotAt(0) = next_read_index_
  BY QueueAssumption, CountFacts DEF popAdvance, BeingPopped, SlotAt, TypeOK, Slots
<1>2. TypeOK'
  BY FollowingType DEF popAdvance, TypeOK
<1>3. Count' = Count - 1
  BY QueueAssumption, <1>1 DEF popAdvance, Count, Following, TypeOK, Slots
<1>4. \A k \in 0 .. (Count - 1) : SlotAt(k)' = SlotAt(k + 1)
  BY QueueAssumption, <1>1 DEF popAdvance, SlotAt, Following, TypeOK, Slots
<1>5. Counted'
  BY <1>1, <1>3, QueueAssumption DEF popAdvance, Counted, InFlight, TypeOK
<1>6. PlacedInRing'
  <2> SUFFICES ASSUME NEW k \in 1 .. (Count - 1)
               PROVE  data_[SlotAt(k - 1)'] = (received + 1) + k
    BY <1>3 DEF PlacedInRing, popAdvance
  <2>1. SlotAt(k - 1)' = SlotAt(k) /\ k + 1 \in 1 .. Count /\ (k + 1) - 1 = k
    BY <1>1, <1>4
  <2>2. data_[SlotAt((k + 1) - 1)] = received + (k + 1)
    BY <2>1 DEF PlacedInRing
  <2> QED  BY <2>1, <2>2 DEF TypeOK
<1>7. BeingPushed' /\ BeingPopped'
  BY DEF BeingPushed, BeingPopped, popAdvance
<1>8. InUse'
  <2>1. data_[SlotAt(1 - 1)] = received + 1
    BY <1>1 DEF PlacedInRing
  <2> QED  BY <1>1, <2>1 DEF InUse, popAdvance, TypeOK
<1> QED  BY <1>1, <1>2, <1>3, <1>4, <1>5, <1>6, <1>7, <1>8

LEMMA UsePreservesRing ==
  ASSUME RingInvariant, used \/ Polling \/ UNCHANGED vars
  PROVE  RingInvariant' /\ Count' = Count
<1>1. Count' = Count /\ \A k : SlotAt(k)' = SlotAt(k)
  BY DEF used, Polling, vars, ring, Count, SlotAt
<1>2. PlacedInRing'
  BY <1>1 DEF RingInvariant, used, Polling, vars, ring, PlacedInRing
<1> QED  BY <1>1, <1>2 DEF RingInvariant, used, Polling, vars, ring, TypeOK, Counted,
           InFlight, BeingPushed, BeingPopped, InUse

LEMMA NextPreservesRing ==
  ASSUME Window < N
  PROVE  RingInvariant /\ [Next]_vars => RingInvariant'
BY WritePreservesRing, AdvancePreservesRing, FindPreservesRing, PopPreservesRing,
   UsePreservesRing DEF Next

-----------------------------------------------------------------------------
\* The inductive invariant holds in every reachable state.
THEOREM RingInvariantHolds ==
  ASSUME Window < N
  PROVE  Spec => []RingInvariant
BY InitEstablishesRing, NextPreservesRing, PTL DEF Spec

\* The pointer that pop() returned designates the right item for as long as
\* its caller uses it, although the slot is already counted as free.
THEOREM ItemsInOrder ==
  ASSUME Window < N
  PROVE  Spec => []InOrder
<1>1. RingInvariant => InOrder
  BY DEF RingInvariant, InUse, InOrder
<1> QED  BY <1>1, RingInvariantHolds, PTL

\* pop() returns nullptr only when every completed push has been popped.
THEOREM NoItemLost ==
  ASSUME Window < N
  PROVE  Spec => []NothingLost
<1>1. RingInvariant => NothingLost
  BY CountFacts DEF RingInvariant, Counted, InFlight, NothingLost, TypeOK
<1> QED  BY <1>1, RingInvariantHolds, PTL

-----------------------------------------------------------------------------
(* Refinement.  Under the invariant the abstract queue is an interval.     *)

Held == IF consumer = "use" THEN data_[item] ELSE 0

IsInterval ==
  /\ Contents = [k \in 1 .. Count |-> received + k]
  /\ Count \in Nat /\ received \in Nat

\* The contents of the ring are the numbers that follow received.
LEMMA ContentsAre == RingInvariant => IsInterval
BY CountFacts, QueueAssumption DEF RingInvariant, IsInterval, Contents,
   PlacedInRing, TypeOK

LEMMA InitRefines == Init => FifoQueue!Init
BY DEF Init, FifoQueue!Init, Contents, Count, Slots

LEMMA StepRefines ==
  ASSUME Window < N, RingInvariant, [Next]_vars
  PROVE  [FifoQueue!Next]_FifoQueue!vars
<1> USE DEF FifoQueue!vars
<1> DEFINE Interval(r, n) == [k \in 1 .. n |-> r + k]
<1>0. Contents = Interval(received, Count) /\ Count \in Nat /\ received \in Nat
  BY ContentsAre DEF IsInterval
<1>1. ASSUME RingInvariant'
      PROVE  Contents' = Interval(received', Count') /\ Count' \in Nat /\ received' \in Nat
  <2>1. IsInterval'
    BY <1>1, ContentsAre, PTL
  <2> QED  BY <2>1 DEF IsInterval
<1>2. CASE pushWrite
  <2>1. RingInvariant' /\ Count' = Count /\ received' = received
    BY <1>2, WritePreservesRing DEF pushWrite
  <2>2. Contents' = Contents
    BY <1>0, <1>1, <2>1
  <2>3. Held' = Held
    BY <1>2, <2>1 DEF Held, pushWrite, RingInvariant, InUse
  <2> QED  BY <2>2, <2>3 DEF Held
<1>3. CASE pushAdvance
  <2>1. /\ RingInvariant' /\ Count' = Count + 1 /\ received' = received
        /\ Count < Window /\ sent = received + Count + 1
    BY <1>3, <1>0, AdvancePreservesRing DEF pushAdvance, RingInvariant, Counted, InFlight, TypeOK
  <2>2. Contents' = Append(Contents, sent) /\ Len(Contents) < Window
    BY <1>0, <1>1, <2>1
  <2>3. sent \in 1 .. MaxPush
    BY <1>0, <2>1, QueueAssumption DEF RingInvariant, Counted
  <2>4. FifoQueue!Push(sent)
    BY <1>3, <2>2 DEF pushAdvance, FifoQueue!Push
  <2> QED  BY <2>3, <2>4 DEF FifoQueue!Next
<1>4. CASE popFinds
  <2>1. RingInvariant' /\ Count' = Count /\ received' = received
    BY <1>4, FindPreservesRing DEF popFinds
  <2>2. Contents' = Contents
    BY <1>0, <1>1, <2>1
  <2> QED  BY <1>4, <2>2 DEF popFinds
<1>5. CASE popAdvance
  <2>1. RingInvariant' /\ Count > 0 /\ Count' = Count - 1 /\ received' = received + 1
    BY <1>5, PopPreservesRing DEF popAdvance
  <2>2. Contents # <<>> /\ Contents' = Tail(Contents) /\ Head(Contents) = received'
    BY <1>0, <1>1, <2>1
  <2>3. consumer' = "use" /\ consumer = "advance" /\ data_'[item'] = received'
    BY <1>5, <2>1 DEF popAdvance, RingInvariant, InUse
  <2>4. FifoQueue!Pop
    BY <2>2, <2>3 DEF FifoQueue!Pop
  <2> QED  BY <2>4 DEF FifoQueue!Next
<1>6. CASE used
  <2>1. RingInvariant' /\ Count' = Count /\ received' = received
    BY <1>6, UsePreservesRing DEF used
  <2>2. Contents' = Contents
    BY <1>0, <1>1, <2>1
  <2>3. data_[item] = received /\ received > 0
    BY <1>6 DEF used, RingInvariant, InUse
  <2>4. FifoQueue!Release
    BY <1>0, <1>6, <2>2, <2>3 DEF used, FifoQueue!Release
  <2> QED  BY <2>4 DEF FifoQueue!Next
<1>7. CASE Polling \/ UNCHANGED vars
  BY <1>7 DEF Polling, vars, Contents, Count, SlotAt
<1> QED  BY <1>2, <1>3, <1>4, <1>5, <1>6, <1>7 DEF Next

\* With fewer than N items in flight, the ring buffer implements the abstract
\* queue: first in first out, without loss, repetition or overwriting.
THEOREM RingImplementsFifo ==
  ASSUME Window < N
  PROVE  Spec => ImplementsFifo
<1>1. RingInvariant /\ [Next]_vars => [FifoQueue!Next]_FifoQueue!vars
  BY StepRefines
<1> QED  BY <1>1, InitRefines, RingInvariantHolds, PTL DEF Spec, ImplementsFifo, FifoQueue!Spec
=============================================================================
