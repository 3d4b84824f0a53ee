----------------------- MODULE FifoSequencerProofs --------------------------
(***************************************************************************)
(* FifoSequencer, for any number of clients and requests.                  *)
(***************************************************************************)
EXTENDS FifoSequencer, FiniteSetTheorems, TLAPS

ArrivalOf      == [r \in Request |-> r.arrival]
PendingArrival == [p \in Pending |-> p.request.arrival]

Of(s, f)   == {f[s[i]] : i \in 1 .. Len(s)}
Once(s, f) == \A i, j \in 1 .. Len(s) : f[s[i]] = f[s[j]] => i = j

\* The arrivals in each place.
InQueue   == Of(published, PendingArrival)
InBatch   == Of(pending_requests, PendingArrival)
InRead    == Of(reading, ArrivalOf)
AtPeer(c) == Of(kernel[c], ArrivalOf)

\* Every request that arrived is in one place, once.
Placed ==
  /\ Once(published, PendingArrival) /\ Once(pending_requests, PendingArrival)
  /\ Once(reading, ArrivalOf) /\ \A c \in Clients : Once(kernel[c], ArrivalOf)
  /\ InQueue \cap InBatch = {} /\ InQueue \cap InRead = {} /\ InBatch \cap InRead = {}
  /\ \A c \in Clients : AtPeer(c) \cap (InQueue \cup InBatch \cup InRead) = {}
  /\ \A c, d \in Clients : c # d => AtPeer(c) \cap AtPeer(d) = {}
  /\ \A n : n \in 1 .. clock <=> \/ n \in InQueue \cup InBatch \cup InRead
                                 \/ \E c \in Clients : n \in AtPeer(c)

\* addRequest() has kept to its limit, and ended the process at one more.
Limited ==
  /\ Len(pending_requests) <= MAX_PENDING_REQUESTS
  /\ status = "exit" => Len(pending_requests) = MAX_PENDING_REQUESTS /\ reading # <<>>

\* Of two rounds that are counted, one publishes something: what comes too late for
\* a round that reads nothing is read in the next.
InRound ==
  \/ reading # <<>> \/ pending_requests # <<>>
  \/ \E c \in Clients : c >= visiting /\ kernel[c] # <<>>

RoundsCounted ==
  \/ roundNo <= 1 + 2 * Len(published)
  \/ roundNo = 2 + 2 * Len(published) /\ InRound

\* What is read or still to be read in this round has arrived in it or in the one
\* before; what is published has arrived earlier.
Lately(r, n) == r.round = n \/ r.round + 1 = n

RoundsKnown ==
  /\ \A i \in 1 .. Len(published) : published[i].request.round < roundNo
  /\ \A i \in 1 .. Len(pending_requests) : Lately(pending_requests[i].request, roundNo)
  /\ \A i \in 1 .. Len(reading) : Lately(reading[i], roundNo)
  /\ \A c \in Clients : \A i \in 1 .. Len(kernel[c]) :
       Lately(kernel[c][i], roundNo) /\ (c < visiting => kernel[c][i].round = roundNo)
  /\ \A i, j \in 1 .. Len(published) :
       i < j => published[i].request.round <= published[j].request.round + 1

SequencerInvariant == TypeOK /\ Placed /\ Limited /\ RoundsCounted /\ RoundsKnown

\* A client's requests wait in the order of their arrival, and a read that the
\* kernel stamped has the stamp of its last request.
ReadKnown ==
  /\ \A c \in Clients : \A i \in 1 .. Len(kernel[c]) :
       /\ kernel[c][i].client = c
       /\ kernel[c][i].arrival <= kernel[c][Len(kernel[c])].arrival
  /\ \A i \in 1 .. Len(reading) :
       /\ reading[i].client = reading[Len(reading)].client
       /\ stamped => reading[i].arrival <= timestamp
  /\ stamped /\ reading # <<>> => reading[Len(reading)].arrival = timestamp

\* The request that gave a pending one its stamp is pending too, or about to be.
IsLast(r, p)  == r.client = p.request.client /\ r.arrival = p.receive_timestamp
LastKnown(p) ==
  \/ \E k \in 1 .. Len(pending_requests) : IsLast(pending_requests[k].request, p)
  \/ reading # <<>> /\ IsLast(reading[Len(reading)], p)

BatchKnown ==
  \A i \in 1 .. Len(pending_requests) :
    LET p == pending_requests[i]
    IN  /\ p.batch = roundNo
        /\ p.stamped => p.request.arrival <= p.receive_timestamp /\ LastKnown(p)

\* What OvertakenWithinARound says of two stamped requests of a batch.
Excused(i, j) ==
  \E k \in 1 .. Len(published) :
    /\ published[k].batch = published[j].batch
    /\ published[k].request.client = published[j].request.client
    /\ published[k].request.arrival >= published[i].request.arrival

OrderKnown ==
  /\ \A i \in 1 .. Len(published) : published[i].batch < roundNo
  /\ \A i, j \in 1 .. Len(published) :
       i < j /\ published[i].stamped /\ published[j].stamped
         /\ published[i].batch = published[j].batch => Excused(i, j)

StampInvariant == ReadKnown /\ BatchKnown /\ OrderKnown

-----------------------------------------------------------------------------
(* The marks f of the elements of a sequence.                              *)

LEMMA EmptyMarks ==
  ASSUME NEW f
  PROVE  Of(<<>>, f) = {} /\ Once(<<>>, f)
BY DEF Of, Once

LEMMA AppendMarks ==
  ASSUME NEW S, NEW f, NEW s \in Seq(S), NEW x \in S
  PROVE  /\ Append(s, x) \in Seq(S)
         /\ Of(Append(s, x), f) = Of(s, f) \cup {f[x]}
         /\ Once(s, f) /\ f[x] \notin Of(s, f) => Once(Append(s, x), f)
<1> DEFINE t == Append(s, x)
<1>1. /\ t \in Seq(S) /\ Len(s) \in Nat /\ Len(t) = Len(s) + 1
      /\ \A i \in 1 .. Len(s) : t[i] = s[i]
      /\ t[Len(s) + 1] = x
  OBVIOUS
<1> HIDE DEF t
<1>2. \A n : n \in Of(t, f) <=> n \in Of(s, f) \cup {f[x]}
  <2>1. ASSUME NEW n \in Of(t, f)  PROVE n \in Of(s, f) \cup {f[x]}
    <3>1. PICK i \in 1 .. Len(t) : n = f[t[i]]
      BY <2>1 DEF Of
    <3>2. i \in 1 .. Len(s) \/ i = Len(s) + 1
      BY <1>1
    <3> QED  BY <1>1, <3>1, <3>2 DEF Of
  <2>2. ASSUME NEW n \in Of(s, f)  PROVE n \in Of(t, f)
    <3>1. PICK i \in 1 .. Len(s) : n = f[s[i]]
      BY <2>2 DEF Of
    <3>2. i \in 1 .. Len(t) /\ t[i] = s[i]
      BY <1>1
    <3> QED  BY <3>1, <3>2 DEF Of
  <2>3. f[x] \in Of(t, f)
    <3>1. Len(s) + 1 \in 1 .. Len(t)
      BY <1>1
    <3> QED  BY <1>1, <3>1 DEF Of
  <2> QED  BY <2>1, <2>2, <2>3
<1>3. ASSUME Once(s, f), f[x] \notin Of(s, f), NEW i \in 1 .. Len(t), NEW j \in 1 .. Len(t),
             f[t[i]] = f[t[j]]
      PROVE  i = j
  <2>1. (i \in 1 .. Len(s) \/ i = Len(s) + 1) /\ (j \in 1 .. Len(s) \/ j = Len(s) + 1)
    BY <1>1
  <2>2. \A k \in 1 .. Len(s) : f[t[k]] = f[s[k]] /\ f[s[k]] # f[x]
    BY <1>1, <1>3 DEF Of
  <2> QED  BY <1>1, <1>3, <2>1, <2>2 DEF Once
<1> QED  BY <1>1, <1>2, <1>3 DEF Once, t

LEMMA TailMarks ==
  ASSUME NEW S, NEW f, NEW s \in Seq(S), s # <<>>, Once(s, f)
  PROVE  /\ Head(s) \in S /\ Tail(s) \in Seq(S) /\ Head(s) = s[1]
         /\ \A i \in 1 .. Len(Tail(s)) : i + 1 \in 1 .. Len(s) /\ Tail(s)[i] = s[i + 1]
         /\ f[Head(s)] \in Of(s, f)
         /\ Of(Tail(s), f) = Of(s, f) \ {f[Head(s)]}
         /\ Once(Tail(s), f)
<1> DEFINE t == Tail(s)
<1>1. /\ t \in Seq(S) /\ Len(s) \in Nat /\ Len(s) >= 1 /\ Len(t) = Len(s) - 1
      /\ Head(s) \in S /\ Head(s) = s[1]
      /\ \A i \in 1 .. Len(t) : t[i] = s[i + 1]
  OBVIOUS
<1> HIDE DEF t
<1>2. \A i \in 1 .. Len(t) : i + 1 \in 1 .. Len(s) /\ i + 1 # 1 /\ t[i] = s[i + 1]
  BY <1>1
<1>3. 1 \in 1 .. Len(s)
  BY <1>1
<1>4. \A n : n \in Of(t, f) <=> n \in Of(s, f) \ {f[s[1]]}
  <2>1. ASSUME NEW n \in Of(t, f)  PROVE n \in Of(s, f) \ {f[s[1]]}
    <3>1. PICK i \in 1 .. Len(t) : n = f[t[i]]
      BY <2>1 DEF Of
    <3> QED  BY <1>2, <1>3, <3>1 DEF Of, Once
  <2>2. ASSUME NEW n \in Of(s, f), n # f[s[1]]  PROVE n \in Of(t, f)
    <3>1. PICK i \in 1 .. Len(s) : n = f[s[i]]
      BY <2>2 DEF Of
    <3>2. i - 1 \in 1 .. Len(t) /\ (i - 1) + 1 = i
      BY <1>1, <2>2, <3>1
    <3>3. t[i - 1] = s[i]
      BY <1>2, <3>2
    <3> QED  BY <3>1, <3>2, <3>3 DEF Of
  <2> QED  BY <2>1, <2>2
<1>5. ASSUME NEW i \in 1 .. Len(t), NEW j \in 1 .. Len(t), f[t[i]] = f[t[j]]
      PROVE  i = j
  <2>1. i + 1 = j + 1
    BY <1>2, <1>5 DEF Once
  <2> QED  BY <1>1, <2>1
<1> QED  BY <1>1, <1>2, <1>3, <1>4, <1>5 DEF Once, Of, t

LEMMA ConcatMarks ==
  ASSUME NEW S, NEW f, NEW s \in Seq(S), NEW t \in Seq(S)
  PROVE  /\ s \o t \in Seq(S) /\ Len(s \o t) = Len(s) + Len(t)
         /\ \A i \in 1 .. Len(s) : (s \o t)[i] = s[i]
         /\ \A i \in 1 .. Len(s \o t) :
              i \in 1 .. Len(s) \/ (i - Len(s) \in 1 .. Len(t) /\ (s \o t)[i] = t[i - Len(s)])
         /\ Of(s \o t, f) = Of(s, f) \cup Of(t, f)
         /\ Once(s, f) /\ Once(t, f) /\ Of(s, f) \cap Of(t, f) = {} => Once(s \o t, f)
<1> DEFINE u == s \o t
<1>1. u \in Seq(S) /\ Len(s) \in Nat /\ Len(t) \in Nat /\ Len(u) = Len(s) + Len(t)
  OBVIOUS
<1>2. \A i \in 1 .. Len(s) : u[i] = s[i]
  OBVIOUS
<1>3. \A i \in 1 .. Len(t) : u[Len(s) + i] = t[i]
  OBVIOUS
<1> HIDE DEF u
<1>4. ASSUME NEW i \in 1 .. Len(u), ~(i \in 1 .. Len(s))
      PROVE  i - Len(s) \in 1 .. Len(t) /\ u[i] = t[i - Len(s)]
  <2>1. i - Len(s) \in 1 .. Len(t) /\ Len(s) + (i - Len(s)) = i
    BY <1>1, <1>4
  <2> QED  BY <1>3, <2>1
<1>5. \A n : n \in Of(u, f) <=> n \in Of(s, f) \cup Of(t, f)
  <2>1. ASSUME NEW n \in Of(u, f)  PROVE n \in Of(s, f) \cup Of(t, f)
    <3>1. PICK i \in 1 .. Len(u) : n = f[u[i]]
      BY <2>1 DEF Of
    <3> QED  BY <1>2, <1>4, <3>1 DEF Of
  <2>2. ASSUME NEW n \in Of(s, f)  PROVE n \in Of(u, f)
    <3>1. PICK i \in 1 .. Len(s) : n = f[s[i]]
      BY <2>2 DEF Of
    <3>2. i \in 1 .. Len(u)
      BY <1>1
    <3> QED  BY <1>2, <3>1, <3>2 DEF Of
  <2>3. ASSUME NEW n \in Of(t, f)  PROVE n \in Of(u, f)
    <3>1. PICK i \in 1 .. Len(t) : n = f[t[i]]
      BY <2>3 DEF Of
    <3>2. Len(s) + i \in 1 .. Len(u)
      BY <1>1
    <3> QED  BY <1>3, <3>1, <3>2 DEF Of
  <2> QED  BY <2>1, <2>2, <2>3
<1>6. ASSUME Once(s, f), Once(t, f), Of(s, f) \cap Of(t, f) = {},
             NEW i \in 1 .. Len(u), NEW j \in 1 .. Len(u), f[u[i]] = f[u[j]]
      PROVE  i = j
  <2>1. CASE i \in 1 .. Len(s) /\ j \in 1 .. Len(s)
    BY <1>2, <1>6, <2>1 DEF Once
  <2>2. CASE i \in 1 .. Len(s) /\ ~(j \in 1 .. Len(s))
    <3>1. u[i] = s[i] /\ u[j] = t[j - Len(s)] /\ j - Len(s) \in 1 .. Len(t)
      BY <1>2, <1>4, <2>2
    <3>2. f[u[i]] \in Of(s, f) /\ f[u[j]] \in Of(t, f)
      BY <2>2, <3>1 DEF Of
    <3> QED  BY <1>6, <3>2
  <2>3. CASE ~(i \in 1 .. Len(s)) /\ j \in 1 .. Len(s)
    <3>1. u[j] = s[j] /\ u[i] = t[i - Len(s)] /\ i - Len(s) \in 1 .. Len(t)
      BY <1>2, <1>4, <2>3
    <3>2. f[u[j]] \in Of(s, f) /\ f[u[i]] \in Of(t, f)
      BY <2>3, <3>1 DEF Of
    <3> QED  BY <1>6, <3>2
  <2>4. CASE ~(i \in 1 .. Len(s)) /\ ~(j \in 1 .. Len(s))
    <3>1. /\ i - Len(s) \in 1 .. Len(t) /\ u[i] = t[i - Len(s)]
          /\ j - Len(s) \in 1 .. Len(t) /\ u[j] = t[j - Len(s)]
      BY <1>4, <2>4
    <3>2. i - Len(s) = j - Len(s)
      BY <1>6, <3>1 DEF Once
    <3> QED  BY <1>1, <3>2
  <2> QED  BY <2>1, <2>2, <2>3, <2>4
<1> QED  BY <1>1, <1>2, <1>4, <1>5, <1>6 DEF Once, u

LEMMA ConcatOf ==
  ASSUME NEW S, NEW f, NEW s \in Seq(S), NEW t \in Seq(S)
  PROVE  Of(s \o t, f) = Of(s, f) \cup Of(t, f)
BY ConcatMarks

\* std::sort() neither loses nor repeats an element.
LEMMA SortedMarks ==
  ASSUME NEW S, NEW f, NEW s \in Seq(S), NEW t \in Sorted(s)
  PROVE  /\ t \in Seq(S) /\ Len(t) = Len(s)
         /\ \A i \in 1 .. Len(t) : \E k \in 1 .. Len(s) : t[i] = s[k]
         /\ \A k \in 1 .. Len(s) : \E i \in 1 .. Len(t) : t[i] = s[k]
         /\ Of(t, f) = Of(s, f)
         /\ Once(s, f) => Once(t, f)
<1> DEFINE n == Len(s)
<1>1. n \in Nat
  OBVIOUS
<1>2. PICK p \in [1 .. n -> 1 .. n] :
        /\ \A i, j \in 1 .. n : i # j => p[i] # p[j]
        /\ t = [i \in 1 .. n |-> s[p[i]]]
  BY DEF Sorted
<1>3. \A i \in 1 .. n : p[i] \in 1 .. n /\ s[p[i]] \in S
  BY <1>1, <1>2
<1>4. \A k \in 1 .. n : \E i \in 1 .. n : p[i] = k
  <2>1. p \in Injection(1 .. n, 1 .. n)
    BY <1>2 DEF Injection, IsInjective
  <2>2. IsFiniteSet(1 .. n)
    BY <1>1, FS_Interval
  <2>3. p \in Surjection(1 .. n, 1 .. n)
    BY <2>1, <2>2, FS_Injection
  <2> QED  BY <2>3 DEF Surjection
<1>5. t \in Seq(S) /\ Len(t) = n /\ \A i \in 1 .. n : t[i] = s[p[i]]
  BY <1>1, <1>2, <1>3
<1>6. \A x : x \in Of(t, f) <=> x \in Of(s, f)
  <2>1. ASSUME NEW x \in Of(t, f)  PROVE x \in Of(s, f)
    BY <1>3, <1>5, <2>1 DEF Of
  <2>2. ASSUME NEW x \in Of(s, f)  PROVE x \in Of(t, f)
    <3>1. PICK k \in 1 .. n : x = f[s[k]]
      BY <2>2 DEF Of
    <3>2. PICK i \in 1 .. n : p[i] = k
      BY <1>4
    <3> QED  BY <1>5, <3>1, <3>2 DEF Of
  <2> QED  BY <2>1, <2>2
<1>7. Once(s, f) => Once(t, f)
  <2> SUFFICES ASSUME Once(s, f), NEW i \in 1 .. n, NEW j \in 1 .. n, f[t[i]] = f[t[j]]
               PROVE  i = j
    BY <1>5 DEF Once
  <2>1. f[s[p[i]]] = f[s[p[j]]] /\ p[i] \in 1 .. n /\ p[j] \in 1 .. n
    BY <1>3, <1>5
  <2>2. p[i] = p[j]
    BY <2>1 DEF Once
  <2> QED  BY <1>2, <2>2
<1>8. \A k \in 1 .. n : \E i \in 1 .. n : t[i] = s[k]
  BY <1>4, <1>5
<1> QED  BY <1>3, <1>5, <1>6, <1>7, <1>8

LEMMA IntervalCounted ==
  ASSUME NEW n \in Nat
  PROVE  IsFiniteSet(1 .. n) /\ Cardinality(1 .. n) = n
<1>1. 1 \in Int /\ n \in Int /\ (1 > n => n = 0) /\ n - 1 + 1 = n
  OBVIOUS
<1> QED  BY <1>1, FS_Interval

\* There are no more elements than marks for them.
LEMMA OnceBounded ==
  ASSUME NEW S, NEW f, NEW s \in Seq(S), Once(s, f), NEW T, IsFiniteSet(T), Of(s, f) \subseteq T
  PROVE  Len(s) <= Cardinality(T)
<1> DEFINE g == [i \in 1 .. Len(s) |-> f[s[i]]]
<1>1. Len(s) \in Nat
  OBVIOUS
<1>2. g \in [1 .. Len(s) -> T]
  BY DEF Of
<1>3. g \in Injection(1 .. Len(s), T)
  BY <1>2 DEF Injection, IsInjective, Once
<1>4. Cardinality(1 .. Len(s)) = Len(s)
  BY <1>1, IntervalCounted
<1> QED  BY <1>3, <1>4, FS_Injection

-----------------------------------------------------------------------------
(* The steps.                                                              *)

LEMMA SequencerBegins ==
  ASSUME Init
  PROVE  SequencerInvariant
<1> USE SequencerAssumption
<1>1. /\ <<>> \in Seq(Request) /\ <<>> \in Seq(Pending) /\ Len(<<>>) = 0
      /\ 0 \in 0 .. MaxRequests /\ 1 \in Rounds /\ 1 \in 1 .. NumClients + 1
  BY DEF Rounds
<1>2. TypeOK
  BY <1>1, Zenon DEF Init, TypeOK
<1>3. /\ \A c \in Clients : kernel[c] = <<>>
      /\ reading = <<>> /\ pending_requests = <<>> /\ published = <<>> /\ clock = 0
      /\ roundNo = 1 /\ status = "running"
  BY DEF Init
<1>4. InQueue = {} /\ InBatch = {} /\ InRead = {} /\ \A c \in Clients : AtPeer(c) = {}
  BY <1>3, EmptyMarks DEF InQueue, InBatch, InRead, AtPeer
<1>5. 1 .. clock = {}
  BY <1>3
<1>6. Placed
  BY <1>3, <1>4, <1>5, EmptyMarks DEF Placed
<1>7. Limited /\ RoundsCounted /\ RoundsKnown
  BY <1>1, <1>3 DEF Limited, RoundsCounted, RoundsKnown
<1> QED  BY <1>2, <1>6, <1>7 DEF SequencerInvariant

LEMMA Typed ==
  ASSUME TypeOK
  PROVE  /\ published \in Seq(Pending) /\ pending_requests \in Seq(Pending)
         /\ reading \in Seq(Request) /\ \A c \in Clients : kernel[c] \in Seq(Request)
         /\ Len(published) \in Nat /\ Len(pending_requests) \in Nat
         /\ clock \in Nat /\ clock <= MaxRequests /\ MaxRequests \in Nat
         /\ roundNo \in Nat /\ visiting \in Nat /\ NumClients \in Nat
<1>1. published \in Seq(Pending) /\ pending_requests \in Seq(Pending)
  BY DEF TypeOK
<1>2. reading \in Seq(Request) /\ \A c \in Clients : kernel[c] \in Seq(Request)
  BY DEF TypeOK
<1>3. /\ clock \in Nat /\ clock <= MaxRequests /\ MaxRequests \in Nat
      /\ roundNo \in Nat /\ visiting \in Nat /\ NumClients \in Nat
  BY SequencerAssumption DEF TypeOK, Rounds
<1>4. Len(published) \in Nat /\ Len(pending_requests) \in Nat
  BY <1>1
<1> QED  BY <1>1, <1>2, <1>3, <1>4

\* No more is published than has arrived, and less while something waits.
LEMMA PublishedFits ==
  ASSUME TypeOK, Placed
  PROVE  /\ Len(published) <= clock
         /\ \A n \in 1 .. clock : n \notin InQueue => Len(published) < clock
<1>1. /\ published \in Seq(Pending) /\ Len(published) \in Nat /\ clock \in Nat
      /\ Once(published, PendingArrival)
  BY Typed DEF Placed
<1>2. InQueue \subseteq 1 .. clock
  BY DEF Placed
<1>3. IsFiniteSet(1 .. clock) /\ Cardinality(1 .. clock) = clock
  BY <1>1, IntervalCounted
<1>4. Len(published) <= clock
  BY <1>1, <1>2, <1>3, OnceBounded DEF InQueue
<1>5. ASSUME NEW n \in 1 .. clock, n \notin InQueue  PROVE Len(published) < clock
  <2> DEFINE T == (1 .. clock) \ {n}
  <2>1. IsFiniteSet(T) /\ Cardinality(T) = clock - 1
    BY <1>3, FS_RemoveElement
  <2>2. InQueue \subseteq T
    BY <1>2, <1>5
  <2> HIDE DEF T
  <2>3. Len(published) <= Cardinality(T)
    BY <1>1, <2>1, <2>2, OnceBounded DEF InQueue
  <2> QED  BY <1>1, <2>1, <2>3
<1> QED  BY <1>4, <1>5

LEMMA ArriveStep ==
  ASSUME SequencerInvariant, NEW c \in Clients, arrive(c)
  PROVE  SequencerInvariant'
<1> DEFINE q == [client |-> c, arrival |-> clock + 1, round |-> roundNo]
<1>1. TypeOK /\ Placed /\ Limited /\ RoundsCounted /\ RoundsKnown
  BY DEF SequencerInvariant
<1>2. /\ clock < MaxRequests /\ clock' = clock + 1
      /\ kernel' = [kernel EXCEPT ![c] = Append(@, q)]
      /\ UNCHANGED <<visiting, reading, timestamp, stamped, pending_requests, published,
                     roundNo, status>>
  BY DEF arrive
<1>3. /\ clock \in Nat /\ MaxRequests \in Nat /\ clock + 1 \in 1 .. MaxRequests
      /\ roundNo \in Rounds /\ roundNo \in Nat /\ kernel[c] \in Seq(Request)
  BY <1>1, <1>2, Typed DEF TypeOK
<1>4. q \in Request /\ q.arrival = clock + 1 /\ q.round = roundNo
  BY <1>3 DEF Request
<1>5. ArrivalOf[q] = clock + 1
  BY <1>4 DEF ArrivalOf
<1> HIDE DEF q
<1>6. /\ kernel'[c] = Append(kernel[c], q)
      /\ \A d \in Clients : d # c => kernel'[d] = kernel[d]
  BY <1>1, <1>2 DEF TypeOK
<1>7. clock + 1 \notin 1 .. clock /\ \A n : n \in 1 .. clock' <=> n \in 1 .. clock \/ n = clock + 1
  BY <1>2, <1>3
<1>8. /\ clock + 1 \notin InQueue /\ clock + 1 \notin InBatch /\ clock + 1 \notin InRead
      /\ \A d \in Clients : clock + 1 \notin AtPeer(d)
  BY <1>1, <1>7 DEF Placed
<1>9. /\ Append(kernel[c], q) \in Seq(Request)
      /\ AtPeer(c)' = AtPeer(c) \cup {clock + 1}
      /\ Once(kernel'[c], ArrivalOf)
  <2>1. Once(kernel[c], ArrivalOf) /\ ArrivalOf[q] \notin Of(kernel[c], ArrivalOf)
    BY <1>1, <1>5, <1>8 DEF Placed, AtPeer
  <2> QED  BY <1>3, <1>4, <1>5, <1>6, <2>1, AppendMarks DEF AtPeer
<1>10. /\ InQueue' = InQueue /\ InBatch' = InBatch /\ InRead' = InRead
       /\ \A d \in Clients : d # c => AtPeer(d)' = AtPeer(d)
  BY <1>2, <1>6 DEF InQueue, InBatch, InRead, AtPeer
<1>11. TypeOK'
  <2>1. kernel' \in [Clients -> Seq(Request)]
    BY <1>1, <1>2, <1>9 DEF TypeOK
  <2>2. clock' \in 0 .. MaxRequests
    BY <1>2, <1>3
  <2> QED  BY <1>1, <1>2, <2>1, <2>2 DEF TypeOK
<1>12. Placed'
  <2>1. \A d \in Clients : Once(kernel'[d], ArrivalOf)
    BY <1>1, <1>6, <1>9 DEF Placed
  <2>2. \A d \in Clients : AtPeer(d)' \cap (InQueue' \cup InBatch' \cup InRead') = {}
    BY <1>1, <1>8, <1>9, <1>10 DEF Placed
  <2>3. \A d, e \in Clients : d # e => AtPeer(d)' \cap AtPeer(e)' = {}
    BY <1>1, <1>8, <1>9, <1>10 DEF Placed
  <2>4. \A n : n \in 1 .. clock' <=> \/ n \in InQueue' \cup InBatch' \cup InRead'
                                     \/ \E d \in Clients : n \in AtPeer(d)'
    <3> TAKE n
    <3>1. (\E d \in Clients : n \in AtPeer(d)') <=>
            (n = clock + 1 \/ \E d \in Clients : n \in AtPeer(d))
      BY <1>9, <1>10
    <3> QED  BY <1>1, <1>7, <1>10, <3>1 DEF Placed
  <2> QED  BY <1>1, <1>2, <1>10, <2>1, <2>2, <2>3, <2>4 DEF Placed
<1>13. Limited' /\ RoundsCounted'
  <2>1. \A d \in Clients : kernel[d] # <<>> => kernel'[d] # <<>>
    BY <1>3, <1>4, <1>6
  <2> QED  BY <1>1, <1>2, <2>1 DEF Limited, RoundsCounted, InRound
<1>14. RoundsKnown'
  <2>1. ASSUME NEW d \in Clients, NEW i \in 1 .. Len(kernel'[d])
        PROVE  Lately(kernel'[d][i], roundNo') /\ (d < visiting' => kernel'[d][i].round = roundNo')
    <3>1. CASE d # c
      BY <1>1, <1>2, <1>6, <2>1, <3>1 DEF RoundsKnown, Lately
    <3>2. CASE d = c /\ i \in 1 .. Len(kernel[c])
      <4>1. kernel'[d][i] = kernel[c][i]
        BY <1>3, <1>4, <1>6, <3>2
      <4> QED  BY <1>1, <1>2, <3>2, <4>1 DEF RoundsKnown, Lately
    <3>3. CASE d = c /\ ~(i \in 1 .. Len(kernel[c]))
      <4>1. kernel'[d][i] = q
        BY <1>3, <1>4, <1>6, <2>1, <3>3
      <4> QED  BY <1>2, <1>4, <4>1 DEF Lately
    <3> QED  BY <3>1, <3>2, <3>3
  <2> QED  BY <1>1, <1>2, <2>1 DEF RoundsKnown, Lately
<1> QED  BY <1>11, <1>12, <1>13, <1>14 DEF SequencerInvariant

LEMMA ReadStep ==
  ASSUME SequencerInvariant, readSocket
  PROVE  SequencerInvariant'
<1>1. TypeOK /\ Placed /\ Limited /\ RoundsCounted /\ RoundsKnown
  BY DEF SequencerInvariant
<1>v. PICK v \in Clients : v = visiting
  BY <1>1, Typed, SequencerAssumption DEF readSocket, TypeOK, Clients
<1>2. v \in Nat /\ NumClients \in Nat
  BY <1>1, <1>v, Typed
<1> DEFINE q == kernel[v]
<1>3. q \in Seq(Request)
  BY <1>1, <1>2, Typed
<1>4. /\ status = "running" /\ reading = <<>> /\ v <= NumClients /\ reading' = q
      /\ visiting' = v + 1 /\ UNCHANGED <<clock, pending_requests, published, roundNo, status>>
  BY <1>v DEF readSocket
<1>5. kernel' = [kernel EXCEPT ![v] = <<>>]
  BY <1>v DEF readSocket
<1>6. kernel'[v] = <<>> /\ \A d \in Clients : d # v => kernel'[d] = kernel[d]
  BY <1>1, <1>2, <1>5 DEF TypeOK
<1>7. timestamp' \in 0 .. MaxRequests /\ stamped' \in BOOLEAN
  <2>1. CASE q = <<>>
    <3>1. timestamp' = timestamp /\ stamped' = stamped
      BY <1>v, <2>1 DEF readSocket
    <3> QED  BY <1>1, <3>1 DEF TypeOK
  <2>2. CASE q # <<>>
    <3>1. Len(q) \in 1 .. Len(q)
      BY <1>3, <2>2
    <3>2. q[Len(q)] \in Request
      BY <1>3, <3>1
    <3>3. q[Len(q)].arrival \in 1 .. MaxRequests
      BY <3>2 DEF Request
    <3>4. stamped' \in BOOLEAN /\ timestamp' \in Stamps(q, stamped')
      BY <1>v, <2>2 DEF readSocket
    <3>5. timestamp' = q[Len(q)].arrival \/ timestamp' = 0 \/ timestamp' = timestamp
      BY <3>4 DEF Stamps
    <3>6. timestamp \in 0 .. MaxRequests
      BY <1>1 DEF TypeOK
    <3>7. timestamp' \in 0 .. MaxRequests
      BY <3>3, <3>5, <3>6, SequencerAssumption
    <3> QED  BY <3>4, <3>7
  <2> QED  BY <2>1, <2>2
<1>8. TypeOK'
  <2>1. kernel' \in [Clients -> Seq(Request)]
    <3>1. <<>> \in Seq(Request)
      OBVIOUS
    <3> QED  BY <1>1, <1>5, <3>1 DEF TypeOK
  <2>2. visiting' \in 1 .. NumClients + 1
    BY <1>2, <1>4
  <2> QED  BY <1>1, <1>3, <1>4, <1>7, <2>1, <2>2 DEF TypeOK
<1>9. /\ InQueue' = InQueue /\ InBatch' = InBatch /\ InRead = {} /\ InRead' = AtPeer(v)
      /\ AtPeer(v)' = {} /\ \A d \in Clients : d # v => AtPeer(d)' = AtPeer(d)
  <2>1. InQueue' = InQueue /\ InBatch' = InBatch
    BY <1>4 DEF InQueue, InBatch
  <2>2. InRead = {} /\ AtPeer(v)' = {}
    BY <1>4, <1>6, EmptyMarks DEF InRead, AtPeer
  <2>3. InRead' = AtPeer(v)
    BY <1>4 DEF InRead, AtPeer
  <2>4. \A d \in Clients : d # v => AtPeer(d)' = AtPeer(d)
    BY <1>6 DEF AtPeer
  <2> QED  BY <2>1, <2>2, <2>3, <2>4
<1> HIDE DEF q
<1>10. Placed'
  <2>1. Once(reading', ArrivalOf) /\ \A d \in Clients : Once(kernel'[d], ArrivalOf)
    BY <1>1, <1>2, <1>4, <1>6, EmptyMarks DEF Placed, q
  <2>2. \A d \in Clients : AtPeer(d)' \cap (InQueue' \cup InBatch' \cup InRead') = {}
    BY <1>1, <1>2, <1>9 DEF Placed
  <2>3. \A d, e \in Clients : d # e => AtPeer(d)' \cap AtPeer(e)' = {}
    BY <1>1, <1>9 DEF Placed
  <2>4. \A n : n \in 1 .. clock' <=> \/ n \in InQueue' \cup InBatch' \cup InRead'
                                     \/ \E d \in Clients : n \in AtPeer(d)'
    <3> TAKE n
    <3>1. (\E d \in Clients : n \in AtPeer(d)) <=>
            (n \in AtPeer(v) \/ \E d \in Clients : n \in AtPeer(d)')
      BY <1>2, <1>9
    <3>2. n \in 1 .. clock' <=> n \in 1 .. clock
      BY <1>4
    <3> QED  BY <1>1, <1>9, <3>1, <3>2 DEF Placed
  <2>5. InQueue' \cap InBatch' = {} /\ InQueue' \cap InRead' = {} /\ InBatch' \cap InRead' = {}
    BY <1>1, <1>2, <1>9 DEF Placed
  <2> QED  BY <1>1, <1>4, <2>1, <2>2, <2>3, <2>4, <2>5 DEF Placed
<1>11. Limited' /\ RoundsCounted'
  <2>1. InRound => InRound'
    <3>1. ASSUME NEW d \in Clients, d >= visiting, kernel[d] # <<>>
          PROVE  reading' # <<>> \/ (d >= visiting' /\ kernel'[d] # <<>>)
      <4>1. CASE d = v
        BY <1>4, <3>1, <4>1 DEF q
      <4>2. CASE d # v
        <5>1. d \in Nat
          BY <1>2 DEF Clients
        <5> QED  BY <1>2, <1>v, <1>4, <1>6, <3>1, <4>2, <5>1
      <4> QED  BY <4>1, <4>2
    <3> QED  BY <1>4, <3>1 DEF InRound
  <2> QED  BY <1>1, <1>4, <2>1 DEF Limited, RoundsCounted
<1>12. RoundsKnown'
  <2>1. \A i \in 1 .. Len(reading') : Lately(reading'[i], roundNo')
    BY <1>1, <1>2, <1>4 DEF RoundsKnown, Lately, q
  <2>2. ASSUME NEW d \in Clients, NEW i \in 1 .. Len(kernel'[d])
        PROVE  Lately(kernel'[d][i], roundNo') /\ (d < visiting' => kernel'[d][i].round = roundNo')
    <3>1. d # v
      BY <1>6, <2>2
    <3>2. d \in Nat /\ kernel'[d] = kernel[d] /\ (d < visiting' => d < visiting)
      BY <1>2, <1>v, <1>4, <1>6, <3>1 DEF Clients
    <3> QED  BY <1>1, <1>4, <2>2, <3>2 DEF RoundsKnown, Lately
  <2> QED  BY <1>1, <1>4, <2>1, <2>2 DEF RoundsKnown, Lately
<1> QED  BY <1>8, <1>10, <1>11, <1>12 DEF SequencerInvariant

LEMMA AddStep ==
  ASSUME SequencerInvariant, addRequest
  PROVE  SequencerInvariant'
<1> DEFINE h == Head(reading)
           x == [receive_timestamp |-> timestamp, request |-> h,
                 stamped |-> stamped, batch |-> roundNo]
<1>1. TypeOK /\ Placed /\ Limited /\ RoundsCounted /\ RoundsKnown
  BY DEF SequencerInvariant
<1>2. /\ status = "running" /\ reading # <<>> /\ Len(pending_requests) < MAX_PENDING_REQUESTS
      /\ pending_requests' = Append(pending_requests, x) /\ reading' = Tail(reading)
      /\ UNCHANGED <<kernel, clock, visiting, timestamp, stamped, published, roundNo, status>>
  BY DEF addRequest
<1>3. /\ reading \in Seq(Request) /\ pending_requests \in Seq(Pending)
      /\ Len(pending_requests) \in Nat
  BY <1>1, Typed
<1>4. /\ h \in Request /\ Tail(reading) \in Seq(Request) /\ h = reading[1]
      /\ \A i \in 1 .. Len(Tail(reading)) :
           i + 1 \in 1 .. Len(reading) /\ Tail(reading)[i] = reading[i + 1]
      /\ ArrivalOf[h] \in InRead /\ InRead' = InRead \ {ArrivalOf[h]}
      /\ Once(reading', ArrivalOf)
  <2>1. Once(reading, ArrivalOf)
    BY <1>1 DEF Placed
  <2>2. /\ h \in Request /\ Tail(reading) \in Seq(Request) /\ h = reading[1]
        /\ \A i \in 1 .. Len(Tail(reading)) :
             i + 1 \in 1 .. Len(reading) /\ Tail(reading)[i] = reading[i + 1]
        /\ ArrivalOf[h] \in Of(reading, ArrivalOf)
        /\ Of(Tail(reading), ArrivalOf) = Of(reading, ArrivalOf) \ {ArrivalOf[h]}
        /\ Once(Tail(reading), ArrivalOf)
    BY <1>2, <1>3, <2>1, TailMarks
  <2>3. InRead = Of(reading, ArrivalOf) /\ InRead' = Of(Tail(reading), ArrivalOf)
    BY <1>2 DEF InRead
  <2> QED  BY <1>2, <2>2, <2>3, Zenon
<1> HIDE DEF h
<1>5. x \in Pending /\ x.request = h
  BY <1>1, <1>4 DEF TypeOK, Pending
<1>6. PendingArrival[x] = ArrivalOf[h]
  BY <1>4, <1>5 DEF PendingArrival, ArrivalOf
<1> HIDE DEF x
<1>7. /\ pending_requests' \in Seq(Pending)
      /\ InBatch' = InBatch \cup {ArrivalOf[h]} /\ Once(pending_requests', PendingArrival)
  <2>1. /\ Once(pending_requests, PendingArrival)
        /\ PendingArrival[x] \notin Of(pending_requests, PendingArrival)
    BY <1>1, <1>4, <1>6 DEF Placed, InBatch
  <2> QED  BY <1>2, <1>3, <1>5, <1>6, <2>1, AppendMarks DEF InBatch
<1>8. InQueue' = InQueue /\ \A d \in Clients : AtPeer(d)' = AtPeer(d)
  BY <1>2 DEF InQueue, AtPeer
<1>9. TypeOK'
  BY <1>1, <1>2, <1>4, <1>7 DEF TypeOK
<1>10. Placed'
  <2>1. \A n : n \in InBatch' \cup InRead' <=> n \in InBatch \cup InRead
    BY <1>4, <1>7
  <2>2. InQueue' \cap InBatch' = {} /\ InQueue' \cap InRead' = {} /\ InBatch' \cap InRead' = {}
    BY <1>1, <1>4, <1>7, <1>8 DEF Placed
  <2>3. \A d \in Clients : AtPeer(d)' \cap (InQueue' \cup InBatch' \cup InRead') = {}
    BY <1>1, <1>8, <2>1 DEF Placed
  <2>4. \A n : n \in 1 .. clock' <=> \/ n \in InQueue' \cup InBatch' \cup InRead'
                                     \/ \E d \in Clients : n \in AtPeer(d)'
    BY <1>1, <1>2, <1>8, <2>1 DEF Placed
  <2> QED  BY <1>1, <1>2, <1>4, <1>7, <1>8, <2>2, <2>3, <2>4 DEF Placed
<1>11. Len(pending_requests') = Len(pending_requests) + 1 /\ pending_requests' # <<>>
  BY <1>2, <1>3, <1>5
<1>12. Limited'
  BY <1>2, <1>3, <1>11, SequencerAssumption DEF Limited
<1>13. RoundsCounted'
  BY <1>1, <1>2, <1>11 DEF RoundsCounted, InRound
<1>14. RoundsKnown'
  <2>1. Lately(h, roundNo)
    <3>1. 1 \in 1 .. Len(reading)
      BY <1>2, <1>3
    <3> QED  BY <1>1, <1>4, <3>1 DEF RoundsKnown
  <2>2. ASSUME NEW i \in 1 .. Len(pending_requests')
        PROVE  Lately(pending_requests'[i].request, roundNo')
    <3>1. CASE i \in 1 .. Len(pending_requests)
      <4>1. pending_requests'[i] = pending_requests[i]
        BY <1>2, <1>3, <1>5, <3>1
      <4> QED  BY <1>1, <1>2, <3>1, <4>1 DEF RoundsKnown, Lately
    <3>2. CASE ~(i \in 1 .. Len(pending_requests))
      <4>1. pending_requests'[i] = x
        BY <1>2, <1>3, <1>5, <1>11, <3>2
      <4> QED  BY <1>2, <1>5, <2>1, <4>1 DEF Lately
    <3> QED  BY <3>1, <3>2
  <2>3. \A i \in 1 .. Len(reading') : Lately(reading'[i], roundNo')
    BY <1>1, <1>2, <1>4 DEF RoundsKnown, Lately
  <2> QED  BY <1>1, <1>2, <2>2, <2>3 DEF RoundsKnown, Lately
<1> QED  BY <1>9, <1>10, <1>12, <1>13, <1>14 DEF SequencerInvariant

LEMMA TooManyStep ==
  ASSUME SequencerInvariant, tooManyPending
  PROVE  SequencerInvariant'
<1>1. TypeOK'
  BY DEF SequencerInvariant, tooManyPending, TypeOK
<1>2. Placed'
  BY DEF SequencerInvariant, tooManyPending, Placed, InQueue, InBatch, InRead, AtPeer
<1>3. Limited' /\ RoundsCounted' /\ RoundsKnown'
  BY DEF SequencerInvariant, tooManyPending, Limited, RoundsCounted, InRound, RoundsKnown, Lately
<1> QED  BY <1>1, <1>2, <1>3 DEF SequencerInvariant

LEMMA PublishStep ==
  ASSUME SequencerInvariant, sequenceAndPublish
  PROVE  SequencerInvariant'
<1>1. TypeOK /\ Placed /\ Limited /\ RoundsCounted /\ RoundsKnown
  BY DEF SequencerInvariant
<1>2. /\ status = "running" /\ reading = <<>> /\ visiting = NumClients + 1
      /\ pending_requests # <<>> /\ visiting' = 1 /\ roundNo' = roundNo + 1
      /\ UNCHANGED <<kernel, clock, reading, timestamp, stamped, status>>
      /\ pending_requests' = <<>>
  BY DEF sequenceAndPublish, Reset
<1>3. PICK s \in Sorted(pending_requests) : published' = published \o s
  BY DEF sequenceAndPublish, TheBatch
<1>4. /\ published \in Seq(Pending) /\ pending_requests \in Seq(Pending)
      /\ Len(published) \in Nat /\ Len(pending_requests) \in Nat /\ roundNo \in Nat
      /\ clock \in Nat /\ clock <= MaxRequests /\ MaxRequests \in Nat
  BY <1>1, Typed
<1>5. /\ s \in Seq(Pending) /\ Len(s) = Len(pending_requests)
      /\ \A i \in 1 .. Len(s) : \E k \in 1 .. Len(pending_requests) : s[i] = pending_requests[k]
      /\ Of(s, PendingArrival) = InBatch /\ Once(s, PendingArrival)
  BY <1>1, <1>4, SortedMarks DEF InBatch, Placed
<1>6. /\ published' \in Seq(Pending) /\ Len(published') = Len(published) + Len(s)
      /\ \A i \in 1 .. Len(published) : published'[i] = published[i]
      /\ \A i \in 1 .. Len(published') : i \in 1 .. Len(published) \/
           (i - Len(published) \in 1 .. Len(s) /\ published'[i] = s[i - Len(published)])
      /\ InQueue' = InQueue \cup InBatch /\ Once(published', PendingArrival)
  <2>1. Once(published, PendingArrival) /\ InQueue \cap InBatch = {}
    BY <1>1 DEF Placed
  <2> DEFINE u == published \o s
  <2>2. /\ u \in Seq(Pending) /\ Len(u) = Len(published) + Len(s)
        /\ \A i \in 1 .. Len(published) : u[i] = published[i]
        /\ \A i \in 1 .. Len(u) : i \in 1 .. Len(published) \/
             (i - Len(published) \in 1 .. Len(s) /\ u[i] = s[i - Len(published)])
        /\ Of(u, PendingArrival) = Of(published, PendingArrival) \cup Of(s, PendingArrival)
    <3>0. published \in Seq(Pending) /\ s \in Seq(Pending)
      BY <1>4, <1>5
    <3>1. u \in Seq(Pending) /\ Len(u) = Len(published) + Len(s)
      BY <3>0
    <3>2. \A i \in 1 .. Len(published) : u[i] = published[i]
      BY <1>4, <1>5
    <3>3. ASSUME NEW i \in 1 .. Len(u)
          PROVE  i \in 1 .. Len(published) \/
                   (i - Len(published) \in 1 .. Len(s) /\ u[i] = s[i - Len(published)])
      BY <1>4, <1>5, <3>3
    <3>4. Of(u, PendingArrival) = Of(published, PendingArrival) \cup Of(s, PendingArrival)
      BY <3>0, ConcatOf
    <3> QED  BY <3>1, <3>2, <3>3, <3>4
  <2>3. Once(u, PendingArrival)
    <3>1. Of(published, PendingArrival) \cap Of(s, PendingArrival) = {}
      BY <1>5, <2>1 DEF InQueue
    <3> QED  BY <1>4, <1>5, <2>1, <3>1, ConcatMarks
  <2>4. published' = u /\ InQueue' = Of(u, PendingArrival)
    BY <1>3 DEF InQueue
  <2>5. Of(u, PendingArrival) = InQueue \cup InBatch
    BY <1>5, <2>2 DEF InQueue
  <2> HIDE DEF u
  <2> QED  BY <2>2, <2>3, <2>4, <2>5
<1>7. /\ InBatch' = {} /\ Once(pending_requests', PendingArrival) /\ InRead' = InRead
      /\ InRead = {} /\ \A d \in Clients : AtPeer(d)' = AtPeer(d)
  BY <1>2, EmptyMarks DEF InBatch, InRead, AtPeer
<1>8. Placed'
  <2>1. \A n : n \in InQueue' \cup InBatch' \cup InRead' <=> n \in InQueue \cup InBatch \cup InRead
    BY <1>6, <1>7
  <2>2. \A d \in Clients : AtPeer(d)' \cap (InQueue' \cup InBatch' \cup InRead') = {}
    BY <1>1, <1>7, <2>1 DEF Placed
  <2>3. \A n : n \in 1 .. clock' <=> \/ n \in InQueue' \cup InBatch' \cup InRead'
                                     \/ \E d \in Clients : n \in AtPeer(d)'
    BY <1>1, <1>2, <1>7, <2>1 DEF Placed
  <2> QED  BY <1>1, <1>2, <1>6, <1>7, <2>2, <2>3 DEF Placed
<1>9. Len(s) \in Nat /\ Len(s) >= 1
  BY <1>2, <1>4, <1>5
<1>10. roundNo + 1 <= 1 + 2 * Len(published')
  <2>1. roundNo <= 2 + 2 * Len(published)
    BY <1>1, <1>4 DEF RoundsCounted
  <2> QED  BY <1>4, <1>6, <1>9, <2>1
<1>11. Len(published') <= clock
  <2>1. IsFiniteSet(1 .. clock) /\ Cardinality(1 .. clock) = clock
    BY <1>4, IntervalCounted
  <2>2. InQueue' \subseteq 1 .. clock
    BY <1>1, <1>6 DEF Placed
  <2>3. published' \in Seq(Pending) /\ Once(published', PendingArrival)
    BY <1>6
  <2>4. Of(published', PendingArrival) \subseteq 1 .. clock
    BY <2>2 DEF InQueue
  <2>5. Len(published') <= Cardinality(1 .. clock)
    BY <2>1, <2>3, <2>4, OnceBounded
  <2> QED  BY <2>1, <2>5
<1>12. TypeOK'
  <2>1. roundNo' \in Rounds
    BY <1>2, <1>4, <1>6, <1>9, <1>10, <1>11 DEF Rounds
  <2>2. visiting' \in 1 .. NumClients + 1 /\ pending_requests' \in Seq(Pending)
    BY <1>2, SequencerAssumption
  <2> QED  BY <1>1, <1>2, <1>6, <2>1, <2>2 DEF TypeOK
<1>13. Limited' /\ RoundsCounted'
  BY <1>2, <1>10, SequencerAssumption DEF Limited, RoundsCounted
<1>14. RoundsKnown'
  <2>1. \A i \in 1 .. Len(published) : published[i] \in Pending /\ published[i].request.round \in Nat
    <3> TAKE i \in 1 .. Len(published)
    <3>1. published[i] \in Pending
      BY <1>4
    <3> QED  BY <3>1, SequencerAssumption DEF Pending, Request, Rounds
  <2>2. ASSUME NEW i \in 1 .. Len(s)
        PROVE  s[i].request.round \in Nat /\ Lately(s[i].request, roundNo)
    <3>1. s[i] \in Pending
      BY <1>5, <2>2
    <3>2. s[i].request.round \in Nat
      BY <3>1, SequencerAssumption DEF Pending, Request, Rounds
    <3>3. PICK k \in 1 .. Len(pending_requests) : s[i] = pending_requests[k]
      BY <1>5, <2>2
    <3>4. Lately(pending_requests[k].request, roundNo)
      BY <1>1 DEF RoundsKnown
    <3> QED  BY <3>2, <3>3, <3>4
  <2>3. ASSUME NEW i \in 1 .. Len(published')
        PROVE  \/ i \in 1 .. Len(published) /\ published'[i] = published[i]
               \/ i - Len(published) \in 1 .. Len(s) /\ published'[i] = s[i - Len(published)]
    BY <1>6, <2>3
  <2>4. \A i \in 1 .. Len(published') :
          published'[i].request.round \in Nat /\ published'[i].request.round < roundNo'
    <3> TAKE i \in 1 .. Len(published')
    <3>1. CASE i \in 1 .. Len(published) /\ published'[i] = published[i]
      <4>1. published[i].request.round < roundNo /\ published[i].request.round \in Nat
        BY <1>1, <2>1, <3>1 DEF RoundsKnown
      <4> QED  BY <1>2, <1>4, <3>1, <4>1
    <3>2. CASE i - Len(published) \in 1 .. Len(s) /\ published'[i] = s[i - Len(published)]
      <4>1. /\ published'[i].request.round \in Nat
            /\ Lately(published'[i].request, roundNo)
        BY <2>2, <3>2
      <4> QED  BY <1>2, <1>4, <4>1 DEF Lately
    <3> QED  BY <2>3, <3>1, <3>2
  <2>5. ASSUME NEW i \in 1 .. Len(published'), NEW j \in 1 .. Len(published'), i < j
        PROVE  published'[i].request.round <= published'[j].request.round + 1
    <3>1. CASE j \in 1 .. Len(published)
      <4>1. i \in 1 .. Len(published)
        BY <1>4, <2>5, <3>1
      <4> QED  BY <1>1, <1>6, <2>5, <3>1, <4>1 DEF RoundsKnown
    <3>2. CASE ~(j \in 1 .. Len(published))
      <4>1. j - Len(published) \in 1 .. Len(s) /\ published'[j] = s[j - Len(published)]
        BY <1>6, <2>5, <3>2
      <4> DEFINE b == published'[j].request.round
                 a == published'[i].request.round
      <4>5. b \in Nat /\ Lately(published'[j].request, roundNo)
        BY <2>2, <4>1
      <4>2. b \in Nat /\ roundNo <= b + 1
        BY <1>4, <4>5 DEF Lately
      <4>3. a \in Nat /\ a < roundNo + 1
        BY <1>2, <2>4
      <4> HIDE DEF a, b
      <4>4. a <= b + 1
        BY <1>4, <4>2, <4>3
      <4> QED  BY <4>4 DEF a, b
    <3> QED  BY <3>1, <3>2
  <2>6. ASSUME NEW d \in Clients, NEW i \in 1 .. Len(kernel'[d])
        PROVE  Lately(kernel'[d][i], roundNo') /\ (d < visiting' => kernel'[d][i].round = roundNo')
    <3>1. d \in Nat /\ d < visiting /\ ~(d < visiting')
      BY <1>2, SequencerAssumption DEF Clients
    <3> QED  BY <1>1, <1>2, <2>6, <3>1 DEF RoundsKnown, Lately
  <2> QED  BY <1>2, <2>4, <2>5, <2>6 DEF RoundsKnown, Lately
<1> QED  BY <1>8, <1>12, <1>13, <1>14 DEF SequencerInvariant

LEMMA IdleStep ==
  ASSUME SequencerInvariant, roundWithoutData
  PROVE  SequencerInvariant'
<1>1. TypeOK /\ Placed /\ Limited /\ RoundsCounted /\ RoundsKnown
  BY DEF SequencerInvariant
<1>2. /\ reading = <<>> /\ visiting = NumClients + 1 /\ pending_requests = <<>> /\ visiting' = 1
      /\ roundNo' = IF \A c \in Clients : kernel[c] = <<>> THEN roundNo ELSE roundNo + 1
      /\ UNCHANGED <<kernel, clock, reading, timestamp, stamped, pending_requests, published,
                     status>>
  BY DEF roundWithoutData
<1>3. /\ Len(published) \in Nat /\ roundNo \in Nat /\ clock \in Nat /\ clock <= MaxRequests
      /\ MaxRequests \in Nat /\ NumClients \in Nat
  BY <1>1, Typed
<1>4. \A c \in Clients : c \in Nat /\ c < visiting /\ c >= visiting' /\ ~(c < visiting')
  BY <1>2, <1>3 DEF Clients
<1>5. roundNo <= 1 + 2 * Len(published)
  <2>1. ~InRound
    BY <1>2, <1>3 DEF InRound, Clients
  <2> QED  BY <1>1, <2>1 DEF RoundsCounted
<1>6. Placed' /\ Limited'
  BY <1>1, <1>2 DEF Placed, InQueue, InBatch, InRead, AtPeer, Limited
<1>7. CASE \A c \in Clients : kernel[c] = <<>>
  <2>1. roundNo' = roundNo
    BY <1>2, <1>7
  <2>2. TypeOK'
    BY <1>1, <1>2, <2>1, SequencerAssumption DEF TypeOK
  <2>3. RoundsCounted'
    BY <1>2, <1>5, <2>1 DEF RoundsCounted
  <2>4. RoundsKnown'
    BY <1>1, <1>2, <1>4, <2>1 DEF RoundsKnown, Lately
  <2> QED  BY <1>6, <2>2, <2>3, <2>4 DEF SequencerInvariant
<1>8. CASE ~(\A c \in Clients : kernel[c] = <<>>)
  <2>1. roundNo' = roundNo + 1
    BY <1>2, <1>8
  <2>2. PICK c \in Clients : kernel[c] # <<>>
    BY <1>8
  <2>3. Len(published) < clock
    <3>1. kernel[c] \in Seq(Request)
      BY <1>1, Typed
    <3>2. 1 \in 1 .. Len(kernel[c])
      BY <2>2, <3>1
    <3>3. ArrivalOf[kernel[c][1]] \in AtPeer(c)
      BY <3>2 DEF AtPeer, Of
    <3>4. ArrivalOf[kernel[c][1]] \in 1 .. clock /\ ArrivalOf[kernel[c][1]] \notin InQueue
      BY <1>1, <3>3 DEF Placed
    <3> QED  BY <1>1, <3>4, PublishedFits
  <2>4. TypeOK'
    <3>1. roundNo' \in Rounds
      BY <1>3, <1>5, <2>1, <2>3 DEF Rounds
    <3>2. visiting' \in 1 .. NumClients + 1
      BY <1>2, <1>3
    <3> QED  BY <1>1, <1>2, <3>1, <3>2 DEF TypeOK
  <2>5. RoundsCounted'
    <3>1. InRound'
      BY <1>2, <1>4, <2>2 DEF InRound
    <3>2. roundNo' <= 1 + 2 * Len(published') \/ roundNo' = 2 + 2 * Len(published')
      BY <1>2, <1>3, <1>5, <2>1
    <3> QED  BY <3>1, <3>2 DEF RoundsCounted
  <2>6. RoundsKnown'
    <3>1. \A i \in 1 .. Len(published') : published'[i].request.round < roundNo'
      <4> TAKE i \in 1 .. Len(published')
      <4>1. published \in Seq(Pending)
        BY <1>1, Typed
      <4>2. published[i] \in Pending
        BY <1>2, <4>1
      <4>3. published[i].request.round \in Nat
        BY <4>2, SequencerAssumption DEF Pending, Request, Rounds
      <4>4. published[i].request.round < roundNo
        BY <1>1, <1>2 DEF RoundsKnown
      <4> QED  BY <1>2, <1>3, <2>1, <4>3, <4>4
    <3>2. ASSUME NEW d \in Clients, NEW i \in 1 .. Len(kernel'[d])
          PROVE  Lately(kernel'[d][i], roundNo') /\ (d < visiting' => kernel'[d][i].round = roundNo')
      BY <1>1, <1>2, <1>4, <2>1, <3>2 DEF RoundsKnown, Lately
    <3> QED  BY <1>1, <1>2, <3>1, <3>2 DEF RoundsKnown, Lately
  <2> QED  BY <1>6, <2>4, <2>5, <2>6 DEF SequencerInvariant
<1> QED  BY <1>7, <1>8

LEMMA SequencerStep ==
  ASSUME SequencerInvariant, [Next]_vars
  PROVE  SequencerInvariant'
<1>1. CASE UNCHANGED vars
  <2>1. TypeOK'
    BY <1>1 DEF SequencerInvariant, vars, TypeOK
  <2>2. Placed'
    BY <1>1 DEF SequencerInvariant, vars, Placed, InQueue, InBatch, InRead, AtPeer
  <2>3. Limited' /\ RoundsCounted' /\ RoundsKnown'
    BY <1>1
    DEF SequencerInvariant, vars, Limited, RoundsCounted, InRound, RoundsKnown, Lately
  <2> QED  BY <2>1, <2>2, <2>3 DEF SequencerInvariant
<1> QED
  BY <1>1, ArriveStep, ReadStep, AddStep, TooManyStep, PublishStep, IdleStep
  DEF Next, Server, Over

LEMMA SequencerInvariantHolds == Spec => []SequencerInvariant
<1>1. Init => SequencerInvariant
  BY SequencerBegins
<1>2. SequencerInvariant /\ [Next]_vars => SequencerInvariant'
  BY SequencerStep
<1> QED  BY <1>1, <1>2, PTL DEF Spec

-----------------------------------------------------------------------------
(* The stamps.                                                             *)

\* std::sort() compares the stamps.
LEMMA SortedByStamp ==
  ASSUME NEW s, NEW t \in Sorted(s), Len(t) = Len(s),
         NEW i \in 1 .. Len(s), NEW j \in 1 .. Len(s), i < j
  PROVE  t[i].receive_timestamp <= t[j].receive_timestamp
BY DEF Sorted

LEMMA TypedRecords ==
  ASSUME TypeOK
  PROVE  /\ \A i \in 1 .. Len(published) : published[i] \in Pending
         /\ \A i \in 1 .. Len(pending_requests) : pending_requests[i] \in Pending
         /\ \A i \in 1 .. Len(reading) : reading[i] \in Request
         /\ \A c \in Clients : \A i \in 1 .. Len(kernel[c]) : kernel[c][i] \in Request
<1>1. /\ published \in Seq(Pending) /\ pending_requests \in Seq(Pending)
      /\ reading \in Seq(Request) /\ \A c \in Clients : kernel[c] \in Seq(Request)
  BY Typed
<1> QED  BY <1>1

\* Steps that leave the batch and the queue alone.
LEMMA BatchKept ==
  ASSUME StampInvariant, UNCHANGED <<pending_requests, published, roundNo>>,
         reading = <<>> \/ UNCHANGED reading
  PROVE  BatchKnown' /\ OrderKnown'
<1>1. BatchKnown /\ OrderKnown
  BY DEF StampInvariant
<1>2. OrderKnown'
  BY <1>1 DEF OrderKnown, Excused
<1>3. ASSUME NEW p, LastKnown(p)
      PROVE  LastKnown(p)'
  BY <1>3 DEF LastKnown, IsLast
<1>4. BatchKnown'
  BY <1>1, <1>3 DEF BatchKnown
<1> QED  BY <1>2, <1>4

LEMMA ArriveStamps ==
  ASSUME SequencerInvariant, StampInvariant, NEW c \in Clients, arrive(c)
  PROVE  StampInvariant'
<1> DEFINE q == [client |-> c, arrival |-> clock + 1, round |-> roundNo]
<1>1. TypeOK /\ Placed /\ ReadKnown
  BY DEF SequencerInvariant, StampInvariant
<1>2. /\ clock' = clock + 1 /\ kernel' = [kernel EXCEPT ![c] = Append(@, q)]
      /\ UNCHANGED <<visiting, reading, timestamp, stamped, pending_requests, published,
                     roundNo, status>>
  BY DEF arrive
<1>3. clock \in Nat /\ kernel[c] \in Seq(Request)
  BY <1>1, Typed
<1>4. q.client = c /\ q.arrival = clock + 1
  OBVIOUS
<1> HIDE DEF q
<1>5. /\ kernel'[c] = Append(kernel[c], q)
      /\ \A d \in Clients : d # c => kernel'[d] = kernel[d]
  BY <1>1, <1>2 DEF TypeOK
<1>6. /\ Len(kernel'[c]) = Len(kernel[c]) + 1 /\ Len(kernel[c]) \in Nat
      /\ kernel'[c][Len(kernel'[c])] = q
      /\ \A i \in 1 .. Len(kernel[c]) : kernel'[c][i] = kernel[c][i]
  BY <1>3, <1>5
<1>7. ASSUME NEW i \in 1 .. Len(kernel[c])
      PROVE  kernel[c][i].arrival <= clock
  <2>1. kernel[c][i] \in Request
    BY <1>3
  <2>2. ArrivalOf[kernel[c][i]] \in AtPeer(c) /\ ArrivalOf[kernel[c][i]] = kernel[c][i].arrival
    BY <2>1 DEF AtPeer, Of, ArrivalOf
  <2>3. kernel[c][i].arrival \in 1 .. clock
    BY <1>1, <2>2 DEF Placed
  <2> QED  BY <1>3, <2>3
<1>8. ASSUME NEW i \in 1 .. Len(kernel'[c])
      PROVE  /\ kernel'[c][i].client = c
             /\ kernel'[c][i].arrival <= kernel'[c][Len(kernel'[c])].arrival
  <2>1. CASE i \in 1 .. Len(kernel[c])
    <3>1. kernel'[c][i] = kernel[c][i] /\ kernel[c][i].client = c
      BY <1>1, <1>6, <2>1 DEF ReadKnown
    <3>2. kernel[c][i].arrival <= clock /\ kernel[c][i] \in Request
      BY <1>3, <1>7, <2>1
    <3>3. kernel[c][i].arrival \in Nat
      BY <3>2, SequencerAssumption DEF Request
    <3>4. kernel[c][i].arrival <= clock + 1
      BY <1>3, <3>2, <3>3
    <3> QED  BY <1>4, <1>6, <3>1, <3>4
  <2>2. CASE ~(i \in 1 .. Len(kernel[c]))
    <3>1. i = Len(kernel'[c])
      BY <1>6, <2>2
    <3> QED  BY <1>3, <1>4, <1>6, <3>1
  <2> QED  BY <2>1, <2>2
<1>9. ReadKnown'
  BY <1>1, <1>2, <1>5, <1>8 DEF ReadKnown
<1> QED  BY <1>2, <1>9, BatchKept DEF StampInvariant

LEMMA ReadStamps ==
  ASSUME SequencerInvariant, StampInvariant, readSocket
  PROVE  StampInvariant'
<1>1. TypeOK /\ ReadKnown
  BY DEF SequencerInvariant, StampInvariant
<1>2. PICK v \in Clients : v = visiting
  BY <1>1, Typed, SequencerAssumption DEF readSocket, TypeOK, Clients
<1> DEFINE q == kernel[v]
<1>3. /\ reading = <<>> /\ reading' = q /\ kernel' = [kernel EXCEPT ![v] = <<>>]
      /\ UNCHANGED <<clock, pending_requests, published, roundNo, status>>
  BY <1>2 DEF readSocket
<1>4. q \in Seq(Request)
  BY <1>1, Typed
<1>5. kernel'[v] = <<>> /\ \A d \in Clients : d # v => kernel'[d] = kernel[d]
  BY <1>1, <1>3 DEF TypeOK
<1>6. q # <<>> /\ stamped' => timestamp' = q[Len(q)].arrival
  BY <1>2 DEF readSocket, Stamps
<1>7. ASSUME NEW i \in 1 .. Len(q)
      PROVE  /\ q[i].client = v /\ q[i].arrival <= q[Len(q)].arrival
             /\ q # <<>> /\ q[Len(q)].client = v
  <2>1. Len(q) \in 1 .. Len(q) /\ q # <<>>
    BY <1>4
  <2> QED  BY <1>1, <2>1 DEF ReadKnown
<1> HIDE DEF q
<1>8. /\ \A i \in 1 .. Len(reading') :
           /\ reading'[i].client = reading'[Len(reading')].client
           /\ stamped' => reading'[i].arrival <= timestamp'
      /\ stamped' /\ reading' # <<>> => reading'[Len(reading')].arrival = timestamp'
  BY <1>3, <1>6, <1>7
<1>9. ASSUME NEW d \in Clients, NEW i \in 1 .. Len(kernel'[d])
      PROVE  /\ kernel'[d][i].client = d
             /\ kernel'[d][i].arrival <= kernel'[d][Len(kernel'[d])].arrival
  <2>1. d # v
    BY <1>5, <1>9
  <2> QED  BY <1>1, <1>5, <1>9, <2>1 DEF ReadKnown
<1>10. ReadKnown'
  BY <1>8, <1>9 DEF ReadKnown
<1> QED  BY <1>3, <1>10, BatchKept DEF StampInvariant

LEMMA AddStamps ==
  ASSUME SequencerInvariant, StampInvariant, addRequest
  PROVE  StampInvariant'
<1> DEFINE h == Head(reading)
           n == Len(reading)
           m == Len(pending_requests)
           x == [receive_timestamp |-> timestamp, request |-> h,
                 stamped |-> stamped, batch |-> roundNo]
<1>1. TypeOK /\ ReadKnown /\ BatchKnown /\ OrderKnown
  BY DEF SequencerInvariant, StampInvariant
<1>2. /\ reading # <<>> /\ pending_requests' = Append(pending_requests, x)
      /\ reading' = Tail(reading)
      /\ UNCHANGED <<kernel, clock, visiting, timestamp, stamped, published, roundNo, status>>
  BY DEF addRequest
<1>3. reading \in Seq(Request) /\ pending_requests \in Seq(Pending)
  BY <1>1, Typed
<1>4. /\ n \in Nat /\ n >= 1 /\ h = reading[1] /\ Len(reading') = n - 1
      /\ \A i \in 1 .. Len(reading') : reading'[i] = reading[i + 1]
  BY <1>2, <1>3
<1>5. /\ x.request = h /\ x.receive_timestamp = timestamp /\ x.stamped = stamped
      /\ x.batch = roundNo
  OBVIOUS
<1>6. /\ m \in Nat /\ Len(pending_requests') = m + 1
      /\ pending_requests'[m + 1] = x
      /\ \A i \in 1 .. m : pending_requests'[i] = pending_requests[i]
  BY <1>2, <1>3
<1>7. reading' # <<>> => n \in 2 .. n /\ reading'[Len(reading')] = reading[n]
  <2>1. SUFFICES ASSUME reading' # <<>>  PROVE n \in 2 .. n /\ reading'[Len(reading')] = reading[n]
    OBVIOUS
  <2>2. reading' \in Seq(Request) /\ Len(reading') >= 1
    BY <1>2, <1>3, <2>1
  <2>3. Len(reading') \in 1 .. Len(reading') /\ Len(reading') + 1 = n /\ n \in 2 .. n
    BY <1>4, <2>2
  <2> QED  BY <1>4, <2>3
<1>8. reading' = <<>> => h = reading[n]
  <2>1. SUFFICES ASSUME reading' = <<>>  PROVE h = reading[n]
    OBVIOUS
  <2>2. Len(reading') = 0
    BY <2>1
  <2>3. n = 1
    BY <1>4, <2>2
  <2> QED  BY <1>4, <2>3
<1> HIDE DEF h, x, n, m
<1>9. ReadKnown'
  <2>1. ASSUME NEW i \in 1 .. Len(reading')
        PROVE  /\ reading'[i].client = reading'[Len(reading')].client
               /\ stamped' => reading'[i].arrival <= timestamp'
    <3>1. i + 1 \in 1 .. n /\ reading' # <<>>
      BY <1>4
    <3>2. /\ reading[i + 1].client = reading[n].client
          /\ stamped => reading[i + 1].arrival <= timestamp
      BY <1>1, <3>1 DEF ReadKnown, n
    <3>3. reading'[i] = reading[i + 1] /\ reading'[Len(reading')] = reading[n]
      BY <1>4, <1>7, <3>1
    <3> QED  BY <1>2, <3>2, <3>3
  <2>2. stamped' /\ reading' # <<>> => reading'[Len(reading')].arrival = timestamp'
    BY <1>1, <1>2, <1>7 DEF ReadKnown, n
  <2>3. \A c \in Clients : \A i \in 1 .. Len(kernel'[c]) :
          /\ kernel'[c][i].client = c
          /\ kernel'[c][i].arrival <= kernel'[c][Len(kernel'[c])].arrival
    BY <1>1, <1>2 DEF ReadKnown
  <2> QED  BY <2>1, <2>2, <2>3 DEF ReadKnown
<1>10. ASSUME NEW p, LastKnown(p) \/ IsLast(reading[n], p)
       PROVE  \/ \E k \in 1 .. Len(pending_requests') : IsLast(pending_requests'[k].request, p)
              \/ reading' # <<>> /\ IsLast(reading'[Len(reading')], p)
  <2>1. CASE \E k \in 1 .. m : IsLast(pending_requests[k].request, p)
    <3>1. PICK k \in 1 .. m : IsLast(pending_requests[k].request, p)
      BY <2>1
    <3>2. k \in 1 .. Len(pending_requests') /\ pending_requests'[k] = pending_requests[k]
      BY <1>6
    <3> QED  BY <3>1, <3>2
  <2>2. CASE IsLast(reading[n], p) /\ reading' # <<>>
    BY <1>7, <2>2
  <2>3. CASE IsLast(reading[n], p) /\ reading' = <<>>
    <3>1. m + 1 \in 1 .. Len(pending_requests') /\ pending_requests'[m + 1].request = reading[n]
      BY <1>5, <1>6, <1>8, <2>3
    <3> QED  BY <2>3, <3>1
  <2> QED  BY <1>10, <2>1, <2>2, <2>3 DEF LastKnown, m, n
<1>11. stamped => h.arrival <= timestamp /\ IsLast(reading[n], x)
  <2>1. 1 \in 1 .. n
    BY <1>4
  <2> QED  BY <1>1, <1>2, <1>4, <1>5, <2>1 DEF ReadKnown, IsLast, n
<1>12. ASSUME NEW i \in 1 .. Len(pending_requests')
       PROVE  /\ pending_requests'[i].batch = roundNo
              /\ pending_requests'[i].stamped =>
                   /\ pending_requests'[i].request.arrival <= pending_requests'[i].receive_timestamp
                   /\ \/ LastKnown(pending_requests'[i])
                      \/ IsLast(reading[n], pending_requests'[i])
  <2>1. CASE i \in 1 .. m
    BY <1>1, <1>6, <2>1 DEF BatchKnown, m
  <2>2. CASE ~(i \in 1 .. m)
    <3>1. pending_requests'[i] = x
      BY <1>6, <2>2
    <3> QED  BY <1>5, <1>11, <3>1
  <2> QED  BY <2>1, <2>2
<1>13. BatchKnown'
  <2> SUFFICES ASSUME NEW i \in 1 .. Len(pending_requests')
               PROVE  /\ pending_requests'[i].batch = roundNo'
                      /\ pending_requests'[i].stamped =>
                           /\ pending_requests'[i].request.arrival
                                <= pending_requests'[i].receive_timestamp
                           /\ LastKnown(pending_requests[i])'
    BY DEF BatchKnown
  <2>1. pending_requests'[i].stamped => LastKnown(pending_requests[i])'
    BY <1>10, <1>12 DEF LastKnown, IsLast
  <2> QED  BY <1>2, <1>12, <2>1
<1>14. OrderKnown'
  BY <1>1, <1>2 DEF OrderKnown, Excused
<1> QED  BY <1>9, <1>13, <1>14 DEF StampInvariant

LEMMA PublishStamps ==
  ASSUME SequencerInvariant, StampInvariant, sequenceAndPublish
  PROVE  StampInvariant'
<1> DEFINE m == Len(published)
<1>1. TypeOK /\ ReadKnown /\ BatchKnown /\ OrderKnown
  BY DEF SequencerInvariant, StampInvariant
<1>2. /\ reading = <<>> /\ roundNo' = roundNo + 1 /\ pending_requests' = <<>>
      /\ UNCHANGED <<kernel, clock, reading, timestamp, stamped, status>>
  BY DEF sequenceAndPublish, Reset
<1>3. PICK s \in Sorted(pending_requests) : published' = published \o s
  BY DEF sequenceAndPublish, TheBatch
<1>4. /\ published \in Seq(Pending) /\ pending_requests \in Seq(Pending)
      /\ m \in Nat /\ roundNo \in Nat
  BY <1>1, Typed
<1>5. /\ s \in Seq(Pending) /\ Len(s) = Len(pending_requests)
      /\ \A i \in 1 .. Len(s) : \E k \in 1 .. Len(pending_requests) : s[i] = pending_requests[k]
  BY <1>4, SortedMarks
<1>6. \A k \in 1 .. Len(pending_requests) : \E i \in 1 .. Len(s) : s[i] = pending_requests[k]
  BY <1>4, SortedMarks
<1>7. /\ Len(s) \in Nat /\ Len(published') = m + Len(s)
      /\ \A i \in 1 .. m : published'[i] = published[i]
      /\ \A i \in 1 .. Len(s) : published'[m + i] = s[i] /\ s[i] \in Pending
  <2> DEFINE u == published \o s
  <2>1. published \in Seq(Pending) /\ s \in Seq(Pending)
    BY <1>4, <1>5
  <2>2. Len(s) \in Nat /\ Len(u) = m + Len(s) /\ \A i \in 1 .. Len(s) : s[i] \in Pending
    BY <2>1
  <2>3. \A i \in 1 .. m : u[i] = published[i]
    BY <2>1
  <2>4. \A i \in 1 .. Len(s) : u[m + i] = s[i]
    BY <2>1
  <2> HIDE DEF u
  <2>5. published' = u
    BY <1>3 DEF u
  <2> QED  BY <2>2, <2>3, <2>4, <2>5
<1> HIDE DEF m
<1>8. ASSUME NEW i \in 1 .. Len(s)
      PROVE  /\ s[i].batch = roundNo
             /\ s[i].stamped =>
                  /\ s[i].request.arrival <= s[i].receive_timestamp
                  /\ \E k \in 1 .. Len(s) : IsLast(s[k].request, s[i])
  <2>1. PICK l \in 1 .. Len(pending_requests) : s[i] = pending_requests[l]
    BY <1>5
  <2>2. /\ s[i].batch = roundNo
        /\ s[i].stamped => s[i].request.arrival <= s[i].receive_timestamp /\ LastKnown(s[i])
    BY <1>1, <2>1 DEF BatchKnown
  <2>3. ASSUME LastKnown(s[i])
        PROVE  \E k \in 1 .. Len(s) : IsLast(s[k].request, s[i])
    <3>1. PICK k \in 1 .. Len(pending_requests) : IsLast(pending_requests[k].request, s[i])
      BY <1>2, <2>3 DEF LastKnown
    <3> QED  BY <1>6, <3>1
  <2> QED  BY <2>2, <2>3
<1>9. ASSUME NEW i \in 1 .. Len(published')
      PROVE  i \in 1 .. m \/ (i - m \in 1 .. Len(s) /\ published'[i] = s[i - m])
  <2>1. CASE i \in 1 .. m
    BY <2>1
  <2>2. CASE ~(i \in 1 .. m)
    <3>1. i - m \in 1 .. Len(s) /\ m + (i - m) = i
      BY <1>4, <1>7, <2>2
    <3> QED  BY <1>7, <3>1
  <2> QED  BY <2>1, <2>2
<1>10. ASSUME NEW i \in 1 .. Len(published')
       PROVE  /\ i \in 1 .. m <=> published'[i].batch # roundNo
              /\ published'[i].batch < roundNo'
  <2>1. CASE i \in 1 .. m
    <3>1. published[i] \in Pending /\ published[i].batch < roundNo
      BY <1>1, <2>1, TypedRecords DEF OrderKnown, m
    <3>2. published[i].batch \in Nat
      BY <3>1, SequencerAssumption DEF Pending, Rounds
    <3> QED  BY <1>2, <1>4, <1>7, <2>1, <3>1, <3>2
  <2>2. CASE ~(i \in 1 .. m)
    <3>1. published'[i].batch = roundNo
      BY <1>8, <1>9, <2>2
    <3> QED  BY <1>2, <1>4, <2>2, <3>1
  <2> QED  BY <2>1, <2>2
<1>11. ASSUME NEW i \in 1 .. Len(published'), NEW j \in 1 .. Len(published'), i < j,
              published'[i].stamped, published'[j].stamped,
              published'[i].batch = published'[j].batch
       PROVE  Excused(i, j)'
  <2>1. CASE j \in 1 .. m
    <3>1. i \in 1 .. m
      BY <1>10, <1>11, <2>1
    <3>2. published'[i] = published[i] /\ published'[j] = published[j]
      BY <1>7, <2>1, <3>1
    <3>3. PICK k \in 1 .. m :
            /\ published[k].batch = published[j].batch
            /\ published[k].request.client = published[j].request.client
            /\ published[k].request.arrival >= published[i].request.arrival
      BY <1>1, <1>11, <2>1, <3>1, <3>2 DEF OrderKnown, Excused, m
    <3>4. k \in 1 .. Len(published') /\ published'[k] = published[k]
      BY <1>4, <1>7
    <3> QED  BY <3>2, <3>3, <3>4 DEF Excused
  <2>2. CASE ~(j \in 1 .. m)
    <3>1. ~(i \in 1 .. m)
      BY <1>10, <1>11, <2>2
    <3>2. PICK a \in 1 .. Len(s) : a = i - m /\ published'[i] = s[a]
      BY <1>9, <3>1
    <3>3. PICK b \in 1 .. Len(s) : b = j - m /\ published'[j] = s[b]
      BY <1>9, <2>2
    <3>4. a < b
      BY <1>4, <1>11, <3>2, <3>3
    <3>5. s[a].receive_timestamp <= s[b].receive_timestamp
      BY <1>5, <3>4, SortedByStamp
    <3>6. PICK k \in 1 .. Len(s) : IsLast(s[k].request, s[b])
      BY <1>8, <1>11, <3>3
    <3>7. s[a].request.arrival <= s[a].receive_timestamp
      BY <1>8, <1>11, <3>2
    <3>8. /\ s[a].request.arrival \in Nat /\ s[a].receive_timestamp \in Nat
          /\ s[b].receive_timestamp \in Nat /\ s[k].request.arrival = s[b].receive_timestamp
          /\ s[k].request.client = s[b].request.client
      <4>1. s[a] \in Pending /\ s[b] \in Pending
        BY <1>7
      <4>2. s[a].request \in Request
        BY <4>1 DEF Pending
      <4>3. s[a].receive_timestamp \in 0 .. MaxRequests /\ s[b].receive_timestamp \in 0 .. MaxRequests
        BY <4>1 DEF Pending
      <4>4. s[a].request.arrival \in 1 .. MaxRequests
        BY <4>2 DEF Request
      <4>5. /\ s[k].request.arrival = s[b].receive_timestamp
            /\ s[k].request.client = s[b].request.client
        BY <3>6 DEF IsLast
      <4> QED  BY <4>3, <4>4, <4>5, SequencerAssumption
    <3>9. s[k].request.arrival >= s[a].request.arrival
      BY <3>5, <3>7, <3>8
    <3>10. m + k \in 1 .. Len(published') /\ published'[m + k] = s[k]
      <4>1. m \in Nat /\ Len(s) \in Nat /\ Len(published') = m + Len(s)
        BY <1>4, <1>7
      <4>2. m + k \in 1 .. Len(published')
        BY <4>1
      <4> QED  BY <1>7, <4>2
    <3>11. s[k].batch = s[b].batch
      BY <1>8
    <3> QED  BY <3>2, <3>3, <3>8, <3>9, <3>10, <3>11 DEF Excused
  <2> QED  BY <2>1, <2>2
<1>12. OrderKnown'
  BY <1>10, <1>11 DEF OrderKnown
<1>13. BatchKnown'
  BY <1>2 DEF BatchKnown
<1>14. ReadKnown'
  BY <1>1, <1>2 DEF ReadKnown
<1> QED  BY <1>12, <1>13, <1>14 DEF StampInvariant

LEMMA IdleStamps ==
  ASSUME SequencerInvariant, StampInvariant, roundWithoutData
  PROVE  StampInvariant'
<1>1. TypeOK /\ ReadKnown /\ OrderKnown
  BY DEF SequencerInvariant, StampInvariant
<1>2. /\ reading = <<>> /\ pending_requests = <<>> /\ roundNo' \in {roundNo, roundNo + 1}
      /\ UNCHANGED <<kernel, clock, reading, timestamp, stamped, pending_requests, published,
                     status>>
  BY DEF roundWithoutData
<1>3. ReadKnown' /\ BatchKnown'
  BY <1>1, <1>2 DEF ReadKnown, BatchKnown
<1>4. ASSUME NEW i \in 1 .. Len(published)
      PROVE  published[i].batch < roundNo'
  <2>1. published[i] \in Pending /\ published[i].batch < roundNo
    BY <1>1, TypedRecords DEF OrderKnown
  <2>2. published[i].batch \in Nat /\ roundNo \in Nat
    <3>1. published[i].batch \in Rounds /\ roundNo \in Rounds
      BY <1>1, <2>1 DEF Pending, TypeOK
    <3> QED  BY <3>1, SequencerAssumption DEF Rounds
  <2> QED  BY <1>2, <2>1, <2>2
<1>5. OrderKnown'
  BY <1>1, <1>2, <1>4 DEF OrderKnown, Excused
<1> QED  BY <1>3, <1>5 DEF StampInvariant

LEMMA StampStep ==
  ASSUME SequencerInvariant, StampInvariant, [Next]_vars
  PROVE  StampInvariant'
<1>1. CASE tooManyPending \/ UNCHANGED vars
  <2>1. UNCHANGED <<kernel, reading, timestamp, stamped, pending_requests, published, roundNo>>
    BY <1>1 DEF tooManyPending, vars
  <2>2. ReadKnown'
    BY <2>1 DEF StampInvariant, ReadKnown
  <2> QED  BY <2>1, <2>2, BatchKept DEF StampInvariant
<1> QED
  BY <1>1, ArriveStamps, ReadStamps, AddStamps, PublishStamps, IdleStamps
  DEF Next, Server, Over

LEMMA StampInvariantHolds == Spec => []StampInvariant
<1>1. Init => StampInvariant
  BY DEF Init, StampInvariant, ReadKnown, BatchKnown, OrderKnown
<1>2. SequencerInvariant /\ StampInvariant /\ [Next]_vars => StampInvariant'
  BY StampStep
<1> QED  BY <1>1, <1>2, SequencerInvariantHolds, PTL DEF Spec

-----------------------------------------------------------------------------
(* What the invariants give.                                               *)

\* The arrivals of the places are those of the requests in them.
LEMMA ArrivalsOfPlaces ==
  ASSUME TypeOK
  PROVE  /\ InQueue = {q.arrival : q \in Published}
         /\ {q.arrival : q \in Waiting} =
              InBatch \cup InRead \cup {n \in Nat : \E c \in Clients : n \in AtPeer(c)}
<1> DEFINE Batch   == {pending_requests[i].request : i \in DOMAIN pending_requests}
           Read    == {reading[i] : i \in DOMAIN reading}
           Peer(c) == {kernel[c][i] : i \in DOMAIN kernel[c]}
<1>1. /\ published \in Seq(Pending) /\ pending_requests \in Seq(Pending)
      /\ reading \in Seq(Request) /\ \A c \in Clients : kernel[c] \in Seq(Request)
  BY Typed
<1>2. \A s \in Seq(Pending) : Of(s, PendingArrival) = {s[i].request.arrival : i \in DOMAIN s}
  <2> TAKE s \in Seq(Pending)
  <2>1. DOMAIN s = 1 .. Len(s) /\ \A i \in 1 .. Len(s) : s[i] \in Pending
    OBVIOUS
  <2> QED  BY <2>1 DEF Of, PendingArrival
<1>3. \A s \in Seq(Request) : Of(s, ArrivalOf) = {s[i].arrival : i \in DOMAIN s}
  <2> TAKE s \in Seq(Request)
  <2>1. DOMAIN s = 1 .. Len(s) /\ \A i \in 1 .. Len(s) : s[i] \in Request
    OBVIOUS
  <2> QED  BY <2>1 DEF Of, ArrivalOf
<1>4. InQueue = {q.arrival : q \in Published}
  <2>1. InQueue = {published[i].request.arrival : i \in DOMAIN published}
    BY <1>1, <1>2 DEF InQueue
  <2> QED  BY <2>1 DEF Published
<1>5. InBatch = {q.arrival : q \in Batch}
  <2>1. InBatch = {pending_requests[i].request.arrival : i \in DOMAIN pending_requests}
    BY <1>1, <1>2 DEF InBatch
  <2> QED  BY <2>1
<1>6. InRead = {q.arrival : q \in Read}
  <2>1. InRead = {reading[i].arrival : i \in DOMAIN reading}
    BY <1>1, <1>3 DEF InRead
  <2> QED  BY <2>1
<1>7. ASSUME NEW c \in Clients
      PROVE  AtPeer(c) = {q.arrival : q \in Peer(c)} /\ AtPeer(c) \subseteq Nat
  <2>1. AtPeer(c) = {kernel[c][i].arrival : i \in DOMAIN kernel[c]}
    BY <1>1, <1>3, <1>7 DEF AtPeer
  <2>2. \A i \in DOMAIN kernel[c] : kernel[c][i].arrival \in Nat
    <3> TAKE i \in DOMAIN kernel[c]
    <3>1. kernel[c][i] \in Request
      BY <1>1, <1>7
    <3> QED  BY <3>1, SequencerAssumption DEF Request
  <2> QED  BY <2>1, <2>2
<1>8. Waiting = Batch \cup Read \cup UNION {Peer(c) : c \in Clients}
  BY DEF Waiting
<1> HIDE DEF Batch, Read, Peer
<1>9. \A n : n \in {q.arrival : q \in Waiting} <=>
             n \in InBatch \cup InRead \cup {m \in Nat : \E c \in Clients : m \in AtPeer(c)}
  <2> TAKE n
  <2>1. n \in {q.arrival : q \in Waiting} <=>
          n \in InBatch \/ n \in InRead \/ \E c \in Clients : n \in AtPeer(c)
    BY <1>5, <1>6, <1>7, <1>8
  <2> QED  BY <1>7, <2>1
<1> QED  BY <1>4, <1>9

LEMMA PublishedCounted ==
  ASSUME TypeOK, Once(published, PendingArrival)
  PROVE  Cardinality(Published) = Len(published)
<1> DEFINE n == Len(published)
           g == [i \in 1 .. n |-> published[i].request]
<1>1. published \in Seq(Pending) /\ n \in Nat /\ DOMAIN published = 1 .. n
  BY Typed
<1>2. Published = {published[i].request : i \in 1 .. n}
  BY <1>1 DEF Published
<1>3. \A i \in 1 .. n : published[i] \in Pending
  BY <1>1
<1>4. \A i, j \in 1 .. n : published[i].request = published[j].request => i = j
  BY <1>3 DEF Once, PendingArrival
<1>5. g \in Bijection(1 .. n, Published)
  <2>1. g \in [1 .. n -> Published]
    BY <1>2
  <2>2. g \in Injection(1 .. n, Published)
    BY <1>4, <2>1 DEF Injection, IsInjective
  <2>3. \A x \in Published : \E i \in 1 .. n : g[i] = x
    BY <1>2
  <2> QED  BY <2>1, <2>2, <2>3 DEF Bijection, Surjection
<1> HIDE DEF g, n
<1>6. ExistsBijection(1 .. n, Published)
  BY <1>5 DEF ExistsBijection
<1>7. Cardinality(Published) = n
  BY <1>1, <1>6, FS_CountingElements
<1> QED  BY <1>7 DEF n

\* When addRequest() ends the process, the full batch and the request in hand are
\* unpublished.
LEMMA ExitWithTooMany ==
  ASSUME SequencerInvariant, status = "exit"
  PROVE  clock - Len(published) > MAX_PENDING_REQUESTS
<1> DEFINE n == ArrivalOf[reading[1]]
           T == (1 .. clock) \ {n}
           u == published \o pending_requests
<1>1. TypeOK /\ Placed /\ Len(pending_requests) = MAX_PENDING_REQUESTS /\ reading # <<>>
  BY DEF SequencerInvariant, Limited
<1>2. /\ published \in Seq(Pending) /\ pending_requests \in Seq(Pending)
      /\ reading \in Seq(Request)
      /\ Len(published) \in Nat /\ Len(pending_requests) \in Nat /\ clock \in Nat
  BY <1>1, Typed
<1>3. 1 \in 1 .. Len(reading)
  BY <1>1, <1>2
<1>4. n \in InRead
  BY <1>3 DEF InRead, Of
<1>5. n \in 1 .. clock /\ n \notin InQueue /\ n \notin InBatch
  BY <1>1, <1>4 DEF Placed
<1> HIDE DEF n
<1>6. IsFiniteSet(1 .. clock) /\ Cardinality(1 .. clock) = clock
  BY <1>2, IntervalCounted
<1>7. IsFiniteSet(T) /\ Cardinality(T) = clock - 1
  BY <1>5, <1>6, FS_RemoveElement
<1>8. /\ u \in Seq(Pending) /\ Len(u) = Len(published) + Len(pending_requests)
      /\ Of(u, PendingArrival) = Of(published, PendingArrival) \cup Of(pending_requests, PendingArrival)
  <2>1. u \in Seq(Pending) /\ Len(u) = Len(published) + Len(pending_requests)
    BY <1>2
  <2>2. Of(u, PendingArrival) = Of(published, PendingArrival) \cup Of(pending_requests, PendingArrival)
    BY <1>2, ConcatOf
  <2> QED  BY <2>1, <2>2
<1>9. Once(u, PendingArrival)
  <2>1. /\ Once(published, PendingArrival) /\ Once(pending_requests, PendingArrival)
        /\ Of(published, PendingArrival) \cap Of(pending_requests, PendingArrival) = {}
    BY <1>1 DEF Placed, InQueue, InBatch
  <2> QED  BY <1>2, <2>1, ConcatMarks
<1>10. Of(u, PendingArrival) \subseteq T
  <2>1. InQueue \subseteq 1 .. clock /\ InBatch \subseteq 1 .. clock
    BY <1>1 DEF Placed
  <2> QED  BY <1>5, <1>8, <2>1 DEF InQueue, InBatch
<1> HIDE DEF T, u
<1>11. Len(u) <= Cardinality(T)
  BY <1>7, <1>8, <1>9, <1>10, OnceBounded
<1> QED  BY <1>1, <1>2, <1>7, <1>8, <1>11

\* sequenceAndPublish() publishes every request that addRequest() was given, once;
\* none is lost between two rounds and none published again; and addRequest() ends
\* the process only with more than MAX_PENDING_REQUESTS requests unpublished.
THEOREM SequencerPublishedOnce == Spec => []PublishedOnce
<1>1. SequencerInvariant => PublishedOnce
  <2> SUFFICES ASSUME SequencerInvariant  PROVE PublishedOnce
    OBVIOUS
  <2>1. TypeOK /\ Placed
    BY DEF SequencerInvariant
  <2>2. /\ InQueue = {q.arrival : q \in Published}
        /\ {q.arrival : q \in Waiting} =
             InBatch \cup InRead \cup {n \in Nat : \E c \in Clients : n \in AtPeer(c)}
    BY <2>1, ArrivalsOfPlaces
  <2>3. {q.arrival : q \in Published \cup Waiting} = 1 .. clock
    <3>1. \A n : n \in {q.arrival : q \in Published \cup Waiting} <=>
                 n \in InQueue \/ n \in {q.arrival : q \in Waiting}
      BY <2>2
    <3>2. \A n : n \in 1 .. clock <=> \/ n \in InQueue \cup InBatch \cup InRead
                                       \/ \E c \in Clients : n \in AtPeer(c)
      BY <2>1 DEF Placed
    <3>3. clock \in Nat
      BY <2>1, Typed
    <3>4. \A n \in 1 .. clock : n \in Nat
      BY <3>3
    <3>5. \A n : n \in {q.arrival : q \in Published \cup Waiting} <=> n \in 1 .. clock
      BY <2>2, <3>1, <3>2, <3>4
    <3> QED  BY <3>5
  <2>4. Published \cap Waiting = {}
    <3> SUFFICES ASSUME NEW x, x \in Published, x \in Waiting  PROVE FALSE
      OBVIOUS
    <3>1. x.arrival \in InQueue
      BY <2>2
    <3>2. x.arrival \in InBatch \/ x.arrival \in InRead \/ \E c \in Clients : x.arrival \in AtPeer(c)
      BY <2>2
    <3> QED  BY <2>1, <3>1, <3>2 DEF Placed
  <2>5. Cardinality(Published) = Len(published)
    BY <2>1, PublishedCounted DEF Placed
  <2>6. status = "exit" => clock - Len(published) > MAX_PENDING_REQUESTS
    BY ExitWithTooMany
  <2> QED  BY <2>1, <2>3, <2>4, <2>5, <2>6 DEF PublishedOnce
<1> QED  BY <1>1, SequencerInvariantHolds, PTL

\* Whatever the timestamps are that sequenceAndPublish() sorts by, a request is
\* overtaken only by such that arrive before the end of the round after its own;
\* and in a batch a stamped request is overtaken by another only if the read that
\* took it took one of its client that is not older than the other.
THEOREM SequencerOvertakenWithinARound == Spec => []OvertakenWithinARound
<1>1. SequencerInvariant /\ StampInvariant => OvertakenWithinARound
  <2> SUFFICES ASSUME SequencerInvariant, StampInvariant  PROVE OvertakenWithinARound
    OBVIOUS
  <2>1. TypeOK /\ RoundsKnown /\ OrderKnown
    BY DEF SequencerInvariant, StampInvariant
  <2>2. DOMAIN published = 1 .. Len(published)
    BY <2>1, Typed
  <2>3. \A i, j \in DOMAIN published :
          i < j => published[i].request.round <= published[j].request.round + 1
    BY <2>1, <2>2 DEF RoundsKnown
  <2>4. \A i, j \in DOMAIN published :
          i < j /\ published[i].stamped /\ published[j].stamped
            /\ published[i].batch = published[j].batch =>
              \E k \in DOMAIN published :
                /\ published[k].batch = published[j].batch
                /\ published[k].request.client = published[j].request.client
                /\ published[k].request.arrival >= published[i].request.arrival
    BY <2>1, <2>2 DEF OrderKnown, Excused
  <2> QED  BY <2>3, <2>4 DEF OvertakenWithinARound
<1> QED  BY <1>1, SequencerInvariantHolds, StampInvariantHolds, PTL
=============================================================================
