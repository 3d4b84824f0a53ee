-------------------------- MODULE TCPServerProofs ---------------------------
(***************************************************************************)
(* TCPServer, for every set of connections and every choice of operator    *)
(* new.                                                                    *)
(***************************************************************************)
EXTENDS TCPServer, FiniteSetTheorems, TLAPS

\* The knotes are those of the accepted connections, and a TCPSocket lies where
\* the knote of its connection points to.
KnotesKnown ==
  /\ \A c \in Conns : knote[c] # None => conn[c] = "accepted"
  /\ pc # "exit" => \A c \in Conns : conn[c] = "accepted" => knote[c] # None
  /\ \A a \in Addresses : heap[a] # None => knote[heap[a]] = a

\* A connection loses its TCPSocket only if its peer closed, or if it shares the
\* address; of two at one address the later one shares, and the earlier one had
\* lost its own.
SocketsKept ==
  /\ \A c \in Conns \ (closed \cup shared) : knote[c] # None => heap[knote[c]] = c
  /\ \A c, d \in Conns : c # d /\ knote[c] # None /\ knote[c] = knote[d] =>
       c \in closed \cup shared /\ (c \in shared \/ d \in shared)
  /\ closed = {} => shared = {}

\* What kevent() reported is still true of the events not yet handled.
EventsKnown ==
  /\ \A e \in events :
       /\ e.udata = knote[e.conn]
       /\ e.eof => e.conn \in closed
       /\ ~e.eof /\ shared = {} => heap[e.udata] # None
  /\ \A e, f \in events : e.conn = f.conn => e = f

Once(s) == \A i, j \in 1 .. Len(s) : s[i] = s[j] => i = j

Listed ==
  /\ \A a \in Addresses : heap[a] # None => a \in AddressesOf(receive_sockets_)
  /\ shared = {} =>
       /\ Once(receive_sockets_)
       /\ \A a \in AddressesOf(receive_sockets_) : heap[a] # None

\* In a round: what is due is still in the kernel, and its socket not yet visited.
RoundKnown ==
  pc = "recv" =>
    /\ \A c \in Conns \ shared : left[c] > 0 =>
         left[c] <= unread[c] /\ \E i \in 1 .. Len(unvisited) : heap[unvisited[i]] = c
    /\ shared = {} => \A i \in 1 .. Len(unvisited) : heap[unvisited[i]] # None

ServerInvariant ==
  /\ TypeOK
  /\ \A c \in Conns : unread[c] <= sent[c]
  /\ KnotesKnown /\ SocketsKept /\ EventsKnown /\ Listed /\ RoundKnown
  /\ pc = "corrupt" => closed # {}

-----------------------------------------------------------------------------
(* The list.                                                               *)

\* push_back() unless std::find() finds it.
LEMMA TrackedList ==
  ASSUME receive_sockets_ \in Seq(Addresses), NEW a \in Addresses
  PROVE  /\ Tracked(a) \in Seq(Addresses)
         /\ AddressesOf(Tracked(a)) = AddressesOf(receive_sockets_) \cup {a}
         /\ Once(receive_sockets_) => Once(Tracked(a))
<1> DEFINE s == receive_sockets_
<1>1. CASE a \in AddressesOf(s)
  BY <1>1 DEF Tracked
<1>2. CASE a \notin AddressesOf(s)
  <2>1. Tracked(a) = Append(s, a)
    BY <1>2 DEF Tracked
  <2>2. /\ Append(s, a) \in Seq(Addresses) /\ Len(s) \in Nat /\ Len(Append(s, a)) = Len(s) + 1
        /\ Append(s, a)[Len(s) + 1] = a
        /\ \A i \in 1 .. Len(s) : Append(s, a)[i] = s[i]
    OBVIOUS
  <2> HIDE DEF s
  <2>3. \A b : b \in AddressesOf(Append(s, a)) <=> b \in AddressesOf(s) \cup {a}
    <3> TAKE b
    <3>1. DOMAIN Append(s, a) = 1 .. (Len(s) + 1) /\ DOMAIN s = 1 .. Len(s)
      BY <2>2 DEF s
    <3> QED  BY <2>2, <3>1 DEF AddressesOf
  <2>4. \A i \in 1 .. Len(s) : s[i] # a
    BY <1>2 DEF AddressesOf, s
  <2>5. Once(s) => Once(Append(s, a))
    BY <2>2, <2>4 DEF Once
  <2> QED  BY <2>1, <2>2, <2>3, <2>5 DEF s
<1> QED  BY <1>1, <1>2

\* std::remove() takes out one address, and changes nothing else.
LEMMA ErasedList ==
  ASSUME NEW s \in Seq(Addresses), NEW a, NEW t \in Erasures(s, a)
  PROVE  /\ t \in Seq(Addresses)
         /\ AddressesOf(t) = AddressesOf(s) \ {a}
         /\ Once(s) => Once(t)
<1> DEFINE kept == {i \in DOMAIN s : s[i] # a}
           n    == Cardinality(kept)
<1>1. DOMAIN s = 1 .. Len(s) /\ Len(s) \in Nat
  OBVIOUS
<1>2. IsFiniteSet(kept) /\ n \in Nat
  <2>1. IsFiniteSet(1 .. Len(s))
    BY <1>1, FS_Interval
  <2>2. kept \in SUBSET (1 .. Len(s))
    BY <1>1
  <2>3. IsFiniteSet(kept)
    BY <2>1, <2>2, FS_Subset
  <2> QED  BY <2>3, FS_CardinalityType
<1>3. PICK f \in [1 .. n -> kept] :
        /\ \A i, j \in 1 .. n : i < j => f[i] < f[j]
        /\ t = [i \in 1 .. n |-> s[f[i]]]
  BY DEF Erasures
<1>4. \A i \in kept : i \in 1 .. Len(s) /\ s[i] # a /\ s[i] \in Addresses
  BY <1>1
<1>5. \A i \in 1 .. Len(s) : s[i] # a => i \in kept
  BY <1>1
<1> HIDE DEF kept, n
<1>6. \A i, j \in 1 .. n : f[i] = f[j] => i = j
  <2> TAKE i \in 1 .. n, j \in 1 .. n
  <2>1. f[i] \in Nat /\ f[j] \in Nat
    BY <1>1, <1>4
  <2> QED  BY <1>2, <1>3, <2>1
<1>7. \A k \in kept : \E i \in 1 .. n : f[i] = k
  <2>1. f \in Injection(1 .. n, kept)
    BY <1>6 DEF Injection, IsInjective
  <2>2. Cardinality(1 .. n) = n
    BY <1>2, FS_Interval
  <2>3. f \in Surjection(1 .. n, kept)
    BY <1>2, <2>1, <2>2, FS_Injection DEF n
  <2> QED  BY <2>3 DEF Surjection
<1>8. /\ \A i \in 1 .. n : t[i] \in Addresses /\ t[i] = s[f[i]]
      /\ Len(t) = n /\ DOMAIN t = 1 .. n /\ t \in Seq(Addresses)
  BY <1>2, <1>3, <1>4
<1>9. AddressesOf(t) = AddressesOf(s) \ {a}
  <2>1. ASSUME NEW b \in AddressesOf(t)
        PROVE  b \in AddressesOf(s) \ {a}
    <3>1. PICK i \in 1 .. n : b = t[i]
      BY <1>8, <2>1 DEF AddressesOf
    <3>2. f[i] \in 1 .. Len(s) /\ s[f[i]] # a /\ b = s[f[i]]
      BY <1>4, <1>8, <3>1
    <3> QED  BY <1>1, <3>2 DEF AddressesOf
  <2>2. ASSUME NEW b \in AddressesOf(s) \ {a}
        PROVE  b \in AddressesOf(t)
    <3>1. PICK k \in 1 .. Len(s) : b = s[k]
      BY <1>1, <2>2 DEF AddressesOf
    <3>2. k \in kept
      BY <1>5, <2>2, <3>1
    <3>3. PICK i \in 1 .. n : f[i] = k
      BY <1>7, <3>2
    <3> QED  BY <1>8, <3>1, <3>3 DEF AddressesOf
  <2> QED  BY <2>1, <2>2
<1>10. Once(s) => Once(t)
  <2> SUFFICES ASSUME Once(s), NEW i \in 1 .. Len(t), NEW j \in 1 .. Len(t), t[i] = t[j]
               PROVE  i = j
    BY DEF Once
  <2>1. f[i] \in 1 .. Len(s) /\ f[j] \in 1 .. Len(s) /\ s[f[i]] = s[f[j]]
    BY <1>4, <1>8
  <2>2. f[i] = f[j]
    BY <2>1 DEF Once
  <2> QED  BY <1>6, <1>8, <2>2
<1> QED  BY <1>8, <1>9, <1>10

\* A list without repetitions is as long as the set of its addresses is large.
LEMMA OnceCounted ==
  ASSUME NEW s \in Seq(Addresses), Once(s)
  PROVE  Len(s) = Cardinality(AddressesOf(s))
<1>1. s \in [1 .. Len(s) -> AddressesOf(s)] /\ Len(s) \in Nat
  BY DEF AddressesOf
<1>2. s \in Injection(1 .. Len(s), AddressesOf(s))
  BY <1>1 DEF Once, Injection, IsInjective
<1>3. \A b \in AddressesOf(s) : \E i \in 1 .. Len(s) : s[i] = b
  BY DEF AddressesOf
<1>4. s \in Surjection(1 .. Len(s), AddressesOf(s))
  BY <1>1, <1>3 DEF Surjection
<1>5. ExistsBijection(1 .. Len(s), AddressesOf(s))
  BY <1>2, <1>4 DEF ExistsBijection, Bijection
<1> QED  BY <1>1, <1>5, FS_CountingElements

-----------------------------------------------------------------------------
(* The steps.                                                              *)

LEMMA PeerStep ==
  ASSUME ServerInvariant, NEW c \in Conns, connect(c) \/ peerSends(c) \/ peerCloses(c)
  PROVE  ServerInvariant'
<1>0. /\ TypeOK /\ KnotesKnown /\ SocketsKept /\ EventsKnown /\ Listed /\ RoundKnown
      /\ \A d \in Conns : unread[d] <= sent[d]
      /\ pc = "corrupt" => closed # {}
  BY DEF ServerInvariant
<1>1. CASE connect(c)
  <2>1. /\ conn[c] = "none" /\ conn' = [conn EXCEPT ![c] = "backlog"]
        /\ UNCHANGED <<closed, unread, sent, knote, heap, receive_sockets_, events,
                       have_new_connection, unvisited, recv, left, pc, shared>>
    BY <1>1 DEF connect, poll_, round
  <2>2. TypeOK'
    BY <1>0, <2>1 DEF TypeOK
  <2>3. /\ conn'[c] = "backlog" /\ knote[c] = None
        /\ \A d \in Conns : d # c => conn'[d] = conn[d]
    BY <1>0, <2>1 DEF TypeOK, KnotesKnown
  <2>4. KnotesKnown'
    BY <1>0, <2>1, <2>3 DEF KnotesKnown
  <2>5. SocketsKept' /\ EventsKnown' /\ Listed' /\ RoundKnown'
    BY <1>0, <2>1 DEF SocketsKept, EventsKnown, Listed, RoundKnown
  <2> QED  BY <1>0, <2>1, <2>2, <2>4, <2>5 DEF ServerInvariant
<1>2. CASE peerSends(c)
  <2>1. /\ unread' = [unread EXCEPT ![c] = @ + 1] /\ sent' = [sent EXCEPT ![c] = @ + 1]
        /\ sent[c] < MaxMessages
        /\ UNCHANGED <<conn, closed, knote, heap, receive_sockets_, events,
                       have_new_connection, unvisited, recv, left, pc, shared>>
    BY <1>2 DEF peerSends, poll_, round
  <2>2. /\ \A d \in Conns : unread[d] \in 0 .. MaxMessages /\ sent[d] \in 0 .. MaxMessages
        /\ unread \in [Conns -> 0 .. MaxMessages] /\ sent \in [Conns -> 0 .. MaxMessages]
        /\ left \in [Conns -> 0 .. RecvRoom] /\ MaxMessages \in Nat
    BY <1>0, ServerAssumption DEF TypeOK
  <2>3. unread[c] + 1 \in 0 .. MaxMessages /\ sent[c] + 1 \in 0 .. MaxMessages
    <3>1. unread[c] <= sent[c]
      BY <1>0
    <3> QED  BY <2>1, <2>2, <3>1
  <2>4. /\ unread' \in [Conns -> 0 .. MaxMessages] /\ sent' \in [Conns -> 0 .. MaxMessages]
        /\ \A d \in Conns : /\ unread'[d] = IF d = c THEN unread[d] + 1 ELSE unread[d]
                            /\ sent'[d] = IF d = c THEN sent[d] + 1 ELSE sent[d]
    BY <2>1, <2>2, <2>3
  <2>5. ASSUME NEW d \in Conns
        PROVE  unread'[d] <= sent'[d] /\ (left[d] <= unread[d] => left[d] <= unread'[d])
    <3>1. unread[d] <= sent[d] /\ left[d] \in 0 .. RecvRoom /\ RecvRoom \in Nat
      BY <1>0, <2>2, ServerAssumption
    <3> QED  BY <2>2, <2>4, <3>1
  <2>6. TypeOK'
    BY <1>0, <2>1, <2>4 DEF TypeOK
  <2>7. KnotesKnown' /\ SocketsKept' /\ EventsKnown' /\ Listed'
    BY <1>0, <2>1 DEF KnotesKnown, SocketsKept, EventsKnown, Listed
  <2>8. RoundKnown'
    BY <1>0, <2>1, <2>5 DEF RoundKnown
  <2> QED  BY <1>0, <2>1, <2>5, <2>6, <2>7, <2>8 DEF ServerInvariant
<1>3. CASE peerCloses(c)
  <2>1. /\ closed' = closed \cup {c}
        /\ UNCHANGED <<conn, unread, sent, knote, heap, receive_sockets_, events,
                       have_new_connection, unvisited, recv, left, pc, shared>>
    BY <1>3 DEF peerCloses, poll_, round
  <2>2. TypeOK' /\ KnotesKnown' /\ Listed' /\ RoundKnown'
    BY <1>0, <2>1 DEF TypeOK, KnotesKnown, Listed, RoundKnown
  <2>3. SocketsKept'
    BY <1>0, <2>1 DEF SocketsKept
  <2>4. EventsKnown'
    BY <1>0, <2>1 DEF EventsKnown
  <2> QED  BY <1>0, <2>1, <2>2, <2>3, <2>4 DEF ServerInvariant
<1> QED  BY <1>1, <1>2, <1>3

LEMMA KeventStep ==
  ASSUME ServerInvariant, NEW cs \in SUBSET ReadyConns, NEW listener \in BOOLEAN,
         kevent(cs, listener)
  PROVE  ServerInvariant'
<1> USE ServerAssumption DEF ServerInvariant
<1>1. /\ pc = "idle" /\ pc' = "events" /\ events' = {Reported(c) : c \in cs}
      /\ have_new_connection' = listener
      /\ UNCHANGED <<conn, closed, unread, sent, knote, heap, receive_sockets_, unvisited, recv,
                     left, shared>>
  BY DEF kevent, kernel, round
<1>2. \A c \in cs : c \in Conns /\ knote[c] \in Addresses /\ knote[c] # None
  BY DEF ReadyConns, TypeOK
<1>3. \A c \in cs : Reported(c) \in Event
  BY <1>2 DEF Reported, Event
<1>4. TypeOK'
  BY <1>1, <1>3 DEF TypeOK
<1>5. EventsKnown'
  <2>1. ASSUME NEW e \in events'
        PROVE  /\ e.udata = knote[e.conn]
               /\ e.eof => e.conn \in closed
               /\ ~e.eof /\ shared = {} => heap[e.udata] # None
               /\ e.conn \in Conns /\ e = Reported(e.conn)
    <3>1. PICK c \in cs : e = Reported(c)
      BY <1>1, <2>1
    <3>2. e.conn = c /\ e.udata = knote[c] /\ (e.eof <=> c \in closed)
      BY <3>1 DEF Reported
    <3>3. c \notin closed /\ shared = {} => heap[knote[c]] = c
      BY <1>2 DEF SocketsKept
    <3> QED  BY <1>2, <3>1, <3>2, <3>3
  <2> QED  BY <1>1, <2>1 DEF EventsKnown
<1> QED
  BY <1>1, <1>4, <1>5 DEF KnotesKnown, SocketsKept, Listed, RoundKnown

LEMMA HandleEventStep ==
  ASSUME ServerInvariant, NEW e \in events, handleEvent(e)
  PROVE  ServerInvariant'
<1> USE ServerAssumption DEF ServerInvariant
<1> DEFINE a == e.udata
<1>1. /\ e.conn \in Conns /\ a \in Addresses /\ e.eof \in BOOLEAN
      /\ a = knote[e.conn] /\ (e.eof => e.conn \in closed)
      /\ (~e.eof /\ shared = {} => heap[a] # None)
  BY DEF TypeOK, Event, EventsKnown
<1>2. /\ pc = "events" /\ events' = events \ {e}
      /\ UNCHANGED <<conn, closed, unread, sent, knote, have_new_connection, unvisited, recv,
                     left, shared>>
  BY DEF handleEvent, kernel, round
<1>3. /\ Tracked(a) \in Seq(Addresses)
      /\ AddressesOf(Tracked(a)) = AddressesOf(receive_sockets_) \cup {a}
      /\ Once(receive_sockets_) => Once(Tracked(a))
  BY <1>1, TrackedList DEF TypeOK
<1>4. CASE ~e.eof
  <2>1. receive_sockets_' = Tracked(a) /\ UNCHANGED <<heap, pc>>
    BY <1>4 DEF handleEvent, Dead
  <2>2. TypeOK'
    BY <1>2, <1>3, <2>1 DEF TypeOK
  <2>3. EventsKnown'
    BY <1>2, <2>1 DEF EventsKnown
  <2>4. Listed'
    BY <1>1, <1>2, <1>3, <1>4, <2>1 DEF Listed
  <2> QED  BY <1>2, <2>1, <2>2, <2>3, <2>4 DEF KnotesKnown, SocketsKept, RoundKnown
<1>5. CASE e.eof
  <2>1. /\ receive_sockets_' \in Erasures(Tracked(a), a)
        /\ heap' = [heap EXCEPT ![a] = None]
        /\ pc' = IF heap[a] = None THEN "corrupt" ELSE "events"
    BY <1>5 DEF handleEvent, Dead
  <2>2. /\ receive_sockets_' \in Seq(Addresses)
        /\ AddressesOf(receive_sockets_') = AddressesOf(receive_sockets_) \ {a}
        /\ Once(receive_sockets_) => Once(receive_sockets_')
    <3>1. PICK t : t = receive_sockets_' /\ t \in Erasures(Tracked(a), a)
      BY <2>1
    <3>2. /\ t \in Seq(Addresses) /\ AddressesOf(t) = AddressesOf(Tracked(a)) \ {a}
          /\ Once(Tracked(a)) => Once(t)
      BY <1>3, <3>1, ErasedList
    <3> QED  BY <1>3, <3>1, <3>2
  <2>3. /\ heap'[a] = None /\ heap' \in [Addresses -> Conns \cup {None}]
        /\ \A b \in Addresses : b # a => heap'[b] = heap[b]
    BY <1>1, <2>1 DEF TypeOK
  <2>4. TypeOK'
    BY <1>2, <2>1, <2>2, <2>3 DEF TypeOK
  <2>5. KnotesKnown'
    BY <1>2, <2>1, <2>3 DEF KnotesKnown
  <2>6. SocketsKept'
    <3>1. ASSUME NEW c \in Conns \ (closed \cup shared), knote[c] # None
          PROVE  heap'[knote[c]] = c
      <4>1. knote[c] # a
        BY <1>1, <1>5, <3>1 DEF SocketsKept
      <4>2. knote[c] \in Addresses
        BY <3>1 DEF TypeOK
      <4> QED  BY <2>3, <3>1, <4>1, <4>2 DEF SocketsKept
    <3> QED  BY <1>2, <3>1 DEF SocketsKept
  <2>7. EventsKnown'
    <3>1. ASSUME NEW d \in events, d # e, ~d.eof, shared = {}
          PROVE  heap'[d.udata] # None
      <4>1. /\ d.conn \in Conns /\ d.udata \in Addresses /\ d.udata = knote[d.conn]
            /\ d.conn # e.conn /\ heap[d.udata] # None
        BY <3>1 DEF TypeOK, Event, EventsKnown
      <4>2. d.udata # a
        BY <1>1, <3>1, <4>1 DEF SocketsKept
      <4> QED  BY <2>3, <4>1, <4>2
    <3> QED  BY <1>2, <3>1 DEF EventsKnown
  <2>8. Listed'
    <3>1. AddressesOf(receive_sockets_) \subseteq Addresses
      BY DEF TypeOK, AddressesOf
    <3>2. \A b \in Addresses : heap'[b] # None => b \in AddressesOf(receive_sockets_')
      BY <2>2, <2>3 DEF Listed
    <3>3. ASSUME shared' = {}
          PROVE  /\ Once(receive_sockets_')
                 /\ \A b \in AddressesOf(receive_sockets_') : heap'[b] # None
      BY <1>2, <2>2, <2>3, <3>1, <3>3 DEF Listed
    <3> QED  BY <3>2, <3>3 DEF Listed
  <2>9. pc' # "recv" /\ (pc' = "corrupt" => closed' # {})
    BY <1>1, <1>2, <1>5, <2>1
  <2> QED  BY <1>2, <2>4, <2>5, <2>6, <2>7, <2>8, <2>9 DEF RoundKnown
<1> QED  BY <1>1, <1>4, <1>5

LEMMA AcceptStep ==
  ASSUME ServerInvariant, NEW c \in Conns, NEW a \in Addresses, accept(c, a)
  PROVE  ServerInvariant'
<1> USE ServerAssumption DEF ServerInvariant
<1>1. /\ pc = "accept" /\ conn[c] = "backlog" /\ heap[a] = None
      /\ conn' = [conn EXCEPT ![c] = "accepted"] /\ heap' = [heap EXCEPT ![a] = c]
      /\ knote' = [knote EXCEPT ![c] = a]
      /\ receive_sockets_' = Append(receive_sockets_, a)
      /\ UNCHANGED <<closed, unread, sent, events, have_new_connection, unvisited, recv, left, pc>>
  BY DEF accept, Backlog, poll_, round
<1>2. /\ shared \subseteq shared' /\ shared' \subseteq Conns
      /\ (\E d \in Conns : knote[d] = a) => c \in shared'
      /\ (\A d \in Conns : knote[d] # a) => shared' = shared
  BY DEF accept, TypeOK
<1>3. /\ knote[c] = None /\ knote'[c] = a /\ heap'[a] = c /\ c # None /\ a # None
      /\ \A d \in Conns : d # c => knote'[d] = knote[d]
      /\ \A b \in Addresses : b # a => heap'[b] = heap[b]
  BY <1>1 DEF TypeOK, KnotesKnown
<1>4. /\ receive_sockets_' \in Seq(Addresses)
      /\ AddressesOf(receive_sockets_') = AddressesOf(receive_sockets_) \cup {a}
      /\ Once(receive_sockets_) /\ a \notin AddressesOf(receive_sockets_)
           => Once(receive_sockets_')
  <2> DEFINE s == receive_sockets_
  <2>1. /\ Append(s, a) \in Seq(Addresses) /\ Len(s) \in Nat /\ Len(Append(s, a)) = Len(s) + 1
        /\ Append(s, a)[Len(s) + 1] = a
        /\ \A i \in 1 .. Len(s) : Append(s, a)[i] = s[i]
        /\ DOMAIN Append(s, a) = 1 .. (Len(s) + 1) /\ DOMAIN s = 1 .. Len(s)
    BY DEF TypeOK
  <2> HIDE DEF s
  <2>2. \A b : b \in AddressesOf(Append(s, a)) <=> b \in AddressesOf(s) \cup {a}
    BY <2>1 DEF AddressesOf
  <2>3. Once(s) /\ a \notin AddressesOf(s) => Once(Append(s, a))
    BY <2>1 DEF Once, AddressesOf
  <2> QED  BY <1>1, <2>1, <2>2, <2>3 DEF s
<1>5. TypeOK'
  BY <1>1, <1>2, <1>4 DEF TypeOK
<1>6. KnotesKnown'
  <2>1. conn'[c] = "accepted" /\ \A d \in Conns : d # c => conn'[d] = conn[d]
    BY <1>1 DEF TypeOK
  <2>2. ASSUME NEW b \in Addresses, b # a, heap[b] # None
        PROVE  heap[b] \in Conns /\ knote'[heap[b]] = b
    <3>1. heap[b] \in Conns /\ knote[heap[b]] = b /\ b # None
      BY <2>2 DEF TypeOK, KnotesKnown
    <3> QED  BY <1>3, <3>1
  <2> QED  BY <1>1, <1>3, <2>1, <2>2 DEF KnotesKnown
<1>7. SocketsKept'
  <2>1. ASSUME NEW d \in Conns, d # c, knote[d] = a
        PROVE  d \in closed \cup shared
    BY <1>1, <2>1 DEF SocketsKept
  <2>2. ASSUME NEW d \in Conns \ (closed' \cup shared'), knote'[d] # None
        PROVE  heap'[knote'[d]] = d
    <3>1. CASE d = c
      BY <1>3, <3>1
    <3>2. CASE d # c
      <4>1. d \notin closed \cup shared /\ knote[d] # None /\ knote'[d] = knote[d]
        BY <1>1, <1>2, <1>3, <2>2, <3>2
      <4>2. knote[d] # a /\ knote[d] \in Addresses
        BY <2>1, <3>2, <4>1 DEF TypeOK
      <4> QED  BY <1>3, <4>1, <4>2 DEF SocketsKept
    <3> QED  BY <3>1, <3>2
  <2>3. ASSUME NEW d \in Conns, NEW f \in Conns, d # f, knote'[d] # None, knote'[d] = knote'[f]
        PROVE  d \in closed' \cup shared' /\ (d \in shared' \/ f \in shared')
    <3>1. CASE d = c
      BY <1>2, <1>3, <2>3, <3>1
    <3>2. CASE f = c
      BY <1>1, <1>2, <1>3, <2>1, <2>3, <3>2
    <3>3. CASE d # c /\ f # c
      BY <1>1, <1>2, <1>3, <2>3, <3>3 DEF SocketsKept
    <3> QED  BY <3>1, <3>2, <3>3
  <2>4. closed' = {} => shared' = {}
    <3>1. SUFFICES ASSUME closed = {}  PROVE shared' = {}
      BY <1>1
    <3>2. shared = {} /\ \A d \in Conns : knote[d] # a
      BY <1>3, <2>1, <3>1 DEF SocketsKept
    <3> QED  BY <1>2, <3>2
  <2> QED  BY <2>2, <2>3, <2>4 DEF SocketsKept
<1>8. EventsKnown'
  <2>1. ASSUME NEW e \in events
        PROVE  e.conn \in Conns /\ e.udata \in Addresses /\ e.conn # c /\ e.udata = knote[e.conn]
    <3>1. e.conn \in Conns /\ e.udata \in Addresses /\ e.udata = knote[e.conn]
      BY DEF TypeOK, Event, EventsKnown
    <3> QED  BY <1>3, <3>1
  <2>2. ASSUME NEW e \in events, ~e.eof, shared' = {}
        PROVE  heap'[e.udata] # None
    BY <1>2, <1>3, <2>1, <2>2 DEF EventsKnown
  <2> QED  BY <1>1, <1>3, <2>1, <2>2 DEF EventsKnown
<1>9. Listed'
  <2>1. ASSUME shared' = {}
        PROVE  /\ Once(receive_sockets_')
               /\ \A b \in AddressesOf(receive_sockets_') : heap'[b] # None
    <3>1. shared = {} /\ a \notin AddressesOf(receive_sockets_)
      BY <1>1, <1>2, <2>1 DEF Listed
    <3>2. AddressesOf(receive_sockets_) \subseteq Addresses
      BY DEF TypeOK, AddressesOf
    <3> QED  BY <1>3, <1>4, <3>1, <3>2 DEF Listed
  <2>2. \A b \in Addresses : heap'[b] # None => b \in AddressesOf(receive_sockets_')
    BY <1>3, <1>4 DEF Listed
  <2> QED  BY <2>1, <2>2 DEF Listed
<1>10. pc' = "accept" /\ \A d \in Conns : unread'[d] <= sent'[d]
  BY <1>1
<1> QED  BY <1>5, <1>6, <1>7, <1>8, <1>9, <1>10 DEF RoundKnown

LEMMA RoundStep ==
  ASSUME ServerInvariant, roundBegins \/ sendAndRecv \/ sendAndRecvFreed \/ roundEnds
  PROVE  ServerInvariant'
<1> USE ServerAssumption DEF ServerInvariant
<1>1. CASE roundBegins
  <2>1. /\ unvisited' = receive_sockets_ /\ recv' = FALSE /\ pc' = "recv"
        /\ left' = [c \in Conns |->
                      IF conn[c] = "accepted" /\ c \notin closed THEN Read(c) ELSE 0]
        /\ pc = "polled"
        /\ UNCHANGED <<conn, closed, unread, sent, knote, heap, receive_sockets_, events,
                       have_new_connection, shared>>
    BY <1>1 DEF roundBegins, Visited, kernel, poll_
  <2>2. TypeOK'
    <3>1. left' \in [Conns -> 0 .. RecvRoom]
      BY <2>1 DEF TypeOK, Read
    <3> QED  BY <2>1, <3>1 DEF TypeOK
  <2>3. \A b : b \in AddressesOf(receive_sockets_)
               <=> \E i \in 1 .. Len(receive_sockets_) : receive_sockets_[i] = b
    BY DEF AddressesOf, TypeOK
  <2>4. RoundKnown'
    <3>1. ASSUME NEW c \in Conns \ shared, left'[c] > 0
          PROVE  /\ left'[c] <= unread[c]
                 /\ \E i \in 1 .. Len(receive_sockets_) : heap[receive_sockets_[i]] = c
      <4>1. conn[c] = "accepted" /\ c \notin closed /\ left'[c] = Read(c)
        BY <2>1, <3>1
      <4>2. left'[c] <= unread[c]
        BY <4>1 DEF Read, TypeOK
      <4>3. knote[c] \in Addresses /\ heap[knote[c]] = c
        BY <2>1, <3>1, <4>1 DEF TypeOK, KnotesKnown, SocketsKept
      <4>4. knote[c] \in AddressesOf(receive_sockets_)
        BY <4>3 DEF Listed
      <4> QED  BY <2>3, <4>2, <4>3, <4>4
    <3>2. shared = {} =>
            \A i \in 1 .. Len(receive_sockets_) : heap[receive_sockets_[i]] # None
      BY <2>3 DEF Listed
    <3> QED  BY <2>1, <3>1, <3>2 DEF RoundKnown
  <2>5. KnotesKnown' /\ SocketsKept' /\ EventsKnown' /\ Listed'
    BY <1>1, <2>1 DEF roundBegins, KnotesKnown, SocketsKept, EventsKnown, Listed
  <2> QED  BY <2>1, <2>2, <2>4, <2>5
<1>2. CASE sendAndRecv
  <2> DEFINE c == heap[Head(unvisited)]
  <2>1. /\ pc = "recv" /\ unvisited # <<>> /\ c # None
        /\ unread' = [unread EXCEPT ![c] = @ - Read(c)]
        /\ left' = [left EXCEPT ![c] = IF @ <= Read(c) THEN 0 ELSE @ - Read(c)]
        /\ recv' = (recv \/ unread[c] > 0) /\ unvisited' = Tail(unvisited)
        /\ UNCHANGED <<conn, closed, sent, knote, heap, receive_sockets_, events,
                       have_new_connection, pc, shared>>
    BY <1>2 DEF sendAndRecv, poll_
  <2>2. /\ Len(unvisited) \in Nat /\ Len(unvisited) >= 1 /\ Head(unvisited) = unvisited[1]
        /\ unvisited[1] \in Addresses /\ unvisited' \in Seq(Addresses)
        /\ Len(unvisited') = Len(unvisited) - 1
        /\ \A i \in 1 .. Len(unvisited') : unvisited'[i] = unvisited[i + 1]
    BY <2>1 DEF TypeOK
  <2>3. c \in Conns /\ c = heap[unvisited[1]]
    BY <2>1, <2>2 DEF TypeOK
  <2> HIDE DEF c
  <2>4. /\ unread[c] \in 0 .. MaxMessages /\ left[c] \in 0 .. RecvRoom
        /\ Read(c) \in Nat /\ Read(c) <= unread[c]
        /\ left[c] <= unread[c] => left[c] <= Read(c)
    BY <2>3 DEF TypeOK, Read
  <2>5. /\ unread'[c] = unread[c] - Read(c)
        /\ \A d \in Conns : d # c => unread'[d] = unread[d] /\ left'[d] = left[d]
        /\ left'[c] = IF left[c] <= Read(c) THEN 0 ELSE left[c] - Read(c)
    BY <2>1, <2>3 DEF TypeOK
  <2>6. unread' \in [Conns -> 0 .. MaxMessages]
    <3>1. unread[c] - Read(c) \in 0 .. MaxMessages
      BY <2>4
    <3> QED  BY <2>1, <3>1 DEF TypeOK
  <2>7. left' \in [Conns -> 0 .. RecvRoom]
    <3>1. (IF left[c] <= Read(c) THEN 0 ELSE left[c] - Read(c)) \in 0 .. RecvRoom
      BY <2>4
    <3> QED  BY <2>1, <3>1 DEF TypeOK
  <2>8. /\ unread' \in [Conns -> 0 .. MaxMessages] /\ recv' \in BOOLEAN
        /\ \A d \in Conns : unread'[d] <= sent'[d]
    <3>1. recv' \in BOOLEAN
      BY <2>1
    <3>2. ASSUME NEW d \in Conns  PROVE unread'[d] <= sent'[d]
      <4>1. unread[d] <= sent[d] /\ sent'[d] = sent[d] /\ unread[d] \in Nat /\ sent[d] \in Nat
        BY <2>1 DEF TypeOK
      <4> QED  BY <2>3, <2>4, <2>5, <4>1
    <3> QED  BY <2>6, <3>1, <3>2
  <2>9. TypeOK'
    BY <2>1, <2>2, <2>8, <2>7 DEF TypeOK
  <2>10. RoundKnown'
    <3>1. ASSUME NEW d \in Conns \ shared, left'[d] > 0
          PROVE  /\ left'[d] <= unread'[d]
                 /\ \E i \in 1 .. Len(unvisited') : heap'[unvisited'[i]] = d
      <4>0. c \notin shared => left'[c] = 0
        <5>1. c \notin shared /\ left[c] > 0 => left[c] <= unread[c]
          BY <2>1, <2>3 DEF RoundKnown
        <5> QED  BY <2>4, <2>5, <5>1
      <4>1. d # c /\ left'[d] = left[d] /\ unread'[d] = unread[d] /\ left[d] > 0
        BY <2>5, <2>3, <3>1, <4>0
      <4>2. PICK i \in 1 .. Len(unvisited) : heap[unvisited[i]] = d /\ left[d] <= unread[d]
        BY <2>1, <3>1, <4>1 DEF RoundKnown
      <4>3. i # 1
        BY <2>3, <4>1, <4>2
      <4>4. i - 1 \in 1 .. Len(unvisited') /\ (i - 1) + 1 = i
        BY <2>2, <4>3
      <4>5. heap'[unvisited'[i - 1]] = d
        BY <2>1, <2>2, <4>2, <4>4
      <4> QED  BY <4>1, <4>2, <4>4, <4>5
    <3>2. ASSUME shared' = {}, NEW i \in 1 .. Len(unvisited')
          PROVE  heap'[unvisited'[i]] # None
      <4>1. i + 1 \in 1 .. Len(unvisited)
        BY <2>2, <3>2
      <4> QED  BY <2>1, <2>2, <3>2, <4>1 DEF RoundKnown
    <3> QED  BY <2>1, <3>1, <3>2 DEF RoundKnown
  <2>11. KnotesKnown' /\ SocketsKept' /\ EventsKnown' /\ Listed'
    BY <2>1 DEF KnotesKnown, SocketsKept, EventsKnown, Listed
  <2> QED  BY <2>1, <2>8, <2>9, <2>10, <2>11
<1>3. CASE sendAndRecvFreed
  <2>1. /\ pc = "recv" /\ unvisited # <<>> /\ heap[Head(unvisited)] = None /\ pc' = "corrupt"
        /\ UNCHANGED <<conn, closed, unread, sent, knote, heap, receive_sockets_, events,
                       have_new_connection, unvisited, recv, left, shared>>
    BY <1>3 DEF sendAndRecvFreed, kernel, poll_, round
  <2>2. Len(unvisited) \in Nat /\ Len(unvisited) >= 1 /\ Head(unvisited) = unvisited[1]
    BY <2>1 DEF TypeOK
  <2>3. closed # {}
    BY <2>1, <2>2 DEF RoundKnown, SocketsKept
  <2>4. TypeOK'
    BY <2>1 DEF TypeOK
  <2> QED
    BY <2>1, <2>3, <2>4 DEF KnotesKnown, SocketsKept, EventsKnown, Listed, RoundKnown
<1>4. CASE roundEnds
  BY <1>4
  DEF roundEnds, TypeOK, KnotesKnown, SocketsKept, EventsKnown, Listed, RoundKnown, kernel,
      poll_, round
<1> QED  BY <1>1, <1>2, <1>3, <1>4

LEMMA ServerStep ==
  ASSUME ServerInvariant, [Next]_vars
  PROVE  ServerInvariant'
<1> USE DEF ServerInvariant
<1>1. CASE listen \/ eventsDone \/ acceptsDone
  <2>1. /\ pc # "exit" /\ pc' \in {"idle", "exit", "accept", "polled"}
        /\ have_new_connection' \in BOOLEAN
        /\ UNCHANGED <<conn, closed, unread, sent, knote, heap, receive_sockets_, events,
                       unvisited, recv, left, shared>>
    BY <1>1 DEF listen, eventsDone, acceptsDone, TypeOK, kernel, poll_, round
  <2>2. TypeOK'
    BY <2>1 DEF TypeOK
  <2>3. KnotesKnown' /\ SocketsKept' /\ EventsKnown' /\ Listed' /\ RoundKnown'
    BY <2>1 DEF KnotesKnown, SocketsKept, EventsKnown, Listed, RoundKnown
  <2> QED  BY <2>1, <2>2, <2>3
<1>2. ASSUME NEW c \in Conns, acceptFails(c)
      PROVE  ServerInvariant'
  <2>1. /\ conn' = [conn EXCEPT ![c] = "accepted"] /\ pc' = "exit"
        /\ UNCHANGED <<closed, unread, sent, knote, heap, receive_sockets_, events,
                       have_new_connection, unvisited, recv, left, shared>>
    BY <1>2 DEF acceptFails, poll_, round
  <2>2. TypeOK'
    BY <2>1 DEF TypeOK
  <2>3. KnotesKnown'
    BY <2>1 DEF KnotesKnown, TypeOK
  <2> QED  BY <2>1, <2>2, <2>3 DEF SocketsKept, EventsKnown, Listed, RoundKnown
<1>3. CASE UNCHANGED vars
  BY <1>3
  DEF vars, TypeOK, KnotesKnown, SocketsKept, EventsKnown, Listed, RoundKnown
<1> QED
  BY <1>1, <1>2, <1>3, PeerStep, KeventStep, HandleEventStep, AcceptStep, RoundStep
  DEF Next, Server, Poll, acceptOne, Over

LEMMA ServerInit ==
  ASSUME Init
  PROVE  ServerInvariant
<1> USE ServerAssumption DEF Init
<1>1. TypeOK
  <2>1. have_new_connection \in BOOLEAN /\ recv \in BOOLEAN
    OBVIOUS
  <2>2. receive_sockets_ \in Seq(Addresses) /\ unvisited \in Seq(Addresses)
    OBVIOUS
  <2>3. /\ conn \in [Conns -> {"none", "backlog", "accepted"}]
        /\ unread \in [Conns -> 0 .. MaxMessages] /\ sent \in [Conns -> 0 .. MaxMessages]
        /\ knote \in [Conns -> Addresses \cup {None}]
        /\ heap \in [Addresses -> Conns \cup {None}]
        /\ left \in [Conns -> 0 .. RecvRoom]
    OBVIOUS
  <2>4. /\ closed \subseteq Conns /\ shared \subseteq Conns
        /\ events \subseteq Event
        /\ pc \in {"listen", "idle", "events", "accept", "polled", "recv", "corrupt", "exit"}
    OBVIOUS
  <2> QED  BY <2>1, <2>2, <2>3, <2>4, Zenon DEF TypeOK
<1>2. AddressesOf(receive_sockets_) = {}
  BY DEF AddressesOf
<1> QED
  BY <1>1, <1>2
  DEF ServerInvariant, KnotesKnown, SocketsKept, EventsKnown, Listed, Once, RoundKnown

LEMMA ServerInvariantHolds == Spec => []ServerInvariant
<1>1. Init => ServerInvariant
  BY ServerInit
<1>2. ServerInvariant /\ [Next]_vars => ServerInvariant'
  BY ServerStep
<1> QED  BY <1>1, <1>2, PTL DEF Spec

-----------------------------------------------------------------------------
(* The theorems.                                                           *)

\* For any number of connections: receive_sockets_ lists every allocated
\* TCPSocket, and exactly those, each once, until one is allocated where another
\* was deleted.
THEOREM ServerTrackedAlive == Spec => []TrackedAlive
<1>1. ServerInvariant => TrackedAlive
  <2> SUFFICES ASSUME ServerInvariant  PROVE TrackedAlive
    OBVIOUS
  <2>1. receive_sockets_ \in Seq(Addresses)
    BY DEF ServerInvariant, TypeOK
  <2>2. AddressesOf(receive_sockets_) \subseteq Addresses
    BY <2>1 DEF AddressesOf
  <2>3. Once(receive_sockets_) =>
          Len(receive_sockets_) = Cardinality(AddressesOf(receive_sockets_))
    BY <2>1, OnceCounted
  <2> QED  BY <2>2, <2>3 DEF ServerInvariant, TrackedAlive, Listed
<1> QED  BY <1>1, ServerInvariantHolds, PTL

\* For any number of connections: whom the server no longer serves has closed or
\* shares an address, and nothing is deleted twice or read after it was deleted
\* before some peer has closed.
THEOREM ServerDropsJustified == Spec => []DropsJustified
<1>1. ServerInvariant => DropsJustified
  <2> SUFFICES ASSUME ServerInvariant  PROVE DropsJustified
    OBVIOUS
  <2> USE ServerAssumption DEF ServerInvariant
  <2>1. ASSUME NEW c \in Conns, conn[c] = "accepted", pc # "exit", c \notin closed \cup shared
        PROVE  c \in TrackedConns
    <3>1. knote[c] \in Addresses /\ heap[knote[c]] = c
      BY <2>1 DEF TypeOK, KnotesKnown, SocketsKept
    <3>2. knote[c] \in AddressesOf(receive_sockets_)
      BY <3>1 DEF Listed
    <3> QED  BY <3>1, <3>2 DEF TrackedConns
  <2> QED  BY <2>1 DEF DropsJustified
<1> QED  BY <1>1, ServerInvariantHolds, PTL

\* For any number of connections: when recv_finished_callback_ may be called, every
\* connection that was accepted and not closed at the beginning of the round has
\* been read, up to a buffer full of what it held, unless it shares its address.
THEOREM ServerAllReadByRoundEnd == Spec => []AllReadByRoundEnd
<1>1. ServerInvariant => AllReadByRoundEnd
  <2> SUFFICES ASSUME ServerInvariant, pc = "recv", unvisited = <<>>, NEW c \in Conns \ shared
               PROVE  left[c] = 0
    BY DEF AllReadByRoundEnd
  <2>1. left[c] \in Nat
    BY ServerAssumption DEF ServerInvariant, TypeOK
  <2>2. Len(unvisited) = 0
    OBVIOUS
  <2>3. ~(left[c] > 0)
    BY <2>2 DEF ServerInvariant, RoundKnown
  <2> QED  BY <2>1, <2>3
<1> QED  BY <1>1, ServerInvariantHolds, PTL

=============================================================================
