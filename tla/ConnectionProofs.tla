-------------------------- MODULE ConnectionProofs --------------------------
(***************************************************************************)
(* A connection, for every size of the buffers and every number of bytes.  *)
(***************************************************************************)
EXTENDS Connection, SequenceTheorems, TLAPS

-----------------------------------------------------------------------------
(* createSocket().                                                         *)

\* The calls before the next one have been made if the configuration asks for
\* them, and no other; what is missing is due to one of the failures that go
\* unnoticed.
CallsMade ==
  /\ \A i \in (1 .. 9) \ {3, 5} :
       Setup!Order[i] \in fd <=> (i < at /\ Setup!Order[i] \in Setup!Asked(cfg))
  /\ "setNonBlocking" \in fd <=> (at > 3 /\ "F_GETFL" \notin failed)
  /\ "F_GETFL" \in failed => at > 3

ConnectMade ==
  /\ (link # "none" \/ "connect" \in failed) <=> (at > 5 /\ "connect" \in Setup!Asked(cfg))
  /\ status = "blocked" =>
       at = 5 /\ "F_GETFL" \in failed /\ "connect" \in Setup!Asked(cfg)

FailuresKnown ==
  /\ status # "exit" => failed \subseteq {"F_GETFL", "connect"}
  /\ status = "returned" => at = 10

SetupInvariant == Setup!TypeOK /\ CallsMade /\ ConnectMade /\ FailuresKnown

LEMMA OrderKnown ==
  /\ Len(Setup!Order) = 9
  /\ Setup!Order[1] = "getaddrinfo" /\ Setup!Order[2] = "socket"
  /\ Setup!Order[3] = "setNonBlocking" /\ Setup!Order[4] = "disableNagle"
  /\ Setup!Order[5] = "connect" /\ Setup!Order[6] = "reuseAddress"
  /\ Setup!Order[7] = "bind" /\ Setup!Order[8] = "listen"
  /\ Setup!Order[9] = "setSOTimestamp"
BY DEF Setup!Order

LEMMA OrderInjective ==
  \A i, j \in 1 .. 9 : Setup!Order[i] = Setup!Order[j] => i = j
BY OrderKnown

LEMMA SetupInit ==
  ASSUME Setup!Init
  PROVE  SetupInvariant
<1> USE DEF Setup!Init
<1>1. at \in 1 .. Len(Setup!Order) + 1 /\ fd \subseteq Setup!Calls
  BY OrderKnown
<1>2. lingers \in BOOLEAN /\ iface \in {"given", "known", "unknown"}
  OBVIOUS
<1>3. Setup!TypeOK
  BY <1>1, <1>2 DEF Setup!TypeOK
<1>4. CallsMade /\ ConnectMade /\ FailuresKnown
  BY OrderKnown DEF CallsMade, ConnectMade, FailuresKnown
<1> QED  BY <1>3, <1>4 DEF SetupInvariant

LEMMA CreateStep ==
  ASSUME SetupInvariant, Setup!createSocket
  PROVE  SetupInvariant'
<1> USE DEF SetupInvariant
<1>1. at \in 1 .. 10 /\ cfg' = cfg
  BY OrderKnown
  DEF Setup!TypeOK, Setup!createSocket, Setup!notAsked, Setup!succeeds, Setup!fails,
      Setup!flagsUnread, Setup!connect, Setup!connectReturns, Setup!connectBlocks,
      Setup!unblocked, Setup!returns
<1>2. /\ "connect" \in Setup!Calls /\ "setNonBlocking" \in Setup!Asked(cfg)
      /\ Setup!Asked(cfg)' = Setup!Asked(cfg)
  BY <1>1, OrderKnown DEF Setup!Calls, Setup!Order, Setup!Asked
<1>3. CASE Setup!notAsked
  <2>1. /\ at \in 1 .. 9 /\ Setup!Order[at] \notin Setup!Asked(cfg) /\ at' = at + 1
        /\ status = "running" /\ UNCHANGED <<cfg, iface, lingers, fd, link, failed, status>>
    BY <1>1, <1>3, OrderKnown DEF Setup!notAsked
  <2>2. at # 3
    BY <1>2, <2>1, OrderKnown
  <2>3. Setup!TypeOK'
    BY <2>1, OrderKnown DEF Setup!TypeOK
  <2>4. CallsMade'
    BY <1>2, <2>1, <2>2 DEF CallsMade
  <2>5. ConnectMade' /\ FailuresKnown'
    BY <1>2, <2>1, OrderKnown DEF ConnectMade, FailuresKnown
  <2> QED  BY <2>3, <2>4, <2>5
<1>4. ASSUME NEW s \in Setup!Calls, Setup!succeeds(s)
      PROVE  SetupInvariant'
  <2>1. /\ at \in 1 .. 9 /\ s = Setup!Order[at] /\ s \in Setup!Asked(cfg) /\ s # "connect"
        /\ fd' = fd \cup {s} /\ at' = at + 1 /\ status = "running"
        /\ UNCHANGED <<cfg, iface, lingers, link, failed, status>>
    BY <1>1, <1>4, OrderKnown DEF Setup!succeeds, Setup!At
  <2>2. Setup!TypeOK'
    BY <2>1, OrderKnown DEF Setup!TypeOK
  <2>3. at # 5 /\ (s = "setNonBlocking" <=> at = 3)
    BY <2>1, OrderKnown
  <2>4. CallsMade'
    <3>1. \A i \in (1 .. 9) \ {3, 5} :
            (Setup!Order[i] \in fd <=> (i < at /\ Setup!Order[i] \in Setup!Asked(cfg)))'
      BY <1>2, <2>1, <2>3, OrderInjective DEF CallsMade
    <3>2. /\ "setNonBlocking" \in fd' <=> (at' > 3 /\ "F_GETFL" \notin failed')
          /\ "F_GETFL" \in failed' => at' > 3
      BY <2>1, <2>3 DEF CallsMade
    <3> QED  BY <3>1, <3>2 DEF CallsMade
  <2>5. ConnectMade' /\ FailuresKnown'
    BY <1>2, <2>1, <2>3 DEF ConnectMade, FailuresKnown
  <2> QED  BY <2>2, <2>4, <2>5
<1>5. ASSUME NEW s \in Setup!Calls, Setup!fails(s)
      PROVE  SetupInvariant'
  <2>1. /\ s # "connect" /\ failed' = failed \cup {s} /\ status' = "exit"
        /\ UNCHANGED <<cfg, iface, lingers, at, fd, link>>
    BY <1>5 DEF Setup!fails
  <2>2. s # "F_GETFL"
    BY OrderKnown DEF Setup!Calls, Setup!Order
  <2>3. Setup!TypeOK'
    BY <2>1 DEF Setup!TypeOK
  <2>4. CallsMade' /\ ConnectMade' /\ FailuresKnown'
    BY <1>2, <2>1, <2>2 DEF CallsMade, ConnectMade, FailuresKnown
  <2> QED  BY <2>3, <2>4
<1>6. CASE Setup!flagsUnread
  <2>1. /\ at = 3 /\ status = "running" /\ failed' = failed \cup {"F_GETFL"} /\ at' = 4
        /\ UNCHANGED <<cfg, iface, lingers, fd, link, status>>
    BY <1>1, <1>6, OrderKnown DEF Setup!flagsUnread, Setup!At
  <2>2. Setup!TypeOK'
    BY <2>1, OrderKnown DEF Setup!TypeOK
  <2>3. CallsMade'
    BY <1>2, <2>1 DEF CallsMade
  <2>4. ConnectMade' /\ FailuresKnown'
    BY <1>2, <2>1 DEF ConnectMade, FailuresKnown
  <2> QED  BY <2>2, <2>3, <2>4
<1>7. ASSUME at = 5, status # "exit", "connect" \in Setup!Asked(cfg), NEW links,
             links \subseteq {"connecting", "connected"}, Setup!connectReturns(links)
      PROVE  SetupInvariant'
  <2>1. /\ at' = 6 /\ status' = "running" /\ UNCHANGED <<cfg, iface, lingers, fd>>
        /\ \/ link' \in {"connecting", "connected"} /\ failed' = failed
           \/ link' = link /\ failed' = failed \cup {"connect"}
    <3>1. at' = 6
      BY <1>7 DEF Setup!connectReturns
    <3>2. status' = "running" /\ UNCHANGED <<cfg, iface, lingers, fd>>
      BY <1>7, Zenon DEF Setup!connectReturns
    <3>3. \/ link' \in links /\ failed' = failed
          \/ link' = link /\ failed' = failed \cup {"connect"}
      BY <1>7 DEF Setup!connectReturns
    <3> QED  BY <1>7, <3>1, <3>2, <3>3
  <2>2. Setup!TypeOK'
    BY <1>2, <2>1, OrderKnown DEF Setup!TypeOK
  <2>3. CallsMade'
    BY <1>2, <1>7, <2>1 DEF CallsMade
  <2>4. ConnectMade' /\ FailuresKnown'
    BY <1>2, <1>7, <2>1 DEF ConnectMade, FailuresKnown
  <2> QED  BY <2>2, <2>3, <2>4
<1>8. CASE Setup!connect
  <2>1. at = 5 /\ status = "running" /\ "connect" \in Setup!Asked(cfg)
    BY <1>1, <1>8, OrderKnown DEF Setup!connect, Setup!At
  <2>2. PICK links \in SUBSET {"connecting", "connected"} : Setup!connectReturns(links)
    BY <1>8 DEF Setup!connect
  <2> QED  BY <1>7, <2>1, <2>2
<1>9. CASE Setup!unblocked
  <2>1. at = 5 /\ status = "blocked" /\ "connect" \in Setup!Asked(cfg)
    BY <1>9 DEF Setup!unblocked, ConnectMade
  <2>2. Setup!connectReturns({"connected"})
    BY <1>9 DEF Setup!unblocked
  <2> QED  BY <1>7, <2>1, <2>2
<1>10. CASE Setup!connectBlocks
  <2>1. /\ at = 5 /\ status = "running" /\ "connect" \in Setup!Asked(cfg)
        /\ "setNonBlocking" \notin fd /\ status' = "blocked"
        /\ UNCHANGED <<cfg, iface, lingers, at, fd, link, failed>>
    BY <1>1, <1>10, OrderKnown DEF Setup!connectBlocks, Setup!At, Setup!Waits
  <2>2. "F_GETFL" \in failed
    BY <2>1 DEF CallsMade
  <2>3. Setup!TypeOK'
    BY <2>1 DEF Setup!TypeOK
  <2>4. CallsMade' /\ ConnectMade' /\ FailuresKnown'
    BY <1>2, <2>1, <2>2 DEF CallsMade, ConnectMade, FailuresKnown
  <2> QED  BY <2>3, <2>4
<1>11. CASE Setup!returns
  <2>1. Setup!TypeOK'
    BY <1>11 DEF Setup!returns, Setup!TypeOK
  <2>2. CallsMade' /\ ConnectMade' /\ FailuresKnown'
    BY <1>2, <1>11, OrderKnown DEF Setup!returns, CallsMade, ConnectMade, FailuresKnown
  <2> QED  BY <2>1, <2>2
<1> QED
  BY <1>3, <1>4, <1>5, <1>6, <1>8, <1>9, <1>10, <1>11 DEF Setup!createSocket

LEMMA SetupStep ==
  ASSUME SetupInvariant, [CNext]_cvars
  PROVE  SetupInvariant'
<1>1. CASE Setup!createSocket
  BY <1>1, CreateStep
<1>2. CASE Setup!decided
  BY <1>2
  DEF SetupInvariant, Setup!decided, Setup!TypeOK, CallsMade, ConnectMade, FailuresKnown,
      Setup!Asked
<1>3. CASE UNCHANGED setup
  BY <1>3
  DEF SetupInvariant, setup, Setup!TypeOK, CallsMade, ConnectMade, FailuresKnown, Setup!Asked
<1> QED
  BY <1>1, <1>2, <1>3
  DEF CNext, cvars, connecting, deciding, unconnected, streaming, writing, Exited, HandedOver

\* Whatever calls fail, except for what a failing connect() or fcntl(F_GETFL)
\* leaves undone: createSocket() does not wait for the peer, bind() meets a
\* lingering port only with SO_REUSEADDR set, and a descriptor that is returned
\* can do what its configuration says.
THEOREM ConnectionReturnedConfigured == CSpec => []ReturnedConfigured
<1>1. CInit => SetupInvariant
  BY SetupInit DEF CInit
<1>2. SetupInvariant /\ [CNext]_cvars => SetupInvariant'
  BY SetupStep
<1>3. SetupInvariant => ReturnedConfigured
  <2> SUFFICES ASSUME SetupInvariant  PROVE ReturnedConfigured
    OBVIOUS
  <2> USE DEF SetupInvariant
  <2>1. Setup!TypeOK /\ (status = "blocked" => "F_GETFL" \in failed)
    BY DEF ConnectMade
  <2>2. ASSUME Setup!At("bind"), "bind" \in Setup!Asked(cfg)
        PROVE  Setup!Possible("bind")
    <3>1. at = 7
      BY <2>1, <2>2, OrderKnown DEF Setup!At, Setup!TypeOK
    <3>2. cfg.is_listening /\ "reuseAddress" \in Setup!Asked(cfg)
      BY <2>2 DEF Setup!Asked
    <3>3. "reuseAddress" \in fd
      BY <3>1, <3>2, OrderKnown DEF CallsMade
    <3> QED  BY <3>3 DEF Setup!Possible
  <2>3. ASSUME status = "returned"
        PROVE  /\ failed \subseteq {"F_GETFL", "connect"}
               /\ "setNonBlocking" \in fd \/ "F_GETFL" \in failed
               /\ cfg.is_listening <=> "bind" \in fd
               /\ cfg.is_listening <=> (link = "none" /\ "connect" \notin failed)
               /\ ~cfg.is_udp <=> "disableNagle" \in fd
               /\ (cfg.is_listening /\ ~cfg.is_udp) <=> "listen" \in fd
               /\ cfg.needs_so_timestamp <=> "setSOTimestamp" \in fd
    <3>1. at = 10 /\ failed \subseteq {"F_GETFL", "connect"}
      BY <2>3 DEF FailuresKnown
    <3>2. /\ "bind" \in fd <=> "bind" \in Setup!Asked(cfg)
          /\ "disableNagle" \in fd <=> "disableNagle" \in Setup!Asked(cfg)
          /\ "listen" \in fd <=> "listen" \in Setup!Asked(cfg)
          /\ "setSOTimestamp" \in fd <=> "setSOTimestamp" \in Setup!Asked(cfg)
      BY <3>1, OrderKnown DEF CallsMade
    <3>3. "setNonBlocking" \in fd \/ "F_GETFL" \in failed
      BY <3>1 DEF CallsMade
    <3>4. /\ "bind" \in Setup!Asked(cfg) <=> cfg.is_listening
          /\ "connect" \in Setup!Asked(cfg) <=> ~cfg.is_listening
          /\ "disableNagle" \in Setup!Asked(cfg) <=> ~cfg.is_udp
          /\ "listen" \in Setup!Asked(cfg) <=> (cfg.is_listening /\ ~cfg.is_udp)
          /\ "setSOTimestamp" \in Setup!Asked(cfg) <=> cfg.needs_so_timestamp
      BY DEF Setup!Asked
    <3>5. (link = "none" /\ "connect" \notin failed) <=> "connect" \notin Setup!Asked(cfg)
      BY <3>1 DEF ConnectMade
    <3> QED  BY <3>1, <3>2, <3>3, <3>4, <3>5
  <2> QED  BY <2>1, <2>2, <2>3 DEF ReturnedConfigured, Setup!ReturnedConfigured
<1> QED  BY <1>1, <1>2, <1>3, PTL DEF CSpec

-----------------------------------------------------------------------------
(* Sequences of bytes.                                                     *)

\* The bytes rise, and none was written after byte w.
Rising(s, w) ==
  /\ \A i \in 1 .. Len(s) : s[i] <= w
  /\ \A i \in 1 .. (Len(s) - 1) : s[i] < s[i + 1]

Upto(n)     == [i \in 1 .. n |-> i]
After(w, n) == [i \in 1 .. n |-> w + i]

LEMMA UptoKnown ==
  ASSUME NEW n \in Nat
  PROVE  Upto(n) \in Seq(Nat) /\ Len(Upto(n)) = n /\ \A i \in 1 .. n : Upto(n)[i] = i
BY DEF Upto

LEMMA AfterKnown ==
  ASSUME NEW w \in Nat, NEW n \in Nat
  PROVE  /\ After(w, n) \in Seq(Nat) /\ Len(After(w, n)) = n
         /\ \A i \in 1 .. n : After(w, n)[i] = w + i
BY DEF After

LEMMA Joined ==
  ASSUME NEW s \in Seq(Nat), NEW t \in Seq(Nat)
  PROVE  /\ s \o t \in Seq(Nat) /\ Len(s) \in Nat /\ Len(t) \in Nat
         /\ Len(s \o t) = Len(s) + Len(t)
         /\ \A i \in 1 .. Len(s) : (s \o t)[i] = s[i]
         /\ \A i \in (Len(s) + 1) .. (Len(s) + Len(t)) :
              i - Len(s) \in 1 .. Len(t) /\ (s \o t)[i] = t[i - Len(s)]
<1>1. Len(s) \in Nat /\ Len(t) \in Nat
  OBVIOUS
<1>2. /\ s \o t \in Seq(Nat) /\ Len(s \o t) = Len(s) + Len(t)
      /\ \A i \in 1 .. Len(s) + Len(t) :
           (s \o t)[i] = IF i <= Len(s) THEN s[i] ELSE t[i - Len(s)]
  BY ConcatProperties
<1> QED  BY <1>1, <1>2

\* Writing n bytes more.
LEMMA RisingExtended ==
  ASSUME NEW s \in Seq(Nat), NEW w \in Nat, NEW n \in Nat, Rising(s, w)
  PROVE  Rising(s \o After(w, n), w + n)
<1> DEFINE a == After(w, n)
           t == s \o a
<1>1. a \in Seq(Nat) /\ Len(a) = n /\ \A i \in 1 .. n : a[i] = w + i
  BY AfterKnown
<1> HIDE DEF a
<1>2. /\ Len(s) \in Nat /\ Len(t) = Len(s) + n
      /\ \A i \in 1 .. Len(s) : t[i] = s[i]
      /\ \A i \in (Len(s) + 1) .. (Len(s) + n) : i - Len(s) \in 1 .. n /\ t[i] = a[i - Len(s)]
  BY <1>1, Joined
<1>3. \A i \in 1 .. Len(s) : s[i] \in Nat /\ s[i] <= w
  BY DEF Rising
<1> HIDE DEF t
<1>4. \A i \in (Len(s) + 1) .. (Len(s) + n) : t[i] = w + (i - Len(s))
  BY <1>1, <1>2
<1>5. \A i \in 1 .. Len(t) : t[i] <= w + n
  <2> TAKE i \in 1 .. Len(t)
  <2>1. CASE i \in 1 .. Len(s)
    <3>1. t[i] = s[i] /\ s[i] \in Nat /\ s[i] <= w
      BY <1>2, <1>3, <2>1
    <3> QED  BY <3>1
  <2>2. CASE i \in (Len(s) + 1) .. (Len(s) + n)
    BY <1>2, <1>4, <2>2
  <2> QED  BY <1>2, <2>1, <2>2
<1>6. \A i \in 1 .. (Len(t) - 1) : t[i] < t[i + 1]
  <2> TAKE i \in 1 .. (Len(t) - 1)
  <2>1. CASE i \in 1 .. (Len(s) - 1)
    <3>1. s[i] < s[i + 1] /\ i \in 1 .. Len(s) /\ i + 1 \in 1 .. Len(s)
      BY <1>2, <2>1 DEF Rising
    <3> QED  BY <1>2, <3>1
  <2>2. CASE i = Len(s)
    <3>1. i \in 1 .. Len(s) /\ i + 1 \in (Len(s) + 1) .. (Len(s) + n)
      BY <1>2, <2>2
    <3>2. t[i] = s[i] /\ s[i] \in Nat /\ s[i] <= w
      BY <1>2, <1>3, <3>1
    <3>3. t[i + 1] = w + ((i + 1) - Len(s))
      BY <1>4, <3>1
    <3> QED  BY <1>2, <2>2, <3>2, <3>3
  <2>3. CASE i \in (Len(s) + 1) .. (Len(s) + n - 1)
    BY <1>2, <1>4, <2>3
  <2> QED  BY <1>2, <2>1, <2>2, <2>3
<1> QED  BY <1>5, <1>6 DEF Rising, t, a

LEMMA UptoExtended ==
  ASSUME NEW w \in Nat, NEW n \in Nat
  PROVE  Upto(w) \o After(w, n) = Upto(w + n)
<1> DEFINE u == Upto(w)
           a == After(w, n)
           v == Upto(w + n)
           t == u \o a
<1>1. a \in Seq(Nat) /\ Len(a) = n /\ \A i \in 1 .. n : a[i] = w + i
  BY AfterKnown
<1>2. u \in Seq(Nat) /\ Len(u) = w /\ \A i \in 1 .. w : u[i] = i
  BY UptoKnown
<1>3. w + n \in Nat
  OBVIOUS
<1>4. v \in Seq(Nat) /\ Len(v) = w + n /\ \A i \in 1 .. (w + n) : v[i] = i
  BY <1>3, UptoKnown
<1> HIDE DEF a, u, v
<1>5. /\ t \in Seq(Nat) /\ Len(t) = w + n
      /\ \A i \in 1 .. w : t[i] = u[i]
      /\ \A i \in (w + 1) .. (w + n) : i - w \in 1 .. n /\ t[i] = a[i - w]
  BY <1>1, <1>2, Joined
<1> HIDE DEF t
<1>6. \A i \in 1 .. (w + n) : t[i] = v[i]
  <2> TAKE i \in 1 .. (w + n)
  <2>1. CASE i \in 1 .. w
    BY <1>2, <1>4, <1>5, <2>1
  <2>2. CASE i \in (w + 1) .. (w + n)
    <3>1. t[i] = w + (i - w)
      BY <1>1, <1>5, <2>2
    <3> QED  BY <1>4, <3>1
  <2> QED  BY <2>1, <2>2
<1>7. t = v
  BY <1>4, <1>5, <1>6, SeqEqual
<1> QED  BY <1>7 DEF t, u, a, v

\* Dropping bytes at the end.
LEMMA RisingPrefix ==
  ASSUME NEW s \in Seq(Nat), NEW t \in Seq(Nat), NEW w \in Nat, NEW n \in 0 .. Len(s),
         Rising(s, w), Len(t) = n, \A i \in 1 .. n : t[i] = s[i]
  PROVE  Rising(t, w)
<1>1. Len(s) \in Nat
  OBVIOUS
<1>2. \A i \in 1 .. Len(t) : t[i] <= w
  <2> TAKE i \in 1 .. Len(t)
  <2>1. i \in 1 .. n /\ i \in 1 .. Len(s)
    BY <1>1
  <2>2. s[i] <= w
    BY <2>1 DEF Rising
  <2> QED  BY <2>1, <2>2
<1>3. \A i \in 1 .. (Len(t) - 1) : t[i] < t[i + 1]
  <2> TAKE i \in 1 .. (Len(t) - 1)
  <2>1. i \in 1 .. n /\ i + 1 \in 1 .. n /\ i \in 1 .. (Len(s) - 1)
    BY <1>1
  <2>2. s[i] < s[i + 1]
    BY <2>1 DEF Rising
  <2> QED  BY <2>1, <2>2
<1> QED  BY <1>2, <1>3 DEF Rising

\* What comes first when t follows s, or part of t.
LEMMA RisingFirst ==
  ASSUME NEW s \in Seq(Nat), NEW t \in Seq(Nat), NEW w \in Nat, Rising(s \o t, w)
  PROVE  Rising(s, w)
<1>1. /\ s \o t \in Seq(Nat) /\ Len(s) \in 0 .. Len(s \o t)
      /\ \A i \in 1 .. Len(s) : s[i] = (s \o t)[i]
  BY Joined
<1> QED  BY <1>1, RisingPrefix

LEMMA Cut ==
  ASSUME NEW t \in Seq(Nat), NEW n \in 0 .. Len(t)
  PROVE  /\ SubSeq(t, 1, n) \in Seq(Nat) /\ Len(SubSeq(t, 1, n)) = n
         /\ From(t, n + 1) \in Seq(Nat)
         /\ SubSeq(t, 1, n) \o From(t, n + 1) = t
<1>1. Len(t) \in Nat /\ n \in Nat
  OBVIOUS
<1>2. SubSeq(t, 1, n) \in Seq(Nat) /\ Len(SubSeq(t, 1, n)) = n
  BY <1>1
<1>3. From(t, n + 1) \in Seq(Nat)
  BY <1>1 DEF From
<1>4. 1 \in 1 .. Len(t) + 1 /\ n \in (1 - 1) .. Len(t) /\ Len(t) \in n .. Len(t)
  BY <1>1
<1>5. SubSeq(t, 1, n) \o SubSeq(t, n + 1, Len(t)) = SubSeq(t, 1, Len(t))
  BY <1>4, ConcatAdjacentSubSeq
<1>6. SubSeq(t, 1, Len(t)) = t
  BY SubSeqFull
<1> QED  BY <1>2, <1>3, <1>5, <1>6 DEF From

LEMMA Regrouped ==
  ASSUME NEW s \in Seq(Nat), NEW t \in Seq(Nat), NEW u \in Seq(Nat)
  PROVE  (s \o t) \o u = s \o (t \o u)
BY ConcatAssociative, SMTT(30)

LEMMA Padded ==
  ASSUME NEW s \in Seq(Nat)
  PROVE  s \o <<>> = s /\ <<>> \o s = s
BY ConcatEmptySeq

LEMMA RisingPart ==
  ASSUME NEW s \in Seq(Nat), NEW t \in Seq(Nat), NEW n \in 0 .. Len(t), NEW w \in Nat,
         Rising(s \o t, w)
  PROVE  Rising(s \o SubSeq(t, 1, n), w)
<1> DEFINE p == SubSeq(t, 1, n)
           q == From(t, n + 1)
<1>1. p \in Seq(Nat) /\ q \in Seq(Nat) /\ p \o q = t
  BY Cut
<1> HIDE DEF p, q
<1>2. (s \o p) \o q = s \o (p \o q)
  BY <1>1, Regrouped, ZenonT(60)
<1>3. s \o p \in Seq(Nat)
  BY <1>1, Joined
<1>4. Rising((s \o p) \o q, w)
  BY <1>1, <1>2
<1>5. Rising(s \o p, w)
  BY <1>1, <1>3, <1>4, RisingFirst
<1> QED  BY <1>5 DEF p

-----------------------------------------------------------------------------
(* The stream of an end: what it wrote and is not lost, in order.          *)

Stream(e) == Arriving(Peer(e)) \o outbound[e]

\* It rises up to the last byte written, is complete until ::send() takes less
\* than it is offered, and what waits in outbound_data_ was written since the last
\* sendAndRecv().
StreamOf(e) ==
  /\ Rising(Stream(e), written[e])
  /\ ~short[e] => Stream(e) = Upto(written[e])
  /\ Len(outbound[e]) <= burst[e]

StreamInvariant == TypeOK /\ \A e \in Ends : StreamOf(e)

LEMMA EndsKnown ==
  ASSUME NEW e \in Ends
  PROVE  /\ Peer(e) \in Ends /\ Peer(e) # e /\ Peer(Peer(e)) = e
         /\ \A f \in Ends : f = e \/ f = Peer(e)
BY DEF Ends, Peer

LEMMA BuffersKnown ==
  ASSUME TypeOK, NEW e \in Ends
  PROVE  /\ outbound[e] \in Seq(Nat) /\ inbound[e] \in Seq(Nat)
         /\ wire[e] \in Seq(Nat) /\ delivered[e] \in Seq(Nat)
         /\ Arriving(e) \in Seq(Nat)
         /\ written[e] \in Nat /\ burst[e] \in Nat
<1>1. /\ outbound[e] \in Seq(Nat) /\ inbound[e] \in Seq(Nat)
      /\ wire[e] \in Seq(Nat) /\ delivered[e] \in Seq(Nat)
      /\ written[e] \in 0 .. MaxBytes /\ burst[e] \in 0 .. MaxBurst
  BY DEF TypeOK
<1>2. delivered[e] \o inbound[e] \in Seq(Nat)
  BY <1>1, Joined
<1>3. Arriving(e) \in Seq(Nat)
  BY <1>1, <1>2, Joined DEF Arriving
<1> QED  BY <1>1, <1>3, SocketAssumption

LEMMA AtMostKnown ==
  ASSUME NEW a \in Nat, NEW b \in Int, NEW n \in Nat, n <= AtMost(a, b)
  PROVE  n \in 0 .. a
<1>1. CASE a <= b
  BY <1>1 DEF AtMost
<1>2. CASE ~(a <= b)
  BY <1>2 DEF AtMost
<1> QED  BY <1>1, <1>2

LEMMA StreamsBegin ==
  ASSUME Init
  PROVE  StreamInvariant
<1> USE DEF Init
<1>1. <<>> \in Seq(Nat) /\ 0 \in 0 .. MaxBytes /\ 0 \in 0 .. MaxBurst
  BY SocketAssumption
<1>2. TypeOK
  BY <1>1, Zenon DEF TypeOK
<1>3. ASSUME NEW e \in Ends  PROVE StreamOf(e)
  <2>1. <<>> \in Seq(Nat) /\ Len(<<>>) = 0 /\ <<>> \o <<>> = <<>>
    BY <1>1, Padded
  <2>2. outbound[e] = <<>> /\ written[e] = 0 /\ burst[e] = 0
    OBVIOUS
  <2>3. \A f \in Ends : delivered[f] = <<>> /\ inbound[f] = <<>> /\ wire[f] = <<>>
    OBVIOUS
  <2>4. Stream(e) = <<>>
    BY <2>1, <2>2, <2>3, EndsKnown DEF Stream, Arriving
  <2>5. Upto(0) = <<>>
    BY UptoKnown, EmptySeq
  <2>6. Rising(<<>>, 0)
    BY <2>1 DEF Rising
  <2> QED  BY <2>1, <2>2, <2>4, <2>5, <2>6 DEF StreamOf
<1> QED  BY <1>2, <1>3 DEF StreamInvariant

\* A step that neither writes nor loses a byte.
LEMMA StreamsKept ==
  ASSUME StreamInvariant, TypeOK', UNCHANGED <<outbound, written, burst, short>>,
         \A f \in Ends : Arriving(f)' = Arriving(f)
  PROVE  StreamInvariant'
<1>1. ASSUME NEW e \in Ends  PROVE StreamOf(e)'
  <2>1. Stream(e)' = Stream(e)
    BY EndsKnown DEF Stream
  <2> QED  BY <2>1 DEF StreamInvariant, StreamOf
<1> QED  BY <1>1 DEF StreamInvariant

LEMMA SendTyped ==
  ASSUME TypeOK, NEW e \in Ends, NEW len \in Nat, send(e, len)
  PROVE  /\ outbound' \in [Ends -> Seq(Nat)]
         /\ written' \in [Ends -> 0 .. MaxBytes] /\ burst' \in [Ends -> 0 .. MaxBurst]
         /\ outbound' = [outbound EXCEPT ![e] = @ \o After(written[e], len)]
<1>1. written[e] \in Nat /\ burst[e] \in Nat /\ outbound[e] \in Seq(Nat)
  BY BuffersKnown
<1>2. outbound' = [outbound EXCEPT ![e] = @ \o After(written[e], len)]
  BY DEF send, After
<1>3. After(written[e], len) \in Seq(Nat)
  BY <1>1, AfterKnown
<1>4. outbound[e] \o After(written[e], len) \in Seq(Nat)
  BY <1>1, <1>3, Joined
<1>5. outbound' \in [Ends -> Seq(Nat)]
  BY <1>2, <1>4 DEF TypeOK
<1>6. written[e] + len \in 0 .. MaxBytes /\ burst[e] + len \in 0 .. MaxBurst
  BY <1>1, SocketAssumption DEF send
<1>7. written' \in [Ends -> 0 .. MaxBytes] /\ burst' \in [Ends -> 0 .. MaxBurst]
  BY <1>6 DEF TypeOK, send
<1> QED  BY <1>2, <1>5, <1>7

\* send(), wherever it is called from: what it writes follows all that is there.
LEMMA SendStep ==
  ASSUME StreamInvariant, TypeOK', NEW e \in Ends, NEW len \in Nat, send(e, len),
         UNCHANGED short, \A f \in Ends : Arriving(f)' = Arriving(f)
  PROVE  StreamInvariant'
<1> DEFINE a == After(written[e], len)
<1>1. TypeOK
  BY DEF StreamInvariant
<1>2. /\ written[e] \in Nat /\ burst[e] \in Nat /\ outbound[e] \in Seq(Nat)
      /\ Arriving(Peer(e)) \in Seq(Nat)
  BY <1>1, BuffersKnown, EndsKnown
<1>3. a \in Seq(Nat) /\ Len(a) = len
  BY <1>2, AfterKnown
<1>4. /\ outbound'[e] = outbound[e] \o a /\ written'[e] = written[e] + len
      /\ burst'[e] = burst[e] + len
      /\ \A f \in Ends \ {e} : /\ outbound'[f] = outbound[f] /\ written'[f] = written[f]
                               /\ burst'[f] = burst[f]
  <2>1. /\ outbound' = [outbound EXCEPT ![e] = @ \o a]
        /\ written' = [written EXCEPT ![e] = @ + len] /\ burst' = [burst EXCEPT ![e] = @ + len]
    BY <1>1, SendTyped DEF send
  <2> HIDE DEF a
  <2> QED  BY <1>1, <2>1 DEF TypeOK
<1>5. Stream(e)' = Stream(e) \o a
  <2>1. Arriving(Peer(e))' = Arriving(Peer(e))
    BY EndsKnown
  <2> HIDE DEF a
  <2>2. (Arriving(Peer(e)) \o outbound[e]) \o a = Arriving(Peer(e)) \o (outbound[e] \o a)
    BY <1>2, <1>3, Regrouped
  <2> QED  BY <1>4, <2>1, <2>2 DEF Stream
<1>6. Stream(e) \in Seq(Nat)
  BY <1>2, Joined DEF Stream
<1>7. StreamOf(e)
  BY DEF StreamInvariant
<1>8. Rising(Stream(e)', written'[e])
  BY <1>2, <1>4, <1>5, <1>6, <1>7, RisingExtended DEF StreamOf
<1>9. ~short'[e] => Stream(e)' = Upto(written'[e])
  BY <1>2, <1>4, <1>5, <1>7, UptoExtended DEF StreamOf
<1>10. Len(outbound'[e]) <= burst'[e]
  <2> HIDE DEF a
  <2>1. Len(outbound[e] \o a) = Len(outbound[e]) + len /\ Len(outbound[e]) \in Nat
    BY <1>2, <1>3, Joined
  <2> QED  BY <1>2, <1>4, <1>7, <2>1 DEF StreamOf
<1>11. StreamOf(e)'
  BY <1>8, <1>9, <1>10 DEF StreamOf
<1>12. ASSUME NEW f \in Ends, f # e  PROVE StreamOf(f)'
  <2>1. Stream(f)' = Stream(f)
    BY <1>4, <1>12, EndsKnown DEF Stream
  <2> QED  BY <1>4, <1>12, <2>1 DEF StreamOf, StreamInvariant
<1> QED  BY <1>11, <1>12 DEF StreamInvariant

LEMMA RecvStep ==
  ASSUME StreamInvariant, NEW e \in Ends, NEW n \in 1 .. TCPBufferSize, recvmsg(e, n)
  PROVE  StreamInvariant'
<1> DEFINE d == delivered[e]
           i == inbound[e]
           p == SubSeq(wire[e], 1, n)
           q == From(wire[e], n + 1)
<1>1. TypeOK
  BY DEF StreamInvariant
<1>2. d \in Seq(Nat) /\ i \in Seq(Nat) /\ wire[e] \in Seq(Nat)
  BY <1>1, BuffersKnown
<1>3. Len(wire[e]) \in Nat /\ Len(i) \in Nat /\ TCPBufferSize \in Nat
  BY <1>2, SocketAssumption
<1>4. n \in 0 .. Len(wire[e])
  <2>1. n <= AtMost(Len(wire[e]), TCPBufferSize - Len(inbound[e])) /\ n \in Nat
    BY <1>3 DEF recvmsg
  <2>2. TCPBufferSize - Len(inbound[e]) \in Int
    BY <1>3
  <2> QED  BY <1>3, <2>1, <2>2, AtMostKnown
<1>5. p \in Seq(Nat) /\ q \in Seq(Nat) /\ p \o q = wire[e]
  BY <1>2, <1>4, Cut
<1>6. /\ inbound' = [inbound EXCEPT ![e] = i \o p] /\ wire' = [wire EXCEPT ![e] = q]
      /\ pc' = [pc EXCEPT ![e] = "callback"]
      /\ UNCHANGED <<outbound, written, burst, delivered, short>>
  BY DEF recvmsg
<1> HIDE DEF p, q
<1>7. i \o p \in Seq(Nat)
  BY <1>2, <1>5, Joined
<1>8. TypeOK'
  BY <1>1, <1>5, <1>6, <1>7 DEF TypeOK
<1>9. ASSUME NEW f \in Ends  PROVE Arriving(f)' = Arriving(f)
  <2>1. CASE f = e
    <3>1. inbound'[e] = i \o p /\ wire'[e] = q
      BY <1>1, <1>6 DEF TypeOK
    <3> HIDE DEF d, i
    <3>2. d \o (i \o p) = (d \o i) \o p
      BY <1>2, <1>5, Regrouped
    <3>3. d \o i \in Seq(Nat)
      BY <1>2, Joined
    <3>4. ((d \o i) \o p) \o q = (d \o i) \o (p \o q)
      BY <1>5, <3>3, Regrouped
    <3> QED  BY <1>5, <1>6, <2>1, <3>1, <3>2, <3>4 DEF Arriving, d, i
  <2>2. CASE f # e
    BY <1>1, <1>6, <2>2 DEF TypeOK, Arriving
  <2> QED  BY <2>1, <2>2
<1> QED  BY <1>6, <1>8, <1>9, StreamsKept

LEMMA CallbackStep ==
  ASSUME StreamInvariant, NEW e \in Ends, NEW len \in Nat, recv_callback_(e, len)
  PROVE  StreamInvariant'
<1> DEFINE d == delivered[e]
           i == inbound[e]
<1>1. TypeOK
  BY DEF StreamInvariant
<1>2. d \in Seq(Nat) /\ i \in Seq(Nat) /\ wire[e] \in Seq(Nat)
  BY <1>1, BuffersKnown
<1>3. /\ delivered' = [delivered EXCEPT ![e] = d \o i] /\ inbound' = [inbound EXCEPT ![e] = <<>>]
      /\ pc' = [pc EXCEPT ![e] = "publish"] /\ UNCHANGED <<wire, short>> /\ send(e, len)
  BY DEF recv_callback_
<1>4. d \o i \in Seq(Nat) /\ (d \o i) \o <<>> = d \o i
  BY <1>2, Joined, Padded
<1>5. /\ outbound' \in [Ends -> Seq(Nat)] /\ written' \in [Ends -> 0 .. MaxBytes]
      /\ burst' \in [Ends -> 0 .. MaxBurst]
  BY <1>1, <1>3, SendTyped
<1>6. TypeOK'
  <2>1. delivered' \in [Ends -> Seq(Nat)]
    BY <1>1, <1>3, <1>4 DEF TypeOK
  <2>2. inbound' \in [Ends -> Seq(Nat)]
    BY <1>1, <1>3 DEF TypeOK
  <2>3. pc' \in [Ends -> {"idle", "callback", "publish"}]
    BY <1>1, <1>3 DEF TypeOK
  <2> QED  BY <1>1, <1>3, <1>5, <2>1, <2>2, <2>3 DEF TypeOK
<1>7. ASSUME NEW f \in Ends  PROVE Arriving(f)' = Arriving(f)
  <2>1. CASE f = e
    <3>1. delivered'[e] = d \o i /\ inbound'[e] = <<>> /\ wire'[e] = wire[e]
      BY <1>1, <1>3 DEF TypeOK
    <3> QED  BY <1>4, <2>1, <3>1 DEF Arriving
  <2>2. CASE f # e
    BY <1>1, <1>3, <2>2 DEF TypeOK, Arriving
  <2> QED  BY <2>1, <2>2
<1> QED  BY <1>3, <1>6, <1>7, SendStep

LEMMA WriteStep ==
  ASSUME StreamInvariant, NEW e \in Ends, NEW len \in Nat, callerSends(e, len)
  PROVE  StreamInvariant'
<1>1. TypeOK
  BY DEF StreamInvariant
<1>2. send(e, len) /\ UNCHANGED <<inbound, wire, pc, delivered, short>>
  BY DEF callerSends
<1>3. TypeOK'
  BY <1>1, <1>2, SendTyped DEF TypeOK
<1>4. \A f \in Ends : Arriving(f)' = Arriving(f)
  BY <1>2 DEF Arriving
<1> QED  BY <1>2, <1>3, <1>4, SendStep

LEMMA NothingStep ==
  ASSUME StreamInvariant, NEW e \in Ends, recvNothing(e)
  PROVE  StreamInvariant'
<1>1. TypeOK'
  BY DEF StreamInvariant, TypeOK, recvNothing, buffers, GoOnToSend
<1>2. \A f \in Ends : Arriving(f)' = Arriving(f)
  BY DEF Arriving, recvNothing, buffers
<1> QED  BY <1>1, <1>2, StreamsKept DEF recvNothing, buffers

\* ::send() takes n bytes, and the rest is lost.
LEMMA PublishStep ==
  ASSUME StreamInvariant, NEW e \in Ends, NEW n \in Nat, publish(e, n)
  PROVE  StreamInvariant'
<1> DEFINE o == outbound[e]
           p == SubSeq(o, 1, n)
           g == Peer(e)
           h == delivered[g] \o inbound[g]
<1>1. TypeOK
  BY DEF StreamInvariant
<1>2. g \in Ends /\ g # e /\ Peer(g) = e /\ \A f \in Ends : f = e \/ f = g
  BY EndsKnown
<1> HIDE DEF g
<1>3. /\ o \in Seq(Nat) /\ wire[g] \in Seq(Nat) /\ delivered[g] \in Seq(Nat)
      /\ inbound[g] \in Seq(Nat) /\ written[e] \in Nat /\ Arriving(g) \in Seq(Nat)
  BY <1>1, <1>2, BuffersKnown
<1>4. h \in Seq(Nat)
  BY <1>3, Joined
<1>5. Len(o) \in Nat /\ Len(wire[g]) \in Nat /\ KernelBuffer \in Nat
  BY <1>3, SocketAssumption
<1>6. n <= AtMost(Len(o), KernelBuffer - Len(wire[g]))
  BY DEF publish, g
<1>7. n \in 0 .. Len(o)
  <2>1. KernelBuffer - Len(wire[g]) \in Int
    BY <1>5
  <2> QED  BY <1>5, <1>6, <2>1, AtMostKnown
<1>8. p \in Seq(Nat) /\ Len(p) = n
  BY <1>3, <1>7, Cut
<1>9. /\ wire' = [wire EXCEPT ![g] = @ \o p] /\ outbound' = [outbound EXCEPT ![e] = <<>>]
      /\ short' = [short EXCEPT ![e] = @ \/ n < Len(o)] /\ burst' = [burst EXCEPT ![e] = 0]
      /\ pc' = [pc EXCEPT ![e] = "idle"] /\ UNCHANGED <<inbound, written, delivered>>
  BY DEF publish, Taken, Emptied, g
<1>10. /\ wire'[g] = wire[g] \o p /\ wire'[e] = wire[e]
       /\ outbound'[e] = <<>> /\ outbound'[g] = outbound[g]
       /\ short'[g] = short[g] /\ burst'[g] = burst[g] /\ burst'[e] = 0
  BY <1>1, <1>2, <1>9 DEF TypeOK
<1>11. short'[e] = (short[e] \/ n < Len(o))
  BY <1>1, <1>9 DEF TypeOK
<1>12. TypeOK'
  <2>1. wire[g] \o p \in Seq(Nat)
    BY <1>3, <1>8, Joined
  <2> HIDE DEF p
  <2>2. wire' \in [Ends -> Seq(Nat)]
    BY <1>1, <1>9, <2>1 DEF TypeOK
  <2>3. outbound' \in [Ends -> Seq(Nat)]
    BY <1>1, <1>9 DEF TypeOK
  <2>4. burst' \in [Ends -> 0 .. MaxBurst]
    BY <1>1, <1>9, SocketAssumption DEF TypeOK
  <2>5. short' \in [Ends -> BOOLEAN] /\ pc' \in [Ends -> {"idle", "callback", "publish"}]
    BY <1>1, <1>9 DEF TypeOK
  <2> QED  BY <1>1, <1>9, <2>2, <2>3, <2>4, <2>5 DEF TypeOK
<1>13. Stream(e)' = Arriving(g) \o p
  <2> HIDE DEF p, h
  <2>1. h \o (wire[g] \o p) = (h \o wire[g]) \o p
    BY <1>3, <1>4, <1>8, Regrouped, ZenonT(60)
  <2>2. Arriving(g) = h \o wire[g]
    BY DEF Arriving, h
  <2>3. Arriving(g)' = h \o (wire[g] \o p)
    BY <1>9, <1>10 DEF Arriving, h
  <2>4. Arriving(g) \o p \in Seq(Nat)
    BY <1>3, <1>8, Joined
  <2>5. (Arriving(g) \o p) \o <<>> = Arriving(g) \o p
    BY <2>4, Padded
  <2> QED  BY <1>10, <2>1, <2>2, <2>3, <2>5 DEF Stream, g
<1>14. StreamOf(e) /\ StreamOf(g)
  BY <1>2 DEF StreamInvariant
<1>15. Stream(e) = Arriving(g) \o o
  BY DEF Stream, g
<1>16. Rising(Stream(e)', written'[e])
  BY <1>3, <1>7, <1>9, <1>13, <1>14, <1>15, RisingPart DEF StreamOf
<1>17. ~short'[e] => Stream(e)' = Upto(written'[e])
  <2> HAVE ~short'[e]
  <2>1. ~short[e] /\ n = Len(o)
    <3>1. ~short[e] /\ ~(n < Len(o))
      BY <1>11
    <3> QED  BY <1>5, <1>7, <3>1
  <2>2. p = o
    BY <1>3, <2>1, SubSeqFull
  <2> QED  BY <1>9, <1>13, <1>14, <1>15, <2>1, <2>2 DEF StreamOf
<1>18. Len(outbound'[e]) <= burst'[e]
  BY <1>10
<1>19. StreamOf(e)'
  BY <1>16, <1>17, <1>18 DEF StreamOf
<1>20. StreamOf(g)'
  <2>1. Stream(g)' = Stream(g)
    BY <1>2, <1>9, <1>10 DEF Stream, Arriving
  <2> QED  BY <1>9, <1>10, <1>14, <2>1 DEF StreamOf
<1> QED  BY <1>2, <1>12, <1>19, <1>20 DEF StreamInvariant

LEMMA StreamStep ==
  ASSUME StreamInvariant, [CNext]_cvars
  PROVE  StreamInvariant'
<1>1. CASE UNCHANGED vars
  <2>1. TypeOK'
    BY <1>1 DEF StreamInvariant, TypeOK, vars
  <2> QED  BY <1>1, <2>1, StreamsKept DEF vars, Arriving
<1>2. ASSUME NEW e \in Ends, sendAndRecv(e)
      PROVE  StreamInvariant'
  <2>1. 0 .. MaxBurst \subseteq Nat /\ 0 .. KernelBuffer \subseteq Nat
    BY SocketAssumption
  <2> QED  BY <1>2, <2>1, RecvStep, NothingStep, CallbackStep, PublishStep DEF sendAndRecv
<1>3. CASE unconnected
  <2>1. "client" \in Ends /\ 0 \in Nat
    BY DEF Ends
  <2> QED  BY <1>3, <2>1, NothingStep, PublishStep DEF unconnected
<1>4. ASSUME NEW e \in Ends, NEW len \in 1 .. MaxBurst, writing(e, len)
      PROVE  StreamInvariant'
  <2>1. len \in Nat
    BY SocketAssumption
  <2> QED  BY <1>4, <2>1, WriteStep DEF writing
<1> QED
  BY <1>1, <1>2, <1>3, <1>4
  DEF CNext, cvars, connecting, deciding, streaming, Exited, HandedOver

LEMMA StreamInvariantHolds == CSpec => []StreamInvariant
<1>1. CInit => StreamInvariant
  BY StreamsBegin DEF CInit
<1>2. StreamInvariant /\ [CNext]_cvars => StreamInvariant'
  BY StreamStep
<1> QED  BY <1>1, <1>2, PTL DEF CSpec

\* Whatever part of its buffer sendAndRecv() gets rid of, and whether or not the
\* connection is made: what reaches an end rises, so that no byte overtakes
\* another one and none comes twice.
THEOREM ConnectionInOrderOnce == CSpec => []InOrderOnce
<1>1. StreamInvariant => InOrderOnce
  <2> SUFFICES ASSUME StreamInvariant, NEW e \in Ends
               PROVE  TypeOK /\ Rising(Arriving(e), written[Peer(e)])
    BY DEF InOrderOnce, StreamInvariant, Rising
  <2> DEFINE f == Peer(e)
  <2>1. TypeOK
    BY DEF StreamInvariant
  <2>2. f \in Ends /\ Peer(f) = e
    BY EndsKnown
  <2>3. Arriving(e) \in Seq(Nat) /\ outbound[f] \in Seq(Nat) /\ written[f] \in Nat
    BY <2>1, <2>2, BuffersKnown
  <2>4. Rising(Arriving(e) \o outbound[f], written[f])
    BY <2>2 DEF StreamInvariant, StreamOf, Stream
  <2> HIDE DEF f
  <2>5. Rising(Arriving(e), written[f])
    BY <2>3, <2>4, RisingFirst
  <2> QED  BY <2>1, <2>5 DEF f
<1> QED  BY <1>1, StreamInvariantHolds, PTL

\* A byte is lost only by a ::send() that does not take all it is offered, and
\* callers that write at most TCPBufferSize bytes between two calls of
\* sendAndRecv() never make send() run over the end of outbound_data_.
THEOREM ConnectionLossOnlyByShortSend == CSpec => []LossOnlyByShortSend
<1>1. StreamInvariant => LossOnlyByShortSend
  <2> SUFFICES ASSUME StreamInvariant, NEW e \in Ends
               PROVE  /\ ~short[e] => Arriving(Peer(e)) \o outbound[e] = Upto(written[e])
                      /\ Len(outbound[e]) <= TCPBufferSize
    BY DEF LossOnlyByShortSend, Upto
  <2>1. TypeOK /\ StreamOf(e)
    BY DEF StreamInvariant
  <2>2. burst[e] \in 0 .. MaxBurst /\ Len(outbound[e]) \in Nat
    BY <2>1, BuffersKnown DEF TypeOK
  <2>3. Len(outbound[e]) <= TCPBufferSize
    BY <2>1, <2>2, SocketAssumption DEF StreamOf
  <2> QED  BY <2>1, <2>3 DEF StreamOf, Stream
<1> QED  BY <1>1, StreamInvariantHolds, PTL
=============================================================================
