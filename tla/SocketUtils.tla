---------------------------- MODULE SocketUtils -----------------------------
(***************************************************************************)
(* Communication::createSocket (include/communication/socket_utils.h), the *)
(* calls of the operating system by which it makes and configures one      *)
(* socket, and what TCPSocket::connect returns of it.  The system          *)
(* (external) may fail any call; it rejects bind() to a port that lingers  *)
(* unless the address is reused, and blocks in connect() on a TCP socket   *)
(* that is not non-blocking until the peer has answered.  A non-blocking   *)
(* connection is decided at once or later.                                 *)
(***************************************************************************)
EXTENDS Naturals, Sequences

VARIABLES
  cfg,        \* SocketCfg: what is asked for
  iface,      \* given | known | unknown: the ip, or whether the interface has one
  lingers,    \* the port was in use a moment ago
  at,         \* the next call of Order
  fd,         \* what has been set on the descriptor
  link,       \* none | connecting | connected | refused
  failed,     \* history: the calls that returned an error
  status      \* running | blocked (in connect()) | exit | returned

vars == <<cfg, iface, lingers, at, fd, link, failed, status>>

SocketCfg == [is_udp : BOOLEAN, is_listening : BOOLEAN, needs_so_timestamp : BOOLEAN]

\* The calls in their order.  Mutant: two neighbours swapped.
BindBeforeReuse ==
  <<"getaddrinfo", "socket", "setNonBlocking", "disableNagle", "connect", "bind",
    "reuseAddress", "listen", "setSOTimestamp">>

Order ==
  <<"getaddrinfo", "socket", "setNonBlocking", "disableNagle", "connect",
    "reuseAddress", "bind", "listen", "setSOTimestamp">>

Calls == {Order[i] : i \in DOMAIN Order}

\* The calls that a configuration asks for.
Asked(c) ==
  {"getaddrinfo", "socket", "setNonBlocking"}
    \cup (IF c.is_udp THEN {} ELSE {"disableNagle"})
    \cup (IF c.is_listening THEN {"reuseAddress", "bind"} ELSE {"connect"})
    \cup (IF c.is_listening /\ ~c.is_udp THEN {"listen"} ELSE {})
    \cup (IF c.needs_so_timestamp THEN {"setSOTimestamp"} ELSE {})

TypeOK ==
  /\ cfg \in SocketCfg /\ iface \in {"given", "known", "unknown"} /\ lingers \in BOOLEAN
  /\ at \in 1 .. Len(Order) + 1 /\ fd \subseteq Calls
  /\ link \in {"none", "connecting", "connected", "refused"}
  /\ failed \subseteq Calls \cup {"F_GETFL"}
  /\ status \in {"running", "blocked", "exit", "returned"}

\* As all callers do, a client names the address and a listener its interface.
Init ==
  /\ cfg \in SocketCfg /\ lingers \in (IF cfg.is_listening THEN BOOLEAN ELSE {FALSE})
  /\ iface \in (IF cfg.is_listening THEN {"known", "unknown"} ELSE {"given"})
  /\ at = 1 /\ fd = {} /\ link = "none" /\ failed = {}
  /\ status = "running"

-----------------------------------------------------------------------------
At(s) == status = "running" /\ at <= Len(Order) /\ Order[at] = s

notAsked ==
  /\ status = "running" /\ at <= Len(Order) /\ Order[at] \notin Asked(cfg)
  /\ at' = at + 1
  /\ UNCHANGED <<cfg, iface, lingers, fd, link, failed, status>>

\* getIfaceIP() gives "" for an interface it does not find, which getaddrinfo()
\* does not resolve; SO_REUSEADDR lets bind() take a port that lingers.
Possible(s) ==
  /\ s = "getaddrinfo" => iface # "unknown"
  /\ s = "bind" => (lingers => "reuseAddress" \in fd)

succeeds(s) ==
  /\ At(s) /\ s \in Asked(cfg) \ {"connect"} /\ Possible(s)
  /\ fd' = fd \cup {s} /\ at' = at + 1
  /\ UNCHANGED <<cfg, iface, lingers, link, failed, status>>

\* The ASSERT on the result ends the process.
fails(s) ==
  /\ At(s) /\ s \in Asked(cfg) \ {"connect"}
  /\ failed' = failed \cup {s} /\ status' = "exit"
  /\ UNCHANGED <<cfg, iface, lingers, at, fd, link>>

\* The -1 of a failing fcntl(F_GETFL) has the bit of O_NONBLOCK: setNonBlocking()
\* returns true and leaves the descriptor as it is.
flagsUnread ==
  /\ At("setNonBlocking")
  /\ failed' = failed \cup {"F_GETFL"} /\ at' = at + 1
  /\ UNCHANGED <<cfg, iface, lingers, fd, link, status>>

\* The result of connect() is compared with 1, so that no result is a failure:
\* not -1 with EINPROGRESS, and not -1 with another error.
connectReturns(links) ==
  /\ \/ link' \in links /\ UNCHANGED failed
     \/ failed' = failed \cup {"connect"} /\ UNCHANGED link
  /\ at' = at + 1 /\ status' = "running"
  /\ UNCHANGED <<cfg, iface, lingers, fd>>

Waits == "setNonBlocking" \notin fd /\ ~cfg.is_udp

connect ==
  /\ At("connect") /\ "connect" \in Asked(cfg) /\ ~Waits
  /\ connectReturns(IF cfg.is_udp THEN {"connected"} ELSE {"connecting", "connected"})

connectBlocks ==
  /\ At("connect") /\ "connect" \in Asked(cfg) /\ Waits
  /\ status' = "blocked"
  /\ UNCHANGED <<cfg, iface, lingers, at, fd, link, failed>>

\* The peer has answered, or the system has given up.
unblocked == status = "blocked" /\ connectReturns({"connected"})

\* TCPSocket::connect() keeps the descriptor and returns it.
returns ==
  /\ status = "running" /\ at = Len(Order) + 1
  /\ status' = "returned"
  /\ UNCHANGED <<cfg, iface, lingers, at, fd, link, failed>>

\* A connection under way is decided.
decided ==
  /\ link = "connecting"
  /\ link' \in {"connected", "refused"}
  /\ UNCHANGED <<cfg, iface, lingers, at, fd, failed, status>>

createSocket ==
  \/ notAsked \/ (\E s \in Calls : succeeds(s) \/ fails(s)) \/ flagsUnread
  \/ connect \/ connectBlocks \/ unblocked \/ returns

-----------------------------------------------------------------------------
\* Two failures go unnoticed, that of connect() and that of fcntl(F_GETFL); after
\* any other, createSocket() does not return.  Except for what these two leave
\* undone it never waits for the peer, a restarted server gets its port back
\* (SO_REUSEADDR is set before bind() meets a port that lingers), and the
\* descriptor that is returned can do what its configuration says: it does not
\* block, a listening one is bound, a TCP one sends at once, a TCP listener
\* listens, any other has a connection, refused or under way at worst, and reads
\* are stamped if asked.
ReturnedConfigured ==
  /\ TypeOK
  /\ status = "blocked" => "F_GETFL" \in failed
  /\ (At("bind") /\ "bind" \in Asked(cfg)) => Possible("bind")
  /\ status = "returned" =>
       /\ failed \subseteq {"F_GETFL", "connect"}
       /\ "setNonBlocking" \in fd \/ "F_GETFL" \in failed
       /\ cfg.is_listening <=> "bind" \in fd
       /\ cfg.is_listening <=> (link = "none" /\ "connect" \notin failed)
       /\ ~cfg.is_udp <=> "disableNagle" \in fd
       /\ (cfg.is_listening /\ ~cfg.is_udp) <=> "listen" \in fd
       /\ cfg.needs_so_timestamp <=> "setSOTimestamp" \in fd
=============================================================================
