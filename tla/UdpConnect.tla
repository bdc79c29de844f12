----------------------------- MODULE UdpConnect -----------------------------
(***************************************************************************)
(* Outgoing UDP sockets (UDPCom::connect, shutdown and close, udpcom.cpp). *)
(* Coms that speak for the same client address share one connected socket  *)
(* through the static ConnectionsCache, a map from a key made of both      *)
(* addresses to <<fd, refcount>>.  A Com without a nonlocal source stores  *)
(* its socket there too, under the empty key.                              *)
(*                                                                         *)
(* connect takes the cache's lock twice, for the look-up and for storing a *)
(* new socket; shutdown holds it while it drops a reference, and kills the *)
(* socket afterwards.  The kernel hands out the lowest free descriptor.    *)
(***************************************************************************)
EXTENDS Integers, FiniteSets

CONSTANTS
    Coms,       \* UDPCom objects, each with its baseHostCX
    KeyOf,      \* KeyOf[c]: the cache key of a Com, PlainKey without a nonlocal source
    Fds         \* descriptors of the process, the bound on open sockets

PlainKey == ""
NoFd == 0
ASSUME FdsAssumption == Fds \subseteq Nat \ {NoFd} /\ IsFiniteSet(Fds)
ASSUME ComsAssumption == IsFiniteSet(Coms)
ASSUME KeyOfAssumption == KeyOf \in [Coms -> STRING]

Keys == {KeyOf[c] : c \in Coms}
NoEntry == [fd |-> NoFd, count |-> 0]

VARIABLE udp

UdpType == [
    st : [Coms -> {"idle", "create", "store", "open", "dropped", "shut", "closing",
                   "close", "gone"}],
    fd : [Coms -> Fds \cup {NoFd}],             \* fds_ or closing_fds_
    killed : [Coms -> BOOLEAN],                 \* killed_from_cache # 0
    cache : [Keys -> [fd : Fds \cup {NoFd}, count : 0..Cardinality(Coms)]],
    peer : [Fds -> Coms \cup {"nobody"}]]       \* kernel: who opened the socket

UdpInit ==
    udp = [st |-> [c \in Coms |-> "idle"], fd |-> [c \in Coms |-> NoFd],
           killed |-> [c \in Coms |-> FALSE], cache |-> [k \in Keys |-> NoEntry],
           peer |-> [f \in Fds |-> "nobody"]]

FreeFds(u) == {f \in Fds : u.peer[f] = "nobody"}

\* use_cached_connection and the branch on it in connect.
UdpLookup(c) ==
    LET e == udp.cache[KeyOf[c]]
    IN  /\ udp.st[c] = "idle"
        /\ udp' = IF KeyOf[c] # PlainKey /\ e # NoEntry
                  THEN [udp EXCEPT !.cache[KeyOf[c]].count = @ + 1, !.fd[c] = e.fd,
                                   !.st[c] = "open"]
                  ELSE [udp EXCEPT !.st[c] = "create"]

\* A new socket.  Naming it after a nonlocal source fails while another socket
\* has that name; transparency or connect() may fail: no descriptor is left.
UdpCreate(c) ==
    LET f == CHOOSE g \in FreeFds(udp) : \A h \in FreeFds(udp) : g <= h
        taken == KeyOf[c] # PlainKey
                 /\ \E g \in Fds : udp.peer[g] # "nobody" /\ KeyOf[udp.peer[g]] = KeyOf[c]
    IN  /\ udp.st[c] = "create"
        /\ udp' \in {[udp EXCEPT !.st[c] = "gone"]}
               \cup (IF taken \/ FreeFds(udp) = {} THEN {}
                     ELSE {[udp EXCEPT !.st[c] = "store", !.fd[c] = f, !.peer[f] = c]})

\* The end of connect: the entry of the key is written over.
UdpStore(c) ==
    /\ udp.st[c] = "store"
    /\ udp' = [udp EXCEPT !.st[c] = "open",
                          !.cache[KeyOf[c]] = [fd |-> udp.fd[c], count |-> 1]]

\* kill_socket: ::shutdown and ::close of whatever socket has the number.
KillSocket(u, f) == IF f \in Fds THEN [u EXCEPT !.peer[f] = "nobody"] ELSE u

\* Mutant: the reference of a shared socket is not given back.
DerefKeepsCount(u, c) ==
    LET k == KeyOf[c]
        e == u.cache[k]
    IN  IF e = NoEntry \/ e.count > 1 THEN [u EXCEPT !.killed[c] = FALSE]
        ELSE [KillSocket(u, e.fd) EXCEPT !.cache[k] = NoEntry, !.killed[c] = TRUE]

\* kill_and_deref_from_connnect under the cache's lock.
KillAndDeref(u, c) ==
    LET k == KeyOf[c]
        e == u.cache[k]
    IN  IF e = NoEntry THEN [u EXCEPT !.killed[c] = FALSE]
        ELSE IF e.count > 1
        THEN [u EXCEPT !.cache[k].count = @ - 1, !.killed[c] = FALSE]
        ELSE [KillSocket(u, e.fd) EXCEPT !.cache[k] = NoEntry, !.killed[c] = TRUE]

\* shutdown() up to the unlock; baseCom::close calls it once more when the
\* baseHostCX is destroyed.
UdpDeref(c) ==
    /\ udp.st[c] \in {"open", "shut"}
    /\ udp' = [KillAndDeref(udp, c) EXCEPT
                  !.st[c] = IF udp.st[c] = "open" THEN "dropped" ELSE "closing"]

\* The rest of shutdown(): unless the cache killed a socket, the own one is.
UdpKill(c) ==
    /\ udp.st[c] \in {"dropped", "closing"}
    /\ udp' = [(IF udp.killed[c] THEN udp ELSE KillSocket(udp, udp.fd[c])) EXCEPT
                  !.st[c] = IF udp.st[c] = "dropped" THEN "shut" ELSE "close"]

\* ::close at the end of baseCom::close.
UdpClose(c) ==
    /\ udp.st[c] = "close"
    /\ udp' = [KillSocket(udp, udp.fd[c]) EXCEPT !.st[c] = "gone"]

UdpNext ==
    \E c \in Coms : UdpLookup(c) \/ UdpCreate(c) \/ UdpStore(c) \/ UdpDeref(c)
                    \/ UdpKill(c) \/ UdpClose(c)

UdpSpec == UdpInit /\ [][UdpNext]_udp

-----------------------------------------------------------------------------
(* Properties.                                                             *)

\* The Coms, the cache and the kernel's table have their types.
UdpTypeOK == udp \in UdpType

\* Every cache entry is held by Coms that are still open, at least as many as
\* it counts: across racing connects and shutdowns, and although closing drops
\* a reference twice, no entry outlives the Coms it was made for, so nobody is
\* handed the socket of a key that is not in use any more.
EntryIsHeld ==
    \A k \in Keys : udp.cache[k] # NoEntry =>
        udp.cache[k].count \in 1..Cardinality({c \in Coms : KeyOf[c] = k /\ udp.st[c] = "open"})

\* The socket of an open Com is one that a Com with its key opened: no other
\* Com has closed it.
OpenComHasSocket ==
    \A c \in Coms : udp.st[c] = "open" =>
        udp.peer[udp.fd[c]] # "nobody" /\ KeyOf[udp.peer[udp.fd[c]]] = KeyOf[c]
=============================================================================
