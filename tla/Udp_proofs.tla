------------------------------ MODULE Udp_proofs ------------------------------
(***************************************************************************)
(* Proofs about the UDP side of the library: UdpConnect for any finite set *)
(* of Coms, any keys and any descriptors, and Datagrams for any sessions,  *)
(* workers, slots of a record and number of datagrams.                     *)
(***************************************************************************)
EXTENDS UdpConnect, Datagrams, FiniteSetTheorems, WellFoundedInduction, TLAPS

\* A set of natural numbers that is not empty has a least element.
LEMMA LeastOf ==
    ASSUME NEW I \in SUBSET Nat, I # {}
    PROVE  \E i \in I : \A j \in I : i <= j
<1> DEFINE R == OpToRel(<, Nat)
<1>1. IsWellFoundedOn(R, Nat)
  BY NatLessThanWellFounded
<1>2. R = {ss \in Nat \X Nat : ss[1] < ss[2]}
  BY DEF OpToRel
<1> HIDE DEF R
<1>3. PICK i \in I : \A j \in I : <<j, i>> \notin R
  BY <1>1, WFMin
<1>4. \A j \in I : ~(j < i)
  BY <1>2, <1>3
<1> QED
  BY <1>3, <1>4

-----------------------------------------------------------------------------
(* UdpConnect: the references that ConnectionsCache counts.                *)

\* The inductive invariant: the counts never exceed the open Coms.
UdpInv == UdpTypeOK /\ EntryIsHeld

\* The open Coms with a key.
Holders(k) == {c \in Coms : KeyOf[c] = k /\ udp.st[c] = "open"}

\* A key has finitely many holders.
LEMMA HoldersFinite ==
    ASSUME NEW k
    PROVE  /\ IsFiniteSet(Holders(k)) /\ Cardinality(Holders(k)) \in Nat
           /\ Cardinality(Holders(k)) <= Cardinality(Coms)
<1>1. Holders(k) \subseteq Coms
  BY DEF Holders
<1> QED
  BY <1>1, ComsAssumption, FS_Subset, FS_CardinalityType

\* What a Com that changes its state does to the holders of the keys.
LEMMA HoldersStep ==
    ASSUME NEW c \in Coms, NEW x, udp.st \in [Coms -> {"idle", "create", "store", "open",
               "dropped", "shut", "closing", "close", "gone"}],
           udp'.st = [udp.st EXCEPT ![c] = x]
    PROVE  /\ \A k : k # KeyOf[c] => Holders(k)' = Holders(k)
           /\ x = "open" /\ udp.st[c] # "open" =>
                  Cardinality(Holders(KeyOf[c])') = Cardinality(Holders(KeyOf[c])) + 1
           /\ x # "open" /\ udp.st[c] = "open" =>
                  Cardinality(Holders(KeyOf[c])') = Cardinality(Holders(KeyOf[c])) - 1
           /\ x # "open" /\ udp.st[c] # "open" => Holders(KeyOf[c])' = Holders(KeyOf[c])
<1> DEFINE k == KeyOf[c]
<1>1. \A j : j # k => Holders(j)' = Holders(j)
  BY DEF Holders
<1>2. ASSUME x = "open", udp.st[c] # "open"
      PROVE  Cardinality(Holders(k)') = Cardinality(Holders(k)) + 1
  <2>1. Holders(k)' = Holders(k) \cup {c} /\ c \notin Holders(k)
    BY <1>2 DEF Holders
  <2> QED
    BY <2>1, HoldersFinite, FS_AddElement
<1>3. ASSUME x # "open", udp.st[c] = "open"
      PROVE  Cardinality(Holders(k)') = Cardinality(Holders(k)) - 1
  <2>1. Holders(k)' = Holders(k) \ {c} /\ c \in Holders(k)
    BY <1>3 DEF Holders
  <2> QED
    BY <2>1, HoldersFinite, FS_RemoveElement
<1>4. ASSUME x # "open", udp.st[c] # "open"
      PROVE  Holders(k)' = Holders(k)
  BY <1>4 DEF Holders
<1> QED
  BY <1>1, <1>2, <1>3, <1>4

\* The entries are held by Coms that are open.
LEMMA EntryHolders ==
    EntryIsHeld <=> \A k \in Keys : udp.cache[k] # NoEntry =>
                        udp.cache[k].count \in 1 .. Cardinality(Holders(k))
BY DEF EntryIsHeld, Holders

States == {"idle", "create", "store", "open", "dropped", "shut", "closing", "close", "gone"}
Entries == [fd : Fds \cup {NoFd}, count : 0 .. Cardinality(Coms)]

LEMMA StatesKnown == {"create", "store", "open", "dropped", "shut", "closing", "close", "gone"} \subseteq States
BY DEF States

LEMMA UdpTypes ==
    ASSUME UdpTypeOK
    PROVE  /\ udp.st \in [Coms -> States] /\ udp.fd \in [Coms -> Fds \cup {NoFd}]
           /\ udp.killed \in [Coms -> BOOLEAN] /\ udp.cache \in [Keys -> Entries]
           /\ udp.peer \in [Fds -> Coms \cup {"nobody"}]
           /\ udp = [st |-> udp.st, fd |-> udp.fd, killed |-> udp.killed, cache |-> udp.cache,
                     peer |-> udp.peer]
BY DEF UdpTypeOK, UdpType, States, Entries

LEMMA UdpInitInv == UdpInit => UdpInv
<1> SUFFICES ASSUME UdpInit PROVE UdpInv
  OBVIOUS
<1>1. Cardinality(Coms) \in Nat
  BY ComsAssumption, FS_CardinalityType
<1>2. UdpTypeOK
  BY <1>1 DEF UdpInit, UdpTypeOK, UdpType, NoEntry
<1>3. EntryIsHeld
  BY DEF UdpInit, EntryIsHeld
<1> QED
  BY <1>2, <1>3 DEF UdpInv

\* A step of c touches the entry of its own key only: what is left to show is
\* that this entry is held.
LEMMA UdpStepInv ==
    ASSUME UdpInv, NEW c \in Coms, NEW x \in States, NEW e,
           NEW fd \in [Coms -> Fds \cup {NoFd}], NEW killed \in [Coms -> BOOLEAN],
           NEW peer \in [Fds -> Coms \cup {"nobody"}],
           udp' = [st |-> [udp.st EXCEPT ![c] = x], fd |-> fd, killed |-> killed,
                   cache |-> [udp.cache EXCEPT ![KeyOf[c]] = e], peer |-> peer],
           \/ e = NoEntry
           \/ e \in [fd : Fds \cup {NoFd}, count : 1 .. Cardinality(Holders(KeyOf[c])')]
    PROVE  UdpInv'
<1> DEFINE k == KeyOf[c]
<1>0. UdpTypeOK /\ k \in Keys
  BY DEF UdpInv, Keys
<1>1. /\ udp'.st = [udp.st EXCEPT ![c] = x] /\ udp'.cache = [udp.cache EXCEPT ![k] = e]
      /\ udp.st \in [Coms -> States] /\ udp.cache \in [Keys -> Entries]
  BY <1>0, UdpTypes
<1>2. \A j : j # k => Holders(j)' = Holders(j)
  BY <1>1, HoldersStep DEF States
<1>3. /\ IsFiniteSet(Holders(k)') /\ Cardinality(Holders(k)') \in Nat
      /\ Cardinality(Holders(k)') <= Cardinality(Coms)
  <2>1. Holders(k)' \subseteq Coms
    BY DEF Holders
  <2> QED
    BY <2>1, ComsAssumption, FS_Subset, FS_CardinalityType
<1>4. Cardinality(Coms) \in Nat
  BY ComsAssumption, FS_CardinalityType
<1>5. e \in Entries
  BY <1>3, <1>4 DEF Entries, NoEntry
<1>6. UdpTypeOK'
  <2>1. udp'.st \in [Coms -> States] /\ udp'.cache \in [Keys -> Entries]
    BY <1>0, <1>1, <1>5
  <2> QED
    BY <2>1 DEF UdpTypeOK, UdpType, States, Entries
<1>7. ASSUME NEW j \in Keys, udp'.cache[j] # NoEntry
      PROVE  udp'.cache[j].count \in 1 .. Cardinality(Holders(j)')
  <2>1. CASE j = k
    <3>1. udp'.cache[j] = e
      BY <1>0, <1>1, <2>1
    <3> QED
      BY <1>7, <2>1, <3>1
  <2>2. CASE j # k
    <3>1. udp'.cache[j] = udp.cache[j]
      BY <1>1, <2>2
    <3>2. udp.cache[j].count \in 1 .. Cardinality(Holders(j))
      BY <1>7, <3>1, EntryHolders DEF UdpInv
    <3>3. Holders(j)' = Holders(j)
      BY <1>2, <2>2
    <3> QED
      BY <3>1, <3>2, <3>3
  <2> QED
    BY <2>1, <2>2
<1>8. EntryIsHeld'
  BY <1>7 DEF EntryIsHeld, Holders
<1> QED
  BY <1>6, <1>8 DEF UdpInv

\* The entry of the key of c before a step of c.
LEMMA EntryOf ==
    ASSUME UdpInv, NEW c \in Coms
    PROVE  LET e == udp.cache[KeyOf[c]]
           IN  /\ KeyOf[c] \in Keys /\ udp.cache \in [Keys -> Entries] /\ e \in Entries
               /\ e.count \in Nat /\ e.fd \in Fds \cup {NoFd}
               /\ e = [fd |-> e.fd, count |-> e.count]
               /\ e # NoEntry => e.count \in 1 .. Cardinality(Holders(KeyOf[c]))
               /\ Cardinality(Holders(KeyOf[c])) \in Nat
<1> DEFINE e == udp.cache[KeyOf[c]]
<1>1. KeyOf[c] \in Keys /\ udp.cache \in [Keys -> Entries]
  BY UdpTypes DEF UdpInv, Keys
<1>2. e \in Entries /\ Cardinality(Coms) \in Nat
  BY <1>1, ComsAssumption, FS_CardinalityType
<1>3. e.count \in Nat /\ e.fd \in Fds \cup {NoFd} /\ e = [fd |-> e.fd, count |-> e.count]
  BY <1>2 DEF Entries
<1>4. e # NoEntry => e.count \in 1 .. Cardinality(Holders(KeyOf[c]))
  BY <1>1, EntryHolders DEF UdpInv
<1> QED
  BY <1>1, <1>2, <1>3, <1>4, HoldersFinite

\* A step of c that keeps the entry of its key and does not end its being open.
LEMMA UdpKeepInv ==
    ASSUME UdpInv, NEW c \in Coms, NEW x \in States, udp.st[c] # "open", x # "open",
           NEW fd \in [Coms -> Fds \cup {NoFd}], NEW peer \in [Fds -> Coms \cup {"nobody"}],
           udp' = [st |-> [udp.st EXCEPT ![c] = x], fd |-> fd, killed |-> udp.killed,
                   cache |-> udp.cache, peer |-> peer]
    PROVE  UdpInv'
<1> DEFINE k == KeyOf[c]
           e == udp.cache[k]
<1>1. udp'.st = [udp.st EXCEPT ![c] = x] /\ udp.st \in [Coms -> States]
      /\ udp.killed \in [Coms -> BOOLEAN]
  BY UdpTypes DEF UdpInv
<1>2. Holders(k)' = Holders(k)
  BY <1>1, HoldersStep DEF States
<1>3. udp.cache = [udp.cache EXCEPT ![k] = e]
  BY EntryOf
<1>4. e = NoEntry \/ e \in [fd : Fds \cup {NoFd}, count : 1 .. Cardinality(Holders(k)')]
  <2>1. /\ e.fd \in Fds \cup {NoFd} /\ e = [fd |-> e.fd, count |-> e.count]
        /\ e # NoEntry => e.count \in 1 .. Cardinality(Holders(k))
    BY EntryOf
  <2> HIDE DEF e, k
  <2> QED
    BY <1>2, <2>1
<1> HIDE DEF e
<1>5. udp' = [st |-> [udp.st EXCEPT ![c] = x], fd |-> fd, killed |-> udp.killed,
              cache |-> [udp.cache EXCEPT ![k] = e], peer |-> peer]
  BY <1>3
<1> QED
  BY <1>1, <1>4, <1>5, UdpStepInv

\* use_cached_connection: the count grows with the open Coms.
LEMMA UdpLookupInv ==
    ASSUME UdpInv, NEW c \in Coms, UdpLookup(c)
    PROVE  UdpInv'
<1> USE DEF UdpLookup
<1> DEFINE k == KeyOf[c]
           e == udp.cache[k]
<1>1. /\ udp.st \in [Coms -> States] /\ udp.fd \in [Coms -> Fds \cup {NoFd}]
      /\ udp.killed \in [Coms -> BOOLEAN] /\ udp.cache \in [Keys -> Entries]
      /\ udp.peer \in [Fds -> Coms \cup {"nobody"}]
      /\ udp = [st |-> udp.st, fd |-> udp.fd, killed |-> udp.killed, cache |-> udp.cache,
                peer |-> udp.peer]
  BY UdpTypes DEF UdpInv
<1>2. CASE k # PlainKey /\ e # NoEntry
  <2> DEFINE f == [fd |-> e.fd, count |-> e.count + 1]
  <2>1. udp' = [udp EXCEPT !.cache[k].count = @ + 1, !.fd[c] = e.fd, !.st[c] = "open"]
    BY <1>2
  <2>0. /\ k \in Keys /\ e \in Entries /\ e.count \in Nat /\ e.fd \in Fds \cup {NoFd}
        /\ e # NoEntry => e.count \in 1 .. Cardinality(Holders(k))
        /\ Cardinality(Holders(k)) \in Nat
    BY EntryOf
  <2>2. [udp.cache EXCEPT ![k].count = @ + 1] = [udp.cache EXCEPT ![k] = f]
    BY <1>1, <2>0 DEF Entries
  <2>3. udp' = [st |-> [udp.st EXCEPT ![c] = "open"], fd |-> [udp.fd EXCEPT ![c] = e.fd],
                killed |-> udp.killed, cache |-> [udp.cache EXCEPT ![k].count = @ + 1],
                peer |-> udp.peer]
    BY <1>1, <2>1
  <2>4. Cardinality(Holders(k)') = Cardinality(Holders(k)) + 1
    <3>1. udp'.st = [udp.st EXCEPT ![c] = "open"]
      BY <2>3
    <3> QED
      BY <1>1, <3>1, HoldersStep DEF States
  <2>5. f \in [fd : Fds \cup {NoFd}, count : 1 .. Cardinality(Holders(k)')]
    <3> HIDE DEF e, k
    <3> QED
      BY <1>2, <2>0, <2>4
  <2>6. [udp.fd EXCEPT ![c] = e.fd] \in [Coms -> Fds \cup {NoFd}]
    BY <1>1, <2>0
  <2>7. udp' = [st |-> [udp.st EXCEPT ![c] = "open"], fd |-> [udp.fd EXCEPT ![c] = e.fd],
                killed |-> udp.killed, cache |-> [udp.cache EXCEPT ![k] = f],
                peer |-> udp.peer]
    BY <2>2, <2>3
  <2> HIDE DEF f, e
  <2> QED
    BY <1>1, <2>5, <2>6, <2>7, UdpStepInv, StatesKnown
<1>3. CASE ~(k # PlainKey /\ e # NoEntry)
  <2>1. udp' = [udp EXCEPT !.st[c] = "create"]
    BY <1>3
  <2>2. udp' = [st |-> [udp.st EXCEPT ![c] = "create"], fd |-> udp.fd, killed |-> udp.killed,
                cache |-> udp.cache, peer |-> udp.peer]
    BY <1>1, <2>1
  <2> QED
    BY <1>1, <2>2, UdpKeepInv, StatesKnown
<1> QED
  BY <1>2, <1>3

\* A new socket is not in the cache yet.
LEMMA UdpCreateInv ==
    ASSUME UdpInv, NEW c \in Coms, UdpCreate(c)
    PROVE  UdpInv'
<1> USE DEF UdpCreate
<1> DEFINE f == CHOOSE g \in FreeFds(udp) : \A h \in FreeFds(udp) : g <= h
<1>1. /\ udp.st \in [Coms -> States] /\ udp.fd \in [Coms -> Fds \cup {NoFd}]
      /\ udp.peer \in [Fds -> Coms \cup {"nobody"}]
      /\ udp = [st |-> udp.st, fd |-> udp.fd, killed |-> udp.killed, cache |-> udp.cache,
                peer |-> udp.peer]
  BY UdpTypes DEF UdpInv
<1>2. FreeFds(udp) # {} => f \in Fds
  <2>1. FreeFds(udp) \in SUBSET Nat /\ FreeFds(udp) \subseteq Fds
    BY FdsAssumption DEF FreeFds
  <2> QED
    BY <2>1, LeastOf
<1> HIDE DEF f
<1>3. \/ udp' = [udp EXCEPT !.st[c] = "gone"]
      \/ FreeFds(udp) # {} /\ udp' = [udp EXCEPT !.st[c] = "store", !.fd[c] = f, !.peer[f] = c]
  BY DEF f
<1>4. CASE udp' = [udp EXCEPT !.st[c] = "gone"]
  <2>1. udp' = [st |-> [udp.st EXCEPT ![c] = "gone"], fd |-> udp.fd, killed |-> udp.killed,
                cache |-> udp.cache, peer |-> udp.peer]
    BY <1>1, <1>4
  <2> QED
    BY <1>1, <2>1, UdpKeepInv, StatesKnown
<1>5. CASE FreeFds(udp) # {} /\ udp' = [udp EXCEPT !.st[c] = "store", !.fd[c] = f, !.peer[f] = c]
  <2>1. udp' = [st |-> [udp.st EXCEPT ![c] = "store"], fd |-> [udp.fd EXCEPT ![c] = f],
                killed |-> udp.killed, cache |-> udp.cache,
                peer |-> [udp.peer EXCEPT ![f] = c]]
    BY <1>1, <1>5
  <2>2. /\ [udp.fd EXCEPT ![c] = f] \in [Coms -> Fds \cup {NoFd}]
        /\ [udp.peer EXCEPT ![f] = c] \in [Fds -> Coms \cup {"nobody"}]
    BY <1>1, <1>2, <1>5
  <2> QED
    BY <2>1, <2>2, UdpKeepInv, StatesKnown
<1> QED
  BY <1>3, <1>4, <1>5

\* The end of connect: the new entry counts the Com that has just opened.
LEMMA UdpStoreInv ==
    ASSUME UdpInv, NEW c \in Coms, UdpStore(c)
    PROVE  UdpInv'
<1> USE DEF UdpStore
<1> DEFINE e == [fd |-> udp.fd[c], count |-> 1]
           k == KeyOf[c]
<1>1. /\ udp.st \in [Coms -> States] /\ udp.fd \in [Coms -> Fds \cup {NoFd}]
      /\ udp.killed \in [Coms -> BOOLEAN] /\ udp.cache \in [Keys -> Entries]
      /\ udp.peer \in [Fds -> Coms \cup {"nobody"}]
      /\ udp = [st |-> udp.st, fd |-> udp.fd, killed |-> udp.killed, cache |-> udp.cache,
                peer |-> udp.peer]
  BY UdpTypes DEF UdpInv
<1>2. udp' = [st |-> [udp.st EXCEPT ![c] = "open"], fd |-> udp.fd, killed |-> udp.killed,
              cache |-> [udp.cache EXCEPT ![k] = e], peer |-> udp.peer]
  BY <1>1
<1>3. Cardinality(Holders(k)') = Cardinality(Holders(k)) + 1
  <2>1. udp'.st = [udp.st EXCEPT ![c] = "open"]
    BY <1>2
  <2> QED
    BY <1>1, <2>1, HoldersStep DEF States
<1>4. e \in [fd : Fds \cup {NoFd}, count : 1 .. Cardinality(Holders(k)')]
  <2>1. Cardinality(Holders(k)) \in Nat
    BY HoldersFinite
  <2> QED
    BY <1>1, <1>3, <2>1
<1>5. /\ udp.fd \in [Coms -> Fds \cup {NoFd}] /\ udp.killed \in [Coms -> BOOLEAN]
      /\ udp.peer \in [Fds -> Coms \cup {"nobody"}] /\ "open" \in States
  BY <1>1, StatesKnown
<1> HIDE DEF e, UdpStore
<1> QED
  BY <1>2, <1>4, <1>5, UdpStepInv

\* kill_socket changes the kernel's table only.
LEMMA KillSocketPeer ==
    ASSUME UdpTypeOK, NEW f
    PROVE  \E peer \in [Fds -> Coms \cup {"nobody"}] :
               KillSocket(udp, f) = [st |-> udp.st, fd |-> udp.fd, killed |-> udp.killed,
                                     cache |-> udp.cache, peer |-> peer]
<1>1. /\ udp.peer \in [Fds -> Coms \cup {"nobody"}]
      /\ udp = [st |-> udp.st, fd |-> udp.fd, killed |-> udp.killed, cache |-> udp.cache,
                peer |-> udp.peer]
  BY UdpTypes
<1>2. CASE f \in Fds
  <2>1. KillSocket(udp, f) = [st |-> udp.st, fd |-> udp.fd, killed |-> udp.killed,
                              cache |-> udp.cache, peer |-> [udp.peer EXCEPT ![f] = "nobody"]]
    BY <1>1, <1>2 DEF KillSocket
  <2>2. [udp.peer EXCEPT ![f] = "nobody"] \in [Fds -> Coms \cup {"nobody"}]
    BY <1>1, <1>2
  <2> QED
    BY <2>1, <2>2
<1>3. CASE f \notin Fds
  BY <1>1, <1>3 DEF KillSocket
<1> QED
  BY <1>2, <1>3

\* kill_and_deref_from_connnect: the count goes down before, or with, the Coms.
LEMMA UdpDerefInv ==
    ASSUME UdpInv, NEW c \in Coms, UdpDeref(c)
    PROVE  UdpInv'
<1> DEFINE k == KeyOf[c]
           e == udp.cache[k]
           x == IF udp.st[c] = "open" THEN "dropped" ELSE "closing"
<1>1. /\ udp.st \in [Coms -> States] /\ udp.fd \in [Coms -> Fds \cup {NoFd}]
      /\ udp.killed \in [Coms -> BOOLEAN] /\ udp.cache \in [Keys -> Entries]
      /\ udp.peer \in [Fds -> Coms \cup {"nobody"}]
      /\ udp = [st |-> udp.st, fd |-> udp.fd, killed |-> udp.killed, cache |-> udp.cache,
                peer |-> udp.peer]
  BY UdpTypes DEF UdpInv
<1>2. udp' = [KillAndDeref(udp, c) EXCEPT !.st[c] = x] /\ x \in {"dropped", "closing"}
  BY DEF UdpDeref
<1>3. /\ k \in Keys /\ e.count \in Nat /\ e.fd \in Fds \cup {NoFd}
      /\ e = [fd |-> e.fd, count |-> e.count]
      /\ e # NoEntry => e.count \in 1 .. Cardinality(Holders(k))
      /\ Cardinality(Holders(k)) \in Nat
  BY EntryOf
<1> HIDE DEF x
<1>4. ASSUME udp'.st = [udp.st EXCEPT ![c] = x]
      PROVE  /\ Cardinality(Holders(k)') \in Nat
             /\ Cardinality(Holders(k)') >= Cardinality(Holders(k)) - 1
  <2>1. \/ Cardinality(Holders(k)') = Cardinality(Holders(k)) - 1 /\ udp.st[c] = "open"
        \/ Holders(k)' = Holders(k)
    BY <1>1, <1>2, <1>4, HoldersStep DEF States
  <2>2. udp.st[c] = "open" => Cardinality(Holders(k)) >= 1
    <3>1. udp.st[c] = "open" => c \in Holders(k)
      BY DEF Holders
    <3> QED
      BY <1>3, <3>1, HoldersFinite, FS_EmptySet
  <2> QED
    BY <1>3, <2>1, <2>2
<1>8. /\ udp.fd \in [Coms -> Fds \cup {NoFd}] /\ x \in States
      /\ udp.peer \in [Fds -> Coms \cup {"nobody"}]
  BY <1>1, <1>2, StatesKnown
<1>5. CASE e = NoEntry
  <2>1. udp' = [[udp EXCEPT !.killed[c] = FALSE] EXCEPT !.st[c] = x]
    BY <1>2, <1>5 DEF KillAndDeref
  <2>2. udp' = [st |-> [udp.st EXCEPT ![c] = x], fd |-> udp.fd,
                killed |-> [udp.killed EXCEPT ![c] = FALSE],
                cache |-> udp.cache, peer |-> udp.peer]
    BY <1>1, <2>1
  <2>3. udp.cache = [udp.cache EXCEPT ![k] = NoEntry]
    BY <1>1, <1>3, <1>5
  <2>4. [udp.killed EXCEPT ![c] = FALSE] \in [Coms -> BOOLEAN]
    BY <1>1
  <2> HIDE DEF e
  <2> QED
    BY <1>8, <2>2, <2>3, <2>4, UdpStepInv
<1>6. CASE e # NoEntry /\ e.count > 1
  <2> DEFINE f == [fd |-> e.fd, count |-> e.count - 1]
  <2>1. udp' = [[udp EXCEPT !.cache[k].count = @ - 1, !.killed[c] = FALSE] EXCEPT !.st[c] = x]
    BY <1>2, <1>6 DEF KillAndDeref
  <2>2. udp' = [st |-> [udp.st EXCEPT ![c] = x], fd |-> udp.fd,
                killed |-> [udp.killed EXCEPT ![c] = FALSE],
                cache |-> [udp.cache EXCEPT ![k].count = @ - 1], peer |-> udp.peer]
    BY <1>1, <2>1
  <2>3. [udp.cache EXCEPT ![k].count = @ - 1] = [udp.cache EXCEPT ![k] = f]
    BY <1>1, <1>3 DEF Entries
  <2>4. [udp.killed EXCEPT ![c] = FALSE] \in [Coms -> BOOLEAN]
    BY <1>1
  <2>5. f \in [fd : Fds \cup {NoFd}, count : 1 .. Cardinality(Holders(k)')]
    <3>1. udp'.st = [udp.st EXCEPT ![c] = x]
      BY <2>2
    <3> QED
      BY <1>3, <1>4, <1>6, <3>1
  <2> HIDE DEF e, f
  <2> QED
    BY <1>8, <2>2, <2>3, <2>4, <2>5, UdpStepInv
<1>7. CASE e # NoEntry /\ ~(e.count > 1)
  <2>1. udp' = [[KillSocket(udp, e.fd) EXCEPT !.cache[k] = NoEntry, !.killed[c] = TRUE]
                   EXCEPT !.st[c] = x]
    BY <1>2, <1>7 DEF KillAndDeref
  <2>2. PICK peer \in [Fds -> Coms \cup {"nobody"}] :
            KillSocket(udp, e.fd) = [st |-> udp.st, fd |-> udp.fd, killed |-> udp.killed,
                                     cache |-> udp.cache, peer |-> peer]
    BY KillSocketPeer DEF UdpInv
  <2>3. udp' = [st |-> [udp.st EXCEPT ![c] = x], fd |-> udp.fd,
                killed |-> [udp.killed EXCEPT ![c] = TRUE],
                cache |-> [udp.cache EXCEPT ![k] = NoEntry], peer |-> peer]
    <3> DEFINE K == KillSocket(udp, e.fd)
    <3>1. K = [st |-> udp.st, fd |-> udp.fd, killed |-> udp.killed, cache |-> udp.cache,
               peer |-> peer]
      BY <2>2
    <3>2. udp' = [[K EXCEPT !.cache[k] = NoEntry, !.killed[c] = TRUE] EXCEPT !.st[c] = x]
      BY <2>1
    <3> HIDE DEF K, k
    <3>3. /\ K.st = udp.st /\ K.fd = udp.fd /\ K.killed = udp.killed /\ K.cache = udp.cache
          /\ K.peer = peer
          /\ K = [st |-> K.st, fd |-> K.fd, killed |-> K.killed, cache |-> K.cache,
                  peer |-> K.peer]
      BY <3>1
    <3>4. udp' = [st |-> [K.st EXCEPT ![c] = x], fd |-> K.fd,
                  killed |-> [K.killed EXCEPT ![c] = TRUE],
                  cache |-> [K.cache EXCEPT ![k] = NoEntry], peer |-> K.peer]
      BY <3>2, <3>3
    <3> QED
      BY <3>3, <3>4
  <2>4. [udp.killed EXCEPT ![c] = TRUE] \in [Coms -> BOOLEAN]
    BY <1>1
  <2> HIDE DEF e
  <2> QED
    BY <1>8, <2>3, <2>4, UdpStepInv
<1> QED
  BY <1>5, <1>6, <1>7

\* The rest of shutdown() and ::close touch neither the cache nor open Coms.
LEMMA UdpKillInv ==
    ASSUME UdpInv, NEW c \in Coms, UdpKill(c)
    PROVE  UdpInv'
<1> DEFINE x == IF udp.st[c] = "dropped" THEN "shut" ELSE "close"
<1>1. /\ udp.fd \in [Coms -> Fds \cup {NoFd}]
      /\ udp.peer \in [Fds -> Coms \cup {"nobody"}]
      /\ udp = [st |-> udp.st, fd |-> udp.fd, killed |-> udp.killed, cache |-> udp.cache,
                peer |-> udp.peer]
  BY UdpTypes DEF UdpInv
<1>2. /\ udp' = [(IF udp.killed[c] THEN udp ELSE KillSocket(udp, udp.fd[c])) EXCEPT !.st[c] = x]
      /\ x \in {"shut", "close"} /\ udp.st[c] \in {"dropped", "closing"}
  BY DEF UdpKill
<1> HIDE DEF x
<1>3. PICK peer \in [Fds -> Coms \cup {"nobody"}] :
          KillSocket(udp, udp.fd[c]) = [st |-> udp.st, fd |-> udp.fd, killed |-> udp.killed,
                                        cache |-> udp.cache, peer |-> peer]
  BY KillSocketPeer DEF UdpInv
<1>4. \/ udp' = [st |-> [udp.st EXCEPT ![c] = x], fd |-> udp.fd, killed |-> udp.killed,
                 cache |-> udp.cache, peer |-> udp.peer]
      \/ udp' = [st |-> [udp.st EXCEPT ![c] = x], fd |-> udp.fd, killed |-> udp.killed,
                 cache |-> udp.cache, peer |-> peer]
  BY <1>1, <1>2, <1>3
<1> QED
  BY <1>1, <1>2, <1>4, UdpKeepInv, StatesKnown

LEMMA UdpCloseInv ==
    ASSUME UdpInv, NEW c \in Coms, UdpClose(c)
    PROVE  UdpInv'
<1>1. udp.fd \in [Coms -> Fds \cup {NoFd}]
  BY UdpTypes DEF UdpInv
<1>2. PICK peer \in [Fds -> Coms \cup {"nobody"}] :
          KillSocket(udp, udp.fd[c]) = [st |-> udp.st, fd |-> udp.fd, killed |-> udp.killed,
                                        cache |-> udp.cache, peer |-> peer]
  BY KillSocketPeer DEF UdpInv
<1>3. udp' = [st |-> [udp.st EXCEPT ![c] = "gone"], fd |-> udp.fd, killed |-> udp.killed,
              cache |-> udp.cache, peer |-> peer]
  BY <1>2 DEF UdpClose
<1> QED
  BY <1>1, <1>3, UdpKeepInv, StatesKnown DEF UdpClose

\* Every step keeps the invariant.
LEMMA UdpNextInv == UdpInv /\ [UdpNext]_udp => UdpInv'
<1> SUFFICES ASSUME UdpInv, [UdpNext]_udp PROVE UdpInv'
  OBVIOUS
<1>1. CASE UdpNext
  BY <1>1, UdpLookupInv, UdpCreateInv, UdpStoreInv, UdpDerefInv, UdpKillInv, UdpCloseInv
     DEF UdpNext
<1>2. CASE UNCHANGED udp
  BY <1>2 DEF UdpInv, UdpTypeOK, EntryIsHeld
<1> QED
  BY <1>1, <1>2

LEMMA UdpInvariant == UdpSpec => []UdpInv
BY UdpInitInv, UdpNextInv, PTL DEF UdpSpec

\* The reference counts of ConnectionsCache never exceed the open Coms of their
\* keys, however connects, shutdowns and the second shutdown by close
\* interleave (udpcom.cpp, kill_and_deref_from_connnect).
THEOREM UdpEntryIsHeld == UdpSpec => []EntryIsHeld
<1>1. UdpInv => EntryIsHeld
  BY DEF UdpInv
<1> QED
  BY <1>1, UdpInvariant, PTL

\* Coms, cache and the kernel's table keep their types: in particular no count
\* passes the number of Coms or drops below zero.
THEOREM UdpTypesKept == UdpSpec => []UdpTypeOK
<1>1. UdpInv => UdpTypeOK
  BY DEF UdpInv
<1> QED
  BY <1>1, UdpInvariant, PTL

-----------------------------------------------------------------------------
(* Datagrams: no session is lost between the receiver and the workers.     *)

\* The hint of a session is queued, or a worker has just taken it, or has tried
\* in vain.
Hinted(d, s) ==
    s \in Range(d.hints) \cup d.failed \/ \E w \in UdpWorkers : d.taken[w] = s

\* NoSessionLost of any state of the records.
NoLoss(d) ==
    \A s \in Sessions : d.entry[s] = "live" /\ d.owner[s] = NoWorker => Hinted(d, s)

\* The inductive invariant.
DgInv == dg \in DgType /\ NoLoss(dg)

\* The parts of the records that NoSessionLost is about stay.
SameHints(d, e) ==
    /\ e.entry = d.entry /\ e.owner = d.owner /\ e.hints = d.hints /\ e.taken = d.taken
    /\ e.failed = d.failed

\* The parts of a state have their types, and there are no others.
LEMMA DgFields ==
    ASSUME NEW d \in DgType
    PROVE  /\ d.entry \in [Sessions -> {"none", "live", "orphan"}]
           /\ d.slots \in [Sessions -> [1 .. QueueSlots -> 0 .. MaxDatagrams]]
           /\ d.left \in [Sessions -> Seq(1 .. MaxDatagrams)]
           /\ d.sent \in [Sessions -> 0 .. MaxDatagrams]
           /\ d.got \in [Sessions -> Seq(1 .. MaxDatagrams)]
           /\ d.hints \in Seq(Sessions) /\ d.virt \in SUBSET Sessions
           /\ d.taken \in [UdpWorkers -> Sessions \cup {Nothing}]
           /\ d.owner \in [Sessions -> UdpWorkers \cup {NoWorker}]
           /\ d.copied \in [UdpWorkers -> SUBSET Sessions]
           /\ d.handled \in [UdpWorkers -> SUBSET Sessions]
           /\ d.failed \in SUBSET Sessions /\ d.depleted \in SUBSET Sessions
           /\ d.erasing \in [UdpWorkers -> SUBSET Sessions]
           /\ d.closing \in SUBSET Sessions
BY DEF DgType

\* The first slot of a set of slots is one of them.
LEMMA FirstOfType ==
    ASSUME NEW I \in SUBSET (1 .. QueueSlots), I # {}
    PROVE  FirstOf(I) \in I
<1>1. I \in SUBSET Nat
  BY QueueSlotsAssumption
<1> QED
  BY <1>1, LeastOf DEF FirstOf

\* Datagram::enqueue writes one slot, or nothing.
LEMMA EnqueueType ==
    ASSUME NEW d \in DgType, NEW s \in Sessions, NEW x \in 1 .. MaxDatagrams
    PROVE  Enqueue(d, s, x) \in DgType /\ SameHints(d, Enqueue(d, s, x))
<1> DEFINE free == 1 .. QueueSlots \ Used(d, s)
           i == FirstOf(free)
<1>1. CASE free = {}
  BY <1>1 DEF Enqueue, SameHints
<1>2. CASE free # {}
  <2>1. i \in 1 .. QueueSlots
    BY <1>2, FirstOfType
  <2>2. Enqueue(d, s, x) = [d EXCEPT !.slots[s][i] = x]
    BY <1>2 DEF Enqueue
  <2> HIDE DEF i
  <2>3. [d.slots EXCEPT ![s][i] = x] \in [Sessions -> [1 .. QueueSlots -> 0 .. MaxDatagrams]]
    BY <2>1, DgFields, MaxDatagramsAssumption
  <2>4. [d EXCEPT !.slots[s][i] = x] = [d EXCEPT !.slots = [d.slots EXCEPT ![s][i] = x]]
    BY DEF DgType
  <2> QED
    BY <2>2, <2>3, <2>4 DEF DgType, SameHints
<1> QED
  BY <1>1, <1>2

\* read_from_pool moves one datagram into the context, or nothing.
LEMMA ReadFromPoolType ==
    ASSUME NEW d \in DgType, NEW s \in Sessions
    PROVE  ReadFromPool(d, s) \in DgType /\ SameHints(d, ReadFromPool(d, s))
<1> DEFINE i == FirstOf(Used(d, s))
<1>0. /\ d.slots \in [Sessions -> [1 .. QueueSlots -> 0 .. MaxDatagrams]]
      /\ d.left \in [Sessions -> Seq(1 .. MaxDatagrams)]
      /\ d.got \in [Sessions -> Seq(1 .. MaxDatagrams)]
      /\ d.virt \in SUBSET Sessions
  BY DgFields
<1>1. CASE Used(d, s) # {}
  <2> DEFINE sl == [d.slots EXCEPT ![s][i] = Vacant]
             go == [d.got EXCEPT ![s] = Append(@, d.slots[s][i])]
             vi == IF Used(d, s) = {i} THEN d.virt \ {s} ELSE d.virt \cup {s}
  <2>1. i \in 1 .. QueueSlots /\ d.slots[s][i] \in 1 .. MaxDatagrams
    <3>1. Used(d, s) \in SUBSET (1 .. QueueSlots)
      BY DEF Used
    <3>2. i \in Used(d, s)
      BY <1>1, <3>1, FirstOfType
    <3> HIDE DEF i
    <3>3. i \in 1 .. QueueSlots /\ d.slots[s][i] # 0
      BY <3>2 DEF Used, Vacant
    <3>4. d.slots[s] \in [1 .. QueueSlots -> 0 .. MaxDatagrams]
      BY <1>0
    <3>5. d.slots[s][i] \in 0 .. MaxDatagrams
      BY <3>3, <3>4
    <3> QED
      BY <3>3, <3>5, MaxDatagramsAssumption
  <2> HIDE DEF i
  <2>2. ReadFromPool(d, s) = [d EXCEPT !.slots[s][i] = Vacant, !.got[s] = Append(@, d.slots[s][i]),
                                       !.virt = IF Used(d, s) = {i} THEN @ \ {s} ELSE @ \cup {s}]
    BY <1>1 DEF ReadFromPool, i
  <2>3. ReadFromPool(d, s) = [d EXCEPT !.slots = sl, !.got = go, !.virt = vi]
    BY <2>2 DEF DgType
  <2>4. sl \in [Sessions -> [1 .. QueueSlots -> 0 .. MaxDatagrams]]
    BY <1>0, <2>1, MaxDatagramsAssumption DEF Vacant
  <2>5. go \in [Sessions -> Seq(1 .. MaxDatagrams)]
    BY <1>0, <2>1
  <2>6. vi \in SUBSET Sessions
    BY <1>0
  <2> HIDE DEF sl, go, vi
  <2> QED
    BY <2>3, <2>4, <2>5, <2>6 DEF DgType, SameHints
<1>2. CASE Used(d, s) = {} /\ d.left[s] # <<>>
  <2> DEFINE le == [d.left EXCEPT ![s] = Tail(@)]
             go == [d.got EXCEPT ![s] = Append(@, Head(d.left[s]))]
  <2>1. ReadFromPool(d, s) = [d EXCEPT !.left = le, !.got = go]
    BY <1>2 DEF ReadFromPool, DgType
  <2>2. le \in [Sessions -> Seq(1 .. MaxDatagrams)] /\ go \in [Sessions -> Seq(1 .. MaxDatagrams)]
    <3> DEFINE l == d.left[s]
               M == 1 .. MaxDatagrams
    <3>1. l \in Seq(M) /\ l # <<>> /\ d.got[s] \in Seq(M)
      BY <1>0, <1>2
    <3> HIDE DEF l, M
    <3>2. Tail(l) \in Seq(M) /\ Head(l) \in M
      BY <3>1
    <3>3. Append(d.got[s], Head(l)) \in Seq(M)
      BY <3>1, <3>2
    <3> QED
      BY <1>0, <3>2, <3>3 DEF l, M
  <2> HIDE DEF le, go
  <2> QED
    BY <2>1, <2>2 DEF DgType, SameHints
<1>3. CASE Used(d, s) = {} /\ d.left[s] = <<>>
  BY <1>3 DEF ReadFromPool, SameHints
<1> QED
  BY <1>1, <1>2, <1>3

\* The same for a pass over the sessions of a worker.
LEMMA ReadEachType ==
    ASSUME NEW d \in DgType, NEW R \in SUBSET Sessions
    PROVE  ReadEach(d, R) \in DgType /\ SameHints(d, ReadEach(d, R))
<1> DEFINE sl == [r \in Sessions |-> IF r \in R THEN ReadFromPool(d, r).slots[r] ELSE d.slots[r]]
           le == [r \in Sessions |-> IF r \in R THEN ReadFromPool(d, r).left[r] ELSE d.left[r]]
           go == [r \in Sessions |-> IF r \in R THEN ReadFromPool(d, r).got[r] ELSE d.got[r]]
           vi == {r \in Sessions : r \in IF r \in R THEN ReadFromPool(d, r).virt ELSE d.virt}
<1>1. ReadEach(d, R) = [d EXCEPT !.slots = sl, !.left = le, !.got = go, !.virt = vi]
  BY DEF ReadEach, DgType
<1>2. ASSUME NEW r \in Sessions
      PROVE  /\ d.slots[r] \in [1 .. QueueSlots -> 0 .. MaxDatagrams]
             /\ d.left[r] \in Seq(1 .. MaxDatagrams) /\ d.got[r] \in Seq(1 .. MaxDatagrams)
             /\ ReadFromPool(d, r).slots[r] \in [1 .. QueueSlots -> 0 .. MaxDatagrams]
             /\ ReadFromPool(d, r).left[r] \in Seq(1 .. MaxDatagrams)
             /\ ReadFromPool(d, r).got[r] \in Seq(1 .. MaxDatagrams)
  BY ReadFromPoolType, DgFields
<1>3. /\ sl \in [Sessions -> [1 .. QueueSlots -> 0 .. MaxDatagrams]]
      /\ le \in [Sessions -> Seq(1 .. MaxDatagrams)]
      /\ go \in [Sessions -> Seq(1 .. MaxDatagrams)]
      /\ vi \in SUBSET Sessions
  BY <1>2
<1> HIDE DEF sl, le, go, vi
<1> QED
  BY <1>1, <1>3 DEF DgType, SameHints

\* Looking into the record again touches neither hints nor contexts.
LEMMA PoolCheckedType ==
    ASSUME NEW d \in DgType, NEW w \in UdpWorkers, NEW R \in SUBSET Sessions
    PROVE  PoolChecked(d, w, R) \in DgType /\ SameHints(d, PoolChecked(d, w, R))
<1> DEFINE er == [d.erasing EXCEPT ![w] = {s \in R \ d.depleted : Used(d, s) = {}}]
<1>1. PoolChecked(d, w, R) = [d EXCEPT !.erasing = er]
  BY DEF PoolChecked, DgType
<1>2. er \in [UdpWorkers -> SUBSET Sessions]
  BY DgFields
<1> HIDE DEF er
<1> QED
  BY <1>1, <1>2 DEF DgType, SameHints

\* Records whose hints and contexts stay keep the invariant.
LEMMA SameHintsNoLoss ==
    ASSUME NEW d, NEW e, NoLoss(d), SameHints(d, e)
    PROVE  NoLoss(e)
BY DEF NoLoss, SameHints, Hinted

LEMMA DgInitInv == DgInit => DgInv
<1> SUFFICES ASSUME DgInit PROVE DgInv
  OBVIOUS
<1>1. dg \in DgType
  BY QueueSlotsAssumption, MaxDatagramsAssumption DEF DgInit, DgType, Vacant
<1>2. NoLoss(dg)
  BY DEF DgInit, NoLoss
<1> QED
  BY <1>1, <1>2 DEF DgInv


\* hint_push_all: the hint is queued behind the others.
LEMMA HintPushAllNoLoss ==
    ASSUME NEW d \in DgType, NEW s \in Sessions, NEW e \in DgType,
           e.entry = [d.entry EXCEPT ![s] = "live"], e.owner = d.owner, e.taken = d.taken,
           e.hints = Append(d.hints, s), e.failed = d.failed, NoLoss(d)
    PROVE  NoLoss(e)
<1>1. d.hints \in Seq(Sessions) /\ d.entry \in [Sessions -> {"none", "live", "orphan"}]
  BY DgFields
<1>2. Range(e.hints) = Range(d.hints) \cup {s}
  BY <1>1 DEF Range
<1> QED
  BY <1>1, <1>2 DEF NoLoss, Hinted

\* A record that is not live any more is not waiting for a worker.
LEMMA DeadNoLoss ==
    ASSUME NEW d \in DgType, NEW s \in Sessions, NEW e, NEW x, x # "live", NoLoss(d),
           e.entry = [d.entry EXCEPT ![s] = x], \A r \in Sessions \ {s} : e.owner[r] = d.owner[r],
           e.hints = d.hints, e.taken = d.taken, d.failed \ {s} \subseteq e.failed
    PROVE  NoLoss(e)
<1>1. d.entry \in [Sessions -> {"none", "live", "orphan"}]
  BY DgFields
<1> QED
  BY <1>1 DEF NoLoss, Hinted

\* add_first_datagrams: a new record comes with its hint, or without a socket.
LEMMA AddFirstDatagramsInv ==
    ASSUME DgInv, NEW s \in Sessions, dg.sent[s] < MaxDatagrams, AddFirstDatagrams(s)
    PROVE  DgInv'
<1> DEFINE x == dg.sent[s] + 1
           b == [dg EXCEPT !.sent[s] = x]
           e == Enqueue(b, s, x)
<1>0. dg \in DgType /\ NoLoss(dg) /\ dg.sent[s] \in 0 .. MaxDatagrams
  BY DgFields DEF DgInv
<1>1. x \in 1 .. MaxDatagrams
  BY <1>0, MaxDatagramsAssumption
<1> HIDE DEF x
<1>2. b \in DgType /\ SameHints(dg, b)
  <2> DEFINE se == [dg.sent EXCEPT ![s] = x]
  <2>1. b = [dg EXCEPT !.sent = se]
    BY <1>0 DEF DgType
  <2>2. se \in [Sessions -> 0 .. MaxDatagrams]
    BY <1>0, <1>1, DgFields, MaxDatagramsAssumption
  <2> HIDE DEF se, b
  <2> QED
    BY <1>0, <2>1, <2>2 DEF DgType, SameHints
<1> HIDE DEF b
<1>3. e \in DgType /\ SameHints(dg, e)
  BY <1>1, <1>2, EnqueueType DEF SameHints
<1>4. NoLoss(e)
  BY <1>0, <1>3, SameHintsNoLoss
<1>5. \/ dg' = [e EXCEPT !.virt = @ \cup {s}]
      \/ dg' = [HintPushAll([e EXCEPT !.entry[s] = "live", !.got[s] = <<>>], s)
                   EXCEPT !.virt = @ \cup {s}]
      \/ dg' = [e EXCEPT !.entry[s] = "orphan"]
      \/ dg' = [dg EXCEPT !.entry[s] = "orphan"]
  BY DEF AddFirstDatagrams, b, x
<1> HIDE DEF e
<1>6. CASE dg' = [e EXCEPT !.virt = @ \cup {s}]
  <2>1. dg' \in DgType /\ SameHints(e, dg')
    BY <1>3, <1>6 DEF DgType, SameHints
  <2> QED
    BY <1>4, <2>1, SameHintsNoLoss DEF DgInv
<1>7. CASE dg' = [HintPushAll([e EXCEPT !.entry[s] = "live", !.got[s] = <<>>], s)
                     EXCEPT !.virt = @ \cup {s}]
  <2>1. dg' = [e EXCEPT !.entry = [e.entry EXCEPT ![s] = "live"],
                        !.got = [e.got EXCEPT ![s] = <<>>],
                        !.hints = Append(e.hints, s), !.virt = e.virt \cup {s}]
    BY <1>3, <1>7 DEF HintPushAll, DgType
  <2>2. /\ [e.entry EXCEPT ![s] = "live"] \in [Sessions -> {"none", "live", "orphan"}]
        /\ [e.got EXCEPT ![s] = <<>>] \in [Sessions -> Seq(1 .. MaxDatagrams)]
        /\ Append(e.hints, s) \in Seq(Sessions)
    BY <1>3, DgFields
  <2>3. dg' \in DgType
    <3>1. ASSUME NEW en \in [Sessions -> {"none", "live", "orphan"}],
                 NEW go \in [Sessions -> Seq(1 .. MaxDatagrams)],
                 NEW hi \in Seq(Sessions), NEW vi \in SUBSET Sessions
          PROVE  [e EXCEPT !.entry = en, !.got = go, !.hints = hi, !.virt = vi] \in DgType
      BY <1>3 DEF DgType
    <3>2. e.virt \cup {s} \in SUBSET Sessions
      BY <1>3, DgFields
    <3> QED
      BY <2>1, <2>2, <3>1, <3>2
  <2>4. /\ dg'.entry = [e.entry EXCEPT ![s] = "live"] /\ dg'.owner = e.owner
        /\ dg'.taken = e.taken /\ dg'.hints = Append(e.hints, s) /\ dg'.failed = e.failed
    BY <1>3, <2>1 DEF DgType
  <2> QED
    BY <1>3, <1>4, <2>3, <2>4, HintPushAllNoLoss DEF DgInv
<1>8. CASE dg' = [e EXCEPT !.entry[s] = "orphan"]
  <2>1. /\ dg' \in DgType /\ dg'.entry = [e.entry EXCEPT ![s] = "orphan"]
        /\ dg'.owner = e.owner /\ dg'.hints = e.hints /\ dg'.taken = e.taken
        /\ dg'.failed = e.failed
    BY <1>3, <1>8 DEF DgType
  <2> QED
    BY <1>3, <1>4, <2>1, DeadNoLoss DEF DgInv
<1>9. CASE dg' = [dg EXCEPT !.entry[s] = "orphan"]
  <2>1. /\ dg' \in DgType /\ dg'.entry = [dg.entry EXCEPT ![s] = "orphan"]
        /\ dg'.owner = dg.owner /\ dg'.hints = dg.hints /\ dg'.taken = dg.taken
        /\ dg'.failed = dg.failed
    BY <1>0, <1>9 DEF DgType
  <2> QED
    BY <1>0, <2>1, DeadNoLoss DEF DgInv
<1> QED
  BY <1>5, <1>6, <1>7, <1>8, <1>9

\* on_left_new_raw: a datagram is enqueued or dropped.
LEMMA OnLeftNewRawInv ==
    ASSUME DgInv, NEW s \in Sessions, OnLeftNewRaw(s)
    PROVE  DgInv'
<1>1. CASE AddFirstDatagrams(s)
  BY <1>1, AddFirstDatagramsInv DEF OnLeftNewRaw
<1>2. CASE dg' = [dg EXCEPT !.sent[s] = @ + 1]
  <2>1. dg.sent[s] + 1 \in 0 .. MaxDatagrams
    BY DgFields, MaxDatagramsAssumption DEF DgInv, OnLeftNewRaw
  <2>2. dg' \in DgType /\ SameHints(dg, dg')
    BY <1>2, <2>1 DEF DgInv, DgType, SameHints
  <2> QED
    BY <2>2, SameHintsNoLoss DEF DgInv
<1> QED
  BY <1>1, <1>2 DEF OnLeftNewRaw

\* A datagram for the connected socket.
LEMMA ClientSendsInv ==
    ASSUME DgInv, NEW s \in Sessions, ClientSends(s)
    PROVE  DgInv'
<1>1. dg.sent[s] + 1 \in 1 .. MaxDatagrams
  BY DgFields, MaxDatagramsAssumption DEF DgInv, ClientSends
<1>2. Append(dg.left[s], dg.sent[s] + 1) \in Seq(1 .. MaxDatagrams)
  <2>1. dg.left[s] \in Seq(1 .. MaxDatagrams)
    BY DgFields DEF DgInv
  <2> QED
    BY <1>1, <2>1
<1>3. dg' = [dg EXCEPT !.sent = [dg.sent EXCEPT ![s] = @ + 1],
                       !.left = [dg.left EXCEPT ![s] = Append(@, dg.sent[s] + 1)]]
  BY DEF ClientSends, DgInv, DgType
<1>4. /\ [dg.sent EXCEPT ![s] = @ + 1] \in [Sessions -> 0 .. MaxDatagrams]
      /\ [dg.left EXCEPT ![s] = Append(@, dg.sent[s] + 1)] \in [Sessions -> Seq(1 .. MaxDatagrams)]
  BY <1>1, <1>2, DgFields, MaxDatagramsAssumption DEF DgInv
<1>5. dg' \in DgType /\ SameHints(dg, dg')
  BY <1>3, <1>4 DEF DgInv, DgType, SameHints
<1> QED
  BY <1>5, SameHintsNoLoss DEF DgInv

\* FdQueue::pop: the hint passes from the queue to the worker.
LEMMA PopForWorkerInv ==
    ASSUME DgInv, NEW w \in UdpWorkers, PopForWorker(w)
    PROVE  DgInv'
<1>0. dg \in DgType /\ NoLoss(dg)
  BY DEF DgInv
<1>1. dg.hints \in Seq(Sessions) /\ dg.hints # <<>> /\ dg.taken[w] = Nothing
      /\ dg.taken \in [UdpWorkers -> Sessions \cup {Nothing}]
  BY <1>0, DgFields DEF PopForWorker
<1>2. Head(dg.hints) \in Sessions /\ Tail(dg.hints) \in Seq(Sessions)
  BY <1>1
<1>3. dg' = [dg EXCEPT !.hints = Tail(dg.hints), !.taken = [dg.taken EXCEPT ![w] = Head(dg.hints)]]
  BY <1>0 DEF PopForWorker, DgType
<1>4. dg' \in DgType
  BY <1>0, <1>1, <1>2, <1>3 DEF DgType
<1>5. /\ dg'.entry = dg.entry /\ dg'.owner = dg.owner /\ dg'.hints = Tail(dg.hints)
      /\ dg'.taken = [dg.taken EXCEPT ![w] = Head(dg.hints)] /\ dg'.failed = dg.failed
  BY <1>0, <1>3 DEF DgType
<1>6. Range(dg.hints) \subseteq Range(Tail(dg.hints)) \cup {Head(dg.hints)}
  <2> DEFINE h == dg.hints
  <2>1. h \in Seq(Sessions) /\ h # <<>>
    BY <1>1
  <2> HIDE DEF h
  <2> SUFFICES ASSUME NEW i \in DOMAIN h, i # 1 PROVE h[i] \in Range(Tail(h))
    BY <2>1 DEF Range, h
  <2>2. i - 1 \in DOMAIN Tail(h) /\ Tail(h)[i - 1] = h[i]
    BY <2>1
  <2> QED
    BY <2>2 DEF Range
<1>7. ASSUME NEW s \in Sessions, Hinted(dg, s) PROVE Hinted(dg', s)
  BY <1>1, <1>5, <1>6, <1>7, NothingAssumption DEF Hinted
<1> QED
  BY <1>0, <1>4, <1>5, <1>7 DEF DgInv, NoLoss

\* A hand-over only changes who has the session, or marks it as tried.
LEMMA HandOverType ==
    ASSUME NEW d \in DgType, NEW w \in UdpWorkers, NEW s \in Sessions,
           NEW n \in HandOver(d, w, s)
    PROVE  /\ n \in DgType
           /\ n.entry = d.entry /\ n.hints = d.hints /\ n.taken = d.taken
           /\ \A r \in Sessions \ {s} : n.owner[r] = d.owner[r] /\ (r \in d.failed => r \in n.failed)
           /\ d.entry[s] # "none" => n.owner[s] = w \/ s \in n.failed
<1>1. CASE n = d /\ d.entry[s] = "none"
  BY <1>1
<1>2. CASE n = [d EXCEPT !.owner[s] = w, !.depleted = @ \ {s}, !.failed = @ \ {s}]
  <2> DEFINE ow == [d.owner EXCEPT ![s] = w]
  <2>1. n = [d EXCEPT !.owner = ow, !.depleted = d.depleted \ {s}, !.failed = d.failed \ {s}]
    BY <1>2 DEF DgType
  <2>2. ow \in [Sessions -> UdpWorkers \cup {NoWorker}] /\ ow[s] = w
        /\ \A r \in Sessions \ {s} : ow[r] = d.owner[r]
    BY DgFields
  <2> HIDE DEF ow
  <2>3. /\ n \in DgType /\ n.entry = d.entry /\ n.hints = d.hints /\ n.taken = d.taken
        /\ n.owner = ow /\ n.failed = d.failed \ {s}
    BY <2>1, <2>2 DEF DgType
  <2> QED
    BY <2>2, <2>3
<1>3. CASE n = [d EXCEPT !.failed = @ \cup {s}]
  BY <1>3 DEF DgType
<1> QED
  BY <1>1, <1>2, <1>3 DEF HandOver

\* The session the hint was about has a context afterwards, or was tried.
LEMMA NewSessionInv ==
    ASSUME DgInv, NEW w \in UdpWorkers, NewSession(w)
    PROVE  DgInv'
<1> DEFINE s == dg.taken[w]
           ta == [dg.taken EXCEPT ![w] = Nothing]
           d == [dg EXCEPT !.taken = ta]
<1>0. dg \in DgType /\ NoLoss(dg)
  BY DEF DgInv
<1>1. s \in Sessions /\ dg.taken \in [UdpWorkers -> Sessions \cup {Nothing}]
  BY <1>0, DgFields DEF NewSession
<1>2. d = [dg EXCEPT !.taken[w] = Nothing]
  BY <1>0 DEF DgType
<1>3. ta \in [UdpWorkers -> Sessions \cup {Nothing}]
  BY <1>1
<1>4. /\ d \in DgType /\ d.entry = dg.entry /\ d.hints = dg.hints /\ d.owner = dg.owner
      /\ d.failed = dg.failed /\ d.taken = ta
  <2> HIDE DEF ta
  <2> QED
    BY <1>0, <1>3 DEF DgType
<1> HIDE DEF d
<1>5. PICK n \in HandOver(d, w, s) :
        LET mine == {r \in Sessions : n.owner[r] = w /\ n.entry[r] # "none"}
        IN  dg' = PoolChecked(ReadEach(n, mine), w, mine)
  BY <1>2 DEF NewSession
<1>6. /\ n \in DgType /\ n.entry = d.entry /\ n.hints = d.hints /\ n.taken = d.taken
      /\ \A r \in Sessions \ {s} : n.owner[r] = d.owner[r] /\ (r \in d.failed => r \in n.failed)
      /\ d.entry[s] # "none" => n.owner[s] = w \/ s \in n.failed
  <2> HIDE DEF s
  <2> QED
    BY <1>1, <1>4, HandOverType
<1>7. NoLoss(n)
  <2> SUFFICES ASSUME NEW r \in Sessions, n.entry[r] = "live", n.owner[r] = NoWorker
               PROVE  Hinted(n, r)
    BY DEF NoLoss
  <2>1. CASE r = s
    BY <1>6, <2>1, NoWorkerAssumption DEF Hinted
  <2>2. CASE r # s
    <3>1. Hinted(dg, r)
      BY <1>0, <1>4, <1>6, <2>2 DEF NoLoss
    <3>2. ASSUME NEW v \in UdpWorkers, dg.taken[v] = r PROVE n.taken[v] = r
      BY <1>1, <1>4, <1>6, <2>2, <3>2
    <3> QED
      BY <1>4, <1>6, <2>2, <3>1, <3>2 DEF Hinted
  <2> QED
    BY <2>1, <2>2
<1> DEFINE mine == {r \in Sessions : n.owner[r] = w /\ n.entry[r] # "none"}
           m == ReadEach(n, mine)
<1>8. m \in DgType /\ SameHints(n, m)
  BY <1>6, ReadEachType
<1>9. dg' = PoolChecked(m, w, mine) /\ mine \in SUBSET Sessions
  BY <1>5
<1> HIDE DEF m, mine
<1>10. dg' \in DgType /\ SameHints(n, dg')
  BY <1>8, <1>9, PoolCheckedType DEF SameHints
<1> QED
  BY <1>7, <1>10, SameHintsNoLoss DEF DgInv

\* Looking through in_virt_set touches neither hints nor contexts.
LEMMA VirtInv ==
    ASSUME DgInv, NEW w \in UdpWorkers,
           \/ VirtCopy(w)
           \/ \E s \in Sessions : VirtHandle(w, s) \/ VirtErase(w, s) \/ PoolErase(w, s)
    PROVE  DgInv'
<1>0. dg \in DgType /\ NoLoss(dg)
  BY DEF DgInv
<1>1. CASE VirtCopy(w)
  <2>1. dg' = [dg EXCEPT !.copied = [dg.copied EXCEPT ![w] = dg.virt]]
    BY <1>0, <1>1 DEF VirtCopy, DgType
  <2>2. dg' \in DgType /\ SameHints(dg, dg')
    BY <1>0, <2>1 DEF DgType, SameHints
  <2> QED
    BY <1>0, <2>2, SameHintsNoLoss DEF DgInv
<1>2. ASSUME NEW s \in Sessions, VirtHandle(w, s) PROVE DgInv'
  <2> DEFINE d == [dg EXCEPT !.copied[w] = @ \ {s}, !.handled[w] = @ \cup {s}]
  <2>1. d = [dg EXCEPT !.copied = [dg.copied EXCEPT ![w] = @ \ {s}],
                       !.handled = [dg.handled EXCEPT ![w] = @ \cup {s}]]
    BY <1>0 DEF DgType
  <2>2. /\ [dg.copied EXCEPT ![w] = @ \ {s}] \in [UdpWorkers -> SUBSET Sessions]
        /\ [dg.handled EXCEPT ![w] = @ \cup {s}] \in [UdpWorkers -> SUBSET Sessions]
    BY <1>0, DgFields
  <2>3. dg' = PoolChecked(ReadFromPool(d, s), w, {s}) \/ dg' = d
    BY <1>2 DEF VirtHandle
  <2>4. d \in DgType /\ SameHints(dg, d)
    <3>1. ASSUME NEW co \in [UdpWorkers -> SUBSET Sessions],
                 NEW ha \in [UdpWorkers -> SUBSET Sessions]
          PROVE  LET e == [dg EXCEPT !.copied = co, !.handled = ha]
                 IN  e \in DgType /\ SameHints(dg, e)
      BY <1>0 DEF DgType, SameHints
    <3> QED
      BY <2>1, <2>2, <3>1
  <2> HIDE DEF d
  <2>5. dg' \in DgType /\ SameHints(dg, dg')
    <3> DEFINE f == ReadFromPool(d, s)
    <3>1. f \in DgType /\ SameHints(d, f)
      BY <2>4, ReadFromPoolType
    <3>2. dg' = PoolChecked(f, w, {s}) \/ dg' = d
      BY <2>3
    <3> HIDE DEF f
    <3>3. PoolChecked(f, w, {s}) \in DgType /\ SameHints(f, PoolChecked(f, w, {s}))
      BY <3>1, PoolCheckedType
    <3> QED
      BY <2>4, <3>1, <3>2, <3>3 DEF SameHints
  <2> QED
    BY <1>0, <2>5, SameHintsNoLoss DEF DgInv
<1>3. ASSUME NEW s \in Sessions, VirtErase(w, s) PROVE DgInv'
  <2>1. dg' = [dg EXCEPT !.handled = [dg.handled EXCEPT ![w] = @ \ {s}], !.virt = dg.virt \ {s}]
    BY <1>0, <1>3 DEF VirtErase, DgType
  <2>2. dg' \in DgType /\ SameHints(dg, dg')
    BY <1>0, <2>1 DEF DgType, SameHints
  <2> QED
    BY <1>0, <2>2, SameHintsNoLoss DEF DgInv
<1>4. ASSUME NEW s \in Sessions, PoolErase(w, s) PROVE DgInv'
  <2>1. PICK event \in BOOLEAN :
          dg' = [dg EXCEPT !.erasing[w] = @ \ {s},
                           !.virt = IF event THEN @ ELSE @ \ {s},
                           !.depleted = IF event THEN @ ELSE @ \cup {s}]
    BY <1>4 DEF PoolErase
  <2> DEFINE er == [dg.erasing EXCEPT ![w] = @ \ {s}]
             vi == IF event THEN dg.virt ELSE dg.virt \ {s}
             de == IF event THEN dg.depleted ELSE dg.depleted \cup {s}
  <2>2. dg' = [dg EXCEPT !.erasing = er, !.virt = vi, !.depleted = de]
    BY <1>0, <2>1 DEF DgType
  <2>3. er \in [UdpWorkers -> SUBSET Sessions] /\ vi \in SUBSET Sessions /\ de \in SUBSET Sessions
    BY <1>0, DgFields
  <2> HIDE DEF er, vi, de
  <2>4. dg' \in DgType /\ SameHints(dg, dg')
    BY <1>0, <2>2, <2>3 DEF DgType, SameHints
  <2> QED
    BY <1>0, <2>4, SameHintsNoLoss DEF DgInv
<1> QED
  BY <1>1, <1>2, <1>3, <1>4

\* shutdown() drops the record with the context, then once more.
LEMMA CloseInv ==
    ASSUME DgInv, NEW s \in Sessions, CloseSession(s) \/ CloseEmbryonic(s)
    PROVE  DgInv'
<1> DEFINE vac == [i \in 1 .. QueueSlots |-> Vacant]
           en == [dg.entry EXCEPT ![s] = "none"]
           sl == [dg.slots EXCEPT ![s] = vac]
           le == [dg.left EXCEPT ![s] = <<>>]
           g == [dg EXCEPT !.entry = en, !.slots = sl, !.left = le, !.virt = dg.virt \ {s},
                            !.failed = dg.failed \ {s}]
<1>0. dg \in DgType /\ NoLoss(dg)
  BY DEF DgInv
<1>1. RemoveEntry(dg, s) = g
  BY <1>0 DEF RemoveEntry, DgType
<1>2. /\ en \in [Sessions -> {"none", "live", "orphan"}]
      /\ sl \in [Sessions -> [1 .. QueueSlots -> 0 .. MaxDatagrams]]
      /\ le \in [Sessions -> Seq(1 .. MaxDatagrams)]
  <2>1. vac \in [1 .. QueueSlots -> 0 .. MaxDatagrams] /\ <<>> \in Seq(1 .. MaxDatagrams)
    BY MaxDatagramsAssumption DEF Vacant
  <2> HIDE DEF vac
  <2> QED
    BY <1>0, <2>1, DgFields
<1>3. g \in DgType
  <2> HIDE DEF en, sl, le
  <2> QED
    BY <1>0, <1>2 DEF DgType
<1>4. /\ g.entry = en /\ g.owner = dg.owner /\ g.hints = dg.hints /\ g.taken = dg.taken
      /\ g.failed = dg.failed \ {s}
      /\ dg.owner \in [Sessions -> UdpWorkers \cup {NoWorker}]
  <2> HIDE DEF en, sl, le
  <2> QED
    BY <1>0 DEF DgType
<1> HIDE DEF g
<1>5. CASE dg' = [g EXCEPT !.owner[s] = NoWorker, !.closing = @ \cup {s}]
  <2>1. /\ dg' \in DgType /\ dg'.entry = en /\ dg'.hints = dg.hints /\ dg'.taken = dg.taken
        /\ dg'.owner = [dg.owner EXCEPT ![s] = NoWorker] /\ dg'.failed = dg.failed \ {s}
    BY <1>3, <1>4, <1>5 DEF DgType
  <2> QED
    BY <1>0, <1>4, <2>1, DeadNoLoss DEF DgInv
<1>6. CASE dg' = [g EXCEPT !.closing = @ \ {s}]
  <2>1. /\ dg' \in DgType /\ dg'.entry = en /\ dg'.hints = dg.hints /\ dg'.taken = dg.taken
        /\ dg'.owner = dg.owner /\ dg'.failed = dg.failed \ {s}
    BY <1>3, <1>4, <1>6 DEF DgType
  <2> QED
    BY <1>0, <2>1, DeadNoLoss DEF DgInv
<1> QED
  BY <1>1, <1>5, <1>6 DEF CloseSession, CloseEmbryonic

\* Every step of receiver and workers keeps the invariant.
LEMMA DgNextInv == DgInv /\ [DgNext]_dg => DgInv'
<1> SUFFICES ASSUME DgInv, [DgNext]_dg PROVE DgInv'
  OBVIOUS
<1>1. ASSUME NEW s \in Sessions, LeftEvent(s) PROVE DgInv'
  <2> DEFINE f == ReadFromPool(dg, s)
  <2>1. f \in DgType /\ SameHints(dg, f)
    BY ReadFromPoolType DEF DgInv
  <2>2. PICK w \in UdpWorkers : dg' = PoolChecked(f, w, {s})
    BY <1>1 DEF LeftEvent
  <2> HIDE DEF f
  <2>3. dg' \in DgType /\ SameHints(f, dg')
    BY <2>1, <2>2, PoolCheckedType
  <2> QED
    BY <2>1, <2>3, SameHintsNoLoss DEF DgInv, SameHints
<1>2. ASSUME NEW w \in UdpWorkers, DgWorker(w) PROVE DgInv'
  BY <1>2, PopForWorkerInv, NewSessionInv, VirtInv DEF DgWorker
<1>3. CASE UNCHANGED dg
  BY <1>3 DEF DgInv, NoLoss, Hinted
<1> QED
  BY <1>1, <1>2, <1>3, OnLeftNewRawInv, ClientSendsInv, CloseInv DEF DgNext

LEMMA DgInvariant == DgSpec => []DgInv
BY DgInitInv, DgNextInv, PTL DEF DgSpec

\* A session with a record and no context has its hint queued or taken, or a
\* worker has tried and had no context for it, whatever the receiver, the workers
\* and shutdown() interleave (threadedreceiver.cpp, udpcom.cpp).
THEOREM DgNoSessionLost == DgSpec => []NoSessionLost
<1>1. DgInv => NoSessionLost
  BY DEF DgInv, NoSessionLost, NoLoss, Hinted
<1> QED
  BY <1>1, DgInvariant, PTL

\* The records keep their types: slots and queues only hold datagrams that the
\* client sent.
THEOREM DgTypesKept == DgSpec => []DgTypeOK
<1>1. DgInv => DgTypeOK
  BY DEF DgInv, DgTypeOK
<1> QED
  BY <1>1, DgInvariant, PTL
=============================================================================
