---------------------------- MODULE Stores_proofs ----------------------------
(***************************************************************************)
(* Proofs about the library's stores: ptr_cache, the certificate store     *)
(* built on it, and the memory pool with its buffers.                      *)
(***************************************************************************)
EXTENDS CertStore, MemPool, FiniteSetTheorems, SequenceTheorems,
        WellFoundedInduction, TLAPS

-----------------------------------------------------------------------------
(* Sequences.                                                              *)

LEMMA FrontLast ==
    ASSUME NEW S, NEW q \in Seq(S), q # <<>>
    PROVE  /\ Front(q) \in Seq(S) /\ Len(Front(q)) = Len(q) - 1
           /\ \A i \in 1..(Len(q) - 1) : Front(q)[i] = q[i]
           /\ Len(q) \in Nat \ {0} /\ Last(q) \in S /\ Last(q) = q[Len(q)]
           /\ Range(q) = Range(Front(q)) \cup {Last(q)}
<1>1. Len(q) \in Nat \ {0}
  BY DEF Front
<1>2. /\ Front(q) \in Seq(S) /\ Len(Front(q)) = Len(q) - 1
      /\ \A i \in 1..(Len(q) - 1) : Front(q)[i] = q[i]
  <2>1. \A i \in 1..(Len(q) - 1) : q[i] \in S
    BY <1>1
  <2> QED
    <3> DEFINE n == Len(q) - 1
    <3>1. 1 \in Int /\ n \in Int /\ Front(q) = SubSeq(q, 1, n)
      BY <1>1 DEF Front
    <3>2. /\ SubSeq(q, 1, n) \in Seq(S)
          /\ Len(SubSeq(q, 1, n)) = IF 1 <= n THEN n - 1 + 1 ELSE 0
          /\ \A i \in 1..(n - 1 + 1) : SubSeq(q, 1, n)[i] = q[1 + i - 1]
      <4>1. \A i \in 1..n : q[i] \in S
        BY <2>1
      <4> HIDE DEF n
      <4> QED
        BY <3>1, <4>1, SubSeqProperties
    <3> HIDE DEF n
    <3>3. n = Len(q) - 1 /\ n \in Nat
      BY <1>1 DEF n
    <3> QED
      BY <3>1, <3>2, <3>3
<1>3. Last(q) \in S /\ Last(q) = q[Len(q)]
  BY <1>1 DEF Last
<1>4. Range(q) = Range(Front(q)) \cup {Last(q)}
  <2>1. DOMAIN q = 1..Len(q) /\ DOMAIN Front(q) = 1..(Len(q) - 1)
    BY <1>1, <1>2
  <2>2. 1..Len(q) = 1..(Len(q) - 1) \cup {Len(q)}
    BY <1>1
  <2> QED
    BY <1>2, <1>3, <2>1, <2>2 DEF Range
<1> QED
  BY <1>1, <1>2, <1>3, <1>4

LEMMA Prepended ==
    ASSUME NEW S, NEW q \in Seq(S), NEW x \in S
    PROVE  /\ <<x>> \o q \in Seq(S) /\ Len(<<x>> \o q) = Len(q) + 1
           /\ (<<x>> \o q)[1] = x
           /\ \A i \in 1..Len(q) : (<<x>> \o q)[i + 1] = q[i]
           /\ Range(<<x>> \o q) = {x} \cup Range(q)
<1> DEFINE p == <<x>> \o q
<1>1. p \in Seq(S) /\ Len(p) = Len(q) + 1 /\ p[1] = x /\ Len(q) \in Nat
      /\ \A i \in 1..Len(q) : p[i + 1] = q[i]
  OBVIOUS
<1>2. DOMAIN p = 1..(Len(q) + 1) /\ DOMAIN q = 1..Len(q)
  BY <1>1
<1> HIDE DEF p
<1>3. Range(p) = {x} \cup Range(q)
  <2>1. ASSUME NEW i \in 1..(Len(q) + 1) PROVE p[i] \in {x} \cup Range(q)
    <3>1. CASE i = 1
      BY <1>1, <3>1
    <3>2. CASE i # 1
      <4>1. i - 1 \in 1..Len(q) /\ i = (i - 1) + 1
        BY <1>1, <3>2
      <4> QED
        BY <1>1, <1>2, <4>1 DEF Range
    <3> QED
      BY <3>1, <3>2
  <2>2. x \in Range(p)
    BY <1>1, <1>2 DEF Range
  <2>3. ASSUME NEW i \in 1..Len(q) PROVE q[i] \in Range(p)
    <3>1. i + 1 \in 1..(Len(q) + 1) /\ p[i + 1] = q[i]
      BY <1>1
    <3> QED
      BY <1>2, <3>1 DEF Range
  <2> QED
    BY <1>2, <2>1, <2>2, <2>3 DEF Range
<1> QED
  BY <1>1, <1>3 DEF p

\* No element twice.
Once(q) == \A i, j \in DOMAIN q : i # j => q[i] # q[j]

LEMMA FrontOnce ==
    ASSUME NEW S, NEW q \in Seq(S), q # <<>>, Once(q)
    PROVE  Once(Front(q)) /\ Last(q) \notin Range(Front(q))
<1>1. DOMAIN q = 1..Len(q) /\ DOMAIN Front(q) = 1..(Len(q) - 1) /\ Len(q) \in Nat \ {0}
  BY FrontLast
<1> QED
  BY <1>1, FrontLast DEF Once, Range

LEMMA PrependOnce ==
    ASSUME NEW S, NEW q \in Seq(S), NEW x \in S, Once(q), x \notin Range(q)
    PROVE  Once(<<x>> \o q)
<1> DEFINE p == <<x>> \o q
<1>1. /\ DOMAIN p = 1..(Len(q) + 1) /\ DOMAIN q = 1..Len(q) /\ Len(q) \in Nat
      /\ p[1] = x /\ \A i \in 1..Len(q) : p[i + 1] = q[i]
  BY Prepended
<1> HIDE DEF p
<1>2. \A i \in 1..Len(q) : q[i] # x
  BY <1>1 DEF Range
<1>3. ASSUME NEW i \in 1..(Len(q) + 1), NEW j \in 1..(Len(q) + 1), i < j PROVE p[i] # p[j]
  <2>1. j - 1 \in 1..Len(q) /\ p[j] = q[j - 1]
    <3>1. j - 1 \in 1..Len(q) /\ j = (j - 1) + 1
      BY <1>1, <1>3
    <3> QED
      BY <1>1, <3>1
  <2>2. CASE i = 1
    BY <1>1, <1>2, <2>1, <2>2
  <2>3. CASE i # 1
    <3>1. i - 1 \in 1..Len(q) /\ i = (i - 1) + 1
      BY <1>1, <2>3
    <3>2. p[i] = q[i - 1] /\ i - 1 # j - 1
      BY <1>1, <1>3, <3>1
    <3> QED
      BY <1>1, <2>1, <3>1, <3>2 DEF Once
  <2> QED
    BY <2>2, <2>3
<1>4. ASSUME NEW i \in 1..(Len(q) + 1), NEW j \in 1..(Len(q) + 1), i # j PROVE p[i] # p[j]
  <2>1. i < j \/ j < i
    BY <1>1, <1>4
  <2> QED
    BY <1>3, <2>1
<1> QED
  BY <1>1, <1>4 DEF Once, p

-----------------------------------------------------------------------------
(* ptr_cache.                                                              *)

\* PcInv of any cache with keys out of K, but for the bound of its counters.
Covered(c, K, max) ==
    /\ c \in CacheType(K, max) /\ max \in Nat \ {0}
    /\ Len(c.items) <= max
    /\ CachedKeys(c) \subseteq Range(c.items)
    /\ \A k \in K : c.count[k] <= c.total
    /\ c.mode = "LRU" => /\ Range(c.items) = CachedKeys(c)
                         /\ Once(c.items) /\ ~c.lost

\* A cache with other counters and another queue, a counter set to n, and the
\* keys that are counted.
Refilled(c, count, items, total) ==
    [c EXCEPT !.count = count, !.items = items, !.total = total]
Recount(c, k, n) == [c.count EXCEPT ![k] = n]
Counted(count) == {k \in DOMAIN count : count[k] # Absent}

\* What keys and queue have no part in.
SameKind(c, d) == d.mode = c.mode /\ d.total = c.total

LEMMA RefilledFields ==
    ASSUME NEW K, NEW max, NEW c \in CacheType(K, max),
           NEW count \in [K -> Nat \cup {Absent}], NEW items \in Seq(K), NEW total \in Nat
    PROVE  LET d == Refilled(c, count, items, total)
           IN  /\ d \in CacheType(K, max) /\ d.mode = c.mode /\ d.max = max /\ d.lost = c.lost
               /\ d.count = count /\ d.items = items /\ d.total = total
               /\ CachedKeys(d) = Counted(count)
<1> DEFINE d == Refilled(c, count, items, total)
<1>1. /\ d \in CacheType(K, max) /\ d.mode = c.mode /\ d.max = max /\ d.lost = c.lost
      /\ d.count = count /\ d.items = items /\ d.total = total
  BY DEF CacheType, Refilled
<1> HIDE DEF d
<1>2. CachedKeys(d) = Counted(count)
  BY <1>1 DEF CachedKeys, Counted
<1> QED
  BY <1>1, <1>2 DEF d

LEMMA CacheFields ==
    ASSUME NEW K, NEW max, NEW c \in CacheType(K, max)
    PROVE  /\ c.count \in [K -> Nat \cup {Absent}] /\ c.items \in Seq(K) /\ c.total \in Nat
           /\ c.max = max /\ c.mode \in {"FIFO", "LRU"} /\ c.lost \in BOOLEAN
           /\ CachedKeys(c) = Counted(c.count)
           /\ \A k \in CachedKeys(c) : k \in K /\ c.count[k] \in Nat
           /\ c = Refilled(c, c.count, c.items, c.total)
<1>1. /\ c.count \in [K -> Nat \cup {Absent}] /\ c.items \in Seq(K) /\ c.total \in Nat
      /\ c.max = max /\ c.mode \in {"FIFO", "LRU"} /\ c.lost \in BOOLEAN
      /\ c = Refilled(c, c.count, c.items, c.total)
  BY DEF CacheType, Refilled
<1>2. CachedKeys(c) = Counted(c.count) /\ DOMAIN c.count = K
  BY <1>1 DEF CachedKeys, Counted
<1> QED
  BY <1>1, <1>2 DEF Counted

\* The operations are refillings.
LEMMA EraseOp ==
    ASSUME NEW K, NEW max, NEW c \in CacheType(K, max), NEW k \in K
    PROVE  CacheErase(c, k) = Refilled(c, Recount(c, k, Absent), c.items, c.total)
BY DEF CacheErase, CacheType, Refilled, Recount

LEMMA SetOp ==
    ASSUME NEW K, NEW max, NEW c \in CacheType(K, max), NEW k \in K
    PROVE  /\ [c EXCEPT !.count[k] = 0] = Refilled(c, Recount(c, k, 0), c.items, c.total)
           /\ [c EXCEPT !.count[k] = 0, !.items = <<k>> \o @]
                  = Refilled(c, Recount(c, k, 0), <<k>> \o c.items, c.total)
BY DEF CacheType, Refilled, Recount

LEMMA TouchOp ==
    ASSUME NEW K, NEW max, NEW c \in CacheType(K, max), NEW k \in K
    PROVE  [c EXCEPT !.count[k] = @ + 1, !.total = @ + 1]
               = Refilled(c, Recount(c, k, c.count[k] + 1), c.items, c.total + 1)
BY DEF CacheType, Refilled, Recount

LEMMA RequeueOp ==
    ASSUME NEW K, NEW max, NEW c \in CacheType(K, max), NEW q
    PROVE  [c EXCEPT !.items = q] = Refilled(c, c.count, q, c.total)
BY DEF CacheType, Refilled

\* delete_last: the oldest key leaves queue and map.
LEMMA DeleteLastCovered ==
    ASSUME NEW K, NEW max, NEW c, Covered(c, K, max), c.items # <<>>
    PROVE  /\ Covered(DeleteLast(c), K, max) /\ Len(DeleteLast(c).items) < Len(c.items)
           /\ CachedKeys(DeleteLast(c)) = CachedKeys(c) \ {Last(c.items)}
           /\ Last(c.items) \in K
           /\ SameKind(c, DeleteLast(c))
<1> DEFINE l == Last(c.items)
           e == CacheErase(c, l)
           count == Recount(c, l, Absent)
           d == Refilled(c, count, Front(c.items), c.total)
<1>1. c \in CacheType(K, max) /\ c.items \in Seq(K) /\ max \in Nat \ {0}
      /\ c.count \in [K -> Nat \cup {Absent}] /\ c.total \in Nat
      /\ CachedKeys(c) = Counted(c.count)
  BY CacheFields DEF Covered
<1>2. l \in K /\ Front(c.items) \in Seq(K) /\ Len(Front(c.items)) = Len(c.items) - 1
      /\ Range(c.items) = Range(Front(c.items)) \cup {l} /\ Len(c.items) \in Nat
  BY <1>1, FrontLast
<1>3. DeleteLast(c) = d
  <2>1. e = Refilled(c, count, c.items, c.total)
    <3> HIDE DEF l
    <3> QED
      BY <1>1, <1>2, EraseOp
  <2>2. [e EXCEPT !.items = Front(@)] = d
    BY <1>1, <2>1 DEF Refilled, CacheType
  <2> QED
    BY <2>2 DEF DeleteLast
<1>4. count \in [K -> Nat \cup {Absent}] /\ \A k \in K : count[k] <= c.count[k]
  BY <1>1, <1>2 DEF Absent, Recount
<1>5. Counted(count) = CachedKeys(c) \ {l}
  BY <1>1, <1>2 DEF Counted, Recount
<1>6. /\ d \in CacheType(K, max) /\ d.mode = c.mode /\ d.lost = c.lost
      /\ d.count = count /\ d.items = Front(c.items) /\ d.total = c.total
      /\ CachedKeys(d) = CachedKeys(c) \ {l}
  <2> DEFINE q == Front(c.items)
  <2>1. q \in Seq(K) /\ d = Refilled(c, count, q, c.total)
    BY <1>2
  <2>0. c \in CacheType(K, max) /\ c.total \in Nat /\ count \in [K -> Nat \cup {Absent}]
    BY <1>1, <1>4
  <2> HIDE DEF l, count, q, d
  <2>2. /\ d \in CacheType(K, max) /\ d.mode = c.mode /\ d.lost = c.lost
        /\ d.count = count /\ d.items = q /\ d.total = c.total
        /\ CachedKeys(d) = Counted(count)
    BY <2>0, <2>1, RefilledFields
  <2> QED
    BY <1>5, <2>2 DEF q
<1>7. c.mode = "LRU" => Once(Front(c.items)) /\ l \notin Range(Front(c.items))
  BY <1>1, FrontOnce DEF Covered
<1> HIDE DEF d, count, l
<1>8. \A k \in K : d.count[k] <= d.total
  BY <1>1, <1>4, <1>6 DEF Covered, Absent
<1>9. Covered(d, K, max)
  BY <1>1, <1>2, <1>6, <1>7, <1>8 DEF Covered
<1> QED
  BY <1>2, <1>3, <1>6, <1>9 DEF l, SameKind

\* lru_reoder turns the queue, and finds every key it looks for.
LEMMA LruReorderCovered ==
    ASSUME NEW K, NEW max, NEW c, Covered(c, K, max), c.items # <<>>, c.mode = "LRU"
    PROVE  /\ Covered(LruReorder(c), K, max) /\ LruReorder(c).items # <<>>
           /\ CachedKeys(LruReorder(c)) = CachedKeys(c)
           /\ SameKind(c, LruReorder(c))
<1> DEFINE l == Last(c.items)
           f == Front(c.items)
           d == Refilled(c, c.count, <<l>> \o f, c.total)
<1>1. /\ c \in CacheType(K, max) /\ c.items \in Seq(K) /\ c.total \in Nat
      /\ c.count \in [K -> Nat \cup {Absent}]
      /\ CachedKeys(c) = Counted(c.count)
  BY CacheFields DEF Covered
<1>2. /\ l \in K /\ f \in Seq(K) /\ Len(f) = Len(c.items) - 1 /\ Len(c.items) \in Nat \ {0}
      /\ Range(c.items) = Range(f) \cup {l}
  BY <1>1, FrontLast
<1>3. Head(c.items) \in CachedKeys(c) /\ l \in CachedKeys(c)
  <2>1. Head(c.items) = c.items[1] /\ 1 \in DOMAIN c.items
    BY <1>1, <1>2
  <2> QED
    BY <1>2, <2>1 DEF Covered, Range
<1>4. Once(f) /\ l \notin Range(f)
  BY <1>1, FrontOnce DEF Covered
<1>5. Covered(d, K, max) /\ CachedKeys(d) = CachedKeys(c) /\ d.items # <<>>
      /\ d.mode = c.mode /\ d.total = c.total
  <2> HIDE DEF l, f
  <2>1. <<l>> \o f \in Seq(K) /\ Len(<<l>> \o f) = Len(c.items) /\ Range(<<l>> \o f) = Range(c.items)
    BY <1>2, Prepended
  <2>2. Once(<<l>> \o f)
    BY <1>2, <1>4, PrependOnce
  <2> DEFINE q == <<l>> \o f
  <2> HIDE DEF q
  <2>3. q \in Seq(K) /\ Len(q) = Len(c.items) /\ Range(q) = Range(c.items) /\ Once(q)
    BY <2>1, <2>2 DEF q
  <2>4. d = Refilled(c, c.count, q, c.total)
    BY DEF q
  <2> HIDE DEF d
  <2>5. /\ d \in CacheType(K, max) /\ d.mode = c.mode /\ d.lost = c.lost
        /\ d.count = c.count /\ d.items = q /\ d.total = c.total
        /\ CachedKeys(d) = CachedKeys(c)
    <3>1. /\ c \in CacheType(K, max) /\ c.count \in [K -> Nat \cup {Absent}] /\ q \in Seq(K)
          /\ c.total \in Nat
      BY <1>1, <2>3
    <3>2. /\ d \in CacheType(K, max) /\ d.mode = c.mode /\ d.lost = c.lost
          /\ d.count = c.count /\ d.items = q /\ d.total = c.total
          /\ CachedKeys(d) = Counted(c.count)
      BY <2>4, <3>1, RefilledFields
    <3> QED
      BY <1>1, <3>2
  <2>6. q # <<>>
    BY <1>2, <2>3
  <2> QED
    BY <2>3, <2>5, <2>6 DEF Covered
<1>6. LruReorder(c) = d \/ LruReorder(c) = c
  BY <1>1, <1>3 DEF LruReorder, Refilled, CacheType
<1> QED
  BY <1>5, <1>6 DEF SameKind

\* The loop of set() makes room for one key, which may only cost others.
LEMMA MakeRoomCovered ==
    ASSUME NEW K, NEW max, NEW c, Covered(c, K, max)
    PROVE  /\ Covered(MakeRoom(c), K, max) /\ Len(MakeRoom(c).items) < max
           /\ \/ CachedKeys(MakeRoom(c)) = CachedKeys(c)
              \/ \E k \in K : CachedKeys(MakeRoom(c)) = CachedKeys(c) \ {k}
           /\ SameKind(c, MakeRoom(c))
<1> DEFINE d == IF c.mode = "LRU" THEN LruReorder(c) ELSE c
<1>1. c.max = max /\ c.items \in Seq(K) /\ Len(c.items) \in Nat /\ max \in Nat \ {0}
  BY CacheFields DEF Covered
<1>2. CASE Len(c.items) < max
  BY <1>1, <1>2 DEF MakeRoom, SameKind
<1>3. CASE ~(Len(c.items) < max)
  <2>1. c.items # <<>>
    BY <1>1, <1>3
  <2>2. Covered(d, K, max) /\ d.items # <<>> /\ CachedKeys(d) = CachedKeys(c)
        /\ SameKind(c, d)
    BY <2>1, LruReorderCovered DEF SameKind
  <2> HIDE DEF d
  <2>3. Len(d.items) <= max /\ Len(d.items) \in Nat
    BY <2>2, CacheFields DEF Covered
  <2>4. /\ Covered(DeleteLast(d), K, max) /\ Len(DeleteLast(d).items) < Len(d.items)
        /\ CachedKeys(DeleteLast(d)) = CachedKeys(d) \ {Last(d.items)} /\ Last(d.items) \in K
        /\ SameKind(d, DeleteLast(d))
    BY <2>2, DeleteLastCovered
  <2>5. Len(DeleteLast(d).items) \in Nat
    BY <2>4, CacheFields DEF Covered
  <2>6. MakeRoom(c) = DeleteLast(d)
    BY <1>1, <1>3 DEF MakeRoom, d
  <2> QED
    BY <1>1, <2>2, <2>3, <2>4, <2>5, <2>6 DEF SameKind
<1> QED
  BY <1>2, <1>3

\* A counter that is set leaves the queue alone.
LEMMA RecountCovered ==
    ASSUME NEW K, NEW max, NEW c, Covered(c, K, max), NEW k \in CachedKeys(c),
           NEW n \in Nat, NEW total \in Nat, c.total <= total, n <= total
    PROVE  LET d == Refilled(c, Recount(c, k, n), c.items, total)
           IN  Covered(d, K, max) /\ d.items = c.items /\ d.mode = c.mode /\ d.total = total
               /\ CachedKeys(d) = CachedKeys(c)
<1> DEFINE count == Recount(c, k, n)
           d == Refilled(c, count, c.items, total)
<1>1. /\ c \in CacheType(K, max) /\ c.items \in Seq(K) /\ c.total \in Nat /\ k \in K
      /\ c.count \in [K -> Nat \cup {Absent}]
      /\ CachedKeys(c) = Counted(c.count)
  BY CacheFields DEF Covered
<1>2. count \in [K -> Nat \cup {Absent}] /\ Counted(count) = Counted(c.count)
  BY <1>1 DEF Recount, Counted, Absent
<1>3. \A x \in K : count[x] <= total
  BY <1>1 DEF Recount, Covered, Absent
<1> HIDE DEF count
<1>4. d = Refilled(c, count, c.items, total)
  OBVIOUS
<1> HIDE DEF d
<1>5. /\ d \in CacheType(K, max) /\ d.mode = c.mode /\ d.lost = c.lost
      /\ d.count = count /\ d.items = c.items /\ d.total = total
      /\ CachedKeys(d) = Counted(count)
  <2>1. c \in CacheType(K, max) /\ c.items \in Seq(K) /\ count \in [K -> Nat \cup {Absent}]
    BY <1>1, <1>2
  <2> QED
    BY <1>4, <2>1, RefilledFields
<1>6. Covered(d, K, max)
  BY <1>1, <1>2, <1>3, <1>5 DEF Covered
<1> QED
  BY <1>1, <1>2, <1>5, <1>6 DEF d, count

\* What set() may cost: nothing, or one key.
Evictions(c) == {{}} \cup {{x} : x \in CachedKeys(c)}

\* set(): the key is cached, and at most one other is not any more.
LEMMA CacheSetCovered ==
    ASSUME NEW K, NEW max, NEW c, Covered(c, K, max), NEW k \in K
    PROVE  /\ Covered(CacheSet(c, k), K, max)
           /\ CacheSet(c, k).mode = c.mode /\ CacheSet(c, k).total = c.total
           /\ \E out \in Evictions(c) :
                 CachedKeys(CacheSet(c, k)) = (CachedKeys(c) \ out) \cup {k}
<1>0. c \in CacheType(K, max) /\ CachedKeys(c) \subseteq K /\ c.total \in Nat
  BY CacheFields DEF Covered
<1>1. CASE k \in CachedKeys(c)
  <2>1. CacheSet(c, k) = Refilled(c, Recount(c, k, 0), c.items, c.total)
    BY <1>0, <1>1, SetOp DEF CacheSet
  <2>2. Covered(CacheSet(c, k), K, max) /\ CacheSet(c, k).mode = c.mode
        /\ CacheSet(c, k).total = c.total /\ CachedKeys(CacheSet(c, k)) = CachedKeys(c)
    BY <1>0, <1>1, <2>1, RecountCovered
  <2>3. CachedKeys(c) = (CachedKeys(c) \ {}) \cup {k}
    BY <1>1
  <2> QED
    BY <2>2, <2>3 DEF Evictions
<1>2. CASE k \notin CachedKeys(c)
  <2> DEFINE r == MakeRoom(c)
             count == Recount(r, k, 0)
             q == <<k>> \o r.items
             d == Refilled(r, count, q, r.total)
  <2>1. /\ Covered(r, K, max) /\ Len(r.items) < max /\ SameKind(c, r)
        /\ \/ CachedKeys(r) = CachedKeys(c)
           \/ \E x \in K : CachedKeys(r) = CachedKeys(c) \ {x}
    BY MakeRoomCovered
  <2>2. CacheSet(c, k) = [r EXCEPT !.count[k] = 0, !.items = <<k>> \o @]
    BY <1>2 DEF CacheSet
  <2> HIDE DEF r
  <2>3. /\ r \in CacheType(K, max) /\ r.items \in Seq(K) /\ r.total \in Nat
        /\ r.count \in [K -> Nat \cup {Absent}] /\ CachedKeys(r) = Counted(r.count)
        /\ Len(r.items) \in Nat
    BY <2>1, CacheFields DEF Covered
  <2>4. CacheSet(c, k) = d
    BY <2>2, <2>3, SetOp
  <2>5. /\ q \in Seq(K) /\ Len(q) = Len(r.items) + 1 /\ Range(q) = {k} \cup Range(r.items)
    BY <2>3, Prepended
  <2>6. /\ count \in [K -> Nat \cup {Absent}] /\ Counted(count) = Counted(r.count) \cup {k}
        /\ \A x \in K : count[x] <= r.total
    BY <2>1, <2>3 DEF Recount, Counted, Absent, Covered
  <2>7. r.mode = "LRU" => Once(q)
    <3>1. k \notin CachedKeys(r)
      BY <1>2, <2>1
    <3> QED
      BY <2>1, <2>3, <3>1, PrependOnce DEF Covered
  <2> HIDE DEF count, q
  <2>8. d = Refilled(r, count, q, r.total)
    OBVIOUS
  <2> HIDE DEF d
  <2>9. /\ d \in CacheType(K, max) /\ d.mode = r.mode /\ d.lost = r.lost
        /\ d.count = count /\ d.items = q /\ d.total = r.total /\ CachedKeys(d) = Counted(count)
    <3>1. /\ r \in CacheType(K, max) /\ r.total \in Nat /\ q \in Seq(K)
          /\ count \in [K -> Nat \cup {Absent}]
      BY <2>3, <2>5, <2>6
    <3> QED
      BY <2>8, <3>1, RefilledFields
  <2>10. Covered(d, K, max)
    <3>1. Len(d.items) <= max /\ max \in Nat \ {0}
      BY <2>1, <2>3, <2>5, <2>9 DEF Covered
    <3>2. CachedKeys(d) \subseteq Range(d.items) /\ \A x \in K : d.count[x] <= d.total
      BY <2>1, <2>3, <2>5, <2>6, <2>9 DEF Covered
    <3>3. d.mode = "LRU" => Range(d.items) = CachedKeys(d) /\ Once(d.items) /\ ~d.lost
      BY <2>1, <2>3, <2>5, <2>6, <2>7, <2>9 DEF Covered
    <3> QED
      BY <2>9, <3>1, <3>2, <3>3 DEF Covered
  <2>11. \E out \in Evictions(c) : CachedKeys(r) = CachedKeys(c) \ out
    <3>1. CASE CachedKeys(r) = CachedKeys(c)
      BY <3>1 DEF Evictions
    <3>2. ASSUME NEW x \in K, CachedKeys(r) = CachedKeys(c) \ {x}
          PROVE  \E out \in Evictions(c) : CachedKeys(r) = CachedKeys(c) \ out
      <4>1. CASE x \in CachedKeys(c)
        BY <3>2, <4>1 DEF Evictions
      <4>2. CASE x \notin CachedKeys(c)
        <5>1. CachedKeys(r) = CachedKeys(c) \ {}
          BY <3>2, <4>2
        <5> QED
          BY <5>1 DEF Evictions
      <4> QED
        BY <4>1, <4>2
    <3> QED
      BY <2>1, <3>1, <3>2
  <2>12. CachedKeys(d) = CachedKeys(r) \cup {k}
    BY <2>3, <2>6, <2>9
  <2> QED
    BY <2>1, <2>4, <2>9, <2>10, <2>11, <2>12 DEF SameKind
<1> QED
  BY <1>1, <1>2

\* erase() of a FIFO cache: the queue may know more than the map.
LEMMA CacheEraseCovered ==
    ASSUME NEW K, NEW max, NEW c, Covered(c, K, max), NEW k \in K, c.mode = "FIFO"
    PROVE  /\ Covered(CacheErase(c, k), K, max) /\ SameKind(c, CacheErase(c, k))
           /\ CachedKeys(CacheErase(c, k)) = CachedKeys(c) \ {k}
<1> DEFINE count == Recount(c, k, Absent)
           d == Refilled(c, count, c.items, c.total)
<1>1. /\ c \in CacheType(K, max) /\ c.items \in Seq(K) /\ c.total \in Nat
      /\ c.count \in [K -> Nat \cup {Absent}]
      /\ CachedKeys(c) = Counted(c.count)
  BY CacheFields DEF Covered
<1>2. /\ count \in [K -> Nat \cup {Absent}] /\ Counted(count) = Counted(c.count) \ {k}
      /\ \A x \in K : count[x] <= c.total
  BY <1>1 DEF Recount, Counted, Absent, Covered
<1>3. CacheErase(c, k) = d
  BY <1>1, EraseOp
<1> HIDE DEF count
<1>4. d = Refilled(c, count, c.items, c.total)
  OBVIOUS
<1> HIDE DEF d
<1>5. /\ d \in CacheType(K, max) /\ d.mode = c.mode
      /\ d.count = count /\ d.items = c.items /\ d.total = c.total
      /\ CachedKeys(d) = Counted(count)
  <2>1. c \in CacheType(K, max) /\ c.items \in Seq(K) /\ count \in [K -> Nat \cup {Absent}]
        /\ c.total \in Nat
    BY <1>1, <1>2
  <2> QED
    BY <1>4, <2>1, RefilledFields
<1>6. Covered(d, K, max)
  BY <1>1, <1>2, <1>5 DEF Covered
<1> QED
  BY <1>1, <1>2, <1>3, <1>5, <1>6 DEF SameKind

\* get(): LRU caches have no expiry.
LEMMA CacheGetCovered ==
    ASSUME NEW K, NEW max, NEW c, Covered(c, K, max), NEW k \in K, NEW expired \in BOOLEAN,
           c.mode = "LRU" => ~expired
    PROVE  LET d == CacheGet(c, k, expired)
           IN  /\ Covered(d, K, max) /\ d.mode = c.mode
               /\ (d.total = c.total) \/ (c.mode = "LRU" /\ d.total = c.total + 1)
<1>0. /\ c \in CacheType(K, max) /\ c.total \in Nat /\ c.mode \in {"FIFO", "LRU"}
      /\ \A x \in CachedKeys(c) : x \in K /\ c.count[x] \in Nat
  BY CacheFields DEF Covered
<1>1. CASE k \notin CachedKeys(c)
  <2>1. CacheGet(c, k, expired) = c
    BY <1>1, Zenon DEF CacheGet
  <2> QED
    BY <2>1
<1>2. CASE expired /\ k \in CachedKeys(c)
  <2>1. CacheGet(c, k, expired) = CacheErase(c, k)
    BY <1>2, Zenon DEF CacheGet
  <2>2. c.mode = "FIFO"
    BY <1>0, <1>2
  <2>3. Covered(CacheErase(c, k), K, max) /\ SameKind(c, CacheErase(c, k))
    BY <2>2, CacheEraseCovered
  <2> QED
    BY <1>2, <2>1, <2>3 DEF SameKind
<1>3. CASE ~expired /\ k \in CachedKeys(c) /\ c.mode = "LRU"
  <2> DEFINE t == [c EXCEPT !.count[k] = @ + 1, !.total = @ + 1]
  <2>1. t = Refilled(c, Recount(c, k, c.count[k] + 1), c.items, c.total + 1)
    BY <1>0, TouchOp
  <2>2. c.count[k] + 1 \in Nat /\ c.total + 1 \in Nat /\ c.total <= c.total + 1
        /\ c.count[k] + 1 <= c.total + 1
    BY <1>0, <1>3 DEF Covered
  <2> HIDE DEF t
  <2>3. Covered(t, K, max) /\ t.items = c.items /\ t.mode = c.mode /\ t.total = c.total + 1
    BY <1>3, <2>1, <2>2, RecountCovered
  <2>4. t.items # <<>>
    <3>1. k \in Range(c.items)
      BY <1>3 DEF Covered
    <3>2. c.items # <<>>
      BY <3>1 DEF Range
    <3> QED
      BY <2>3, <3>2
  <2>5. Covered(LruReorder(t), K, max) /\ SameKind(t, LruReorder(t))
    BY <1>3, <2>3, <2>4, LruReorderCovered
  <2>6. CacheGet(c, k, expired) = LruReorder(t)
    BY <1>3 DEF CacheGet, t
  <2> QED
    BY <1>3, <2>3, <2>5, <2>6 DEF SameKind
<1>4. CASE ~expired /\ k \in CachedKeys(c) /\ c.mode # "LRU"
  <2>1. CacheGet(c, k, expired) = c
    BY <1>4, Zenon DEF CacheGet
  <2> QED
    BY <2>1
<1> QED
  BY <1>1, <1>2, <1>3, <1>4

\* A new cache.
LEMMA EmptyCacheCovered ==
    ASSUME NEW K, NEW max \in Nat \ {0}, NEW m \in {"FIFO", "LRU"}
    PROVE  LET c == EmptyCache(m, max, K)
           IN  Covered(c, K, max) /\ c.mode = m /\ c.total = 0 /\ CachedKeys(c) = {}
<1> DEFINE c == EmptyCache(m, max, K)
<1>1. c \in CacheType(K, max) /\ c.mode = m /\ c.total = 0 /\ c.items = <<>> /\ ~c.lost
      /\ c.count = [k \in K |-> Absent]
  BY DEF EmptyCache, CacheType
<1> HIDE DEF c
<1>2. CachedKeys(c) = {}
  BY <1>1 DEF CachedKeys
<1>3. Range(c.items) = {} /\ Once(c.items) /\ Len(c.items) = 0
  BY <1>1 DEF Range, Once
<1>4. \A k \in K : c.count[k] <= c.total
  BY <1>1 DEF Absent
<1>5. Covered(c, K, max)
  BY <1>1, <1>2, <1>3, <1>4 DEF Covered
<1> QED
  BY <1>1, <1>2, <1>5 DEF c

-----------------------------------------------------------------------------
(* The cache on its own.                                                   *)

LEMMA PcInvIsCovered ==
    /\ PcInv <=> Covered(pcache, CacheKeys, CacheMax) /\ pcache.total <= MaxTouches
    /\ PcInv' <=> Covered(pcache', CacheKeys, CacheMax) /\ pcache'.total <= MaxTouches
BY CacheMaxAssumption
   DEF PcInv, PcTypeOK, QueueCoversCache, Covered, Once, CachedKeys

LEMMA PcInitInv == PcInit => PcInv
<1>1. ASSUME NEW m \in {"FIFO", "LRU"}, pcache = EmptyCache(m, CacheMax, CacheKeys) PROVE PcInv
  <2>1. Covered(pcache, CacheKeys, CacheMax) /\ pcache.total = 0
    BY <1>1, CacheMaxAssumption, EmptyCacheCovered
  <2> QED
    BY <2>1, MaxTouchesAssumption, PcInvIsCovered
<1> QED
  BY <1>1 DEF PcInit

LEMMA PcNextInv == PcInv /\ [PcNext]_pcache => PcInv'
<1> SUFFICES ASSUME PcInv, [PcNext]_pcache PROVE PcInv'
  OBVIOUS
<1>0. Covered(pcache, CacheKeys, CacheMax) /\ pcache.total <= MaxTouches /\ pcache.total \in Nat
  BY PcInvIsCovered, CacheFields DEF Covered
<1>1. ASSUME NEW k \in CacheKeys, PcSet(k) PROVE PcInv'
  <2>1. Covered(pcache', CacheKeys, CacheMax) /\ pcache'.total = pcache.total
    BY <1>0, <1>1, CacheSetCovered DEF PcSet
  <2> QED
    BY <1>0, <2>1, PcInvIsCovered
<1>2. ASSUME NEW k \in CacheKeys, PcErase(k) PROVE PcInv'
  <2>1. Covered(pcache', CacheKeys, CacheMax) /\ SameKind(pcache, pcache')
    BY <1>0, <1>2, CacheEraseCovered DEF PcErase
  <2> QED
    BY <1>0, <2>1, PcInvIsCovered DEF SameKind
<1>3. ASSUME NEW k \in CacheKeys, NEW expired \in BOOLEAN, PcGet(k, expired) PROVE PcInv'
  <2>1. (pcache.mode = "LRU" => ~expired) /\ pcache' = CacheGet(pcache, k, expired)
    BY <1>3, Zenon DEF PcGet
  <2>2. pcache.mode = "LRU" => pcache.total < MaxTouches
    BY <1>3, Zenon DEF PcGet
  <2>3. /\ Covered(pcache', CacheKeys, CacheMax)
        /\ (pcache'.total = pcache.total) \/ (pcache.mode = "LRU" /\ pcache'.total = pcache.total + 1)
    BY <1>0, <2>1, CacheGetCovered
  <2> QED
    BY <1>0, <2>2, <2>3, MaxTouchesAssumption, PcInvIsCovered
<1>4. CASE PcClear
  <2>1. pcache.mode \in {"FIFO", "LRU"} /\ pcache.max = CacheMax
    BY <1>0, CacheFields DEF Covered
  <2>2. Covered(pcache', CacheKeys, CacheMax) /\ pcache'.total = 0
    BY <1>4, <2>1, CacheMaxAssumption, EmptyCacheCovered DEF PcClear
  <2> QED
    BY <2>2, MaxTouchesAssumption, PcInvIsCovered
<1>5. CASE UNCHANGED pcache
  BY <1>0, <1>5, PcInvIsCovered
<1> QED
  BY <1>1, <1>2, <1>3, <1>4, <1>5 DEF PcNext

\* In every cache, whatever is set, read, erased or left to expire, the queue
\* bounds the map and knows all its keys, and lru_reoder looks at no key that
\* is gone.
THEOREM PcQueueCoversCache == PcSpec => []QueueCoversCache
<1>1. PcInv => QueueCoversCache
  BY DEF PcInv
<1> QED
  BY <1>1, PcInitInv, PcNextInv, PTL DEF PcSpec

\* The cache keeps its type.
THEOREM PcTypesKept == PcSpec => []PcTypeOK
<1>1. PcInv => PcTypeOK
  BY DEF PcInv
<1> QED
  BY <1>1, PcInitInv, PcNextInv, PTL DEF PcSpec

-----------------------------------------------------------------------------
(* The memory pool.                                                        *)

\* What a pointer may point to.
Memory == PoolChunks \cup HeapBlocks

LEMMA MemoryKinds ==
    /\ Null \notin Memory
    /\ \A d \in PoolChunks : /\ d[1] \in BucketSizes /\ d[2] \in 1..BucketCount /\ d[1] \in Nat \ {0}
                             /\ FindPtrSize(d) = d[1] /\ d \notin HeapBlocks
    /\ \A d \in HeapBlocks : /\ d \notin PoolChunks /\ d[2] \in 1..MaxHeap /\ d = <<0, d[2]>>
                             /\ FindPtrSize(d) = 0
    /\ \A n \in 1..MaxHeap : <<0, n>> \in HeapBlocks /\ <<0, n>>[2] = n
<1>1. ASSUME NEW d \in PoolChunks
      PROVE  /\ d[1] \in BucketSizes /\ d[2] \in 1..BucketCount /\ d[1] \in Nat \ {0}
             /\ FindPtrSize(d) = d[1] /\ d \notin HeapBlocks /\ d # Null
  <2>1. d[1] \in BucketSizes /\ d[2] \in 1..BucketCount
    BY DEF PoolChunks
  <2>2. d[1] \in Nat \ {0}
    BY <2>1, SizesAssumption
  <2>3. \A e \in HeapBlocks : e[1] = 0
    BY DEF HeapBlocks
  <2> QED
    BY <2>1, <2>2, <2>3 DEF FindPtrSize, Null
<1>2. ASSUME NEW d \in HeapBlocks
      PROVE  /\ d \notin PoolChunks /\ d[2] \in 1..MaxHeap /\ d = <<0, d[2]>>
             /\ FindPtrSize(d) = 0 /\ d # Null
  <2>1. d[2] \in 1..MaxHeap /\ d = <<0, d[2]>>
    BY DEF HeapBlocks
  <2>2. d \notin PoolChunks
    BY <1>1
  <2>3. d # Null
    BY <2>1 DEF Null
  <2> QED
    BY <2>1, <2>2, <2>3 DEF FindPtrSize
<1>3. \A n \in 1..MaxHeap : <<0, n>> \in HeapBlocks /\ <<0, n>>[2] = n
  BY DEF HeapBlocks
<1> QED
  BY <1>1, <1>2, <1>3 DEF Memory

\* The memory of buffers that are not in use now, seen from the pool: d is not
\* in its bucket, and not freed.
Out(m, d) == IF d \in PoolChunks THEN d \notin Range(m.bucket[d[1]]) ELSE m.heap[d[2]] = "used"

\* The pool's part of SoleOwner.
PoolOK(m) ==
    /\ m \in MemType
    /\ \A z \in BucketSizes : /\ Once(m.bucket[z])
                              /\ \A d \in Range(m.bucket[z]) : d[1] = z
    /\ \A d \in PoolChunks : m.stored[d] <= d[1]
    /\ \A n \in 1..MaxHeap : m.heap[n] # "freed twice"

\* Memory with other buckets, or another heap.
Rebucket(m, z, q, st) == [m EXCEPT !.bucket = [m.bucket EXCEPT ![z] = q], !.stored = st]
Reheap(m, n, h, s) == [m EXCEPT !.heap = [m.heap EXCEPT ![n] = h], !.big = [m.big EXCEPT ![n] = s]]

HeapStates == {"unused", "used", "freed", "freed twice"}

LEMMA MemFields ==
    ASSUME NEW m \in MemType
    PROVE  /\ m.bucket \in [BucketSizes -> Seq(PoolChunks)]
           /\ m.stored \in [PoolChunks -> Nat] /\ m.heap \in [1..MaxHeap -> HeapStates]
           /\ m.big \in [1..MaxHeap -> Nat] /\ m.buf \in [Buffers -> BufferType]
BY DEF MemType, HeapStates

LEMMA RebucketFields ==
    ASSUME NEW m \in MemType, NEW z \in BucketSizes, NEW q \in Seq(PoolChunks),
           NEW st \in [PoolChunks -> Nat]
    PROVE  LET w == Rebucket(m, z, q, st)
           IN  /\ w \in MemType /\ w.heap = m.heap /\ w.big = m.big /\ w.buf = m.buf
               /\ w.stored = st
               /\ w.bucket[z] = q /\ \A y \in BucketSizes \ {z} : w.bucket[y] = m.bucket[y]
<1> DEFINE b == [m.bucket EXCEPT ![z] = q]
<1>1. b \in [BucketSizes -> Seq(PoolChunks)] /\ b[z] = q
      /\ \A y \in BucketSizes \ {z} : b[y] = m.bucket[y]
  BY MemFields
<1> HIDE DEF b
<1>2. LET w == [m EXCEPT !.bucket = b, !.stored = st]
      IN  /\ w \in MemType /\ w.heap = m.heap /\ w.big = m.big /\ w.buf = m.buf /\ w.bucket = b
          /\ w.stored = st
  BY <1>1 DEF MemType
<1> QED
  BY <1>1, <1>2 DEF Rebucket, b

LEMMA ReheapFields ==
    ASSUME NEW m \in MemType, NEW n \in 1..MaxHeap,
           NEW h \in HeapStates, NEW s \in Nat
    PROVE  LET w == Reheap(m, n, h, s)
           IN  /\ w \in MemType /\ w.bucket = m.bucket /\ w.buf = m.buf /\ w.stored = m.stored
               /\ w.heap[n] = h /\ w.big[n] = s
               /\ \A k \in 1..MaxHeap \ {n} : w.heap[k] = m.heap[k] /\ w.big[k] = m.big[k]
<1> DEFINE hp == [m.heap EXCEPT ![n] = h]
           bg == [m.big EXCEPT ![n] = s]
<1>1. /\ hp \in [1..MaxHeap -> HeapStates]
      /\ bg \in [1..MaxHeap -> Nat] /\ hp[n] = h /\ bg[n] = s
      /\ \A k \in 1..MaxHeap \ {n} : hp[k] = m.heap[k] /\ bg[k] = m.big[k]
  BY MemFields
<1> HIDE DEF hp, bg
<1>2. LET w == [m EXCEPT !.heap = hp, !.big = bg]
      IN  /\ w \in MemType /\ w.bucket = m.bucket /\ w.buf = m.buf /\ w.heap = hp /\ w.big = bg
          /\ w.stored = m.stored
  BY <1>1 DEF MemType, HeapStates
<1> QED
  BY <1>1, <1>2 DEF Reheap, hp, bg

\* Bucket::release of a chunk that is not in its bucket, with no more than it has.
LEMMA BucketReleaseOK ==
    ASSUME NEW m, PoolOK(m), NEW d \in PoolChunks, Out(m, d), NEW k \in Nat, k <= d[1]
    PROVE  LET w == BucketRelease(m, d, k)
           IN  /\ PoolOK(w) /\ w.buf = m.buf /\ UnusedHeap(w) = UnusedHeap(m)
               /\ \A e \in Memory : /\ Room(w, e) = Room(m, e)
                                    /\ e # d /\ Out(m, e) => Out(w, e)
<1> DEFINE z == d[1]
           q == <<d>> \o m.bucket[z]
           st == [m.stored EXCEPT ![d] = k]
           w == Rebucket(m, z, q, st)
<1>0. m \in MemType /\ z \in BucketSizes /\ m.bucket[z] \in Seq(PoolChunks)
  <2>1. m \in MemType
    BY DEF PoolOK
  <2>2. z \in BucketSizes
    BY MemoryKinds
  <2> HIDE DEF z
  <2> QED
    BY <2>1, <2>2, MemFields
<1>a. st \in [PoolChunks -> Nat] /\ \A e \in PoolChunks : st[e] <= e[1]
  <2>1. m.stored \in [PoolChunks -> Nat] /\ \A e \in PoolChunks : m.stored[e] <= e[1]
    BY <1>0, MemFields DEF PoolOK
  <2> QED
    BY <2>1
<1>1. BucketRelease(m, d, k) = w
  BY <1>0 DEF BucketRelease, Rebucket, MemType
<1>2. q \in Seq(PoolChunks) /\ Range(q) = {d} \cup Range(m.bucket[z])
  <2> HIDE DEF z
  <2> QED
    BY <1>0, Prepended
<1>3. Once(q)
  <2>1. d \notin Range(m.bucket[z]) /\ Once(m.bucket[z])
    BY <1>0 DEF Out, PoolOK
  <2> HIDE DEF z
  <2> QED
    BY <1>0, <2>1, PrependOnce
<1> HIDE DEF q, st
<1>4. /\ w \in MemType /\ w.heap = m.heap /\ w.big = m.big /\ w.buf = m.buf /\ w.stored = st
      /\ w.bucket[z] = q /\ \A y \in BucketSizes \ {z} : w.bucket[y] = m.bucket[y]
  <2> HIDE DEF z
  <2> QED
    BY <1>0, <1>a, <1>2, RebucketFields
<1>5. \A y \in BucketSizes : Once(w.bucket[y]) /\ \A e \in Range(w.bucket[y]) : e[1] = y
  <2> HIDE DEF w
  <2> QED
    BY <1>0, <1>2, <1>3, <1>4 DEF PoolOK
<1> HIDE DEF w
<1>6. PoolOK(w)
  BY <1>a, <1>4, <1>5 DEF PoolOK
<1>7. ASSUME NEW e \in Memory PROVE Room(w, e) = Room(m, e) /\ (e # d /\ Out(m, e) => Out(w, e))
  BY <1>2, <1>4, MemoryKinds DEF Room, Out, Memory
<1>8. UnusedHeap(w) = UnusedHeap(m)
  BY <1>4 DEF UnusedHeap
<1> QED
  BY <1>1, <1>4, <1>6, <1>7, <1>8

\* free_heap of a block in use.
LEMMA FreeHeapOK ==
    ASSUME NEW m, PoolOK(m), NEW d \in HeapBlocks, Out(m, d)
    PROVE  LET w == FreeHeap(m, d)
           IN  /\ PoolOK(w) /\ w.buf = m.buf /\ UnusedHeap(w) = UnusedHeap(m)
               /\ \A e \in Memory : /\ Room(w, e) = Room(m, e)
                                    /\ e # d /\ Out(m, e) => Out(w, e)
<1> DEFINE n == d[2]
           s == m.big[n]
           w == Reheap(m, n, "freed", s)
<1>0. m \in MemType /\ n \in 1..MaxHeap /\ m.heap[n] = "used" /\ s \in Nat /\ d = <<0, n>>
  BY MemoryKinds, MemFields DEF PoolOK, Out
<1>1. FreeHeap(m, d) = w
  BY <1>0 DEF FreeHeap, Reheap, MemType
<1> HIDE DEF n, s
<1>2. /\ w \in MemType /\ w.bucket = m.bucket /\ w.buf = m.buf /\ w.stored = m.stored
      /\ w.heap[n] = "freed" /\ w.big[n] = m.big[n]
      /\ \A k \in 1..MaxHeap \ {n} : w.heap[k] = m.heap[k] /\ w.big[k] = m.big[k]
  <2>1. m \in MemType /\ n \in 1..MaxHeap /\ s \in Nat
        /\ "freed" \in HeapStates
    BY <1>0 DEF HeapStates
  <2>2. w = Reheap(m, n, "freed", s)
    OBVIOUS
  <2> HIDE DEF w
  <2>3. /\ w \in MemType /\ w.bucket = m.bucket /\ w.buf = m.buf /\ w.stored = m.stored
        /\ w.heap[n] = "freed" /\ w.big[n] = s
        /\ \A k \in 1..MaxHeap \ {n} : w.heap[k] = m.heap[k] /\ w.big[k] = m.big[k]
    BY <2>1, <2>2, ReheapFields
  <2> QED
    BY <2>3 DEF s
<1> HIDE DEF w
<1>3. PoolOK(w)
  BY <1>0, <1>2 DEF PoolOK
<1>4. ASSUME NEW e \in Memory PROVE Room(w, e) = Room(m, e) /\ (e # d /\ Out(m, e) => Out(w, e))
  BY <1>0, <1>2, MemoryKinds DEF Room, Out, Memory
<1>5. UnusedHeap(w) = UnusedHeap(m)
  BY <1>0, <1>2 DEF UnusedHeap
<1> QED
  BY <1>1, <1>2, <1>3, <1>4, <1>5

\* memPool::release.
LEMMA ReleaseOK ==
    ASSUME NEW m, PoolOK(m), NEW d \in Memory, Out(m, d), NEW k \in Nat, k <= Room(m, d)
    PROVE  LET w == Release(m, d, k)
           IN  /\ PoolOK(w) /\ w.buf = m.buf /\ UnusedHeap(w) = UnusedHeap(m)
               /\ \A e \in Memory : /\ Room(w, e) = Room(m, e)
                                    /\ e # d /\ Out(m, e) => Out(w, e)
<1>1. d # Null /\ d \in PoolChunks \cup HeapBlocks
  BY MemoryKinds DEF Memory
<1>2. CASE d \in PoolChunks
  <2>1. Release(m, d, k) = BucketRelease(m, d, k)
    BY <1>1, <1>2, MemoryKinds DEF Release
  <2>2. k <= d[1]
    BY <1>2 DEF Room
  <2> QED
    BY <1>2, <2>1, <2>2, BucketReleaseOK
<1>3. CASE d \in HeapBlocks
  <2>1. Release(m, d, k) = FreeHeap(m, d)
    BY <1>1, <1>3, MemoryKinds DEF Release
  <2> QED
    BY <1>3, <2>1, FreeHeapOK
<1> QED
  BY <1>1, <1>2, <1>3

\* pick_bucket finds the smallest chunks that are large enough.
LEMMA PickBucketFits ==
    ASSUME NEW s \in Nat, Fitting(s) # {}
    PROVE  PickBucket(s) \in Fitting(s)
<1>1. Fitting(s) \in SUBSET Nat
  BY SizesAssumption DEF Fitting
<1>2. \E z \in Fitting(s) : \A y \in Fitting(s) : z <= y
  <2> DEFINE R == OpToRel(<, Nat)
  <2>1. IsWellFoundedOn(R, Nat)
    BY NatLessThanWellFounded
  <2>2. R = {ss \in Nat \X Nat : ss[1] < ss[2]}
    BY DEF OpToRel
  <2> HIDE DEF R
  <2>3. PICK z \in Fitting(s) : \A y \in Fitting(s) : <<y, z>> \notin R
    BY <1>1, <2>1, WFMin
  <2>4. \A y \in Fitting(s) : ~(y < z)
    BY <1>1, <2>2, <2>3
  <2> QED
    BY <1>1, <2>3, <2>4
<1> QED
  BY <1>2, Zenon DEF PickBucket

\* What an acquisition a out of m gives: nothing, or memory that was in the
\* pool and is not any more.
Acquired(m, a) ==
    /\ PoolOK(a.mem) /\ a.mem.buf = m.buf
    /\ a.data \in Memory \cup {Null} /\ a.capacity \in Nat
    /\ a.data # Null => /\ ~Out(m, a.data) /\ Out(a.mem, a.data)
                        /\ a.capacity <= Room(a.mem, a.data)
    /\ \A e \in Memory : Out(m, e) => Out(a.mem, e) /\ Room(a.mem, e) = Room(m, e)

LEMMA BucketAcquireOK ==
    ASSUME NEW m, PoolOK(m), NEW z \in BucketSizes, m.bucket[z] # <<>>
    PROVE  Acquired(m, BucketAcquire(m, z))
<1> DEFINE q == m.bucket[z]
           d == Head(q)
           t == Tail(q)
           st == m.stored
           w == Rebucket(m, z, t, st)
<1>0. /\ m \in MemType /\ q \in Seq(PoolChunks) /\ q # <<>> /\ z \in Nat
      /\ st \in [PoolChunks -> Nat] /\ \A e \in PoolChunks : st[e] <= e[1]
  BY MemFields, SizesAssumption DEF PoolOK
<1>1. Once(q) /\ \A e \in Range(q) : e[1] = z
  BY DEF PoolOK
<1>2. /\ BucketAcquire(m, z).mem = w /\ BucketAcquire(m, z).data = d
      /\ BucketAcquire(m, z).capacity = st[d]
  BY <1>0 DEF BucketAcquire, Rebucket, MemType
<1> HIDE DEF q, st
<1>3. /\ d \in PoolChunks /\ t \in Seq(PoolChunks) /\ Len(t) = Len(q) - 1 /\ Len(q) \in Nat \ {0}
      /\ \A i \in 1..(Len(q) - 1) : t[i] = q[i + 1]
      /\ d = q[1] /\ DOMAIN q = 1..Len(q) /\ DOMAIN t = 1..(Len(q) - 1)
  BY <1>0
<1> HIDE DEF d, t
<1>4. d \in Range(q) /\ d[1] = z /\ d \notin Range(t) /\ Range(q) = Range(t) \cup {d}
  <2>1. d \in Range(q)
    BY <1>3 DEF Range
  <2>2. d \notin Range(t)
    BY <1>1, <1>3 DEF Once, Range
  <2>3. Range(t) \subseteq Range(q)
    BY <1>3 DEF Range
  <2>4. ASSUME NEW i \in 1..Len(q), i # 1 PROVE q[i] \in Range(t)
    <3>1. i - 1 \in 1..(Len(q) - 1) /\ i = (i - 1) + 1
      BY <1>3, <2>4
    <3>2. t[i - 1] = q[i]
      BY <1>3, <3>1
    <3> QED
      BY <1>3, <3>1, <3>2 DEF Range
  <2>5. Range(q) \subseteq Range(t) \cup {d}
    BY <1>3, <2>4 DEF Range
  <2> QED
    BY <1>1, <2>1, <2>2, <2>3, <2>5
<1>5. Once(t)
  <2>1. ASSUME NEW i \in 1..(Len(q) - 1), NEW j \in 1..(Len(q) - 1), i # j PROVE t[i] # t[j]
    <3>1. i + 1 \in 1..Len(q) /\ j + 1 \in 1..Len(q) /\ i + 1 # j + 1
      BY <1>3, <2>1
    <3>2. q[i + 1] # q[j + 1]
      BY <1>1, <1>3, <3>1 DEF Once
    <3> QED
      BY <1>3, <3>2
  <2> QED
    BY <1>3, <2>1 DEF Once
<1>6. /\ w \in MemType /\ w.heap = m.heap /\ w.big = m.big /\ w.buf = m.buf /\ w.stored = st
      /\ w.bucket[z] = t /\ \A y \in BucketSizes \ {z} : w.bucket[y] = m.bucket[y]
  BY <1>0, <1>3, RebucketFields
<1> HIDE DEF w
<1>7. PoolOK(w)
  <2>1. \A y \in BucketSizes : Once(w.bucket[y]) /\ \A e \in Range(w.bucket[y]) : e[1] = y
    BY <1>1, <1>4, <1>5, <1>6 DEF PoolOK
  <2>2. \A n \in 1..MaxHeap : w.heap[n] # "freed twice"
    BY <1>6 DEF PoolOK
  <2> QED
    BY <1>0, <1>6, <2>1, <2>2 DEF PoolOK
<1>8. ~Out(m, d) /\ Out(w, d) /\ Room(w, d) = z
  BY <1>3, <1>4, <1>6 DEF Out, Room, q
<1>9. ASSUME NEW e \in Memory, Out(m, e) PROVE Out(w, e) /\ Room(w, e) = Room(m, e)
  BY <1>4, <1>6, <1>9, MemoryKinds DEF Out, Room, Memory, q
<1>10. d \in Memory /\ st[d] \in Nat /\ st[d] <= z
  BY <1>0, <1>3, <1>4 DEF Memory
<1> QED
  BY <1>0, <1>2, <1>6, <1>7, <1>8, <1>9, <1>10 DEF Acquired

LEMMA FromHeapOK ==
    ASSUME NEW m, PoolOK(m), NEW s \in Nat, UnusedHeap(m) # {}
    PROVE  Acquired(m, FromHeap(m, s))
<1> DEFINE n == CHOOSE k \in UnusedHeap(m) : TRUE
           d == <<0, n>>
           w == Reheap(m, n, "used", s)
<1>0. m \in MemType /\ n \in UnusedHeap(m)
  BY DEF PoolOK
<1>1. n \in 1..MaxHeap /\ m.heap[n] = "unused"
  BY <1>0 DEF UnusedHeap
<1>2. FromHeap(m, s) = [mem |-> w, data |-> d, capacity |-> s]
  <2>1. FromHeap(m, s) = [mem |-> [m EXCEPT !.heap[n] = "used", !.big[n] = s],
                          data |-> d, capacity |-> s]
    BY DEF FromHeap
  <2> HIDE DEF n
  <2>2. [m EXCEPT !.heap[n] = "used", !.big[n] = s] = w
    BY <1>0, <1>1 DEF Reheap, MemType
  <2> QED
    BY <2>1, <2>2
<1> HIDE DEF n
<1>3. d \in HeapBlocks /\ d \notin PoolChunks /\ d[2] = n
  BY <1>1, MemoryKinds
<1>4. /\ w \in MemType /\ w.bucket = m.bucket /\ w.buf = m.buf /\ w.stored = m.stored
      /\ w.heap[n] = "used" /\ w.big[n] = s
      /\ \A k \in 1..MaxHeap \ {n} : w.heap[k] = m.heap[k] /\ w.big[k] = m.big[k]
  <2>1. "used" \in HeapStates
    BY DEF HeapStates
  <2> QED
    BY <1>0, <1>1, <2>1, ReheapFields
<1> HIDE DEF w, d
<1>5. PoolOK(w)
  BY <1>1, <1>4 DEF PoolOK
<1>6. ~Out(m, d) /\ Out(w, d) /\ Room(w, d) = s
  BY <1>1, <1>3, <1>4 DEF Out, Room
<1>7. ASSUME NEW e \in Memory, Out(m, e) PROVE Out(w, e) /\ Room(w, e) = Room(m, e)
  <2>1. CASE e \in PoolChunks
    BY <1>4, <1>7, <2>1 DEF Out, Room
  <2>2. CASE e \in HeapBlocks
    <3>1. e \notin PoolChunks /\ e[2] \in 1..MaxHeap
      BY <2>2, MemoryKinds
    <3>2. e[2] # n
      BY <1>1, <1>7, <3>1 DEF Out
    <3> QED
      BY <1>4, <1>7, <3>1, <3>2 DEF Out, Room
  <2> QED
    BY <2>1, <2>2 DEF Memory
<1> DEFINE a == FromHeap(m, s)
<1>8. a.mem = w /\ a.data = d /\ a.capacity = s /\ s <= s /\ d \in Memory
  BY <1>2, <1>3 DEF Memory
<1> HIDE DEF a
<1>9. Acquired(m, a)
  BY <1>4, <1>5, <1>6, <1>7, <1>8 DEF Acquired
<1> QED
  BY <1>9 DEF a

\* memPool::acquire.
LEMMA AcquireOK ==
    ASSUME NEW m, PoolOK(m), NEW s \in Nat, UnusedHeap(m) # {}
    PROVE  Acquired(m, Acquire(m, s))
<1> DEFINE z == IF Fitting(s) = {} THEN TryhardAvailable(m, s) ELSE {PickBucket(s)}
<1>1. z \subseteq BucketSizes
  BY PickBucketFits DEF TryhardAvailable, Fitting
<1>2. CASE s = 0
  <2>1. Acquire(m, s) = [mem |-> m, data |-> Null, capacity |-> 0]
    BY <1>2 DEF Acquire
  <2> QED
    BY <2>1 DEF Acquired
<1>3. CASE s # 0 /\ \A y \in z : m.bucket[y] = <<>>
  <2>1. Acquire(m, s) = FromHeap(m, s)
    BY <1>3 DEF Acquire
  <2> QED
    BY <2>1, FromHeapOK
<1>4. CASE s # 0 /\ ~ \A y \in z : m.bucket[y] = <<>>
  <2> DEFINE y == CHOOSE y \in z : TRUE
  <2>1. Acquire(m, s) = BucketAcquire(m, y)
    BY <1>4 DEF Acquire
  <2>2. y \in z
    BY <1>4
  <2>3. m.bucket[y] # <<>>
    BY <1>4, <2>2 DEF TryhardAvailable
  <2> HIDE DEF y, z
  <2> QED
    BY <1>1, <2>1, <2>2, <2>3, BucketAcquireOK
<1> QED
  BY <1>2, <1>3, <1>4

-----------------------------------------------------------------------------
(* The buffers.                                                            *)

\* Buffer b owns memory.
Holds(m, b) == m.buf[b].free /\ m.buf[b].data # Null

\* SoleOwner of any memory m, when b in X does not count as an owner: its
\* memory is being given back, or has been handed on.
Owned(m, X) ==
    /\ PoolOK(m)
    /\ \A b \in Buffers \ X : Holds(m, b) =>
          /\ Out(m, m.buf[b].data) /\ m.buf[b].capacity <= Room(m, m.buf[b].data)
          /\ \A c \in Buffers \ X : c # b /\ Holds(m, c) => m.buf[c].data # m.buf[b].data

\* The two parts of SoleOwner that speak of buckets and owners.
BucketsOK(m) ==
    \A z \in BucketSizes : \A i, j \in DOMAIN m.bucket[z] :
        m.bucket[z][i][1] = z /\ (i # j => m.bucket[z][i] # m.bucket[z][j])
OwnersOK(m) ==
    \A b \in Buffers : m.buf[b].free /\ m.buf[b].data # Null =>
          LET d == m.buf[b].data
          IN  /\ \A c \in Buffers \ {b} : m.buf[c].free /\ m.buf[c].data # Null
                                         => m.buf[c].data # d
              /\ IF d \in PoolChunks THEN d \notin Range(m.bucket[d[1]])
                 ELSE m.heap[d[2]] = "used"
              /\ m.buf[b].capacity <= Room(m, d)

\* The rest.
PassedOK(m) ==
    /\ \A d \in PoolChunks : m.stored[d] <= d[1]
    /\ \A n \in 1..MaxHeap : m.heap[n] # "freed twice"

LEMMA SoleOwnerIsOwned ==
    /\ (MemTypeOK /\ SoleOwner) <=> Owned(mem, {})
    /\ (MemTypeOK /\ SoleOwner)' <=> Owned(mem', {})
<1>1. ASSUME NEW m
      PROVE  BucketsOK(m) <=> \A z \in BucketSizes :
                                  Once(m.bucket[z]) /\ \A d \in Range(m.bucket[z]) : d[1] = z
  BY DEF BucketsOK, Once, Range
<1>2. ASSUME NEW m
      PROVE  OwnersOK(m) <=>
               \A b \in Buffers \ {} : Holds(m, b) =>
                  /\ Out(m, m.buf[b].data) /\ m.buf[b].capacity <= Room(m, m.buf[b].data)
                  /\ \A c \in Buffers \ {} : c # b /\ Holds(m, c) => m.buf[c].data # m.buf[b].data
  <2>1. OwnersOK(m) <=>
          \A b \in Buffers : Holds(m, b) =>
             /\ \A c \in Buffers \ {b} : Holds(m, c) => m.buf[c].data # m.buf[b].data
             /\ Out(m, m.buf[b].data) /\ m.buf[b].capacity <= Room(m, m.buf[b].data)
    BY DEF OwnersOK, Holds, Out
  <2> QED
    BY <2>1
<1>3. ASSUME NEW m
      PROVE  (m \in MemType /\ BucketsOK(m) /\ OwnersOK(m) /\ PassedOK(m)) <=> Owned(m, {})
  BY <1>1, <1>2 DEF Owned, PoolOK, PassedOK
<1>4. SoleOwner <=> BucketsOK(mem) /\ OwnersOK(mem) /\ PassedOK(mem)
  BY DEF SoleOwner, BucketsOK, OwnersOK, PassedOK, Owns
<1>5. SoleOwner' <=> BucketsOK(mem') /\ OwnersOK(mem') /\ PassedOK(mem')
  BY DEF SoleOwner, BucketsOK, OwnersOK, PassedOK, Owns, Room
<1>6. (MemTypeOK <=> mem \in MemType) /\ (MemTypeOK' <=> mem' \in MemType)
  BY DEF MemTypeOK
<1> QED
  BY <1>3, <1>4, <1>5, <1>6

LEMMA BufferFields ==
    ASSUME NEW m \in MemType, NEW b \in Buffers
    PROVE  /\ m.buf[b] \in BufferType /\ m.buf[b].data \in Memory \cup {Null}
           /\ m.buf[b].capacity \in Nat /\ m.buf[b].free \in BOOLEAN
           /\ Holds(m, b) => m.buf[b].data \in Memory
<1>1. m.buf[b] \in BufferType
  BY MemFields
<1> QED
  BY <1>1 DEF BufferType, Memory, Holds

\* What a buffer's memory is given back for: dealloc, or the move assignment.
LEMMA ReleaseOwned ==
    ASSUME NEW m, Owned(m, {}), NEW b \in Buffers, Holds(m, b),
           NEW k \in Nat, k <= Room(m, m.buf[b].data)
    PROVE  LET w == Release(m, m.buf[b].data, k)
           IN  /\ Owned(w, {b}) /\ w.buf = m.buf /\ UnusedHeap(w) = UnusedHeap(m)
               /\ \A e \in Memory : /\ Room(w, e) = Room(m, e)
                                    /\ e # m.buf[b].data /\ Out(m, e) => Out(w, e)
<1> DEFINE d == m.buf[b].data
           w == Release(m, d, k)
<1>1. PoolOK(m) /\ m \in MemType /\ d \in Memory /\ Out(m, d) /\ k <= Room(m, d)
  BY BufferFields DEF Owned, PoolOK
<1> HIDE DEF d
<1>2. /\ PoolOK(w) /\ w.buf = m.buf /\ UnusedHeap(w) = UnusedHeap(m)
      /\ \A e \in Memory : /\ Room(w, e) = Room(m, e)
                           /\ e # d /\ Out(m, e) => Out(w, e)
  BY <1>1, ReleaseOK
<1> HIDE DEF w
<1>3. ASSUME NEW c \in Buffers \ {b}, Holds(w, c)
      PROVE  /\ Out(w, w.buf[c].data) /\ w.buf[c].capacity <= Room(w, w.buf[c].data)
             /\ \A x \in Buffers \ {b} : x # c /\ Holds(w, x) => w.buf[x].data # w.buf[c].data
  <2>1. Holds(m, c) /\ m.buf[c].data \in Memory
    BY <1>1, <1>2, <1>3, BufferFields DEF Holds
  <2>2. m.buf[c].data # d
    BY <2>1 DEF Owned, d
  <2>3. Out(m, m.buf[c].data) /\ m.buf[c].capacity <= Room(m, m.buf[c].data)
    BY <2>1 DEF Owned
  <2>4. \A x \in Buffers \ {b} : x # c /\ Holds(m, x) => m.buf[x].data # m.buf[c].data
    BY <2>1 DEF Owned
  <2>5. \A x \in Buffers : Holds(w, x) <=> Holds(m, x)
    BY <1>2 DEF Holds
  <2> QED
    BY <1>2, <2>1, <2>2, <2>3, <2>4, <2>5
<1>4. Owned(w, {b})
  BY <1>2, <1>3 DEF Owned
<1> QED
  BY <1>2, <1>4 DEF w, d

\* A buffer whose memory is not given back may lose it.
LEMMA OwnedWithout ==
    ASSUME NEW m, NEW X, Owned(m, X), NEW Y, X \subseteq Y
    PROVE  Owned(m, Y)
BY DEF Owned

\* buffer::dealloc.
LEMMA DeallocOwned ==
    ASSUME NEW m, Owned(m, {}), NEW b \in Buffers
    PROVE  LET w == Dealloc(m, b)
           IN  /\ Owned(w, {b}) /\ w.buf = m.buf /\ UnusedHeap(w) = UnusedHeap(m)
               /\ \A e \in Memory :
                     /\ Room(w, e) = Room(m, e)
                     /\ (~Holds(m, b) \/ e # m.buf[b].data) /\ Out(m, e) => Out(w, e)
<1>1. CASE Dealloc(m, b) = m
  BY <1>1, OwnedWithout
<1>2. CASE Dealloc(m, b) # m
  <2>1. m.buf[b].free /\ Dealloc(m, b) = Release(m, m.buf[b].data, m.buf[b].capacity)
    BY <1>2 DEF Dealloc
  <2>2. m.buf[b].data # Null
    BY <1>2, <2>1 DEF Release
  <2>3. Holds(m, b)
    BY <2>1, <2>2 DEF Holds
  <2>4. m.buf[b].capacity \in Nat /\ m.buf[b].capacity <= Room(m, m.buf[b].data)
    BY <2>3, BufferFields DEF Owned, PoolOK
  <2> QED
    BY <2>1, <2>3, <2>4, ReleaseOwned
<1> QED
  BY <1>1, <1>2

\* An acquisition leaves owners their memory, and gives what no one owns.
LEMMA AcquireOwned ==
    ASSUME NEW m, NEW X, Owned(m, X), NEW s \in Nat, UnusedHeap(m) # {}
    PROVE  LET a == Acquire(m, s)
           IN  /\ Acquired(m, a) /\ Owned(a.mem, X)
               /\ \A c \in Buffers \ X : Holds(a.mem, c) => a.mem.buf[c].data # a.data
<1> DEFINE a == Acquire(m, s)
<1>1. Acquired(m, a) /\ m \in MemType
  BY AcquireOK DEF Owned, PoolOK
<1> HIDE DEF a
<1>2. \A x \in Buffers : Holds(a.mem, x) <=> Holds(m, x)
  BY <1>1 DEF Holds, Acquired
<1>3. ASSUME NEW c \in Buffers \ X, Holds(a.mem, c)
      PROVE  /\ Out(m, m.buf[c].data) /\ m.buf[c].data \in Memory
             /\ m.buf[c].capacity <= Room(m, m.buf[c].data)
             /\ m.buf[c].data # Null
  BY <1>1, <1>2, <1>3, BufferFields DEF Owned, Holds
<1>4. ASSUME NEW c \in Buffers \ X, Holds(a.mem, c)
      PROVE  /\ Out(a.mem, a.mem.buf[c].data)
             /\ a.mem.buf[c].capacity <= Room(a.mem, a.mem.buf[c].data)
             /\ a.mem.buf[c].data # a.data
  BY <1>1, <1>3, <1>4 DEF Acquired
<1>5. ASSUME NEW c \in Buffers \ X, NEW x \in Buffers \ X,
             Holds(a.mem, c), Holds(a.mem, x), x # c
      PROVE  a.mem.buf[x].data # a.mem.buf[c].data
  BY <1>1, <1>2, <1>5 DEF Owned, Acquired
<1>6. Owned(a.mem, X)
  BY <1>1, <1>4, <1>5 DEF Owned, Acquired
<1> QED
  BY <1>1, <1>4, <1>6 DEF a

\* What buffer b may come to hold: a view, or memory no other buffer owns.
MayHold(m, b, data, capacity, free) ==
    /\ data \in Memory \cup {Null} /\ capacity \in Nat /\ free \in BOOLEAN
    /\ free /\ data # Null =>
          /\ Out(m, data) /\ capacity <= Room(m, data)
          /\ \A c \in Buffers \ {b} : Holds(m, c) => m.buf[c].data # data

\* Memory with other buffers.
Rebuffer(m, buf) == [m EXCEPT !.buf = buf]

LEMMA RebufferFields ==
    ASSUME NEW m, PoolOK(m), NEW buf \in [Buffers -> BufferType]
    PROVE  LET w == Rebuffer(m, buf)
           IN  PoolOK(w) /\ w.buf = buf /\ \A e : Out(w, e) = Out(m, e) /\ Room(w, e) = Room(m, e)
<1> DEFINE w == Rebuffer(m, buf)
<1>1. m \in MemType
  BY DEF PoolOK
<1>2. /\ w \in MemType /\ w.bucket = m.bucket /\ w.heap = m.heap /\ w.big = m.big /\ w.buf = buf
      /\ w.stored = m.stored
  BY <1>1 DEF Rebuffer, MemType
<1> HIDE DEF w
<1> QED
  BY <1>2 DEF PoolOK, Out, Room, w

LEMMA HoldOwned ==
    ASSUME NEW m, NEW b \in Buffers, Owned(m, {b}), NEW data, NEW capacity, NEW free,
           MayHold(m, b, data, capacity, free)
    PROVE  Owned(Hold(m, b, data, capacity, free), {})
<1> DEFINE r == [data |-> data, capacity |-> capacity, free |-> free]
           buf == [m.buf EXCEPT ![b] = r]
           w == Rebuffer(m, buf)
<1>0. PoolOK(m) /\ m \in MemType /\ m.buf \in [Buffers -> BufferType]
  BY MemFields DEF Owned, PoolOK
<1>1. r \in BufferType /\ r.data = data /\ r.capacity = capacity /\ r.free = free
  BY DEF MayHold, BufferType, Memory
<1> HIDE DEF r
<1>2. /\ buf \in [Buffers -> BufferType] /\ buf[b] = r
      /\ \A c \in Buffers \ {b} : buf[c] = m.buf[c]
  BY <1>0, <1>1
<1>3. Hold(m, b, data, capacity, free) = w
  BY <1>0 DEF Hold, Rebuffer, MemType, r
<1> HIDE DEF buf
<1>4. PoolOK(w) /\ w.buf = buf /\ \A e : Out(w, e) = Out(m, e) /\ Room(w, e) = Room(m, e)
  BY <1>0, <1>2, RebufferFields
<1> HIDE DEF w
<1>5. ASSUME NEW c \in Buffers \ {b}
      PROVE  (Holds(w, c) <=> Holds(m, c)) /\ w.buf[c] = m.buf[c]
  BY <1>2, <1>4 DEF Holds
<1>6. /\ Holds(w, b) <=> (free /\ data # Null)
      /\ w.buf[b].data = data /\ w.buf[b].capacity = capacity
  BY <1>1, <1>2, <1>4 DEF Holds
<1>7. ASSUME NEW x \in Buffers, Holds(w, x)
      PROVE  /\ Out(w, w.buf[x].data) /\ w.buf[x].capacity <= Room(w, w.buf[x].data)
             /\ \A c \in Buffers : c # x /\ Holds(w, c) => w.buf[c].data # w.buf[x].data
  <2>1. CASE x = b
    BY <1>4, <1>5, <1>6, <1>7, <2>1 DEF MayHold
  <2>2. CASE x # b
    BY <1>4, <1>5, <1>6, <1>7, <2>2 DEF MayHold, Owned
  <2> QED
    BY <2>1, <2>2
<1>8. Owned(w, {})
  BY <1>4, <1>7 DEF Owned
<1> QED
  BY <1>3, <1>8

LEMMA RoomNat ==
    ASSUME NEW m \in MemType, NEW d \in Memory
    PROVE  Room(m, d) \in Nat
<1>1. CASE d \in PoolChunks
  BY <1>1, MemoryKinds DEF Room
<1>2. CASE d \in HeapBlocks
  <2>1. d \notin PoolChunks /\ d \in HeapBlocks /\ d[2] \in 1..MaxHeap
    BY <1>2, MemoryKinds
  <2>2. m.big \in [1..MaxHeap -> Nat]
    BY MemFields
  <2> QED
    BY <2>1, <2>2 DEF Room
<1> QED
  BY <1>1, <1>2 DEF Memory

\* Buffers that own what buffers of m do, each memory at most once: o says
\* which buffer of m it comes from.
LEMMA RebufferOwned ==
    ASSUME NEW m, NEW X, Owned(m, X), NEW buf \in [Buffers -> BufferType],
           NEW o \in [Buffers -> Buffers],
           \A b \in Buffers : buf[b].free /\ buf[b].data # Null =>
               /\ o[b] \notin X /\ Holds(m, o[b])
               /\ buf[b].data = m.buf[o[b]].data /\ buf[b].capacity <= m.buf[o[b]].capacity
               /\ \A c \in Buffers : c # b /\ buf[c].free /\ buf[c].data # Null => o[c] # o[b]
    PROVE  Owned(Rebuffer(m, buf), {})
<1> DEFINE w == Rebuffer(m, buf)
<1>0. PoolOK(m) /\ m \in MemType
  BY DEF Owned, PoolOK
<1>1. PoolOK(w) /\ w.buf = buf /\ \A e : Out(w, e) = Out(m, e) /\ Room(w, e) = Room(m, e)
  BY <1>0, RebufferFields
<1> HIDE DEF w
<1>2. \A b \in Buffers : Holds(w, b) <=> buf[b].free /\ buf[b].data # Null
  BY <1>1 DEF Holds
<1>3. ASSUME NEW b \in Buffers, Holds(w, b)
      PROVE  /\ Out(w, buf[b].data) /\ buf[b].capacity <= Room(w, buf[b].data)
             /\ \A c \in Buffers : c # b /\ Holds(w, c) => buf[c].data # buf[b].data
  <2>1. /\ o[b] \in Buffers \ X /\ Holds(m, o[b]) /\ buf[b].data = m.buf[o[b]].data
        /\ buf[b].capacity <= m.buf[o[b]].capacity
    BY <1>2, <1>3
  <2>2. Out(m, m.buf[o[b]].data) /\ m.buf[o[b]].capacity <= Room(m, m.buf[o[b]].data)
    BY <2>1 DEF Owned
  <2>3. buf[b].capacity <= Room(m, buf[b].data)
    <3>1. buf[b].capacity \in Nat /\ m.buf[o[b]].capacity \in Nat
      BY <1>0, <2>1, BufferFields DEF BufferType
    <3>2. Room(m, m.buf[o[b]].data) \in Nat
      <4>1. m.buf[o[b]].data \in Memory
        BY <1>0, <2>1, BufferFields
      <4> QED
        BY <1>0, <4>1, RoomNat
    <3> QED
      BY <2>1, <2>2, <3>1, <3>2
  <2>4. ASSUME NEW c \in Buffers, c # b, Holds(w, c) PROVE buf[c].data # buf[b].data
    <3>1. /\ o[c] \in Buffers \ X /\ Holds(m, o[c]) /\ buf[c].data = m.buf[o[c]].data
          /\ o[c] # o[b]
      BY <1>2, <1>3, <2>4
    <3> QED
      BY <2>1, <3>1 DEF Owned
  <2> QED
    BY <1>1, <2>1, <2>2, <2>3, <2>4
<1>4. Owned(w, {})
  BY <1>1, <1>3 DEF Owned
<1> QED
  BY <1>4 DEF w

\* What an acquisition gives has room enough, whatever capacity it says.
LEMMA AcquireEnough ==
    ASSUME NEW m, PoolOK(m), NEW s \in Nat, UnusedHeap(m) # {}, Acquire(m, s).data # Null
    PROVE  s <= Room(Acquire(m, s).mem, Acquire(m, s).data)
<1> DEFINE z == IF Fitting(s) = {} THEN TryhardAvailable(m, s) ELSE {PickBucket(s)}
<1>1. z \subseteq Fitting(s)
  BY PickBucketFits DEF TryhardAvailable
<1>2. s # 0
  BY DEF Acquire
<1>3. CASE \A y \in z : m.bucket[y] = <<>>
  <2> DEFINE n == CHOOSE k \in UnusedHeap(m) : TRUE
             a == FromHeap(m, s)
  <2>1. Acquire(m, s) = a
    BY <1>2, <1>3 DEF Acquire
  <2>2. n \in 1..MaxHeap
    BY DEF UnusedHeap
  <2>3. a.data = <<0, n>> /\ a.mem = [m EXCEPT !.heap[n] = "used", !.big[n] = s]
    BY DEF FromHeap
  <2> HIDE DEF n, a
  <2>4. a.data \in HeapBlocks /\ a.data \notin PoolChunks /\ a.data[2] = n
    BY <2>2, <2>3, MemoryKinds
  <2>5. a.mem.big[n] = s
    BY <2>2, <2>3 DEF PoolOK, MemType
  <2> QED
    BY <2>1, <2>4, <2>5 DEF Room
<1>4. CASE ~ \A y \in z : m.bucket[y] = <<>>
  <2> DEFINE y == CHOOSE y \in z : TRUE
             d == Head(m.bucket[y])
  <2>1. Acquire(m, s) = BucketAcquire(m, y)
    BY <1>2, <1>4 DEF Acquire
  <2>2. y \in z /\ m.bucket[y] # <<>>
    BY <1>4 DEF TryhardAvailable
  <2> HIDE DEF y, z
  <2>3. s <= y /\ y \in BucketSizes
    BY <1>1, <2>2 DEF Fitting
  <2>4. BucketAcquire(m, y).data = d
    BY DEF BucketAcquire
  <2>5. m.bucket[y] \in Seq(PoolChunks) /\ \A e \in Range(m.bucket[y]) : e[1] = y
    BY <2>3, MemFields DEF PoolOK
  <2>6. d \in PoolChunks /\ d \in Range(m.bucket[y])
    <3>1. ASSUME NEW q \in Seq(PoolChunks), q # <<>> PROVE Head(q) \in PoolChunks /\ Head(q) \in Range(q)
      <4>1. Head(q) = q[1] /\ 1 \in DOMAIN q /\ q[1] \in PoolChunks
        BY <3>1
      <4> QED
        BY <4>1 DEF Range
    <3> QED
      BY <2>2, <2>5, <3>1
  <2> QED
    BY <2>1, <2>3, <2>4, <2>5, <2>6 DEF Room
<1> QED
  BY <1>3, <1>4

\* A buffer without memory acquires some, and believes no more than it got.
LEMMA AcquireHold ==
    ASSUME NEW m, NEW b \in Buffers, Owned(m, {b}), NEW s \in Nat, UnusedHeap(m) # {},
           NEW k \in {s, Acquire(m, s).capacity}
    PROVE  Owned(Hold(Acquire(m, s).mem, b, Acquire(m, s).data, k, TRUE), {})
<1> DEFINE a == Acquire(m, s)
<1>1. /\ Acquired(m, a) /\ Owned(a.mem, {b})
      /\ \A c \in Buffers \ {b} : Holds(a.mem, c) => a.mem.buf[c].data # a.data
  BY AcquireOwned
<1>2. a.data # Null => s <= Room(a.mem, a.data)
  BY AcquireEnough DEF Owned
<1> HIDE DEF a
<1>3. k \in Nat /\ (a.data # Null => k <= Room(a.mem, a.data))
  <2>1. k \in {s, a.capacity} /\ a.capacity \in Nat
    BY <1>1 DEF a, Acquired
  <2>2. ASSUME a.data # Null PROVE Room(a.mem, a.data) \in Nat /\ a.capacity <= Room(a.mem, a.data)
    <3>1. a.data \in Memory /\ a.mem \in MemType /\ a.capacity <= Room(a.mem, a.data)
      BY <1>1, <2>2 DEF Acquired, PoolOK
    <3> QED
      BY <3>1, RoomNat
  <2> QED
    BY <1>2, <2>1, <2>2
<1>4. MayHold(a.mem, b, a.data, k, TRUE)
  BY <1>1, <1>3 DEF MayHold, Acquired
<1>5. Owned(Hold(a.mem, b, a.data, k, TRUE), {})
  BY <1>1, <1>4, HoldOwned
<1> QED
  BY <1>5 DEF a

-----------------------------------------------------------------------------
(* The steps.                                                              *)

LEMMA MemInitOwned == MemInit => Owned(mem, {})
<1> SUFFICES ASSUME MemInit PROVE Owned(mem, {})
  OBVIOUS
<1>1. /\ mem.bucket = [z \in BucketSizes |-> InitMemory(z)]
      /\ mem.heap = [n \in 1..MaxHeap |-> "unused"] /\ mem.big = [n \in 1..MaxHeap |-> 0]
      /\ mem.buf = [b \in Buffers |-> Empty]
      /\ mem.stored = [d \in PoolChunks |-> d[1]]
      /\ mem = [bucket |-> mem.bucket, stored |-> mem.stored, heap |-> mem.heap,
                big |-> mem.big, buf |-> mem.buf]
  BY DEF MemInit
<1>2. ASSUME NEW z \in BucketSizes
      PROVE  /\ InitMemory(z) \in Seq(PoolChunks) /\ Once(InitMemory(z))
             /\ \A d \in Range(InitMemory(z)) : d[1] = z
  <2>1. \A i \in 1..BucketCount : <<z, i>> \in PoolChunks /\ <<z, i>>[1] = z /\ <<z, i>>[2] = i
    BY DEF PoolChunks
  <2>2. InitMemory(z) \in Seq(PoolChunks)
    BY <2>1, SizesAssumption DEF InitMemory
  <2> QED
    BY <2>1, <2>2 DEF InitMemory, Once, Range
<1>3. Empty \in BufferType /\ ~Empty.free
  BY DEF Empty, BufferType
<1>4. mem \in MemType
  <2>1. mem.bucket \in [BucketSizes -> Seq(PoolChunks)]
    BY <1>1, <1>2
  <2>2. mem.heap \in [1..MaxHeap -> {"unused", "used", "freed", "freed twice"}]
        /\ mem.big \in [1..MaxHeap -> Nat]
    BY <1>1
  <2>3. mem.buf \in [Buffers -> BufferType]
    BY <1>1, <1>3
  <2>4. mem.stored \in [PoolChunks -> Nat]
    BY <1>1, MemoryKinds
  <2> QED
    BY <1>1, <2>1, <2>2, <2>3, <2>4 DEF MemType
<1>5. PoolOK(mem)
  <2>1. \A d \in PoolChunks : mem.stored[d] <= d[1]
    BY <1>1, MemoryKinds
  <2> QED
    BY <1>1, <1>2, <1>4, <2>1 DEF PoolOK
<1>6. \A b \in Buffers : ~Holds(mem, b)
  BY <1>1, <1>3 DEF Holds
<1> QED
  BY <1>5, <1>6 DEF Owned

\* Memory with buffer b emptied.
LEMMA EmptiedOwned ==
    ASSUME NEW m, NEW b \in Buffers, Owned(m, {b})
    PROVE  Owned([m EXCEPT !.buf[b] = Empty], {})
<1> DEFINE w == [m EXCEPT !.buf[b] = Empty]
<1>1. w = Hold(m, b, Null, 0, FALSE)
  BY DEF Hold, Empty
<1>2. MayHold(m, b, Null, 0, FALSE)
  BY DEF MayHold
<1> HIDE DEF w
<1>3. Owned(w, {})
  BY <1>1, <1>2, HoldOwned
<1> QED
  BY <1>3 DEF w

\* Buffers are made and given more memory.
LEMMA NewOwned ==
    ASSUME Owned(mem, {}), NEW b \in Buffers, NEW s \in Requests,
           NewBuffer(b, s) \/ MempoolAlloc(b, s) \/ AssignData(b, s)
    PROVE  Owned(mem', {})
<1>0. s \in Nat /\ Owned(mem, {b})
  BY SizesAssumption, OwnedWithout
<1>1. CASE NewBuffer(b, s) \/ MempoolAlloc(b, s)
  <2> DEFINE a == Acquire(mem, s)
  <2>1. UnusedHeap(mem) # {} /\ \E k \in {s, a.capacity} : mem' = Hold(a.mem, b, a.data, k, TRUE)
    BY <1>1 DEF NewBuffer, MempoolAlloc, HeapLeft
  <2> QED
    BY <1>0, <2>1, AcquireHold
<1>2. CASE AssignData(b, s)
  <2> DEFINE m == Dealloc(mem, b)
             a == Acquire(m, s)
  <2>1. UnusedHeap(mem) # {} /\ mem' = Hold(a.mem, b, a.data, s, TRUE)
    BY <1>2 DEF AssignData, HeapLeft
  <2>2. Owned(m, {b}) /\ UnusedHeap(m) = UnusedHeap(mem)
    BY DeallocOwned
  <2> HIDE DEF m
  <2> QED
    BY <1>0, <2>1, <2>2, AcquireHold
<1> QED
  BY <1>1, <1>2

\* A chunk goes back with the size find_ptr_size finds.
LEMMA PtrSizeFits ==
    ASSUME NEW m \in MemType, NEW d \in Memory
    PROVE  FindPtrSize(d) \in Nat /\ FindPtrSize(d) <= Room(m, d)
<1>1. CASE d \in PoolChunks
  BY <1>1, MemoryKinds DEF Room
<1>2. CASE d \in HeapBlocks
  BY <1>2, MemoryKinds, RoomNat
<1> QED
  BY <1>1, <1>2 DEF Memory

\* The new memory is acquired before the old is given back.
LEMMA RegrowOwned ==
    ASSUME Owned(mem, {}), NEW b \in Buffers, NEW s \in Requests,
           GrowBuffer(b, s) \/ (ReallocChunk(b, s) /\ ~(FindPtrSize(mem.buf[b].data) >= s))
    PROVE  Owned(mem', {})
<1> DEFINE a == Acquire(mem, s)
<1>0. s \in Nat /\ UnusedHeap(mem) # {} /\ PoolOK(mem)
  BY SizesAssumption DEF GrowBuffer, ReallocChunk, HeapLeft, Owned
<1>1. /\ Acquired(mem, a) /\ Owned(a.mem, {}) /\ a.mem.buf = mem.buf
      /\ \A c \in Buffers : Holds(a.mem, c) => a.mem.buf[c].data # a.data
  BY <1>0, AcquireOwned DEF Acquired
<1>a. a.data # Null => s <= Room(a.mem, a.data)
  BY <1>0, AcquireEnough
<1>2. PICK w, k :
          /\ k \in {s, a.capacity} /\ mem' = Hold(w, b, a.data, k, TRUE)
          /\ Owned(w, {b}) /\ w.buf = a.mem.buf
          /\ \A e \in Memory :
                /\ Room(w, e) = Room(a.mem, e)
                /\ (~Holds(a.mem, b) \/ e # a.mem.buf[b].data) /\ Out(a.mem, e) => Out(w, e)
  <2>1. CASE GrowBuffer(b, s)
    <3> DEFINE w == Dealloc(a.mem, b)
    <3>1. mem' = Hold(w, b, a.data, a.capacity, TRUE)
      BY <2>1 DEF GrowBuffer
    <3> HIDE DEF a
    <3>2. /\ Owned(w, {b}) /\ w.buf = a.mem.buf
          /\ \A e \in Memory :
                /\ Room(w, e) = Room(a.mem, e)
                /\ (~Holds(a.mem, b) \/ e # a.mem.buf[b].data) /\ Out(a.mem, e) => Out(w, e)
      BY <1>1, DeallocOwned
    <3> HIDE DEF w
    <3>3. a.capacity \in {s, a.capacity}
      OBVIOUS
    <3> QED
      BY <3>1, <3>2, <3>3
  <2>2. CASE ReallocChunk(b, s) /\ ~(FindPtrSize(mem.buf[b].data) >= s)
    <3> DEFINE d == mem.buf[b].data
               f == FindPtrSize(d)
               w == Release(a.mem, d, f)
    <3>1. mem' = Hold(w, b, a.data, s, TRUE) /\ mem.buf[b].free /\ d # Null
      BY <2>2 DEF ReallocChunk
    <3> HIDE DEF a
    <3>2. Holds(a.mem, b) /\ d = a.mem.buf[b].data /\ a.mem \in MemType
      BY <1>1, <3>1 DEF Holds, Owned, PoolOK
    <3>a. f \in Nat /\ f <= Room(a.mem, d)
      <4>1. d \in Memory
        BY <3>2, BufferFields
      <4> QED
        BY <3>2, <4>1, PtrSizeFits
    <3> HIDE DEF d, f
    <3>b. w = Release(a.mem, a.mem.buf[b].data, f) /\ f <= Room(a.mem, a.mem.buf[b].data)
      BY <3>2, <3>a
    <3> HIDE DEF w
    <3>3. /\ Owned(w, {b}) /\ w.buf = a.mem.buf
          /\ \A e \in Memory : /\ Room(w, e) = Room(a.mem, e)
                               /\ e # a.mem.buf[b].data /\ Out(a.mem, e) => Out(w, e)
      BY <1>1, <3>2, <3>a, <3>b, ReleaseOwned
    <3>4. s \in {s, a.capacity}
      OBVIOUS
    <3> QED
      BY <3>1, <3>2, <3>3, <3>4
  <2> QED
    BY <2>1, <2>2
<1> HIDE DEF a
<1>3. MayHold(w, b, a.data, k, TRUE)
  <2>1. a.data \in Memory \cup {Null} /\ k \in Nat
    BY <1>0, <1>1, <1>2 DEF Acquired
  <2>2. a.data # Null => Out(w, a.data) /\ k <= Room(w, a.data)
    BY <1>1, <1>a, <1>2, <2>1 DEF Acquired
  <2>3. \A c \in Buffers \ {b} : Holds(w, c) => w.buf[c].data # a.data
    BY <1>1, <1>2 DEF Holds
  <2> QED
    BY <2>1, <2>2, <2>3 DEF MayHold
<1> QED
  BY <1>2, <1>3, HoldOwned

\* mempool_realloc of a chunk that is large enough.
LEMMA StayOwned ==
    ASSUME Owned(mem, {}), NEW b \in Buffers, NEW s \in Requests,
           ReallocChunk(b, s), FindPtrSize(mem.buf[b].data) >= s
    PROVE  Owned(mem', {})
<1> DEFINE d == mem.buf[b].data
<1>0. s \in Nat /\ mem \in MemType /\ Owned(mem, {b})
  BY SizesAssumption, OwnedWithout DEF Owned, PoolOK
<1>1. mem' = Hold(mem, b, d, s, TRUE) /\ Holds(mem, b) /\ FindPtrSize(d) >= s
  BY DEF ReallocChunk, Holds
<1>2. d \in Memory
  BY <1>0, <1>1, BufferFields
<1>3. Out(mem, d) /\ \A c \in Buffers \ {b} : Holds(mem, c) => mem.buf[c].data # d
  BY <1>1 DEF Owned
<1> HIDE DEF d
<1>4. s <= Room(mem, d)
  BY <1>0, <1>1, <1>2, PtrSizeFits, RoomNat
<1>5. MayHold(mem, b, d, s, TRUE)
  BY <1>0, <1>2, <1>3, <1>4 DEF MayHold
<1> QED
  BY <1>0, <1>1, <1>5, HoldOwned

\* Views and copies.
LEMMA CopyOwned ==
    ASSUME Owned(mem, {}), NEW b \in Buffers, NEW c \in Buffers, NEW s,
           ViewBuffer(b, c) \/ CopyBuffer(b, c) \/ AssignBuffer(b, c, s)
    PROVE  Owned(mem', {})
<1> DEFINE x == mem.buf[b]
           m == Dealloc(mem, c)
<1>0. /\ mem \in MemType /\ x.data \in Memory \cup {Null} /\ x.capacity \in Nat
      /\ x.free \in BOOLEAN /\ Owned(mem, {c})
  BY BufferFields, OwnedWithout DEF Owned, PoolOK
<1>1. Owned(m, {c}) /\ UnusedHeap(m) = UnusedHeap(mem)
  BY DeallocOwned
<1>2. ASSUME NEW w, Owned(w, {c}), NEW d \in {x.data, Null}, NEW k \in {0, x.capacity}
      PROVE  Owned(Hold(w, c, d, k, FALSE), {})
  <2>1. MayHold(w, c, d, k, FALSE)
    BY <1>0 DEF MayHold
  <2> QED
    BY <1>2, <2>1, HoldOwned
<1>3. CASE ViewBuffer(b, c)
  <2>1. mem' = Hold(mem, c, x.data, x.capacity, FALSE)
    BY <1>3 DEF ViewBuffer
  <2> QED
    BY <1>0, <1>2, <2>1
<1>4. CASE CopyBuffer(b, c)
  <2> DEFINE a == Acquire(mem, x.capacity)
  <2>1. CASE x.capacity # 0 /\ x.free
    <3>1. mem' = Hold(a.mem, c, a.data, a.capacity, TRUE) /\ UnusedHeap(mem) # {}
      BY <1>4, <2>1 DEF CopyBuffer, HeapLeft
    <3> QED
      BY <1>0, <3>1, AcquireHold
  <2>2. CASE x.capacity # 0 /\ ~x.free
    <3>1. mem' = Hold(mem, c, x.data, 0, FALSE)
      BY <1>0, <1>4, <2>2 DEF CopyBuffer
    <3> QED
      BY <1>0, <1>2, <3>1
  <2>3. CASE x.capacity = 0
    <3>1. mem' = Hold(mem, c, Null, 0, x.free)
      BY <1>4, <2>3 DEF CopyBuffer
    <3>2. MayHold(mem, c, Null, 0, x.free)
      BY <1>0 DEF MayHold
    <3> QED
      BY <1>0, <3>1, <3>2, HoldOwned
  <2> QED
    BY <2>1, <2>2, <2>3
<1>5. CASE AssignBuffer(b, c, s)
  <2> DEFINE a == Acquire(m, x.capacity)
  <2>1. /\ UnusedHeap(mem) # {}
        /\ \/ mem' = mem
           \/ x.free /\ mem' = Hold(a.mem, c, a.data, a.capacity, TRUE)
           \/ mem' = Hold(m, c, x.data, x.capacity, FALSE)
    BY <1>5, Zenon DEF AssignBuffer, HeapLeft
  <2>2. CASE mem' = mem
    BY <2>2
  <2>3. CASE mem' = Hold(a.mem, c, a.data, a.capacity, TRUE)
    <3> HIDE DEF m
    <3> QED
      BY <1>0, <1>1, <2>1, <2>3, AcquireHold
  <2>4. CASE mem' = Hold(m, c, x.data, x.capacity, FALSE)
    <3> HIDE DEF m
    <3> QED
      BY <1>1, <1>2, <2>4
  <2> QED
    BY <2>1, <2>2, <2>3, <2>4
<1> QED
  BY <1>3, <1>4, <1>5

\* swap() and the moves: owners change places.
LEMMA MoveOwned ==
    ASSUME Owned(mem, {}), NEW b \in Buffers, NEW c \in Buffers,
           MoveBuffer(b, c) \/ SwapBuffers(b, c)
    PROVE  Owned(mem', {})
<1> DEFINE o == [x \in Buffers |-> IF x = b THEN c ELSE IF x = c THEN b ELSE x]
<1>0. mem \in MemType /\ mem.buf \in [Buffers -> BufferType] /\ o \in [Buffers -> Buffers] /\ b # c
  BY MemFields DEF Owned, PoolOK, MoveBuffer, SwapBuffers
<1>1. \A x \in Buffers : mem.buf[x].capacity \in Nat /\ mem.buf[x].capacity <= mem.buf[x].capacity
  BY <1>0, BufferFields
<1>2. \A x, y \in Buffers : x # y => o[x] # o[y]
  BY <1>0
<1>3. CASE MoveBuffer(b, c)
  <2> DEFINE m == IF mem.buf[c].free /\ mem.buf[c].data # Null
                  THEN Release(mem, mem.buf[c].data, mem.buf[c].capacity) ELSE mem
             r == [mem.buf[b] EXCEPT !.free = FALSE]
             buf == [mem.buf EXCEPT ![c] = mem.buf[b], ![b] = r]
  <2>1. Owned(m, {c}) /\ m.buf = mem.buf /\ m \in MemType
    <3>1. CASE Holds(mem, c)
      <4>1. m = Release(mem, mem.buf[c].data, mem.buf[c].capacity)
        BY <3>1 DEF Holds
      <4> HIDE DEF m
      <4>a. mem.buf[c].capacity \in Nat /\ mem.buf[c].capacity <= Room(mem, mem.buf[c].data)
        BY <1>1, <3>1 DEF Owned
      <4>2. Owned(m, {c}) /\ m.buf = mem.buf
        BY <3>1, <4>1, <4>a, ReleaseOwned
      <4> QED
        BY <4>2 DEF Owned, PoolOK
    <3>2. CASE ~Holds(mem, c)
      <4>1. m = mem
        BY <3>2 DEF Holds
      <4> HIDE DEF m
      <4>2. Owned(mem, {c})
        BY OwnedWithout
      <4> QED
        BY <1>0, <4>1, <4>2
    <3> QED
      BY <3>1, <3>2
  <2>2. mem' = [m EXCEPT !.buf[c] = mem.buf[b], !.buf[b].free = FALSE]
    BY <1>3 DEF MoveBuffer
  <2> HIDE DEF m
  <2>3. mem' = Rebuffer(m, buf)
    BY <1>0, <2>1, <2>2 DEF Rebuffer, MemType
  <2>4. r \in BufferType /\ ~r.free
    BY <1>0 DEF BufferType
  <2> HIDE DEF r
  <2>5. /\ buf \in [Buffers -> BufferType] /\ buf[c] = mem.buf[b] /\ buf[b] = r
        /\ \A x \in Buffers \ {b, c} : buf[x] = mem.buf[x]
    BY <1>0, <2>4
  <2> HIDE DEF buf
  <2>6. ASSUME NEW x \in Buffers, buf[x].free, buf[x].data # Null
        PROVE  /\ o[x] \notin {c} /\ Holds(m, o[x])
               /\ buf[x].data = m.buf[o[x]].data /\ buf[x].capacity <= m.buf[o[x]].capacity
    <3>1. x # b /\ o[x] # c /\ buf[x] = mem.buf[o[x]] /\ o[x] \in Buffers
      BY <1>0, <2>4, <2>5, <2>6
    <3> HIDE DEF o
    <3> QED
      BY <1>1, <2>1, <2>6, <3>1 DEF Holds
  <2> HIDE DEF o
  <2> QED
    BY <1>0, <1>2, <2>1, <2>3, <2>5, <2>6, RebufferOwned
<1>4. CASE SwapBuffers(b, c)
  <2> DEFINE buf == [mem.buf EXCEPT ![b] = mem.buf[c], ![c] = mem.buf[b]]
  <2>1. mem' = Rebuffer(mem, buf)
    BY <1>0, <1>4 DEF SwapBuffers, Rebuffer, MemType
  <2>2. buf \in [Buffers -> BufferType] /\ \A x \in Buffers : buf[x] = mem.buf[o[x]]
    BY <1>0
  <2> HIDE DEF buf
  <2>3. ASSUME NEW x \in Buffers, buf[x].free, buf[x].data # Null
        PROVE  /\ o[x] \notin {} /\ Holds(mem, o[x])
               /\ buf[x].data = mem.buf[o[x]].data /\ buf[x].capacity <= mem.buf[o[x]].capacity
    <3>1. o[x] \in Buffers
      BY <1>0
    <3> HIDE DEF o
    <3> QED
      BY <1>1, <2>2, <2>3, <3>1 DEF Holds
  <2> HIDE DEF o
  <2> QED
    BY <1>0, <1>2, <2>1, <2>2, <2>3, RebufferOwned
<1> QED
  BY <1>3, <1>4

\* The s bytes of an owner are detached and attached to another buffer.
LEMMA HandOverOwned ==
    ASSUME Owned(mem, {}), NEW b \in Buffers, NEW c \in Buffers, NEW s \in Requests,
           HandOver(b, c, s)
    PROVE  Owned(mem', {})
<1> DEFINE d == mem.buf[b].data
           m == Detach(mem, b)
           w == Dealloc(m, c)
<1>0. /\ mem \in MemType /\ mem.buf \in [Buffers -> BufferType] /\ s \in Nat
      /\ b # c /\ mem.buf[b].free /\ s <= Room(mem, d)
      /\ mem' = Hold(w, c, d, s, TRUE)
  BY MemFields, SizesAssumption DEF Owned, PoolOK, HandOver, Attach
<1>1. /\ d \in Memory \cup {Null} /\ mem.buf[b].capacity \in Nat
      /\ \A x \in Buffers : mem.buf[x].capacity \in Nat
  BY <1>0, BufferFields
<1>2. PICK buf \in [Buffers -> BufferType] :
          /\ m = Rebuffer(mem, buf) /\ buf[b].data = Null
          /\ \A x \in Buffers \ {b} : buf[x] = mem.buf[x]
  <2> DEFINE r == [mem.buf[b] EXCEPT !.data = Null, !.capacity = 0]
             buf == [mem.buf EXCEPT ![b] = r]
  <2>1. r \in BufferType /\ r.data = Null
    BY <1>0 DEF BufferType
  <2>2. m = Rebuffer(mem, buf)
    BY <1>0 DEF Detach, Rebuffer, MemType, BufferType
  <2> HIDE DEF r
  <2>3. /\ buf \in [Buffers -> BufferType] /\ buf[b] = r
        /\ \A x \in Buffers \ {b} : buf[x] = mem.buf[x]
    BY <1>0, <2>1
  <2> HIDE DEF buf, m
  <2> QED
    BY <2>1, <2>2, <2>3
<1> HIDE DEF m
<1>3. Owned(m, {})
  <2> DEFINE o == [x \in Buffers |-> x]
  <2>1. o \in [Buffers -> Buffers] /\ \A x \in Buffers : o[x] = x
    OBVIOUS
  <2> HIDE DEF o
  <2>2. ASSUME NEW x \in Buffers, buf[x].free, buf[x].data # Null
        PROVE  /\ o[x] \notin {} /\ Holds(mem, o[x]) /\ buf[x].data = mem.buf[o[x]].data
               /\ buf[x].capacity <= mem.buf[o[x]].capacity
    <3>1. x # b /\ buf[x] = mem.buf[x] /\ o[x] = x
      BY <1>2, <2>1, <2>2
    <3> QED
      BY <1>1, <2>2, <3>1 DEF Holds
  <2> QED
    BY <1>2, <2>1, <2>2, RebufferOwned
<1>4. PoolOK(mem) /\ m.buf = buf /\ \A e : Out(m, e) = Out(mem, e) /\ Room(m, e) = Room(mem, e)
  BY <1>2, RebufferFields DEF Owned
<1>5. ASSUME d # Null
      PROVE  /\ d \in Memory /\ Out(m, d) /\ s <= Room(m, d)
             /\ \A x \in Buffers : Holds(m, x) => m.buf[x].data # d
  <2>1. Holds(mem, b) /\ d \in Memory
    BY <1>0, <1>1, <1>5 DEF Holds
  <2>2. Out(mem, d)
    BY <2>1 DEF Owned
  <2>3. \A x \in Buffers : x # b /\ Holds(mem, x) => mem.buf[x].data # d
    BY <2>1 DEF Owned
  <2>4. \A x \in Buffers : Holds(m, x) => x # b /\ Holds(mem, x) /\ m.buf[x] = mem.buf[x]
    BY <1>2, <1>4 DEF Holds
  <2> QED
    BY <1>0, <1>1, <1>4, <2>1, <2>2, <2>3, <2>4
<1>6. /\ Owned(w, {c}) /\ w.buf = m.buf
      /\ \A e \in Memory :
            /\ Room(w, e) = Room(m, e)
            /\ (~Holds(m, c) \/ e # m.buf[c].data) /\ Out(m, e) => Out(w, e)
  BY <1>3, DeallocOwned
<1> HIDE DEF w, d
<1>7. MayHold(w, c, d, s, TRUE)
  <2>1. d # Null => Out(w, d) /\ s <= Room(w, d)
    BY <1>5, <1>6
  <2>2. \A x \in Buffers : Holds(w, x) <=> Holds(m, x)
    BY <1>6 DEF Holds
  <2>3. d # Null => \A x \in Buffers \ {c} : Holds(w, x) => w.buf[x].data # d
    BY <1>5, <1>6, <2>2
  <2> QED
    BY <1>0, <1>1, <2>1, <2>3 DEF MayHold, d
<1> QED
  BY <1>0, <1>6, <1>7, HoldOwned

LEMMA MemNextOwned ==
    ASSUME Owned(mem, {}), [MemNext]_mem
    PROVE  Owned(mem', {})
<1>1. ASSUME NEW b \in Buffers, DestroyBuffer(b) \/ MempoolFree(b) PROVE Owned(mem', {})
  <2>1. CASE DestroyBuffer(b)
    <3>1. Owned(Dealloc(mem, b), {b})
      BY DeallocOwned
    <3> QED
      BY <2>1, <3>1, EmptiedOwned DEF DestroyBuffer
  <2>2. CASE MempoolFree(b)
    <3> DEFINE d == mem.buf[b].data
               f == FindPtrSize(d)
    <3>1. Holds(mem, b) /\ mem' = [Release(mem, d, f) EXCEPT !.buf[b] = Empty]
      BY <2>2 DEF MempoolFree, Holds
    <3>2. f \in Nat /\ f <= Room(mem, d)
      BY <3>1, BufferFields, PtrSizeFits DEF Owned, PoolOK
    <3> HIDE DEF f
    <3>3. Owned(Release(mem, d, f), {b})
      BY <3>1, <3>2, ReleaseOwned
    <3> QED
      BY <3>1, <3>3, EmptiedOwned
  <2> QED
    BY <1>1, <2>1, <2>2
<1>2. ASSUME NEW b \in Buffers, NEW s \in Requests,
             \/ NewBuffer(b, s) \/ MempoolAlloc(b, s) \/ AssignData(b, s)
             \/ GrowBuffer(b, s) \/ ReallocChunk(b, s)
      PROVE  Owned(mem', {})
  BY <1>2, NewOwned, RegrowOwned, StayOwned
<1>3. ASSUME NEW b \in Buffers, NEW c \in Buffers, ViewBuffer(b, c) \/ CopyBuffer(b, c)
      PROVE  Owned(mem', {})
  BY <1>3, CopyOwned
<1>4. ASSUME NEW b \in Buffers, NEW c \in Buffers, MoveBuffer(b, c) \/ SwapBuffers(b, c)
      PROVE  Owned(mem', {})
  BY <1>4, MoveOwned
<1>5. ASSUME NEW b \in Buffers, NEW c \in Buffers, NEW s \in Requests,
             AssignBuffer(b, c, s) \/ HandOver(b, c, s)
      PROVE  Owned(mem', {})
  BY <1>5, CopyOwned, HandOverOwned
<1>6. CASE UNCHANGED mem
  BY <1>6
<1> QED
  BY <1>1, <1>2, <1>3, <1>4, <1>5, <1>6 DEF MemNext

LEMMA MemInvariant == MemSpec => [](MemTypeOK /\ SoleOwner)
<1>1. MemInit => MemTypeOK /\ SoleOwner
  BY MemInitOwned, SoleOwnerIsOwned
<1>2. (MemTypeOK /\ SoleOwner) /\ [MemNext]_mem => (MemTypeOK /\ SoleOwner)'
  BY MemNextOwned, SoleOwnerIsOwned
<1> QED
  BY <1>1, <1>2, PTL DEF MemSpec

\* Every chunk is in its bucket or with one owner, and every heap block is freed
\* once, for any number and sizes of buckets, buffers and requests: no copy, move,
\* view or hand-over of a buffer makes two owners of it.  The capacity release()
\* takes back and acquire() hands out may shrink, and is never more than there is.
THEOREM MemSoleOwner == MemSpec => []SoleOwner
BY MemInvariant, PTL

\* Pool and buffers keep their types.
THEOREM MemTypesKept == MemSpec => []MemTypeOK
BY MemInvariant, PTL

-----------------------------------------------------------------------------
(* The certificate store.                                                  *)

\* StoreInv of any store, in parts.
Keys(f) == CachedKeys(f.mitm)
Using(f, i) == {s \in TlsSessions : f.sess[s].st = "serving" /\ f.sess[s].cert = i}
Lending(f) == {s \in TlsSessions : f.sess[s].st = "serving" /\ f.sess[s].cert # CustomCert}
ServingAll(f) == {s \in TlsSessions : f.sess[s].st = "serving"}
Entry(f, i) == IF \E k \in StoreKeys : f.certOf[k] = i THEN 1 ELSE 0

KeptShape(f) ==
    /\ f \in StoreType /\ Len(f.refs) = Len(f.made)
    /\ Covered(f.mitm, StoreKeys, StoreMax) /\ f.mitm.mode = "FIFO"
    /\ IsFiniteSet(Keys(f)) /\ IsFiniteSet(ServingAll(f))
KeptEntries(f) ==
    \A k \in StoreKeys : /\ f.certOf[k] \in 0..Len(f.made)
                         /\ (f.certOf[k] = NoCert) <=> (k \notin Keys(f))
                         /\ f.certOf[k] # NoCert => f.made[f.certOf[k]] = k
KeptSessions(f) ==
    \A s \in TlsSessions :
        f.sess[s].st \in {"lent", "serving"} /\ f.sess[s].cert # CustomCert =>
            /\ f.sess[s].cert \in 1..Len(f.made)
            /\ \A a \in f.sess[s].ask : f.made[f.sess[s].cert] = Spoofed(a)
KeptRefs(f) ==
    /\ \A i \in 1..Len(f.made) : f.refs[i] = Entry(f, i) + 2 * Cardinality(Using(f, i))
    /\ f.phase = "ready" =>
          f.keyRefs = DefaultKeyRefs + Cardinality(Keys(f)) + 2 * Cardinality(Lending(f))
KeptCold(f) ==
    f.phase # "ready" => /\ Keys(f) = {} /\ f.made = <<>>
                         /\ \A s \in TlsSessions : f.sess[s].st = "new"
Kept(f) == KeptShape(f) /\ KeptEntries(f) /\ KeptSessions(f) /\ KeptRefs(f) /\ KeptCold(f)

LEMMA StoreFields ==
    ASSUME NEW f \in StoreType
    PROVE  /\ f.phase \in {"cold", "ready", "exited"} /\ f.custom \in BOOLEAN
           /\ f.mitm \in CacheType(StoreKeys, StoreMax)
           /\ f.certOf \in [StoreKeys -> 0..MaxSpoofs]
           /\ f.made \in Seq({Spoofed(a) : a \in Asks}) /\ f.refs \in Seq(Nat) /\ f.keyRefs \in Nat
           /\ f.sess \in [TlsSessions -> StoreSession]
           /\ Len(f.made) \in Nat /\ DOMAIN f.refs = 1..Len(f.refs)
BY DEF StoreType

\* Each certificate in the cache belongs to one key.
LEMMA EntryCount ==
    ASSUME NEW f, KeptShape(f), KeptEntries(f), NEW i \in 1..Len(f.made)
    PROVE  Cardinality({k \in StoreKeys : f.certOf[k] = i}) = Entry(f, i)
<1> DEFINE K == {k \in StoreKeys : f.certOf[k] = i}
<1>0. Len(f.made) \in Nat
  BY StoreFields DEF KeptShape
<1>1. \A k \in K : k = f.made[i]
  BY <1>0 DEF KeptEntries, NoCert
<1>2. CASE \E k \in StoreKeys : f.certOf[k] = i
  <2>1. K = {f.made[i]}
    BY <1>1, <1>2
  <2>2. Cardinality(K) = 1
    BY <2>1, FS_Singleton
  <2> QED
    BY <1>2, <2>2 DEF Entry
<1>3. CASE ~ \E k \in StoreKeys : f.certOf[k] = i
  <2>1. K = {}
    BY <1>3
  <2>2. Cardinality(K) = 0
    BY <2>1, FS_EmptySet
  <2> QED
    BY <1>3, <2>2 DEF Entry
<1> QED
  BY <1>2, <1>3

\* The sessions that use a certificate of the store.
LEMMA LendingIsUsing ==
    ASSUME NEW f, KeptShape(f), KeptSessions(f)
    PROVE  UNION {Using(f, i) : i \in DOMAIN f.refs} = Lending(f)
<1>1. DOMAIN f.refs = 1..Len(f.made) /\ Len(f.made) \in Nat
  BY StoreFields DEF KeptShape
<1>2. ASSUME NEW s \in Lending(f) PROVE f.sess[s].cert \in DOMAIN f.refs /\ s \in Using(f, f.sess[s].cert)
  BY <1>1 DEF Lending, Using, KeptSessions
<1>3. \A i \in DOMAIN f.refs : Using(f, i) \subseteq Lending(f)
  BY <1>1 DEF Using, Lending, CustomCert
<1> QED
  BY <1>2, <1>3

\* RefsAreExact and ServedAsAsked of any store.
ExactRefs(f) ==
    /\ \A i \in DOMAIN f.refs :
          f.refs[i] = Cardinality({k \in StoreKeys : f.certOf[k] = i}) + 2 * Cardinality(Using(f, i))
    /\ f.phase = "ready" =>
          f.keyRefs = DefaultKeyRefs + Cardinality(CachedKeys(f.mitm))
                      + 2 * Cardinality(UNION {Using(f, i) : i \in DOMAIN f.refs})
AsAsked(f) ==
    \A i \in DOMAIN f.refs : \A s \in Using(f, i) : \A a \in f.sess[s].ask : f.made[i] = Spoofed(a)

LEMMA KeptIsExact ==
    ASSUME NEW f, KeptShape(f), KeptEntries(f), KeptSessions(f)
    PROVE  AsAsked(f) /\ (KeptRefs(f) <=> ExactRefs(f))
<1>1. DOMAIN f.refs = 1..Len(f.made) /\ Len(f.made) \in Nat
  BY StoreFields DEF KeptShape
<1>2. AsAsked(f)
  BY <1>1 DEF AsAsked, Using, KeptSessions, CustomCert
<1>3. UNION {Using(f, i) : i \in DOMAIN f.refs} = Lending(f)
  BY LendingIsUsing
<1>4. \A i \in 1..Len(f.made) : Cardinality({k \in StoreKeys : f.certOf[k] = i}) = Entry(f, i)
  BY EntryCount
<1>5. (f.phase = "ready" => f.keyRefs = DefaultKeyRefs + Cardinality(Keys(f)) + 2 * Cardinality(Lending(f)))
      <=> (f.phase = "ready" =>
             f.keyRefs = DefaultKeyRefs + Cardinality(CachedKeys(f.mitm))
                         + 2 * Cardinality(UNION {Using(f, i) : i \in DOMAIN f.refs}))
  BY <1>3 DEF Keys
<1>6. (\A i \in 1..Len(f.made) : f.refs[i] = Entry(f, i) + 2 * Cardinality(Using(f, i)))
      <=> (\A i \in DOMAIN f.refs :
             f.refs[i] = Cardinality({k \in StoreKeys : f.certOf[k] = i}) + 2 * Cardinality(Using(f, i)))
  BY <1>1, <1>4
<1> QED
  BY <1>2, <1>5, <1>6 DEF KeptRefs, ExactRefs

LEMMA StoreInvIsKept == (StoreInv <=> Kept(store)) /\ (StoreInv' <=> Kept(store'))
<1>1. /\ StoreSound <=> ExactRefs(store) /\ AsAsked(store)
      /\ StoreSound' <=> ExactRefs(store') /\ AsAsked(store')
  BY DEF StoreSound, RefsAreExact, ServedAsAsked, ExactRefs, AsAsked, Serving, Using
<1>2. /\ (LentAsAsked /\ ColdIsEmpty) <=>
             (KeptSessions(store) /\ IsFiniteSet(ServingAll(store)) /\ KeptCold(store))
      /\ (LentAsAsked /\ ColdIsEmpty)' <=>
             (KeptSessions(store') /\ IsFiniteSet(ServingAll(store')) /\ KeptCold(store'))
  BY DEF LentAsAsked, ColdIsEmpty, KeptSessions, KeptCold, ServingAll, Keys, CachedKeys
<1>3. ASSUME NEW f \in StoreType
      PROVE  /\ f.mitm \in CacheType(StoreKeys, StoreMax) /\ StoreMax \in Nat \ {0}
             /\ f.mitm.mode = "FIFO" => f.mitm.mode # "LRU"
  BY StoreFields, StoreMaxAssumption
<1>4. /\ (StoreTypeOK /\ EntriesMatch /\ IsFiniteSet(ServingAll(store)))
             <=> (KeptShape(store) /\ KeptEntries(store))
      /\ (StoreTypeOK' /\ EntriesMatch' /\ IsFiniteSet(ServingAll(store')))
             <=> (KeptShape(store') /\ KeptEntries(store'))
  BY <1>3 DEF StoreTypeOK, EntriesMatch, KeptShape, KeptEntries, Keys, CachedKeys, Covered
<1> QED
  BY <1>1, <1>2, <1>4, KeptIsExact DEF StoreInv, Kept

\* A store with other contents.
Restock(f, mitm, certOf, made, refs, keyRefs, sess) ==
    [f EXCEPT !.mitm = mitm, !.certOf = certOf, !.made = made, !.refs = refs,
              !.keyRefs = keyRefs, !.sess = sess]

Contents == {Spoofed(a) : a \in Asks}
CertOfs == [StoreKeys -> 0..MaxSpoofs]
Sessions == [TlsSessions -> StoreSession]

LEMMA RestockFields ==
    ASSUME NEW f \in StoreType, NEW mitm \in CacheType(StoreKeys, StoreMax), NEW certOf \in CertOfs,
           NEW made \in Seq(Contents), NEW refs \in Seq(Nat), NEW keyRefs \in Nat,
           NEW sess \in Sessions
    PROVE  LET w == Restock(f, mitm, certOf, made, refs, keyRefs, sess)
           IN  /\ w \in StoreType /\ w.phase = f.phase /\ w.custom = f.custom
               /\ w.mitm = mitm /\ w.certOf = certOf /\ w.made = made /\ w.refs = refs
               /\ w.keyRefs = keyRefs /\ w.sess = sess
BY DEF StoreType, Restock, Contents, CertOfs, Sessions

\* Content and key of a certificate say the same.
LEMMA ContentIsKey ==
    /\ \A a : Spoofed(a) = MakeStoreKey(a)
    /\ Contents = StoreKeys
BY DEF Spoofed, MakeStoreKey, Contents, StoreKeys

LEMMA KeptFinite ==
    ASSUME NEW f, KeptShape(f)
    PROVE  /\ \A i : IsFiniteSet(Using(f, i)) /\ Cardinality(Using(f, i)) \in Nat
           /\ IsFiniteSet(Lending(f)) /\ Cardinality(Lending(f)) \in Nat
           /\ Cardinality(Keys(f)) \in Nat
<1>1. IsFiniteSet(ServingAll(f)) /\ IsFiniteSet(Keys(f))
  BY DEF KeptShape
<1>2. ASSUME NEW i PROVE IsFiniteSet(Using(f, i))
  <2>1. Using(f, i) \in SUBSET ServingAll(f)
    BY DEF Using, ServingAll
  <2> QED
    BY <1>1, <2>1, FS_Subset
<1>3. IsFiniteSet(Lending(f))
  <2>1. Lending(f) \in SUBSET ServingAll(f)
    BY DEF Lending, ServingAll
  <2> QED
    BY <1>1, <2>1, FS_Subset
<1> QED
  BY <1>1, <1>2, <1>3, FS_CardinalityType

\* Session s becomes r.
Resess(f, s, r) == [f.sess EXCEPT ![s] = r]

LEMMA ResessFields ==
    ASSUME NEW f \in StoreType, NEW s \in TlsSessions, NEW r \in StoreSession
    PROVE  /\ Resess(f, s, r) \in Sessions /\ Resess(f, s, r)[s] = r
           /\ \A x \in TlsSessions : x # s => Resess(f, s, r)[x] = f.sess[x]
BY StoreFields DEF Resess, Sessions

\* A session that uses no certificate of the store becomes another such.
LEMMA SessionOnly ==
    ASSUME NEW f, Kept(f), f.phase = "ready", NEW s \in TlsSessions, NEW r \in StoreSession,
           ~(f.sess[s].st = "serving" /\ f.sess[s].cert # CustomCert),
           ~(r.st = "serving" /\ r.cert # CustomCert),
           r.st = "lent" /\ r.cert # CustomCert =>
               r.cert \in 1..Len(f.made) /\ \A a \in r.ask : f.made[r.cert] = Spoofed(a)
    PROVE  Kept([f EXCEPT !.sess[s] = r])
<1> DEFINE w == [f EXCEPT !.sess[s] = r]
<1>0. KeptShape(f) /\ f \in StoreType /\ Len(f.made) \in Nat
  BY StoreFields DEF Kept, KeptShape
<1>1. Resess(f, s, r) \in Sessions /\ Resess(f, s, r)[s] = r
      /\ \A x \in TlsSessions : x # s => Resess(f, s, r)[x] = f.sess[x]
  BY <1>0, ResessFields
<1>2. w = Restock(f, f.mitm, f.certOf, f.made, f.refs, f.keyRefs, Resess(f, s, r))
  BY <1>0 DEF Restock, Resess, StoreType
<1> HIDE DEF w
<1>3. /\ f.mitm \in CacheType(StoreKeys, StoreMax) /\ f.certOf \in CertOfs
      /\ f.made \in Seq(Contents) /\ f.refs \in Seq(Nat) /\ f.keyRefs \in Nat
  BY <1>0, StoreFields DEF CertOfs, Contents
<1>4. /\ w \in StoreType /\ w.phase = f.phase /\ w.custom = f.custom /\ w.mitm = f.mitm
      /\ w.certOf = f.certOf /\ w.made = f.made /\ w.refs = f.refs /\ w.keyRefs = f.keyRefs
      /\ w.sess = Resess(f, s, r)
  BY <1>0, <1>1, <1>2, <1>3, RestockFields
<1>5. w.sess[s] = r /\ \A x \in TlsSessions : x # s => w.sess[x] = f.sess[x]
  BY <1>1, <1>4
<1>6. Lending(w) = Lending(f) /\ \A i \in 1..Len(f.made) : Using(w, i) = Using(f, i)
  <2>1. \A i \in 1..Len(f.made) : i # CustomCert
    BY <1>0 DEF CustomCert
  <2>2. Lending(w) = Lending(f)
    BY <1>5 DEF Lending
  <2>3. ASSUME NEW i \in 1..Len(f.made) PROVE Using(w, i) = Using(f, i)
    BY <1>5, <2>1 DEF Using
  <2> QED
    BY <2>2, <2>3
<1>7. KeptShape(w)
  <2>1. ServingAll(w) \in SUBSET (ServingAll(f) \cup {s})
    BY <1>5 DEF ServingAll
  <2>2. IsFiniteSet(ServingAll(f) \cup {s})
    BY <1>0, FS_AddElement DEF KeptShape
  <2>3. IsFiniteSet(ServingAll(w))
    BY <2>1, <2>2, FS_Subset
  <2> QED
    BY <1>0, <1>4, <2>3 DEF KeptShape, Keys
<1>8. KeptEntries(w) /\ KeptCold(w)
  BY <1>4 DEF Kept, KeptEntries, KeptCold, Keys
<1>9. KeptSessions(w)
  <2>1. ASSUME NEW x \in TlsSessions, x # s, w.sess[x].st \in {"lent", "serving"},
               w.sess[x].cert # CustomCert
        PROVE  /\ w.sess[x].cert \in 1..Len(w.made)
               /\ \A a \in w.sess[x].ask : w.made[w.sess[x].cert] = Spoofed(a)
    BY <1>4, <1>5, <2>1 DEF Kept, KeptSessions
  <2>2. ASSUME w.sess[s].st \in {"lent", "serving"}, w.sess[s].cert # CustomCert
        PROVE  /\ w.sess[s].cert \in 1..Len(w.made)
               /\ \A a \in w.sess[s].ask : w.made[w.sess[s].cert] = Spoofed(a)
    BY <1>4, <1>5, <2>2
  <2> QED
    BY <2>1, <2>2 DEF KeptSessions
<1>10. KeptRefs(w)
  <2>1. \A i : Entry(w, i) = Entry(f, i)
    BY <1>4 DEF Entry
  <2>2. Keys(w) = Keys(f)
    BY <1>4 DEF Keys
  <2>3. KeptRefs(f)
    BY DEF Kept
  <2> QED
    BY <1>4, <1>6, <2>1, <2>2, <2>3 DEF KeptRefs
<1>11. Kept(w)
  BY <1>7, <1>8, <1>9, <1>10 DEF Kept
<1> QED
  BY <1>11 DEF w

Referenced(f, i, d, s, r) ==
    Restock(f, f.mitm, f.certOf, f.made, [f.refs EXCEPT ![i] = f.refs[i] + 2 * d],
            f.keyRefs + 2 * d, Resess(f, s, r))

\* A session takes its references to certificate i and the default key (d = 1),
\* or gives them back (d = -1).
LEMMA ReferenceKept ==
    ASSUME NEW f, Kept(f), f.phase = "ready", NEW s \in TlsSessions, NEW r \in StoreSession,
           NEW i \in 1..Len(f.made), f.sess[s].cert = i, NEW d \in {1, -1},
           d = 1 => /\ f.sess[s].st = "lent" /\ r.st = "serving" /\ r.cert = i
                    /\ r.ask = f.sess[s].ask,
           d = -1 => f.sess[s].st = "serving" /\ r.st = "new"
    PROVE  Kept(Referenced(f, i, d, s, r))
<1> DEFINE refs == [f.refs EXCEPT ![i] = f.refs[i] + 2 * d]
           w == Restock(f, f.mitm, f.certOf, f.made, refs, f.keyRefs + 2 * d, Resess(f, s, r))
<1>0. KeptShape(f) /\ f \in StoreType /\ Len(f.made) \in Nat /\ Len(f.refs) = Len(f.made)
      /\ i \in Nat /\ i # CustomCert
  BY StoreFields DEF Kept, KeptShape, CustomCert
<1>1. Resess(f, s, r) \in Sessions /\ Resess(f, s, r)[s] = r
      /\ \A x \in TlsSessions : x # s => Resess(f, s, r)[x] = f.sess[x]
  BY <1>0, ResessFields
<1>2. /\ f.refs[i] = Entry(f, i) + 2 * Cardinality(Using(f, i))
      /\ f.keyRefs = DefaultKeyRefs + Cardinality(Keys(f)) + 2 * Cardinality(Lending(f))
  BY DEF Kept, KeptRefs
<1>3. /\ IsFiniteSet(Using(f, i)) /\ Cardinality(Using(f, i)) \in Nat
      /\ IsFiniteSet(Lending(f)) /\ Cardinality(Lending(f)) \in Nat
      /\ Cardinality(Keys(f)) \in Nat /\ Entry(f, i) \in Nat
  BY <1>0, KeptFinite DEF Entry
<1> DEFINE U == IF d = 1 THEN Using(f, i) \cup {s} ELSE Using(f, i) \ {s}
           L == IF d = 1 THEN Lending(f) \cup {s} ELSE Lending(f) \ {s}
<1>4. Cardinality(U) = Cardinality(Using(f, i)) + d /\ Cardinality(L) = Cardinality(Lending(f)) + d
      /\ Cardinality(U) \in Nat /\ Cardinality(L) \in Nat
  <2>1. CASE d = 1
    <3>1. s \notin Using(f, i) /\ s \notin Lending(f)
      BY <2>1 DEF Using, Lending
    <3>2. IsFiniteSet(U) /\ IsFiniteSet(L)
      BY <1>3, <2>1, FS_AddElement
    <3>3. Cardinality(U) = Cardinality(Using(f, i)) + d /\ Cardinality(L) = Cardinality(Lending(f)) + d
      BY <1>3, <2>1, <3>1, FS_AddElement
    <3> QED
      BY <3>2, <3>3, FS_CardinalityType
  <2>2. CASE d = -1
    <3>1. s \in Using(f, i) /\ s \in Lending(f)
      BY <1>0, <2>2 DEF Using, Lending
    <3>2. IsFiniteSet(U) /\ IsFiniteSet(L)
      BY <1>3, <2>2, FS_RemoveElement
    <3>3. Cardinality(U) = Cardinality(Using(f, i)) + d /\ Cardinality(L) = Cardinality(Lending(f)) + d
      BY <1>3, <2>2, <3>1, FS_RemoveElement
    <3> QED
      BY <3>2, <3>3, FS_CardinalityType
  <2> QED
    BY <2>1, <2>2
<1> HIDE DEF U, L
<1>5. f.refs[i] + 2 * d = Entry(f, i) + 2 * Cardinality(U)
  BY <1>2, <1>3, <1>4
<1>6. f.keyRefs + 2 * d = DefaultKeyRefs + Cardinality(Keys(f)) + 2 * Cardinality(L)
  BY <1>2, <1>3, <1>4 DEF DefaultKeyRefs
<1>7. f.refs[i] + 2 * d \in Nat /\ f.keyRefs + 2 * d \in Nat
  <2>1. ASSUME NEW a \in Nat, NEW b \in Nat, NEW c \in Nat PROVE a + 2 * b \in Nat /\ a + c + 2 * b \in Nat
    OBVIOUS
  <2>2. DefaultKeyRefs \in Nat
    BY DEF DefaultKeyRefs
  <2> QED
    BY <1>3, <1>4, <1>5, <1>6, <2>1, <2>2
<1>8. /\ refs \in Seq(Nat) /\ Len(refs) = Len(f.made) /\ refs[i] = f.refs[i] + 2 * d
      /\ \A j \in 1..Len(f.made) : j # i => refs[j] = f.refs[j]
  <2>1. f.refs \in Seq(Nat)
    BY <1>0, StoreFields
  <2> QED
    BY <1>0, <1>7, <2>1
<1> HIDE DEF refs
<1>9. /\ f.mitm \in CacheType(StoreKeys, StoreMax) /\ f.certOf \in CertOfs
      /\ f.made \in Seq(Contents)
  BY <1>0, StoreFields DEF CertOfs, Contents
<1>10. w = Restock(f, f.mitm, f.certOf, f.made, refs, f.keyRefs + 2 * d, Resess(f, s, r))
  OBVIOUS
<1> HIDE DEF w
<1>11. /\ w \in StoreType /\ w.phase = f.phase /\ w.mitm = f.mitm
       /\ w.certOf = f.certOf /\ w.made = f.made /\ w.refs = refs
       /\ w.keyRefs = f.keyRefs + 2 * d /\ w.sess = Resess(f, s, r)
  BY <1>0, <1>1, <1>7, <1>8, <1>9, <1>10, RestockFields
<1>12. w.sess[s] = r /\ \A x \in TlsSessions : x # s => w.sess[x] = f.sess[x]
  BY <1>1, <1>11
<1>13. /\ Using(w, i) = U /\ Lending(w) = L
       /\ \A j \in 1..Len(f.made) : j # i => Using(w, j) = Using(f, j)
  <2>1. CASE d = 1
    BY <1>0, <1>12, <2>1 DEF Using, Lending, U, L
  <2>2. CASE d = -1
    BY <1>0, <1>12, <2>2 DEF Using, Lending, U, L
  <2> QED
    BY <2>1, <2>2
<1>14. KeptShape(w)
  <2>1. ServingAll(w) \in SUBSET (ServingAll(f) \cup {s})
    BY <1>12 DEF ServingAll
  <2>2. IsFiniteSet(ServingAll(f) \cup {s})
    BY <1>0, FS_AddElement DEF KeptShape
  <2>3. IsFiniteSet(ServingAll(w))
    BY <2>1, <2>2, FS_Subset
  <2> QED
    BY <1>0, <1>8, <1>11, <2>3 DEF KeptShape, Keys
<1>15. KeptEntries(w) /\ KeptCold(w)
  BY <1>11 DEF Kept, KeptEntries, KeptCold, Keys
<1>16. KeptSessions(w)
  <2>1. ASSUME NEW x \in TlsSessions, x # s, w.sess[x].st \in {"lent", "serving"},
               w.sess[x].cert # CustomCert
        PROVE  /\ w.sess[x].cert \in 1..Len(w.made)
               /\ \A a \in w.sess[x].ask : w.made[w.sess[x].cert] = Spoofed(a)
    BY <1>11, <1>12, <2>1 DEF Kept, KeptSessions
  <2>2. ASSUME w.sess[s].st \in {"lent", "serving"}, w.sess[s].cert # CustomCert
        PROVE  /\ w.sess[s].cert \in 1..Len(w.made)
               /\ \A a \in w.sess[s].ask : w.made[w.sess[s].cert] = Spoofed(a)
    <3>1. d = 1
      BY <1>12, <2>2
    <3>2. f.sess[s].st = "lent" /\ f.sess[s].cert # CustomCert
      BY <1>0, <3>1
    <3>3. \A a \in f.sess[s].ask : f.made[i] = Spoofed(a)
      BY <3>2 DEF Kept, KeptSessions
    <3> QED
      BY <1>11, <1>12, <3>1, <3>3
  <2> QED
    BY <2>1, <2>2 DEF KeptSessions
<1>17. KeptRefs(w)
  <2>1. \A j : Entry(w, j) = Entry(f, j)
    BY <1>11 DEF Entry
  <2>2. Keys(w) = Keys(f)
    BY <1>11 DEF Keys
  <2>3. \A j \in 1..Len(f.made) : j # i => f.refs[j] = Entry(f, j) + 2 * Cardinality(Using(f, j))
    BY DEF Kept, KeptRefs
  <2>4. \A j \in 1..Len(w.made) : w.refs[j] = Entry(w, j) + 2 * Cardinality(Using(w, j))
    BY <1>5, <1>8, <1>11, <1>13, <2>1, <2>3
  <2>5. w.keyRefs = DefaultKeyRefs + Cardinality(Keys(w)) + 2 * Cardinality(Lending(w))
    BY <1>6, <1>11, <1>13, <2>2
  <2> QED
    BY <2>4, <2>5 DEF KeptRefs
<1>18. Kept(w)
  BY <1>14, <1>15, <1>16, <1>17 DEF Kept
<1> QED
  BY <1>18 DEF w, refs, Referenced

\* ~CertCacheEntry of the keys in K, and the cache without them.
Displaced(f, K, mitm) == [ReleaseEntries(f, K) EXCEPT !.mitm = mitm]

\* An entry that goes gives back its reference to certificate and key.
LEMMA ReleaseKept ==
    ASSUME NEW f, Kept(f), f.phase = "ready", NEW k \in Keys(f), NEW mitm,
           Covered(mitm, StoreKeys, StoreMax), mitm.mode = "FIFO",
           CachedKeys(mitm) = Keys(f) \ {k}
    PROVE  LET w == Displaced(f, {k}, mitm)
           IN  Kept(w) /\ w.made = f.made /\ w.sess = f.sess /\ w.phase = f.phase /\ w.mitm = mitm
<1> DEFINE refs == [i \in DOMAIN f.refs |-> IF f.certOf[k] = i THEN f.refs[i] - 1 ELSE f.refs[i]]
           certOf == [x \in StoreKeys |-> IF x \in {k} THEN NoCert ELSE f.certOf[x]]
           w == Restock(f, mitm, certOf, f.made, refs, f.keyRefs - 1, f.sess)
<1>0. /\ KeptShape(f) /\ f \in StoreType /\ Len(f.made) \in Nat /\ Len(f.refs) = Len(f.made)
      /\ DOMAIN f.refs = 1..Len(f.made) /\ k \in StoreKeys
  <2>1. KeptShape(f) /\ f \in StoreType /\ Len(f.made) \in Nat /\ Len(f.refs) = Len(f.made)
        /\ DOMAIN f.refs = 1..Len(f.made) /\ f.mitm \in CacheType(StoreKeys, StoreMax)
    BY StoreFields DEF Kept, KeptShape
  <2>2. k \in StoreKeys
    BY <2>1, CacheFields DEF Keys
  <2> QED
    BY <2>1, <2>2
<1>1. Displaced(f, {k}, mitm) = w
  <2>1. Cardinality({k}) = 1
    BY FS_Singleton
  <2>2. ReleaseEntries(f, {k}) = [f EXCEPT !.refs = refs, !.keyRefs = f.keyRefs - 1, !.certOf = certOf]
    <3>1. refs = [i \in DOMAIN f.refs |-> IF \E x \in {k} : f.certOf[x] = i THEN f.refs[i] - 1 ELSE f.refs[i]]
      OBVIOUS
    <3> QED
      BY <1>0, <2>1, <3>1 DEF ReleaseEntries, StoreType
  <2> HIDE DEF refs, certOf
  <2> QED
    BY <1>0, <2>2 DEF Restock, StoreType, Displaced
<1>2. /\ certOf \in CertOfs /\ certOf[k] = NoCert
      /\ \A x \in StoreKeys : x # k => certOf[x] = f.certOf[x]
  <2>1. f.certOf \in [StoreKeys -> 0..MaxSpoofs]
    BY <1>0, StoreFields
  <2>2. NoCert \in 0..MaxSpoofs
    BY MaxSpoofsAssumption DEF NoCert
  <2> QED
    BY <1>0, <2>1, <2>2 DEF CertOfs
<1>3. /\ f.certOf[k] \in 1..Len(f.made) /\ f.made[f.certOf[k]] = k
      /\ \A x \in StoreKeys : f.certOf[x] = f.certOf[k] => x = k
  BY <1>0 DEF Kept, KeptEntries, NoCert
<1> DEFINE e == f.certOf[k]
<1>4. f.refs[e] >= 1 /\ f.refs \in Seq(Nat)
  <2>1. Entry(f, e) = 1
    BY <1>0 DEF Entry
  <2>2. Cardinality(Using(f, e)) \in Nat
    BY <1>0, KeptFinite
  <2>3. f.refs[e] = Entry(f, e) + 2 * Cardinality(Using(f, e))
    BY <1>3 DEF Kept, KeptRefs
  <2>4. f.refs \in Seq(Nat)
    BY <1>0, StoreFields
  <2>5. f.refs[e] >= 1
    BY <2>1, <2>2, <2>3
  <2> QED
    BY <2>4, <2>5
<1>5. /\ refs \in Seq(Nat) /\ Len(refs) = Len(f.made) /\ refs[e] = f.refs[e] - 1
      /\ \A i \in 1..Len(f.made) : i # e => refs[i] = f.refs[i]
  BY <1>0, <1>3, <1>4
<1>6. /\ Cardinality(CachedKeys(mitm)) = Cardinality(Keys(f)) - 1 /\ IsFiniteSet(CachedKeys(mitm))
      /\ Cardinality(CachedKeys(mitm)) \in Nat
  <2>1. IsFiniteSet(Keys(f))
    BY <1>0 DEF KeptShape
  <2> QED
    BY <2>1, FS_RemoveElement, FS_CardinalityType
<1>7. /\ f.keyRefs = DefaultKeyRefs + Cardinality(Keys(f)) + 2 * Cardinality(Lending(f))
      /\ Cardinality(Keys(f)) \in Nat /\ Cardinality(Lending(f)) \in Nat
  BY <1>0, KeptFinite DEF Kept, KeptRefs
<1>8. /\ f.keyRefs - 1 = DefaultKeyRefs + Cardinality(CachedKeys(mitm)) + 2 * Cardinality(Lending(f))
      /\ f.keyRefs - 1 \in Nat
  BY <1>6, <1>7 DEF DefaultKeyRefs
<1> HIDE DEF refs, certOf
<1>9. /\ mitm \in CacheType(StoreKeys, StoreMax) /\ f.made \in Seq(Contents) /\ f.sess \in Sessions
  BY <1>0, StoreFields DEF Covered, Contents, Sessions
<1>10. w = Restock(f, mitm, certOf, f.made, refs, f.keyRefs - 1, f.sess)
  OBVIOUS
<1> HIDE DEF w
<1>11. /\ w \in StoreType /\ w.phase = f.phase /\ w.mitm = mitm
       /\ w.certOf = certOf /\ w.made = f.made /\ w.refs = refs
       /\ w.keyRefs = f.keyRefs - 1 /\ w.sess = f.sess
  BY <1>0, <1>2, <1>5, <1>8, <1>9, <1>10, RestockFields
<1>12. Keys(w) = Keys(f) \ {k} /\ Lending(w) = Lending(f) /\ ServingAll(w) = ServingAll(f)
       /\ \A i : Using(w, i) = Using(f, i)
  BY <1>11 DEF Keys, Lending, ServingAll, Using
<1>13. KeptShape(w)
  BY <1>0, <1>5, <1>6, <1>11, <1>12 DEF KeptShape, Keys
<1>14. KeptEntries(w)
  <2>1. ASSUME NEW x \in StoreKeys
        PROVE  /\ w.certOf[x] \in 0..Len(w.made) /\ ((w.certOf[x] = NoCert) <=> (x \notin Keys(w)))
               /\ w.certOf[x] # NoCert => w.made[w.certOf[x]] = x
    <3>1. CASE x = k
      BY <1>0, <1>2, <1>11, <1>12, <3>1 DEF NoCert
    <3>2. CASE x # k
      BY <1>2, <1>11, <1>12, <3>2 DEF Kept, KeptEntries
    <3> QED
      BY <3>1, <3>2
  <2> QED
    BY <2>1 DEF KeptEntries
<1>15. KeptSessions(w) /\ KeptCold(w)
  BY <1>11 DEF Kept, KeptSessions, KeptCold
<1>16. KeptRefs(w)
  <2>1. Entry(f, e) = 1 /\ Entry(w, e) = 0
    <3>1. \A x \in StoreKeys : certOf[x] # e
      BY <1>2, <1>3 DEF NoCert
    <3> QED
      BY <1>0, <1>11, <3>1 DEF Entry
  <2>2. ASSUME NEW i \in 1..Len(f.made), i # e PROVE Entry(w, i) = Entry(f, i)
    <3>1. (\E x \in StoreKeys : certOf[x] = i) <=> (\E x \in StoreKeys : f.certOf[x] = i)
      BY <1>2, <2>2 DEF NoCert
    <3> QED
      BY <1>11, <3>1 DEF Entry
  <2>3. \A i \in 1..Len(f.made) : f.refs[i] = Entry(f, i) + 2 * Cardinality(Using(f, i))
    BY DEF Kept, KeptRefs
  <2>4. Cardinality(Using(f, e)) \in Nat
    BY <1>0, KeptFinite
  <2>5. ASSUME NEW i \in 1..Len(f.made)
        PROVE  w.refs[i] = Entry(w, i) + 2 * Cardinality(Using(w, i))
    <3>1. CASE i = e
      <4>1. refs[e] = f.refs[e] - 1 /\ f.refs[e] = 1 + 2 * Cardinality(Using(f, e))
        BY <1>3, <1>5, <2>1, <2>3
      <4>2. w.refs[e] = 0 + 2 * Cardinality(Using(f, e))
        BY <1>11, <2>4, <4>1
      <4> QED
        BY <1>12, <2>1, <3>1, <4>2
    <3>2. CASE i # e
      BY <1>5, <1>11, <1>12, <2>2, <2>3, <3>2
    <3> QED
      BY <3>1, <3>2
  <2>6. w.keyRefs = DefaultKeyRefs + Cardinality(Keys(w)) + 2 * Cardinality(Lending(w))
    BY <1>8, <1>11, <1>12 DEF Keys
  <2> QED
    BY <1>11, <2>5, <2>6 DEF KeptRefs
<1>17. Kept(w)
  BY <1>13, <1>14, <1>15, <1>16 DEF Kept
<1> QED
  BY <1>1, <1>11, <1>17

\* A new certificate for key k takes its place in the cache.
Added(f, mitm, k) ==
    Restock(f, mitm, [f.certOf EXCEPT ![k] = Len(f.made) + 1], Append(f.made, k),
            Append(f.refs, 1), f.keyRefs + 1, f.sess)

LEMMA AddedKept ==
    ASSUME NEW f, Kept(f), f.phase = "ready", NEW k \in StoreKeys, k \notin Keys(f), NEW mitm,
           Covered(mitm, StoreKeys, StoreMax), mitm.mode = "FIFO",
           CachedKeys(mitm) = Keys(f) \cup {k}, Len(f.made) < MaxSpoofs
    PROVE  /\ Kept(Added(f, mitm, k)) /\ Added(f, mitm, k).phase = f.phase
           /\ Added(f, mitm, k).made = Append(f.made, k) /\ Added(f, mitm, k).sess = f.sess
<1> DEFINE n == Len(f.made) + 1
           certOf == [f.certOf EXCEPT ![k] = n]
           made == Append(f.made, k)
           refs == Append(f.refs, 1)
           w == Added(f, mitm, k)
<1>0. /\ KeptShape(f) /\ f \in StoreType /\ Len(f.made) \in Nat /\ Len(f.refs) = Len(f.made)
      /\ f.certOf \in [StoreKeys -> 0..MaxSpoofs] /\ f.refs \in Seq(Nat) /\ f.keyRefs \in Nat
      /\ f.sess \in Sessions
  BY StoreFields DEF Kept, KeptShape, Sessions
<1>1. f.made \in Seq(Contents) /\ k \in Contents
  <2>1. f.made \in Seq(Contents)
    BY <1>0, StoreFields DEF Contents
  <2> QED
    BY <2>1, ContentIsKey
<1>2. /\ n \in 0..MaxSpoofs /\ n \in Nat /\ n # NoCert
  BY <1>0, MaxSpoofsAssumption DEF NoCert
<1>3. /\ certOf \in CertOfs /\ certOf[k] = n
      /\ \A x \in StoreKeys : x # k => certOf[x] = f.certOf[x]
  BY <1>0, <1>2 DEF CertOfs
<1>4. /\ made \in Seq(Contents) /\ Len(made) = n /\ made[n] = k
      /\ \A i \in 1..Len(f.made) : made[i] = f.made[i]
  BY <1>1
<1>5. /\ refs \in Seq(Nat) /\ Len(refs) = n /\ refs[n] = 1
      /\ \A i \in 1..Len(f.made) : refs[i] = f.refs[i]
  BY <1>0
<1>6. f.keyRefs + 1 \in Nat /\ mitm \in CacheType(StoreKeys, StoreMax)
  BY <1>0 DEF Covered
<1>7. w = Restock(f, mitm, certOf, made, refs, f.keyRefs + 1, f.sess)
  BY DEF Added
<1> HIDE DEF w, certOf, made, refs, n
<1>8. /\ w \in StoreType /\ w.phase = f.phase /\ w.mitm = mitm
      /\ w.certOf = certOf /\ w.made = made /\ w.refs = refs
      /\ w.keyRefs = f.keyRefs + 1 /\ w.sess = f.sess
  BY <1>0, <1>3, <1>4, <1>5, <1>6, <1>7, RestockFields
<1>9. Keys(w) = Keys(f) \cup {k} /\ Lending(w) = Lending(f) /\ ServingAll(w) = ServingAll(f)
      /\ \A i : Using(w, i) = Using(f, i)
  BY <1>8 DEF Keys, Lending, ServingAll, Using
<1>10. IsFiniteSet(Keys(w)) /\ Cardinality(Keys(w)) = Cardinality(Keys(f)) + 1
  <2>1. IsFiniteSet(Keys(f))
    BY <1>0 DEF KeptShape
  <2> QED
    BY <1>9, <2>1, FS_AddElement
<1>11. KeptShape(w)
  BY <1>0, <1>4, <1>5, <1>8, <1>9, <1>10 DEF KeptShape
<1>12. \A i \in 1..Len(f.made) : i \in 1..n /\ i # n
  BY <1>0 DEF n
<1>13. \A i \in 1..n : i \in 1..Len(f.made) \/ i = n
  BY <1>0 DEF n
<1>14. KeptEntries(w)
  <2>1. ASSUME NEW x \in StoreKeys
        PROVE  /\ w.certOf[x] \in 0..Len(w.made) /\ ((w.certOf[x] = NoCert) <=> (x \notin Keys(w)))
               /\ w.certOf[x] # NoCert => w.made[w.certOf[x]] = x
    <3>1. CASE x = k
      <4>1. n \in 0..n
        BY <1>2
      <4> QED
        BY <1>2, <1>3, <1>4, <1>8, <1>9, <3>1, <4>1
    <3>2. CASE x # k
      <4>1. /\ f.certOf[x] \in 0..Len(f.made) /\ ((f.certOf[x] = NoCert) <=> (x \notin Keys(f)))
            /\ f.certOf[x] # NoCert => f.made[f.certOf[x]] = x
        BY DEF Kept, KeptEntries
      <4>2. f.certOf[x] \in 0..n
        BY <1>0, <4>1 DEF n
      <4>3. f.certOf[x] # NoCert => f.certOf[x] \in 1..Len(f.made)
        BY <1>0, <4>1 DEF NoCert
      <4> QED
        BY <1>3, <1>4, <1>8, <1>9, <3>2, <4>1, <4>2, <4>3
    <3> QED
      BY <3>1, <3>2
  <2> QED
    BY <2>1 DEF KeptEntries
<1>15. KeptSessions(w)
  <2>1. ASSUME NEW x \in TlsSessions, w.sess[x].st \in {"lent", "serving"},
               w.sess[x].cert # CustomCert
        PROVE  /\ w.sess[x].cert \in 1..Len(w.made)
               /\ \A a \in w.sess[x].ask : w.made[w.sess[x].cert] = Spoofed(a)
    <3>1. /\ f.sess[x].cert \in 1..Len(f.made)
          /\ \A a \in f.sess[x].ask : f.made[f.sess[x].cert] = Spoofed(a)
      BY <1>8, <2>1 DEF Kept, KeptSessions
    <3> QED
      BY <1>4, <1>8, <1>12, <3>1
  <2> QED
    BY <2>1 DEF KeptSessions
<1>16. KeptRefs(w)
  <2>1. ASSUME NEW i \in 1..Len(f.made) PROVE Entry(w, i) = Entry(f, i)
    <3>1. f.certOf[k] # i
      BY <1>0 DEF Kept, KeptEntries, NoCert
    <3>2. (\E x \in StoreKeys : certOf[x] = i) <=> (\E x \in StoreKeys : f.certOf[x] = i)
      BY <1>3, <1>12, <3>1
    <3> QED
      BY <1>8, <3>2 DEF Entry
  <2>2. Entry(w, n) = 1
    BY <1>3, <1>8 DEF Entry
  <2>3. Cardinality(Using(w, n)) = 0
    <3>1. n \notin 1..Len(f.made) /\ n # CustomCert
      BY <1>2, <1>12 DEF CustomCert
    <3>2. Using(w, n) = {}
      BY <1>9, <3>1 DEF Using, Kept, KeptSessions
    <3> QED
      BY <3>2, FS_EmptySet
  <2>4. \A i \in 1..Len(f.made) : f.refs[i] = Entry(f, i) + 2 * Cardinality(Using(f, i))
    BY DEF Kept, KeptRefs
  <2>5. ASSUME NEW i \in 1..n PROVE w.refs[i] = Entry(w, i) + 2 * Cardinality(Using(w, i))
    <3>1. CASE i \in 1..Len(f.made)
      BY <1>5, <1>8, <1>9, <2>1, <2>4, <3>1
    <3>2. CASE i = n
      BY <1>5, <1>8, <2>2, <2>3, <3>2
    <3> QED
      BY <1>13, <3>1, <3>2
  <2>6. w.keyRefs = DefaultKeyRefs + Cardinality(Keys(w)) + 2 * Cardinality(Lending(w))
    <3>1. /\ f.keyRefs = DefaultKeyRefs + Cardinality(Keys(f)) + 2 * Cardinality(Lending(f))
          /\ Cardinality(Keys(f)) \in Nat /\ Cardinality(Lending(f)) \in Nat
      BY <1>0, KeptFinite DEF Kept, KeptRefs
    <3> QED
      BY <1>8, <1>9, <1>10, <3>1 DEF DefaultKeyRefs
  <2> QED
    BY <1>4, <1>8, <2>5, <2>6 DEF KeptRefs
<1>17. KeptCold(w)
  BY <1>8 DEF KeptCold
<1>18. Kept(w)
  BY <1>11, <1>14, <1>15, <1>16, <1>17 DEF Kept
<1> QED
  BY <1>8, <1>18 DEF w, made

\* ~CertCacheEntry of the keys in K, in parts.
FreedRefs(f, K) ==
    [i \in DOMAIN f.refs |-> IF \E k \in K : f.certOf[k] = i THEN f.refs[i] - 1 ELSE f.refs[i]]
FreedCertOf(f, K) == [k \in StoreKeys |-> IF k \in K THEN NoCert ELSE f.certOf[k]]

LEMMA ReleaseOp ==
    ASSUME NEW f \in StoreType, NEW K, NEW mitm
    PROVE  Displaced(f, K, mitm)
           = Restock(f, mitm, FreedCertOf(f, K), f.made, FreedRefs(f, K),
                     f.keyRefs - Cardinality(K), f.sess)
<1>1. ReleaseEntries(f, K) = [f EXCEPT !.refs = FreedRefs(f, K), !.keyRefs = f.keyRefs - Cardinality(K),
                                       !.certOf = FreedCertOf(f, K)]
  BY DEF ReleaseEntries, FreedRefs, FreedCertOf, StoreType
<1> QED
  BY <1>1 DEF Restock, StoreType, Displaced

\* No entry is displaced.
LEMMA ReleaseNone ==
    ASSUME NEW f \in StoreType
    PROVE  Displaced(f, {}, f.mitm) = f
<1>1. f.refs \in Seq(Nat) /\ f.certOf \in [StoreKeys -> 0..MaxSpoofs] /\ f.keyRefs \in Nat
  BY StoreFields
<1>2. FreedRefs(f, {}) = f.refs
  BY <1>1 DEF FreedRefs
<1>3. FreedCertOf(f, {}) = f.certOf
  BY <1>1 DEF FreedCertOf
<1>4. f.keyRefs - Cardinality({}) = f.keyRefs
  BY <1>1, FS_EmptySet
<1>5. Restock(f, f.mitm, f.certOf, f.made, f.refs, f.keyRefs, f.sess) = f
  BY DEF Restock, StoreType
<1> QED
  BY <1>2, <1>3, <1>4, <1>5, ReleaseOp

LEMMA RestockTwice ==
    ASSUME NEW f \in StoreType, NEW a1, NEW a2, NEW a3, NEW a4, NEW a5, NEW a6,
           NEW b1, NEW b2, NEW b3, NEW b4, NEW b5, NEW b6
    PROVE  Restock(Restock(f, a1, a2, a3, a4, a5, a6), b1, b2, b3, b4, b5, b6)
           = Restock(f, b1, b2, b3, b4, b5, b6)
BY DEF Restock, StoreType

\* A certificate that is made.
Made(f, a) == [f EXCEPT !.made = Append(@, Spoofed(a)), !.refs = Append(@, 1), !.keyRefs = @ + 1]

LEMMA MadeFields ==
    ASSUME NEW f \in StoreType, NEW a \in Asks
    PROVE  /\ Made(f, a) \in StoreType /\ Made(f, a).mitm = f.mitm /\ Made(f, a).certOf = f.certOf
           /\ Made(f, a).made = Append(f.made, Spoofed(a)) /\ Made(f, a).refs = Append(f.refs, 1)
           /\ Made(f, a).keyRefs = f.keyRefs + 1 /\ Made(f, a).sess = f.sess
           /\ Made(f, a) = Restock(f, f.mitm, f.certOf, Append(f.made, Spoofed(a)), Append(f.refs, 1),
                                   f.keyRefs + 1, f.sess)
<1> DEFINE made == Append(f.made, Spoofed(a))
           refs == Append(f.refs, 1)
           keyRefs == f.keyRefs + 1
           w == Restock(f, f.mitm, f.certOf, made, refs, keyRefs, f.sess)
<1>1. Made(f, a) = w
  BY DEF Made, Restock, StoreType
<1>2. /\ f.mitm \in CacheType(StoreKeys, StoreMax) /\ f.certOf \in CertOfs /\ f.sess \in Sessions
      /\ f.made \in Seq(Contents) /\ f.refs \in Seq(Nat) /\ f.keyRefs \in Nat
  BY StoreFields DEF CertOfs, Sessions, Contents
<1>3. Spoofed(a) \in Contents
  BY DEF Contents
<1>4. made \in Seq(Contents) /\ refs \in Seq(Nat) /\ keyRefs \in Nat
  BY <1>2, <1>3
<1> HIDE DEF made, refs, keyRefs
<1>5. /\ w \in StoreType /\ w.mitm = f.mitm /\ w.certOf = f.certOf
      /\ w.made = made /\ w.refs = refs /\ w.keyRefs = keyRefs /\ w.sess = f.sess
  BY <1>2, <1>4, RestockFields
<1> QED
  BY <1>1, <1>5 DEF made, refs, keyRefs

\* spoof and add_mitm: that a new certificate is made before another is
\* displaced makes no difference.
LEMMA SpoofIsAdded ==
    ASSUME NEW f \in StoreType, Len(f.refs) = Len(f.made), NEW a \in Asks, NEW K, NEW mitm,
           K = CachedKeys(f.mitm) \ CachedKeys(CacheSet(f.mitm, MakeStoreKey(a))),
           \A x \in K : f.certOf[x] # Len(f.made) + 1, Cardinality(K) \in Nat,
           f.keyRefs - Cardinality(K) \in Nat, FreedRefs(f, K) \in Seq(Nat),
           mitm \in CacheType(StoreKeys, StoreMax)
    PROVE  SpoofAndAdd(f, a) = Added(Displaced(f, K, mitm),
                                     CacheSet(f.mitm, MakeStoreKey(a)), MakeStoreKey(a))
<1> DEFINE k == MakeStoreKey(a)
           c == CacheSet(f.mitm, k)
           m == Made(f, a)
           n == Len(f.made) + 1
           g == Displaced(f, K, mitm)
<1>1. /\ m \in StoreType /\ m.mitm = f.mitm /\ m.certOf = f.certOf
      /\ m.made = Append(f.made, Spoofed(a)) /\ m.refs = Append(f.refs, 1)
      /\ m.keyRefs = f.keyRefs + 1 /\ m.sess = f.sess
      /\ m = Restock(f, f.mitm, f.certOf, Append(f.made, Spoofed(a)), Append(f.refs, 1),
                     f.keyRefs + 1, f.sess)
  BY MadeFields
<1>2. SpoofAndAdd(f, a) = AddToCache(m, k, n)
  BY DEF SpoofAndAdd, Made
<1>3. AddToCache(m, k, n) = [ReleaseEntries(m, K) EXCEPT !.mitm = c, !.certOf[k] = n]
  BY <1>1 DEF AddToCache
<1> HIDE DEF m
<1>4. /\ f.certOf \in [StoreKeys -> 0..MaxSpoofs] /\ f.refs \in Seq(Nat) /\ f.keyRefs \in Nat
      /\ f.made \in Seq(Contents) /\ f.sess \in Sessions /\ Len(f.made) \in Nat
  BY StoreFields DEF Contents, Sessions
<1>5. FreedCertOf(m, K) = FreedCertOf(f, K) /\ FreedCertOf(f, K) \in CertOfs
  <2>1. NoCert \in 0..MaxSpoofs
    BY MaxSpoofsAssumption DEF NoCert
  <2> QED
    BY <1>1, <1>4, <2>1 DEF FreedCertOf, CertOfs
<1>6. FreedRefs(m, K) = Append(FreedRefs(f, K), 1)
  <2> DEFINE p == FreedRefs(m, K)
             q == Append(FreedRefs(f, K), 1)
  <2>1. DOMAIN f.refs = 1..Len(f.made)
    BY <1>4
  <2>2. DOMAIN m.refs = 1..n /\ m.refs[n] = 1 /\ \A i \in 1..Len(f.made) : m.refs[i] = f.refs[i]
    BY <1>1, <1>4
  <2>3. Len(FreedRefs(f, K)) = Len(f.made)
    BY <1>4, <2>1 DEF FreedRefs
  <2>4. DOMAIN q = 1..n /\ q[n] = 1 /\ \A i \in 1..Len(f.made) : q[i] = FreedRefs(f, K)[i]
    <3> DEFINE r == FreedRefs(f, K)
    <3>1. r \in Seq(Nat) /\ Len(r) = Len(f.made)
      BY <2>3
    <3> HIDE DEF r
    <3>2. DOMAIN Append(r, 1) = 1..(Len(r) + 1) /\ Append(r, 1)[Len(r) + 1] = 1
          /\ \A i \in 1..Len(r) : Append(r, 1)[i] = r[i]
      BY <3>1
    <3> QED
      BY <3>1, <3>2 DEF r
  <2>5. DOMAIN p = 1..n /\ p[n] = 1
    BY <1>1, <1>4, <2>2 DEF FreedRefs
  <2>10. p = [i \in 1..n |-> p[i]]
    BY <2>2 DEF FreedRefs
  <2>11. q = [i \in 1..n |-> q[i]]
    <3>1. q \in Seq(Nat)
      OBVIOUS
    <3> HIDE DEF q
    <3> QED
      BY <2>4, <3>1
  <2>6. ASSUME NEW i \in 1..Len(f.made) PROVE p[i] = q[i]
    <3>1. i \in 1..n
      BY <1>4
    <3>2. p[i] = IF \E x \in K : f.certOf[x] = i THEN f.refs[i] - 1 ELSE f.refs[i]
      BY <1>1, <2>2, <3>1 DEF FreedRefs
    <3>3. FreedRefs(f, K)[i] = IF \E x \in K : f.certOf[x] = i THEN f.refs[i] - 1 ELSE f.refs[i]
      BY <2>1 DEF FreedRefs
    <3> QED
      BY <2>4, <3>2, <3>3
  <2> HIDE DEF p, q
  <2>7. \A i \in 1..n : i \in 1..Len(f.made) \/ i = n
    BY <1>4
  <2>8. \A i \in 1..n : p[i] = q[i]
    BY <2>4, <2>5, <2>6, <2>7
  <2>9. p = q
    BY <2>8, <2>10, <2>11
  <2> QED
    BY <2>9 DEF p, q
<1>7. m.keyRefs - Cardinality(K) = (f.keyRefs - Cardinality(K)) + 1
  BY <1>1, <1>4
<1>8. Displaced(m, K, c)
      = Restock(m, c, FreedCertOf(f, K), m.made, FreedRefs(m, K), m.keyRefs - Cardinality(K), m.sess)
  <2>1. Displaced(m, K, c)
        = Restock(m, c, FreedCertOf(m, K), m.made, FreedRefs(m, K), m.keyRefs - Cardinality(K), m.sess)
    BY <1>1, ReleaseOp
  <2> QED
    BY <1>5, <2>1
<1>9. g = Restock(f, mitm, FreedCertOf(f, K), f.made, FreedRefs(f, K), f.keyRefs - Cardinality(K), f.sess)
  BY ReleaseOp
<1> HIDE DEF g, c, n, k
<1>10. /\ g \in StoreType /\ g.certOf = FreedCertOf(f, K) /\ g.made = f.made /\ g.refs = FreedRefs(f, K)
       /\ g.keyRefs = f.keyRefs - Cardinality(K) /\ g.sess = f.sess
  BY <1>4, <1>5, <1>9, RestockFields
<1>11. Spoofed(a) = k
  BY ContentIsKey DEF k
<1> DEFINE certOf == FreedCertOf(f, K)
           refs == FreedRefs(f, K)
           made == Append(f.made, k)
           base == Restock(f, c, [certOf EXCEPT ![k] = n], made, Append(refs, 1),
                           (f.keyRefs - Cardinality(K)) + 1, f.sess)
<1>12. Added(g, c, k) = base
  <2>1. Added(g, c, k) = Restock(g, c, [certOf EXCEPT ![k] = n], made, Append(refs, 1),
                                 (f.keyRefs - Cardinality(K)) + 1, f.sess)
    BY <1>10 DEF Added, n
  <2> HIDE DEF certOf, refs, made
  <2> QED
    BY <1>9, <2>1, RestockTwice
<1>13. [ReleaseEntries(m, K) EXCEPT !.mitm = c, !.certOf[k] = n] = base
  <2> DEFINE r == Displaced(m, K, c)
  <2>1. [ReleaseEntries(m, K) EXCEPT !.mitm = c, !.certOf[k] = n] = [r EXCEPT !.certOf = [r.certOf EXCEPT ![k] = n]]
    BY <1>1 DEF ReleaseEntries, StoreType, Displaced
  <2>2. r = Restock(f, c, certOf, made, Append(refs, 1), (f.keyRefs - Cardinality(K)) + 1, f.sess)
    <3>1. r = Restock(m, c, certOf, made, Append(refs, 1), (f.keyRefs - Cardinality(K)) + 1, f.sess)
      BY <1>1, <1>6, <1>7, <1>8, <1>11
    <3> HIDE DEF certOf, refs, made
    <3> QED
      BY <1>1, <3>1 DEF Restock, StoreType
  <2> HIDE DEF certOf, refs, made, r
  <2>3. [r EXCEPT !.certOf = [r.certOf EXCEPT ![k] = n]] = base
    BY <2>2 DEF Restock, StoreType
  <2> QED
    BY <2>1, <2>3 DEF r
<1> QED
  BY <1>2, <1>3, <1>12, <1>13 DEF k, c, n, g

LEMMA RestockParts ==
    ASSUME NEW f \in StoreType, NEW a1, NEW a2, NEW a3, NEW a4, NEW a5, NEW a6
    PROVE  Restock(f, a1, a2, a3, a4, a5, a6).refs = a4 /\ Restock(f, a1, a2, a3, a4, a5, a6).keyRefs = a5
BY DEF Restock, StoreType

\* spoof and add_mitm: the cache has room or gives up one entry.
LEMMA SpoofKept ==
    ASSUME NEW f, Kept(f), f.phase = "ready", NEW a \in Asks, MakeStoreKey(a) \notin Keys(f),
           Len(f.made) < MaxSpoofs
    PROVE  /\ Kept(SpoofAndAdd(f, a)) /\ SpoofAndAdd(f, a).phase = f.phase
           /\ SpoofAndAdd(f, a).made = Append(f.made, Spoofed(a))
           /\ SpoofAndAdd(f, a).sess = f.sess
<1> DEFINE k == MakeStoreKey(a)
           c == CacheSet(f.mitm, k)
           K == CachedKeys(f.mitm) \ CachedKeys(c)
<1>1. /\ f \in StoreType /\ Len(f.refs) = Len(f.made) /\ Len(f.made) \in Nat /\ k \in StoreKeys
      /\ Covered(f.mitm, StoreKeys, StoreMax) /\ f.mitm.mode = "FIFO"
      /\ f.mitm \in CacheType(StoreKeys, StoreMax)
  BY StoreFields DEF Kept, KeptShape, StoreKeys
<1>2. f.keyRefs \in Nat /\ f.refs \in Seq(Nat) /\ Spoofed(a) = k
  <2>1. f.keyRefs \in Nat /\ f.refs \in Seq(Nat)
    BY <1>1, StoreFields
  <2> QED
    BY <2>1, ContentIsKey
<1>3. Covered(c, StoreKeys, StoreMax) /\ c.mode = "FIFO"
  BY <1>1, CacheSetCovered
<1>4. PICK out \in Evictions(f.mitm) :
          CachedKeys(c) = (CachedKeys(f.mitm) \ out) \cup {k}
  BY <1>1, CacheSetCovered
<1>5. k \notin CachedKeys(f.mitm)
  BY DEF Keys
<1>6. K = out
  <2>1. out \subseteq CachedKeys(f.mitm)
    BY DEF Evictions
  <2> QED
    BY <1>4, <1>5, <2>1
<1>7. \A x \in K : f.certOf[x] # Len(f.made) + 1
  <2>1. \A x \in CachedKeys(f.mitm) : x \in StoreKeys
    BY <1>1, CacheFields
  <2> QED
    BY <1>1, <2>1 DEF Kept, KeptEntries
<1> HIDE DEF k, c, K
<1>8. CASE out = {}
  <2>1. Displaced(f, K, f.mitm) = f
    BY <1>1, <1>6, <1>8, ReleaseNone
  <2>2. f = Restock(f, f.mitm, FreedCertOf(f, K), f.made, FreedRefs(f, K), f.keyRefs - Cardinality(K), f.sess)
    BY <1>1, <2>1, ReleaseOp
  <2>3. f.refs = FreedRefs(f, K) /\ f.keyRefs = f.keyRefs - Cardinality(K)
    BY <1>1, <2>2, RestockParts
  <2>4. FreedRefs(f, K) \in Seq(Nat) /\ f.keyRefs - Cardinality(K) \in Nat
    BY <1>2, <2>3
  <2>5. Cardinality(K) \in Nat
    BY <1>6, <1>8, FS_EmptySet
  <2>6. SpoofAndAdd(f, a) = Added(Displaced(f, K, f.mitm), c, k)
    BY <1>1, <1>7, <2>4, <2>5, SpoofIsAdded DEF k, c, K
  <2>7. CachedKeys(c) = Keys(f) \cup {k} /\ k \notin Keys(f)
    BY <1>4, <1>5, <1>8 DEF Keys
  <2> QED
    BY <1>1, <1>2, <1>3, <2>1, <2>6, <2>7, AddedKept
<1>9. CASE out # {}
  <2>1. PICK x \in CachedKeys(f.mitm) : out = {x}
    BY <1>4, <1>9 DEF Evictions
  <2> DEFINE m == CacheErase(f.mitm, x)
             g == Displaced(f, K, m)
  <2>2. x \in StoreKeys
    BY <1>1, CacheFields
  <2>3. Covered(m, StoreKeys, StoreMax) /\ m.mode = "FIFO" /\ CachedKeys(m) = Keys(f) \ {x}
    BY <1>1, <2>2, CacheEraseCovered DEF SameKind, Keys
  <2> HIDE DEF m
  <2>4. /\ Kept(g) /\ g.made = f.made /\ g.sess = f.sess /\ g.phase = f.phase /\ g.mitm = m
    <3>1. K = {x} /\ x \in Keys(f)
      BY <1>6, <2>1 DEF Keys
    <3> QED
      BY <2>3, <3>1, ReleaseKept
  <2>5. g = Restock(f, m, FreedCertOf(f, K), f.made, FreedRefs(f, K), f.keyRefs - Cardinality(K), f.sess)
    BY <1>1, ReleaseOp
  <2>6. g.refs = FreedRefs(f, K) /\ g.keyRefs = f.keyRefs - Cardinality(K)
    BY <1>1, <2>5, RestockParts
  <2>7. g \in StoreType
    BY <2>4 DEF Kept, KeptShape
  <2>8. FreedRefs(f, K) \in Seq(Nat) /\ f.keyRefs - Cardinality(K) \in Nat
    BY <2>6, <2>7, StoreFields
  <2>9. Cardinality(K) \in Nat
    <3>1. K = {x} /\ Cardinality({x}) = 1
      BY <1>6, <2>1, FS_Singleton
    <3> QED
      BY <3>1
  <2>10. m \in CacheType(StoreKeys, StoreMax)
    BY <2>3 DEF Covered
  <2>11. SpoofAndAdd(f, a) = Added(g, c, k)
    BY <1>1, <1>7, <2>8, <2>9, <2>10, SpoofIsAdded DEF k, c, K
  <2>12. CachedKeys(c) = Keys(g) \cup {k} /\ k \notin Keys(g)
    BY <1>4, <1>5, <2>1, <2>3, <2>4 DEF Keys
  <2> HIDE DEF g
  <2> QED
    BY <1>1, <1>2, <1>3, <2>4, <2>11, <2>12, AddedKept
<1> QED
  BY <1>8, <1>9

\* use_cert_sni, use_cert_ip and use_cert_mitm.
LEMMA SpoofCertKept ==
    ASSUME NEW f, Kept(f), f.phase = "ready", NEW s \in TlsSessions, NEW a \in Asks,
           f.sess[s].st = "new"
    PROVE  \A w \in UseCertCustom(f, s, a) \cup UseCertMitm(f, s, a) : Kept(w)
<1>1. f \in StoreType /\ Len(f.made) \in Nat /\ f.sess \in [TlsSessions -> StoreSession]
  BY StoreFields DEF Kept, KeptShape
<1> DEFINE r(cert) == [st |-> "lent", ask |-> {a}, cert |-> cert]
           k == MakeStoreKey(a)
<1>2. \A cert \in 0..MaxSpoofs \cup {CustomCert} : r(cert) \in StoreSession
  BY DEF StoreSession
<1>3. Kept(Lend(f, s, a, CustomCert))
  BY <1>2, SessionOnly DEF Lend
<1>4. k \in StoreKeys /\ Spoofed(a) = k
  BY ContentIsKey DEF StoreKeys
<1>5. Kept([f EXCEPT !.sess[s].st = "failed"])
  <2> DEFINE q == [f.sess[s] EXCEPT !.st = "failed"]
  <2>1. q \in StoreSession /\ q.st = "failed"
    BY <1>1 DEF StoreSession
  <2>2. [f EXCEPT !.sess[s].st = "failed"] = [f EXCEPT !.sess[s] = q]
    BY <1>1 DEF StoreType
  <2> HIDE DEF q
  <2>3. Kept([f EXCEPT !.sess[s] = q])
    BY <2>1, SessionOnly
  <2> QED
    BY <2>2, <2>3
<1>6. ASSUME FindMitm(f, k) # NoCert PROVE Kept(Lend(f, s, a, FindMitm(f, k)))
  <2>1. FindMitm(f, k) = f.certOf[k]
    BY <1>6 DEF FindMitm
  <2>2. f.certOf[k] \in 1..Len(f.made) /\ f.made[f.certOf[k]] = k
    BY <1>1, <1>4, <1>6, <2>1 DEF Kept, KeptEntries, NoCert
  <2>3. f.certOf[k] \in 0..MaxSpoofs
    BY <1>1, <1>4, StoreFields
  <2>4. \A b \in {a} : f.made[f.certOf[k]] = Spoofed(b)
    BY <1>4, <2>2
  <2> QED
    BY <1>2, <2>1, <2>2, <2>3, <2>4, SessionOnly DEF Lend
<1>7. ASSUME FindMitm(f, k) = NoCert, Len(f.made) < MaxSpoofs
      PROVE  Kept(Lend(SpoofAndAdd(f, a), s, a, Len(f.made) + 1))
  <2>1. k \notin Keys(f)
    BY <1>4, <1>7 DEF FindMitm, Keys, Kept, KeptEntries
  <2> DEFINE g == SpoofAndAdd(f, a)
             n == Len(f.made) + 1
  <2>2. Kept(g) /\ g.phase = "ready" /\ g.made = Append(f.made, Spoofed(a)) /\ g.sess = f.sess
    BY <1>7, <2>1, SpoofKept
  <2> HIDE DEF g
  <2>3. n \in 0..MaxSpoofs
    BY <1>1, <1>7, MaxSpoofsAssumption
  <2>4. n \in 1..Len(g.made) /\ g.made[n] = Spoofed(a)
    <3>1. f.made \in Seq(Contents)
      BY <1>1, StoreFields DEF Contents
    <3> QED
      BY <1>1, <2>2, <3>1
  <2> HIDE DEF n
  <2>5. \A b \in {a} : g.made[n] = Spoofed(b)
    BY <2>4
  <2>6. Kept(Lend(g, s, a, n))
    BY <1>2, <2>2, <2>3, <2>4, <2>5, SessionOnly DEF Lend
  <2> QED
    BY <2>6 DEF g, n
<1> QED
  BY <1>3, <1>5, <1>6, <1>7 DEF UseCertCustom, UseCertMitm

LEMMA StoreInitKept == StoreInit => Kept(store)
<1> SUFFICES ASSUME StoreInit PROVE Kept(store)
  OBVIOUS
<1> DEFINE c == EmptyCache("FIFO", StoreMax, StoreKeys)
           new == [st |-> "new", ask |-> {}, cert |-> NoCert]
<1>1. Covered(c, StoreKeys, StoreMax) /\ c.mode = "FIFO" /\ CachedKeys(c) = {}
  BY StoreMaxAssumption, EmptyCacheCovered
<1>2. c \in CacheType(StoreKeys, StoreMax)
  BY <1>1 DEF Covered
<1>3. NoCert \in 0..MaxSpoofs
  BY MaxSpoofsAssumption DEF NoCert
<1>4. new \in StoreSession
  BY <1>3 DEF StoreSession
<1>5. /\ store.phase = "cold" /\ store.mitm = c /\ store.certOf = [k \in StoreKeys |-> NoCert]
      /\ store.made = <<>> /\ store.refs = <<>> /\ store.sess = [s \in TlsSessions |-> new]
      /\ store.custom = FALSE /\ store.keyRefs = 0
      /\ store = [phase |-> store.phase, custom |-> store.custom, mitm |-> store.mitm,
                  certOf |-> store.certOf, made |-> store.made, refs |-> store.refs,
                  keyRefs |-> store.keyRefs, sess |-> store.sess]
  BY DEF StoreInit
<1> HIDE DEF c, new
<1>6. store.certOf \in [StoreKeys -> 0..MaxSpoofs] /\ store.sess \in [TlsSessions -> StoreSession]
  BY <1>3, <1>4, <1>5
<1>7. store \in StoreType
  <2>1. store.made \in Seq({Spoofed(a) : a \in Asks}) /\ store.refs \in Seq(Nat)
    BY <1>5
  <2>2. /\ store.phase \in {"cold", "ready", "exited"} /\ store.custom \in BOOLEAN
        /\ store.mitm \in CacheType(StoreKeys, StoreMax) /\ store.keyRefs \in Nat
    <3>1. store.phase \in {"cold", "ready", "exited"} /\ store.keyRefs \in Nat
      BY <1>5
    <3>2. store.custom \in BOOLEAN /\ store.mitm \in CacheType(StoreKeys, StoreMax)
      BY <1>2, <1>5, Zenon
    <3> QED
      BY <3>1, <3>2
  <2> DEFINE x1 == store.phase
             x2 == store.custom
             x3 == store.mitm
             x4 == store.certOf
             x5 == store.made
             x6 == store.refs
             x7 == store.keyRefs
             x8 == store.sess
  <2>3. store = [phase |-> x1, custom |-> x2, mitm |-> x3, certOf |-> x4, made |-> x5,
                 refs |-> x6, keyRefs |-> x7, sess |-> x8]
    BY <1>5
  <2>4. /\ x1 \in {"cold", "ready", "exited"} /\ x2 \in BOOLEAN
        /\ x3 \in CacheType(StoreKeys, StoreMax) /\ x7 \in Nat
        /\ x4 \in [StoreKeys -> 0..MaxSpoofs] /\ x8 \in [TlsSessions -> StoreSession]
        /\ x5 \in Seq({Spoofed(a) : a \in Asks}) /\ x6 \in Seq(Nat)
    BY <1>6, <2>1, <2>2
  <2> HIDE DEF x1, x2, x3, x4, x5, x6, x7, x8
  <2> QED
    BY <2>3, <2>4 DEF StoreType
<1>8. \A s \in TlsSessions : store.sess[s].st = "new"
  BY <1>5 DEF new
<1>9. ServingAll(store) = {} /\ Keys(store) = {} /\ Len(store.made) = 0
  BY <1>1, <1>5, <1>8 DEF ServingAll, Keys
<1>10. KeptShape(store)
  BY <1>1, <1>5, <1>7, <1>9, FS_EmptySet DEF KeptShape
<1>11. KeptEntries(store)
  BY <1>5, <1>9 DEF KeptEntries, NoCert
<1>12. KeptSessions(store) /\ KeptCold(store)
  BY <1>5, <1>8, <1>9 DEF KeptSessions, KeptCold
<1>13. KeptRefs(store)
  BY <1>5, <1>9 DEF KeptRefs
<1> QED
  BY <1>10, <1>11, <1>12, <1>13 DEF Kept

\* init() of the factory: it makes three references to the default key, or the
\* process ends.
Opened(f, phase, custom, keyRefs) ==
    [f EXCEPT !.phase = phase, !.custom = custom, !.keyRefs = keyRefs]

LEMMA OpenedKept ==
    ASSUME NEW f, Kept(f), f.phase = "cold", NEW custom \in BOOLEAN, NEW keyRefs \in Nat,
           NEW phase \in {"ready", "exited"}, phase = "ready" => keyRefs = DefaultKeyRefs
    PROVE  Kept(Opened(f, phase, custom, keyRefs))
<1> DEFINE w == Opened(f, phase, custom, keyRefs)
<1>1. f \in StoreType /\ KeptShape(f)
  BY DEF Kept, KeptShape
<1>2. /\ w \in StoreType /\ w.phase = phase /\ w.mitm = f.mitm /\ w.certOf = f.certOf
      /\ w.made = f.made /\ w.refs = f.refs /\ w.keyRefs = keyRefs /\ w.sess = f.sess
  BY <1>1 DEF StoreType, Opened
<1> HIDE DEF w
<1>3. Keys(w) = Keys(f) /\ ServingAll(w) = ServingAll(f)
  BY <1>2 DEF Keys, ServingAll
<1>4. Keys(f) = {} /\ f.made = <<>> /\ \A s \in TlsSessions : f.sess[s].st = "new"
  BY DEF Kept, KeptCold
<1>5. KeptShape(w) /\ KeptCold(w)
  BY <1>1, <1>2, <1>3, <1>4 DEF KeptShape, KeptCold
<1>6. KeptEntries(w) /\ KeptSessions(w)
  BY <1>2, <1>3 DEF Kept, KeptEntries, KeptSessions
<1>7. KeptRefs(w)
  <2>1. Lending(w) = {}
    BY <1>2, <1>4 DEF Lending
  <2>2. Cardinality(Keys(w)) = 0 /\ Cardinality(Lending(w)) = 0
    BY <1>3, <1>4, <2>1, FS_EmptySet
  <2>3. Len(w.made) = 0
    BY <1>2, <1>4
  <2> QED
    BY <1>2, <2>2, <2>3 DEF KeptRefs, DefaultKeyRefs
<1> QED
  BY <1>5, <1>6, <1>7 DEF Kept, w

LEMMA FactoryInitKept ==
    ASSUME Kept(store), NEW files, FactoryInit(files)
    PROVE  Kept(store')
<1>1. store \in StoreType /\ store.phase = "cold" /\ store.keyRefs \in Nat /\ store.custom \in BOOLEAN
  BY StoreFields DEF Kept, KeptShape, FactoryInit
<1>2. CASE store' = [store EXCEPT !.phase = "exited"]
  <2>1. store' = Opened(store, "exited", store.custom, store.keyRefs)
    BY <1>1, <1>2 DEF Opened, StoreType
  <2> QED
    BY <1>1, <2>1, OpenedKept
<1>3. CASE store' = ServerCtxSetup(ServerCtxSetup(LoadCertsFrom(
                        [store EXCEPT !.phase = "ready", !.keyRefs = 1], files)))
  <2>1. LoadCertPair(files) \in BOOLEAN
    BY DEF LoadCertPair
  <2>2. store' = Opened(store, "ready", LoadCertPair(files), 1 + 1 + 1)
    BY <1>1, <1>3 DEF Opened, StoreType, ServerCtxSetup, LoadCertsFrom
  <2>3. 1 + 1 + 1 \in Nat /\ 1 + 1 + 1 = DefaultKeyRefs
    BY DEF DefaultKeyRefs
  <2> QED
    BY <1>1, <2>1, <2>2, <2>3, OpenedKept
<1> QED
  BY <1>2, <1>3 DEF FactoryInit

\* init_server takes references, or finds the certificate gone.
LEMMA InitServerKept ==
    ASSUME Kept(store), NEW s \in TlsSessions, InitServer(s)
    PROVE  Kept(store')
<1> DEFINE i == store.sess[s].cert
           r(st) == [store.sess[s] EXCEPT !.st = st]
<1>1. store \in StoreType /\ store.sess \in [TlsSessions -> StoreSession] /\ store.sess[s].st = "lent"
      /\ Len(store.made) \in Nat
  BY StoreFields DEF Kept, KeptShape, InitServer
<1>2. store.phase = "ready"
  BY <1>1 DEF Kept, KeptCold
<1>3. ASSUME NEW st \in {"serving", "stale"}
      PROVE  /\ r(st) \in StoreSession /\ r(st).st = st /\ r(st).cert = i /\ r(st).ask = store.sess[s].ask
             /\ [store EXCEPT !.sess[s].st = st] = [store EXCEPT !.sess[s] = r(st)]
  <2>1. store.sess[s] \in StoreSession
    BY <1>1
  <2> QED
    BY <1>1, <2>1 DEF StoreSession, StoreType
<1>4. CASE i = CustomCert /\ store' = [store EXCEPT !.sess[s].st = "serving"]
  <2> HIDE DEF r
  <2>1. Kept([store EXCEPT !.sess[s] = r("serving")])
    BY <1>1, <1>2, <1>3, <1>4, SessionOnly
  <2> QED
    BY <1>3, <1>4, <2>1
<1>5. CASE store' = [store EXCEPT !.sess[s].st = "stale"]
  <2> HIDE DEF r
  <2>1. Kept([store EXCEPT !.sess[s] = r("stale")])
    BY <1>1, <1>2, <1>3, SessionOnly
  <2> QED
    BY <1>3, <1>5, <2>1
<1>6. CASE i # CustomCert /\ store' = [store EXCEPT !.sess[s].st = "serving", !.refs[i] = @ + 2,
                                                   !.keyRefs = @ + 2]
  <2>1. i \in 1..Len(store.made)
    BY <1>1, <1>6 DEF Kept, KeptSessions
  <2>2. Resess(store, s, r("serving")) = [store.sess EXCEPT ![s].st = "serving"]
    BY <1>1 DEF Resess
  <2>3. store' = Restock(store, store.mitm, store.certOf, store.made,
                         [store.refs EXCEPT ![i] = store.refs[i] + 2], store.keyRefs + 2,
                         [store.sess EXCEPT ![s].st = "serving"])
    BY <1>1, <1>6 DEF Restock, StoreType
  <2>4. 2 * 1 = 2
    OBVIOUS
  <2>5. store' = Referenced(store, i, 1, s, r("serving"))
    BY <2>2, <2>3, <2>4 DEF Referenced
  <2> HIDE DEF r
  <2>6. Kept(Referenced(store, i, 1, s, r("serving")))
    BY <1>1, <1>2, <1>3, <2>1, ReferenceKept
  <2> QED
    BY <2>5, <2>6
<1> QED
  BY <1>4, <1>5, <1>6 DEF InitServer

\* ~baseSSLCom gives them back.
LEMMA EndSessionKept ==
    ASSUME Kept(store), NEW s \in TlsSessions, EndSession(s)
    PROVE  Kept(store')
<1> DEFINE i == store.sess[s].cert
           new == [st |-> "new", ask |-> {}, cert |-> NoCert]
<1>1. store \in StoreType /\ store.sess \in [TlsSessions -> StoreSession] /\ Len(store.made) \in Nat
      /\ store.refs \in Seq(Nat) /\ store.keyRefs \in Nat /\ Len(store.refs) = Len(store.made)
  BY StoreFields DEF Kept, KeptShape
<1>2. store.phase = "ready"
  BY <1>1 DEF Kept, KeptCold, EndSession
<1>3. new \in StoreSession /\ new.st = "new"
  <2>1. NoCert \in 0..MaxSpoofs
    BY MaxSpoofsAssumption DEF NoCert
  <2> QED
    BY <2>1 DEF StoreSession
<1>4. CASE /\ ~(store.sess[s].st = "serving" /\ i # CustomCert)
           /\ store' = [store EXCEPT !.sess[s] = new]
  <2> HIDE DEF new
  <2> QED
    BY <1>2, <1>3, <1>4, SessionOnly
<1>5. CASE /\ store.sess[s].st = "serving" /\ i # CustomCert
           /\ store' = [store EXCEPT !.sess[s] = new, !.refs[i] = @ - 2, !.keyRefs = @ - 2]
  <2>1. i \in 1..Len(store.made)
    BY <1>1, <1>5 DEF Kept, KeptSessions
  <2>2. store.refs[i] - 2 = store.refs[i] + 2 * (-1) /\ store.keyRefs - 2 = store.keyRefs + 2 * (-1)
    <3>1. store.refs[i] \in Int /\ store.keyRefs \in Int
      BY <1>1, <2>1
    <3>2. \A x \in Int : x - 2 = x + 2 * (-1)
      OBVIOUS
    <3> QED
      BY <3>1, <3>2
  <2> HIDE DEF new
  <2>3. store' = Restock(store, store.mitm, store.certOf, store.made,
                         [store.refs EXCEPT ![i] = store.refs[i] - 2], store.keyRefs - 2,
                         Resess(store, s, new))
    BY <1>1, <1>5 DEF Restock, Resess, StoreType
  <2>4. store' = Referenced(store, i, -1, s, new)
    BY <2>2, <2>3 DEF Referenced
  <2>5. Kept(Referenced(store, i, -1, s, new))
    BY <1>1, <1>2, <1>3, <1>5, <2>1, ReferenceKept
  <2> QED
    BY <2>4, <2>5
<1> QED
  BY <1>4, <1>5 DEF EndSession

LEMMA EraseMitmKept ==
    ASSUME Kept(store), NEW k \in StoreKeys, EraseMitm(k)
    PROVE  Kept(store')
<1>1. k \in Keys(store) /\ store \in StoreType
      /\ Covered(store.mitm, StoreKeys, StoreMax) /\ store.mitm.mode = "FIFO"
  BY DEF EraseMitm, Keys, Kept, KeptShape
<1>2. store.phase = "ready"
  BY <1>1 DEF Kept, KeptCold
<1> DEFINE m == CacheErase(store.mitm, k)
<1>3. Covered(m, StoreKeys, StoreMax) /\ m.mode = "FIFO" /\ CachedKeys(m) = Keys(store) \ {k}
  BY <1>1, CacheEraseCovered DEF SameKind, Keys
<1>4. store' = Displaced(store, {k}, m)
  <2>1. ReleaseEntries(store, {k}).mitm = store.mitm
    BY <1>1 DEF ReleaseEntries, StoreType
  <2> QED
    BY <2>1 DEF EraseMitm, Displaced
<1> HIDE DEF m
<1> QED
  BY <1>1, <1>2, <1>3, <1>4, ReleaseKept

LEMMA StoreNextKept == Kept(store) /\ [StoreNext]_store => Kept(store')
<1> SUFFICES ASSUME Kept(store), [StoreNext]_store PROVE Kept(store')
  OBVIOUS
<1>1. ASSUME NEW files \in SUBSET CertFiles, FactoryInit(files) PROVE Kept(store')
  BY <1>1, FactoryInitKept
<1>2. ASSUME NEW s \in TlsSessions, NEW a \in Asks, NEW search \in BOOLEAN, SpoofCert(s, a, search)
      PROVE  Kept(store')
  <2>1. store.phase = "ready" /\ store.sess[s].st = "new"
    BY <1>2 DEF SpoofCert
  <2>2. store' \in UseCertCustom(store, s, a) \cup UseCertMitm(store, s, a)
    BY <1>2 DEF SpoofCert
  <2> QED
    BY <2>1, <2>2, SpoofCertKept
<1>3. ASSUME NEW s \in TlsSessions, InitServer(s) PROVE Kept(store')
  BY <1>3, InitServerKept
<1>4. ASSUME NEW s \in TlsSessions, EndSession(s) PROVE Kept(store')
  BY <1>4, EndSessionKept
<1>5. ASSUME NEW k \in StoreKeys, EraseMitm(k) PROVE Kept(store')
  BY <1>5, EraseMitmKept
<1>6. CASE UNCHANGED store
  BY <1>6
<1> QED
  BY <1>1, <1>2, <1>3, <1>4, <1>5, <1>6 DEF StoreNext

LEMMA StoreInvariant == StoreSpec => []StoreInv
<1>1. StoreInit => StoreInv
  BY StoreInitKept, StoreInvIsKept
<1>2. StoreInv /\ [StoreNext]_store => StoreInv'
  BY StoreNextKept, StoreInvIsKept
<1> QED
  BY <1>1, <1>2, PTL DEF StoreSpec

\* Whatever the order of spoofing, displacement, erasing and sessions that end,
\* reference counts are exact and a client is shown the certificate its session
\* asked for (SSLFactory::add_mitm, erase_mitm, baseSSLCom::init_server).
THEOREM StoreIsSound == StoreSpec => []StoreSound
<1>1. StoreInv => StoreSound
  BY DEF StoreInv
<1> QED
  BY <1>1, StoreInvariant, PTL

\* The store keeps its type; no reference count falls below zero.
THEOREM StoreTypesKept == StoreSpec => []StoreTypeOK
<1>1. StoreInv => StoreTypeOK
  BY DEF StoreInv
<1> QED
  BY <1>1, StoreInvariant, PTL
=============================================================================
