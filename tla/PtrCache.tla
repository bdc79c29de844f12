------------------------------ MODULE PtrCache ------------------------------
(***************************************************************************)
(* ptr_cache (common/ptr_cache.hpp): a map bounded by a queue of its keys, *)
(* newest first.  A cache in FIFO mode may erase keys and let them expire, *)
(* which leaves them in the queue; setting such a key again queues it a    *)
(* second time.  In LRU mode a key at the end of the queue that is used    *)
(* more than the average goes back to its front.                           *)
(*                                                                         *)
(* A cache is a record; count[k] is the counter of the DataBlock of k, or  *)
(* Absent.  Every operation holds lock_ and is one step.  The operators    *)
(* take the cache as parameter, so that CertStore can use them too.        *)
(***************************************************************************)
EXTENDS Integers, SequencesExt

CONSTANTS
    CacheKeys,      \* keys of the cache checked on its own
    CacheMax,       \* its max_size_
    MaxTouches      \* bound: get() calls of an LRU cache

ASSUME CacheMaxAssumption == CacheMax \in Nat \ {0}
ASSUME MaxTouchesAssumption == MaxTouches \in Nat

Absent == -1

\* lost: *end() was read.
CacheType(K, max) ==
    [mode : {"FIFO", "LRU"}, max : {max}, count : [K -> Nat \cup {Absent}],
     items : Seq(K), total : Nat, lost : BOOLEAN]

\* A new cache with keys out of K.
EmptyCache(m, max, K) ==
    [mode |-> m, max |-> max, count |-> [k \in K |-> Absent], items |-> <<>>,
     total |-> 0, lost |-> FALSE]

CachedKeys(c) == {k \in DOMAIN c.count : c.count[k] # Absent}

\* erase(k): the key stays in items_.
CacheErase(c, k) == [c EXCEPT !.count[k] = Absent]

\* Mutant: the queue forgets its oldest key, the map does not.
DeleteLastFromQueue(c) == [c EXCEPT !.items = Front(@)]

\* delete_last
DeleteLast(c) == [CacheErase(c, Last(c.items)) EXCEPT !.items = Front(@)]

\* lru_reoder
LruReorder(c) ==
    LET last == Last(c.items)
    IN  IF Head(c.items) \notin CachedKeys(c) THEN [c EXCEPT !.lost = TRUE]
        ELSE IF last \notin CachedKeys(c) THEN [c EXCEPT !.items = Front(@)]
        ELSE IF c.count[last] > c.total \div Len(c.items)
        THEN [c EXCEPT !.items = <<last>> \o Front(@)]
        ELSE c

\* The loop of set() while items_ is full.  items_ is never longer than
\* max_size_ (QueueCoversCache), so it turns at most once.
MakeRoom(c) ==
    IF Len(c.items) < c.max THEN c
    ELSE DeleteLast(IF c.mode = "LRU" THEN LruReorder(c) ELSE c)

\* get(); expired is the answer of fn_expired_check.
CacheGet(c, k, expired) ==
    IF k \notin CachedKeys(c) THEN c
    ELSE IF expired THEN CacheErase(c, k)
    ELSE IF c.mode = "LRU"
    THEN LruReorder([c EXCEPT !.count[k] = @ + 1, !.total = @ + 1])
    ELSE c

\* set()
CacheSet(c, k) ==
    IF k \in CachedKeys(c) THEN [c EXCEPT !.count[k] = 0]
    ELSE [MakeRoom(c) EXCEPT !.count[k] = 0, !.items = <<k>> \o @]

-----------------------------------------------------------------------------
(* A cache on its own.  The LRU cache of the library, session_cache, has   *)
(* no expiry and nobody erases its keys.                                   *)

VARIABLE pcache

PcInit == \E m \in {"FIFO", "LRU"} : pcache = EmptyCache(m, CacheMax, CacheKeys)

PcGet(k, expired) ==
    /\ pcache.mode = "LRU" => ~expired /\ pcache.total < MaxTouches
    /\ pcache' = CacheGet(pcache, k, expired)

PcSet(k) == pcache' = CacheSet(pcache, k)

PcErase(k) == pcache.mode = "FIFO" /\ pcache' = CacheErase(pcache, k)

\* clear()
PcClear ==
    /\ pcache.mode = "FIFO"
    /\ pcache' = EmptyCache(pcache.mode, pcache.max, CacheKeys)

PcNext ==
    \/ \E k \in CacheKeys : PcSet(k) \/ PcErase(k)
                            \/ \E expired \in BOOLEAN : PcGet(k, expired)
    \/ PcClear

PcSpec == PcInit /\ [][PcNext]_pcache

-----------------------------------------------------------------------------
(* Properties.                                                             *)

\* The cache has its type, and its counters are bounded by the get() calls.
PcTypeOK ==
    /\ pcache \in CacheType(CacheKeys, CacheMax)
    /\ pcache.total <= MaxTouches
    /\ \A k \in CacheKeys : pcache.count[k] <= pcache.total

\* The queue never outgrows max_size_ and knows every cached key, also when
\* erased keys are queued twice, so eviction bounds the map and can always
\* make room.  The LRU queue holds the cached keys once each, so reordering
\* it never looks at a key that is gone.
QueueCoversCache ==
    /\ Len(pcache.items) <= CacheMax
    /\ CachedKeys(pcache) \subseteq Range(pcache.items)
    /\ pcache.mode = "LRU" =>
          /\ Range(pcache.items) = CachedKeys(pcache)
          /\ \A i, j \in DOMAIN pcache.items : i # j => pcache.items[i] # pcache.items[j]
          /\ ~pcache.lost

\* The inductive invariant: an LRU queue that repeats no key and has no key
\* that is gone is what keeps the queue in step with the map.
PcInv == PcTypeOK /\ QueueCoversCache
=============================================================================
