------------------------------- MODULE MemPool -------------------------------
(***************************************************************************)
(* memPool (common/mempool/mempool.cpp) and the buffers on top of it       *)
(* (common/buffer.cpp, buffer.hpp).  A bucket is a stack of chunks of one  *)
(* size; a request that its bucket cannot serve goes to the heap.  Buffers *)
(* own a chunk (free_) or look into the chunk of another buffer.  They     *)
(* give back its address, by which the bucket is found, and the capacity   *)
(* they believed in, with which it is handed out again.                    *)
(*                                                                         *)
(* A chunk <<size, i>> is number i of the bucket with chunks of that size; *)
(* <<0, n>> is the n-th block from the heap.  The locks of the buckets     *)
(* make acquire and release single steps, and a buffer belongs to one      *)
(* thread at a time.                                                       *)
(***************************************************************************)
EXTENDS Integers, SequencesExt

CONSTANTS
    Buffers,        \* buffer objects
    BucketSizes,    \* chunk sizes of the buckets
    BucketCount,    \* chunks of a bucket
    Requests,       \* sizes asked for
    MaxHeap         \* bound: blocks taken from the heap

ASSUME SizesAssumption ==
    /\ BucketSizes \subseteq Nat \ {0} /\ BucketSizes # {} /\ Requests \subseteq Nat
    /\ BucketCount \in Nat \ {0} /\ MaxHeap \in Nat

Null == <<0, 0>>
PoolChunks == BucketSizes \X (1..BucketCount)
HeapBlocks == {0} \X (1..MaxHeap)

VARIABLE mem

BufferType == [data : PoolChunks \cup HeapBlocks \cup {Null}, capacity : Nat, free : BOOLEAN]

MemType == [
    bucket : [BucketSizes -> Seq(PoolChunks)],  \* tops come first
    stored : [PoolChunks -> Nat],               \* capacity a chunk was pushed with
    heap : [1..MaxHeap -> {"unused", "used", "freed", "freed twice"}],
    big : [1..MaxHeap -> Nat],                  \* sizes of the heap blocks
    buf : [Buffers -> BufferType]]

\* Buffer objects that have been destroyed or not made yet are like empty ones.
Empty == [data |-> Null, capacity |-> 0, free |-> FALSE]

\* Bucket::init_memory
InitMemory(z) == [i \in 1..BucketCount |-> <<z, i>>]

\* memPool::allocate
MemInit ==
    mem = [bucket |-> [z \in BucketSizes |-> InitMemory(z)],
           stored |-> [d \in PoolChunks |-> d[1]],
           heap |-> [n \in 1..MaxHeap |-> "unused"], big |-> [n \in 1..MaxHeap |-> 0],
           buf |-> [b \in Buffers |-> Empty]]

-----------------------------------------------------------------------------
(* The pool.                                                               *)

\* pick_bucket: the smallest chunks that are large enough.
Fitting(s) == {z \in BucketSizes : s <= z}
PickBucket(s) == CHOOSE z \in Fitting(s) : \A y \in Fitting(s) : z <= y

UnusedHeap(m) == {n \in 1..MaxHeap : m.heap[n] = "unused"}

\* from_heap
FromHeap(m, s) ==
    LET n == CHOOSE k \in UnusedHeap(m) : TRUE
    IN  [mem |-> [m EXCEPT !.heap[n] = "used", !.big[n] = s], data |-> <<0, n>>, capacity |-> s]

\* free_heap
FreeHeap(m, data) ==
    [m EXCEPT !.heap[data[2]] = IF @ = "used" THEN "freed" ELSE "freed twice"]

\* Bucket::acquire, Bucket::release: the capacity is the one of the last owner, which
\* may be less than is asked for now.
BucketAcquire(m, z) ==
    [mem |-> [m EXCEPT !.bucket[z] = Tail(@)], data |-> Head(m.bucket[z]),
     capacity |-> m.stored[Head(m.bucket[z])]]
BucketRelease(m, data, capacity) ==
    [m EXCEPT !.bucket[data[1]] = <<data>> \o @, !.stored[data] = capacity]

\* The bytes there really are behind an address.
Room(m, data) ==
    IF data \in PoolChunks THEN data[1] ELSE IF data \in HeapBlocks THEN m.big[data[2]] ELSE 0

\* Bucket::is_mine, find_by_address, find_ptr_size: 0 is memory of the heap.
FindPtrSize(data) == IF data \in PoolChunks THEN data[1] ELSE 0

\* tryhard_available: buckets with chunks to spare.  It is asked only for what
\* is larger than every chunk, and then there is none.
TryhardAvailable(m, s) == {z \in Fitting(s) : m.bucket[z] # <<>>}

\* memPool::acquire: memory, address and capacity.
Acquire(m, s) ==
    IF s = 0 THEN [mem |-> m, data |-> Null, capacity |-> 0]
    ELSE LET z == IF Fitting(s) = {} THEN TryhardAvailable(m, s) ELSE {PickBucket(s)}
         IN  IF \A y \in z : m.bucket[y] = <<>> THEN FromHeap(m, s)
             ELSE BucketAcquire(m, CHOOSE y \in z : TRUE)

\* memPool::release
Release(m, data, capacity) ==
    IF data = Null THEN m
    ELSE IF FindPtrSize(data) = 0 THEN FreeHeap(m, data)
    ELSE BucketRelease(m, data, capacity)

-----------------------------------------------------------------------------
(* The buffers.                                                            *)

\* buffer::dealloc
Dealloc(m, b) ==
    IF m.buf[b].free /\ m.buf[b].capacity > 0
    THEN Release(m, m.buf[b].data, m.buf[b].capacity) ELSE m

Hold(m, b, data, capacity, free) ==
    [m EXCEPT !.buf[b] = [data |-> data, capacity |-> capacity, free |-> free]]

HeapLeft == UnusedHeap(mem) # {}

\* buffer::buffer (size), and (data, size), which copies.
NewBuffer(b, s) ==
    /\ HeapLeft /\ mem.buf[b] = Empty
    /\ LET a == Acquire(mem, s) IN mem' = Hold(a.mem, b, a.data, a.capacity, TRUE)

\* release() and the destructor.
DestroyBuffer(b) == mem' = [Dealloc(mem, b) EXCEPT !.buf[b] = Empty]

\* view(): a buffer that looks into the chunk of b.
ViewBuffer(b, c) ==
    /\ mem.buf[c] = Empty /\ mem.buf[b].data # Null
    /\ mem' = Hold(mem, c, mem.buf[b].data, mem.buf[b].capacity, FALSE)

\* buffer (const buffer&) makes c: it owns a copy if b is an owner, else it
\* is a view too, of capacity 0.
CopyBuffer(b, c) ==
    /\ HeapLeft /\ b # c /\ mem.buf[c] = Empty
    /\ LET x == mem.buf[b]
           a == Acquire(mem, x.capacity)
       IN  mem' = IF x.capacity # 0 /\ x.free THEN Hold(a.mem, c, a.data, a.capacity, TRUE)
                  ELSE Hold(mem, c, IF x.capacity # 0 THEN x.data ELSE Null, 0, x.free)

\* operator=(const buffer&): c takes the s bytes of b, which may be more than b's
\* capacity says when the pool has given less than was asked for.
AssignBuffer(b, c, s) ==
    LET x == mem.buf[b]
        y == mem.buf[c]
        m == Dealloc(mem, c)
        a == Acquire(m, x.capacity)
    IN  /\ HeapLeft /\ b # c /\ (x.free => s <= Room(mem, x.data))
        /\ mem' = IF s <= y.capacity /\ y.data # Null THEN mem
                  ELSE IF x.free THEN Hold(a.mem, c, a.data, a.capacity, TRUE)
                  ELSE Hold(m, c, x.data, x.capacity, FALSE)

\* Mutant: the buffer moved from stays an owner.
MoveBufferKeeps(b, c) ==
    /\ b # c
    /\ mem' = [Dealloc(mem, c) EXCEPT !.buf[c] = mem.buf[b]]

\* operator=(buffer&&) and the move constructor: the buffer moved from keeps
\* the address, but not the ownership.
MoveBuffer(b, c) ==
    /\ b # c
    /\ LET m == IF mem.buf[c].free /\ mem.buf[c].data # Null
                THEN Release(mem, mem.buf[c].data, mem.buf[c].capacity) ELSE mem
       IN  mem' = [m EXCEPT !.buf[c] = mem.buf[b], !.buf[b].free = FALSE]

\* swap()
SwapBuffers(b, c) ==
    /\ b # c
    /\ mem' = [mem EXCEPT !.buf[b] = mem.buf[c], !.buf[c] = mem.buf[b]]

\* detach()
Detach(m, b) == [m EXCEPT !.buf[b].data = Null, !.buf[b].capacity = 0]

\* attach(), assign (data, size, capacity, own)
Attach(m, c, data, s) == Hold(Dealloc(m, c), c, data, s, TRUE)

\* The s bytes of an owner are detached and attached to another buffer.
HandOver(b, c, s) ==
    /\ b # c /\ mem.buf[b].free /\ s <= Room(mem, mem.buf[b].data)
    /\ mem' = Attach(Detach(mem, b), c, mem.buf[b].data, s)

\* capacity(s), which append() calls: the content moves to a larger chunk.
GrowBuffer(b, s) ==
    /\ HeapLeft /\ s > mem.buf[b].capacity
    /\ LET a == Acquire(mem, s)
       IN  mem' = Hold(Dealloc(a.mem, b), b, a.data, a.capacity, TRUE)

\* assign (data, size): when the chunk is too small it goes back first; the
\* capacity becomes the size, whatever the pool has given.
AssignData(b, s) ==
    /\ HeapLeft /\ s > mem.buf[b].capacity
    /\ LET a == Acquire(Dealloc(mem, b), s) IN mem' = Hold(a.mem, b, a.data, s, TRUE)

\* OpenSSL's memory comes from mempool_alloc, mempool_realloc and mempool_free;
\* what it holds is one more owner of a chunk, like a buffer.  It relies on the size
\* it has asked for, and a chunk goes back with its full size.
MempoolAlloc(b, s) ==
    /\ HeapLeft /\ mem.buf[b] = Empty /\ s > 0
    /\ LET a == Acquire(mem, s) IN mem' = Hold(a.mem, b, a.data, s, TRUE)

MempoolFree(b) ==
    LET d == mem.buf[b].data
    IN  /\ mem.buf[b].free /\ d # Null
        /\ mem' = [Release(mem, d, FindPtrSize(d)) EXCEPT !.buf[b] = Empty]

\* A chunk that is large enough stays.
ReallocChunk(b, s) ==
    LET d == mem.buf[b].data
        a == Acquire(mem, s)
    IN  /\ HeapLeft /\ mem.buf[b].free /\ d # Null
        /\ mem' = IF FindPtrSize(d) >= s THEN Hold(mem, b, d, s, TRUE)
                  ELSE Hold(Release(a.mem, d, FindPtrSize(d)), b, a.data, s, TRUE)

MemNext ==
    \E b \in Buffers :
        \/ DestroyBuffer(b) \/ MempoolFree(b)
        \/ \E s \in Requests : NewBuffer(b, s) \/ GrowBuffer(b, s) \/ AssignData(b, s)
                               \/ MempoolAlloc(b, s) \/ ReallocChunk(b, s)
        \/ \E c \in Buffers :
              \/ ViewBuffer(b, c) \/ CopyBuffer(b, c) \/ MoveBuffer(b, c) \/ SwapBuffers(b, c)
              \/ \E s \in Requests : AssignBuffer(b, c, s) \/ HandOver(b, c, s)

MemSpec == MemInit /\ [][MemNext]_mem

-----------------------------------------------------------------------------
(* Properties.                                                             *)

\* Pool and buffers have their types.
MemTypeOK == mem \in MemType

Owns(b) == mem.buf[b].free /\ mem.buf[b].data # Null

\* A chunk is either in its bucket, once, or owned by one buffer, whatever was
\* moved, viewed, swapped or copied; a block of the heap is freed once; and no
\* owner believes its chunk larger than it is, though what is believed is passed on
\* between buffers, taken back with the chunk and handed out again, and though
\* assign() and OpenSSL believe what they asked for, whatever acquire() answers.
SoleOwner ==
    /\ \A z \in BucketSizes : \A i, j \in DOMAIN mem.bucket[z] :
          mem.bucket[z][i][1] = z /\ (i # j => mem.bucket[z][i] # mem.bucket[z][j])
    /\ \A d \in PoolChunks : mem.stored[d] <= d[1]
    /\ \A b \in Buffers : Owns(b) =>
          LET d == mem.buf[b].data
          IN  /\ \A c \in Buffers \ {b} : Owns(c) => mem.buf[c].data # d
              /\ IF d \in PoolChunks THEN d \notin Range(mem.bucket[d[1]])
                 ELSE mem.heap[d[2]] = "used"
              /\ mem.buf[b].capacity <= Room(mem, d)
    /\ \A n \in 1..MaxHeap : mem.heap[n] # "freed twice"
=============================================================================
