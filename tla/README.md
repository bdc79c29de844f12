# A TLA+ model of socle

socle is a C++ library for proxies: it accepts connections, hands them to
worker threads, wraps each in a *context*, pairs left and right contexts in a
*proxy* and moves bytes between them with non-blocking sockets and epoll. This
directory models the part of it that decides whether a proxy built on it works:
the hand-over between threads, the life of sub-proxies, the flow of bytes, the
sessions that are not plain TCP (inspected TLS, UDP), and what all sessions of a
process share (caches, certificates, the poller, traffic inspection, memory).

All line numbers refer to the repository's source.

## 1. Inventory

| Component (source) | State it keeps | Operations | Talks to |
|---|---|---|---|
| `FdQueue` (`fdq.*`) | deque of sockets, hint socket and last seen load per worker, process-wide "queue is empty" flag | `push_all`, `pop`, `update_load`, `new_pair`, `close_all` | acceptor (push), workers (pop, load) |
| Acceptor and worker pool (`threadedacceptor.*`, `threadedworker.hpp`) | worker threads, `dead` flags | accept, start, mark dead, join | `FdQueue`, `MasterProxy` |
| `MasterProxy` (`masterproxy.*`) | list of (sub-proxy, thread) | a pass (run phase, clean-up phase), timers, shutdown | sub-proxies, in threads of their own or inline |
| `baseProxy` (`baseproxy.*`) | left/right sockets, bottleneck flags, `dead`, `in_progress` | poll loop, pass over the sockets, bind/connect, timers | contexts, epoll |
| `SimpleLRProxy` (`lrproxy.*`) | none | copy bytes left to right and back | contexts |
| `baseHostCX` (`hostcx.*`) | read and write buffer, pause flags, counters of processed bytes, error state | read, write, process, finish, to_write, shutdown, reconnect | com, peer context |
| `epoll`/`epoller` (`common/epoll.*`) | interest set, in/out/err/idle sets, rescan sets, idle rounds, handler registry | wait, add, modify, del, rescan, idle watch, set/clear handler | kernel, proxies as handlers |
| `baseCom`, `TCPCom`, `UxCom` | socket options, forced read/write flags | connect, bind, accept, read, write, monitor wrappers | epoll |
| `Peering` (`peering.hpp`) | weak pointer to the other side, a lock | attach, detach, lock the peer | contexts, coms |
| `ThreadedReceiver`, `UDPCom` | early datagrams per session, virtual socket set, connection pool | receive first datagrams, hand over a session, read from queue or socket | `FdQueue`, workers |
| `SSLCom`, `SSLMitmCom` (`sslcom.*`, `sslmitmcom.*`) | handshake state, verification status, forced I/O flags | handshake, verify, OCSP stapling, spoof certificate | factory, peer com |
| `SSLFactory` (`sslcertstore.*`) | certificate, session and verification caches | find, add, expire, spoof | `ptr_cache` |
| Certificate validation (`sslcertval.*`) | OCSP/CRL query state | advance a query, yield, time out, cache the answer | `SSLCom` |
| `AppHostCX`, signatures | flow of exchanged bytes, state of each signature | match, upgrade | context hooks |
| `ptr_cache` | map and age queue | get, set, erase, evict | stores, writers |
| `memPool` | free chunks per bucket | acquire, release, heap fallback | every allocation |
| Traffic log (`traflog/*`) | open files, queue of writes | write, flush, close, worker thread | contexts |
| Logging, `sobject`, shared memory tables, conversions | log levels, object registry, tables | - | everything |

What is hard here: the deque is locked but the hints, the loads and the empty
flag around it are not; handler threads run while the worker decides what to
erase; a proxy pass works with event sets that an earlier pass has made stale;
monitors, rescan sets, pause flags and bottleneck flags together decide whether
a socket is ever looked at again; the two halves of a TLS session switch each
other's monitors off and must switch them on again; OpenSSL holds bytes that the
poller cannot see; four callbacks edit one set of verdict flags; caches are
shared by all workers, while their keys, queues and reference counts are kept by
hand; a datagram may arrive between any two steps of a session's set-up; and an
exception may leave any of these halfway. `PROJECT.json` lists these hazards at
their lines, with the properties that watch them.

What makes each modelled component correct:

* **hand-over**: no accepted socket is lost, served twice or out of turn; a
  queued socket is taken out; a stop request joins every worker;
* **sub-proxies**: nothing is destroyed under a running handler, no entry with
  a joinable thread is dropped, passes end, dead sub-proxies are reaped;
* **flow**: every byte reaches every receiver of the other side once and in
  order; write buffers stay bounded; nobody is paused without a reason; what
  arrives is read and what is pending is written;
* **TLS sessions**: a bypassed session is passed on as it came; the client is
  answered only when the server has been judged; neither handshake waits for
  ever on the other; decrypted bytes are not forgotten;
* **certificate status**: an OK verdict is never the leftover of a failed check;
  required status really was established; only trusted sessions are resumed; a
  late responder does not end the query;
* **UDP**: a session is neither lost between receiver and worker nor left
  unread; shared sockets are counted right;
* **shared parts**: eviction bounds a cache and knows its keys; certificates and
  keys live as long as somebody uses them, and a client gets the certificate it
  asked for; the poller calls no destroyed handler and calls nobody idle too
  early; every context of a proxy is in one place until it is freed, and a
  permanent one is never left unattended; inspection sees the traffic as it is; a chunk of memory has one owner.

## 2. Modules

| Module | Models |
|---|---|
| `FdQueue` | `FdQueue`, `ThreadedAcceptor`, `ThreadedAcceptorProxy`, `hasWorkers`: the scheduler thread and any number of workers |
| `Handover` | the abstract hand-over that `FdQueue` implements (`HandoverSpec`) |
| `MasterProxy` | one worker thread, its sub-proxies and their handler threads |
| `ProxyFlow` | one `SimpleLRProxy` with its contexts, its poller and the remote ends |
| `ProxyContexts` | one `baseProxy` with its bound, delayed, plain and permanent contexts: accepting, reconnecting, timers, shutdown |
| `TlsPair` | the two `SSLCom`s of one inspected session: hello peek, bypass, both handshakes, waiting for each other, reads and rescans |
| `OcspQuery` | the resumable OCSP query (`inet::ocsp::OcspQuery`) and its responders |
| `Datagrams` | `ThreadedReceiver`, its workers, and the early datagrams and virtual sockets of `UDPCom` |
| `CertStatus` | the verdict on a server certificate: OpenSSL's callbacks, OCSP, CRL and session caches, `SSLMitmCom::check_cert` |
| `UdpConnect` | outgoing UDP sockets and their shared, counted cache |
| `PtrCache` | `ptr_cache` in both modes |
| `CertStore` | `SSLFactory` and the certificates it lends (extends `PtrCache`) |
| `Poller` | `epoll`, `epoller`, `epoll_handler` of one worker |
| `AppFlow` | `AppHostCX` with its flow and signatures |
| `MemPool` | `memPool` and the ownership of chunks by `buffer` |
| `FdQueue_proofs`, `MasterProxy_proofs`, `ProxyFlow_proofs`, `TlsPair_proofs` | the theorems about the module they are named after |
| `CertStatus_proofs` | the theorems about `CertStatus` and `OcspQuery` |
| `Contexts_proofs` | the theorems about `Poller`, `ProxyContexts` and `AppFlow` |
| `Udp_proofs` | the theorems about `UdpConnect` and `Datagrams` |
| `Stores_proofs` | the theorems about `PtrCache`, `CertStore` and `MemPool` |
| `MC*` | the modules TLC runs; the `.cfg` files set the constants |

`MCSessions` composes `TlsPair`, `OcspQuery` and `Datagrams`; `MCLibrary` composes
`CertStatus`, `UdpConnect`, `PtrCache`, `CertStore`, `Poller`, `AppFlow`,
`MemPool` and `ProxyContexts`. The components of each share no variable, so their interleavings say
nothing new: a behaviour picks one component at the start, and only that one
moves. The state count is then the sum of theirs and not the product. Where
components do share state, they are one module: both sides of a TLS session, all
connections that judge a certificate through the common caches, the store with
the cache it is built on.

### FdQueue

The grain is one shared access per step. `PushEnqueue` is the locked
`push_front`; `PushCollect` reads one worker's load (an atomic that workers
store to meanwhile); `PushWrite` is one `write()` of a hint byte;
`PushCheckFeedback` and `PushResetFeedback` are the load and the store of the
`feedback_queue_empty` flag. `WorkerWake` is the epoll wake-up with the load
report, `WorkerReadHint` the read of one byte, `WorkerPop` the locked part of
`pop()`, `WorkerServe` the rest of the worker's `handle_sockets_once`. `closed`
holds the sockets whose service has ended; a `com_error` thrown before there is a
context, or by `on_left_new` after the context was released to it
(`threadedacceptor.cpp:127`), leaves such a socket open, which no property denies. `Stop`,
`JoinMark`, `JoinWait` and `WorkerExit` are the end. A hint byte is a pair
(worker, socket that was pushed): the code cannot tell bytes apart and the model
lets a worker read any of its own; the second component only serves the ghosts.
Ghosts are `pushed`, `popped`, `silent` (pushed, no byte written so far) and
`refused` (a hint socket was full).

### MasterProxy

`StartPass`, `RunSkip`, `RunSpray`, `RunInline`, `InlineReturn`, `RunDone` are
the run phase; `CleanCheck`, `CleanFinish`, `CleanDone` the clean-up phase;
`StartTimers`, `TimersVisit`, `TimersDone` the timers; `Shutdown` the end.
`HandlerEnter`, `HandlerReturn`/`HandlerThrow`, `HandlerLeave` are `run_proxy`
with its `fetch_add`, call and `store(0)`, in a thread or inline. What a
sub-proxy does inside is abstracted to whether it dies. The vector of entries
is a set: its loops visit the entries in any order.

### ProxyFlow

`Poll` is `epoll::wait`, which takes a socket it reports as writable back to
`EPOLLIN` (`auto_epollout_remove`, `common/epoll.cpp:67`), `Rescan` its rescan
timer. `StartPass` and `EndPass`
bracket one call of `handle_sockets_once`, for each event of a poll; the pass
walks four loops (read left, read right, write left, write right), one socket a
step, and between any two steps the remote ends (`PeerSend`, `PeerRecv`,
`PeerClose`) may move. The alternatives of a visit are actions: `ReadSkip`,
`ReadDefer`, `ReadNothing`, `ReadBytes`, `WriteNothing`, `WritePart`,
`WriteAll`, `WriteError`, `SkipClosed`. `Bottleneck` and `Resume` are the
monitor and pause changes of `handle_cx_write_once`; `CopyTo` is `to_write`
with its fast lane swap. Bytes carry their sender and number, so that loss,
duplication and reordering show.

Left out of it: TLS (in `TlsPair`), permanent and bound contexts and timeouts
(in `ProxyContexts`), `close_after_write`, `write_waiting_for_peercom`, overriding
hooks (`process_in`, `pre_write`, ...), and an owner that deletes the
proxy. `in_write_set` always answers true in the code, so a write is tried for
each open context with pending bytes in every pass.

### ProxyContexts

A context is a record of its descriptors (`fds_`, `closing_fds_`), its flags, and
whether the poller watches it; the proxy is its eight vectors, the trash can and
`dead`. `PxPass` is one event: a whole pass of `handle_sockets_once`, with timers,
reads, writes, permanent contexts, accepts and delayed contexts in the order of
the code, followed by the shutdown of a dead proxy. A visit that returns false
breaks its loop (`stop`). `ListenCx`, `ConnectPermanent` and `AddByOwner` are the
owner's calls, `OpeningAges`, `ReconnectAges` and `IdleAges` the three time-outs,
`DestroyProxy` the destructor. Which descriptor is ready, what a read or a write
returns and whether a connect succeeds are choices. The model shows three
weaknesses that the properties are written around, because no comment or test
promises otherwise: a left permanent context that fails while it is opening is
never reconnected, unlike a right one (`baseproxy.cpp:1008`); a permanent context
that is shut down, reconnected and shut down again loses its earlier descriptor
(`hostcx.cpp:242`); and the context of a `left_connect` or `right_connect` that
fails is kept nowhere (`baseproxy.cpp:1340`): it is an orphan, of which
`ContextsKept` does not speak. A context among the sockets that waits for its peer
needs no flag: it is not read, which a pass may do with any of them.

### TlsPair

One record holds both sides, `"L"` (accepted from the client) and `"R"`
(connected to the server). Functions of `SSLCom` that call each other are
operators from a session to the set of sessions it may become, and a step of the
worker is a pass over both sides: `TlsPass` after an event of the poller,
`TlsHintPass` after an unrelated one, `TlsRescan` when the rescan timer puts
sockets back, `TlsCleanup` when a failed session is dropped. `TlsConnect`,
`TcpUp`, `ClientHello` and `EndSends` are the world. In a `slow`
session the rescan counters may be exceeded, and a read or a write may time out, at any time.
A pass keeps the control of `handle_cx_read_once` and `handle_cx_write_once`: the
pauses of both directions, bottlenecks with what they do to the other side's
monitor and pause (`Bottleneck`, `BottleneckOver`), reads deferred at
`write_full`, and the sets of the last `epoll::wait`, from which enforced and
reported sockets are taken one pass at a time.
Left out are renegotiations (a read that waits for writing and a write that waits
for reading, with `forced_read_on_write` and `forced_write_on_read`). `CheckCert`
has its error paths: without a certificate of the server the status stays bad, and
a spoof that fails leaves the client side without its object. A client hello is one
of six classes; certificates, ciphers and keys are not there.

### OcspQuery and CertStatus

`OcspRun` is one call of `run()`, the switch that falls through its states. A
query's possible faults are chosen when it starts: none, late answers with the
last usable responder in time, or all (no connection, late or broken answers). `CertStatus` is the other, blocking way through
`sslcertval`: `InitClient` starts a handshake with a policy, `CertStep` takes one
connection to the next point where a shared cache or a callback boundary makes a
difference, `CacheExpiry` lets cached answers expire in between. What a
responder, a staple or a download says is chosen in the step that reads it.

### Datagrams and UdpConnect

`OnLeftNewRaw` is the receiver thread's handling of one datagram for a session:
find or make its record, fill a slot, make the connected socket, push the hint.
`PopForWorker`, `NewSession`, `VirtCopy`, `VirtHandle`, `VirtErase` are a worker;
`HandOver` is the locked part of its hand-over, which may fail after the hint was
taken (`threadedreceiver.cpp:464`, `:485`, `:524`) and then leaves the record
without context (`failed`); `PoolErase` is the erase behind an emptied pool, which
`UDPCom::read` does outside of the lock (`udpcom.cpp:503`);
`LeftEvent`, `CloseSession`, `CloseEmbryonic` are the context. In `UdpConnect` a
Com looks up (`UdpLookup`), opens (`UdpCreate`) and stores (`UdpStore`) its
socket, and drops (`UdpDeref`) and kills (`UdpKill`) it; two Coms with one key
race between the two lock sections. The kernel gives out the lowest free
descriptor, so that a closed one is soon somebody else's.

### PtrCache, CertStore, Poller, AppFlow, MemPool

The operations of the classes are the actions. In `PtrCache` the cache is a
record and `get`, `set`, `erase`, `clear` operators on it; `CertStore` uses them
for its cache of spoofed certificates, and counts references of certificates and
of the default key as OpenSSL would. `Poller` counts time in clicks of the rescan
timer and keeps, as a ghost, for how many a socket has been quiet; a second
ghost, `again`, names the sockets that were put on watch while they were on one of
the lists already (`set_idle_watch` does not look), of which `clear_idle_watch`
leaves one entry behind. `AppFlow`
numbers the bytes of each direction, so that the flow can be compared with the
traffic; a pattern is one byte of a side. `view()` of bytes that are not in the
buffer throws (`thrown`), which ends the context: every write in POST mode within
the limits does (`apphostcx.cpp:211`), and so does the first write of CONTINUOUS
mode after POST when bytes were written uncopied before (`:423`). In `MemPool` a
chunk is its bucket and number, and a buffer an address, a capacity and the owner
flag. A chunk goes back to its bucket with the capacity its owner believed in
(`stored`) and is handed out with it again, so that a request may be answered with
less than it asked for; how large the contents of a buffer are is not modelled,
so neither is what a writer does that did not look.

## 3. Runs

| Run | Instance | What it shows |
|---|---|---|
| `FdQueue` | 6 workers, 2 connections, hint sockets of 1 byte, stop allowed | ownership, hints, refinement of `Handover` (which fixes the order); queued sockets are served; a stop joins all |
| `FdQueueSingle` | 1 worker | **violated**: the socket stays in the queue |
| `MasterProxy` | 3 sub-proxies, threads from 2 on | erase, join and reaping; passes end |
| `MasterProxyThrow` | 2 sub-proxies | **violated**: a sub-proxy that throws is never reaped |
| `ProxyFlowPair` | 1-1, peers, both send 4 bytes and may close | streams, bounds, pauses, watched readers |
| `ProxyFlowOneWay` | 1-2, left sends 3 bytes | what arrives is read, what is pending is written |
| `ProxyFlowBothWays` | 1-1, both send 2 bytes | **violated**: pending bytes lose their monitor |
| `ProxyFlowFanOut` | 1-2 with the fast lane | **violated**: the second receiver misses bytes |
| `Sessions` | one TLS session; up to 3 OCSP responders; one UDP session, 2 workers, 2 slots, 3 datagrams | clean bypass, verdict before answer, progress of the handshakes, held bytes are read, late responders are survived, sessions are not lost and are served |
| `Library` | 2 connections, 3 Coms, caches of 3 and 1 entries, 1 socket with 2 handlers, 5 bytes, 3 buffers on 2 buckets, 2 contexts | verdicts, trusted sessions, counted sockets, caches, references, handlers, idleness, inspection, ownership, a proxy's contexts |
| `CrlListed` | the certificate part of `Library` | **violated**: a listed certificate passes as good |
| `UdpRefcount` | the UDP part of `Library` | **violated**: a shared socket is closed under its other user |

Why the bounds suffice. A push writes a second hint only from six workers on
(attempts and successes are counted together against half of the workers), and
one-byte hint sockets make refusals happen, so that a socket may be left to the
worker that pops next. Three
sub-proxies cover spraying, inline runs (after the list has shrunk to one) and
an entry that is erased between two others. In `ProxyFlow` the kernel takes one
byte, so every second byte makes a bottleneck; a read takes two, the write
buffer counts as full beyond one, the fast lane starts after one: with four
bytes each way a deferred read, a swap, a partial write, a bottleneck in either
or both directions and a second read before the first is flushed all occur.
`MaxSent` is the only counter bound there.

In `Sessions`, a TLS session is finite by itself: every class of hello, every
outcome of either handshake and every order of events is taken. Three responders
are one more than a query needs to go past a failed one and an https one. One UDP
session suffices because sessions meet only in the hint queue and the virtual
socket set, where the second worker is the rival; three datagrams overflow the
two slots (the code has five). In `Library`, two connections are the least that
meet in a cache; the three policies differ in what they tolerate, require and
replace. Two Coms share a key and a third has none; with two descriptors one is
reused at once. A cache of three with four keys evicts, and the store's cache of
one displaces at each new certificate, three of which may be made
(`MaxSpoofs`). `MaxTouches` bounds the counters of the LRU mode: four are enough
for a key to be above the average at the end of the queue. Handlers meet on a
descriptor, so one descriptor and two handlers show every replacement. Five
bytes exceed what is peeked (two) and what continuous mode keeps (three). Two
buckets of one chunk run empty, requests of 1 and 2 fit exactly and loosely, and
`assign()` of 2 bytes to the chunk of 3 makes its capacity shrink on the way through
the pool; a request beyond every chunk, which goes to the heap as one to an empty
bucket does, is left to the proof. `MaxHeap` bounds the fallback. Two contexts of a proxy are a bound
one and the one it accepts, or two of any kinds on one side or on both, so that
one's error breaks the loop before the other is visited.

`CHECK_DEADLOCK FALSE` is set throughout because each system may come to rest:
all connections served, the worker ended, all bytes sent.

### Findings

1. `FdQueueSingle` (`fdq.cpp:111`): with a single worker `entry_count/2` is
   zero and no hint byte is ever written.
2. `MasterProxyThrow` (`masterproxy.cpp:142`): the catch clauses leave
   `in_progress` at 1; the clean-up loop then spins on the entry (`:189`).
3. `ProxyFlowBothWays` (`baseproxy.cpp:673`): the end of one side's bottleneck
   sets the other side to `EPOLLIN`, although it may have pending bytes.
4. `ProxyFlowFanOut` (`hostcx.cpp:715`): the fast lane swap serves only the
   first of several receivers, against the comment in `baseproxy.hpp:39`.
5. `CrlListed` (`sslcertval.cpp:54`): built against OpenSSL 1.1 or later, a hit
   of the serial number in a CRL is logged and not returned, so that no
   certificate is ever revoked by a CRL. The other branch sets the result.
6. `UdpRefcount` (`udpcom.cpp:1038`): `shutdown` kills the socket also when only
   one of several references was dropped, against `udpcom.hpp:232`.

`PassEnds` and `DeadIsReaped` hold apart from finding 2, `QueuedIsServed` apart
from a refused hint and a stop: these escapes are written in the properties.
`HandshakeProgress` excludes a session whose rescan counters were exceeded, and
`LateIsSurvived` responders that fail in another way than being late.
`NoSessionLost` and `SessionServed` name the record whose hand-over failed: it stays
without context and hint, and nothing tries again. `HeldIsRead` asks for an event
of the session (`Awake`) and excludes bytes whose forced read was deferred (`late`):
a bottleneck may outlast the enforced event, and a deferred read spends the forced
flag, so that a silent session keeps such bytes until something happens on it.
`OkMeansClean` compares the verdict with what the connection was told (the history
`heard`): a staple or a last responder that says revoked forbids OK. It makes two
exceptions for what the code loses: a hit in a CRL (finding 5), and the answer of a
responder that a later one overrules (`sslcertval.cpp:572`). `RequiredStatusKnown`
counts a CRL that lists the certificate as one that knows it, for the same reason.
`IdleMeansQuiet` leaves out a socket put on watch again while it was on a list, and
`InspectionFaithful` says when `view()` throws.

## 4. Fairness

* `FdQueue`: weak fairness of the scheduler thread's own steps and of each
  worker. A worker that is dead leaves its loop because `epoll_wait` has a
  timeout. Connections, their ends and a stop request are never assumed.
* `MasterProxy`: weak fairness of the worker thread once it is in a loop, and of
  every handler: a handler does only non-blocking I/O, so it returns or throws.
  Strong fairness of `StartTimers`: `run_poll` calls `run_timers` after each
  sweep, whatever passes come in between.
* `ProxyFlow`: weak fairness of the proxy thread, strong fairness of the rescan
  timer (each `epoll::wait` looks at it first), and the remote ends receive what
  the kernel holds for them. Without the last one, a bottleneck may legitimately
  last for ever. Nobody has to send, to close, or to hint the worker.
* `TlsPair`: weak fairness of passes after an event and of dropping a failed
  session, strong fairness of the rescan timer, which expires before one of the
  waits however busy the session is. `TlsHintPass`, the pass some other socket happens to
  cause, is not assumed, and neither is anything of client and server: where
  they stay silent the properties do not ask for progress.
* `OcspQuery`: the owner calls `run()` again (weak), and a responder that neither
  fails nor is late answers in the end (strong, because calls that find nothing
  to read may come in between). Time-outs are the code's own.
* `Datagrams`: weak fairness of each worker's steps, of the context's reads, and
  of a closing that has begun. Clients owe nothing.
* The parts of `Library` have safety properties only, and no fairness.

## 5. Proofs

For every value of the constants (assumptions: the counts and sizes are natural
numbers, positive where the code needs it, and the sets are finite):

* `FdQueue_proofs`. `IndInv` adds to the types: which socket `push_all` works
  on (`BusyFd`), that hint bytes belong to pushed sockets (`HintsOfPushed`), and
  how far the notify loop got (`NotifyProgress`). `HintCoverage` is not
  inductive alone: a write of a hint takes the socket out of `silent` and adds a
  byte, which only keeps the sum because the byte is new, i.e. because the pair
  (worker, socket) is not in the pipe yet. `SilentOnlyIfRefused` needs that the
  first iteration always attempts a write, hence the part on `wsum` and the
  number of candidates. `OwnedOnce` needs `HeldWhileServing`, and with it
  `ImplementsHandover` maps each step to a step of `Handover` or a stutter.
  `ServedInOrder` states the order of service, `FifoOrder`, on its own.
* `MasterProxy_proofs`. `IndInv` says that loops only concern listed entries,
  that a handler under way has a thread in a listed entry or is the inline call
  the worker waits for, and that the clean-up phase has joined everything it has
  passed (`HandlersOwned`); `CounterFollows` ties `in_progress` to the handler.
  The counter alone does not protect an entry: a sprayed thread may not have
  incremented it yet. What does is the join.
* `ProxyFlow_proofs`. `IndInv` is the type invariant, the bound on what the
  kernel holds (so that a partial write leaves something behind) and
  `NoStaleNeck`, which is then inductive for any number of sockets a side.
  `ReadersWatched` speaks of a sleeping proxy; `Watched` says the same while it is
  awake, and that a monitored socket is monitored for reading, since a bottleneck
  takes sockets out of epoll and its end or the rescan timer puts them back in
  another pass. `StreamIntact` and `BufferBounded` are proved for one socket a side,
  for all sizes of reads and buffers. With two receivers both are false: the first
  by the swap (`ProxyFlowFanOut`), the second because the first receiver to drain
  ends the bottleneck of its side (`Resume`) while the other's bytes are pending, so
  that reads go on and its buffer grows. `PairInv` has two parts. `InOrder`: what the
  kernel holds continues what is on the path to the other side, each numbered
  without a gap, so that a read, a partial write and a receipt only move the
  borders. `Drained`: a pass leaves bytes pending only with a bottleneck, which
  keeps the next read away from them; in between they may be pending from the
  loop that reads for a side to the one that writes to it (`MayBePending`).
* `CertStatus_proofs`. The three verdict properties speak of a connection that is
  done; `CertInv` says what `verify_get()` may hold on the way there:
  `FlagsBefore` for the callbacks up to the status check (the queries of a clean
  chain start from no flag at all, so that the first answer decides),
  `FlagsAfter` and `RequiredSoFar` for the ones behind it. `TrustedSessions` is
  part of it: `check_cert` runs before the session is stored and adds to the
  verdict it is stored with, and
  `CrlLoopGuarded` says whose the lock of `crl_cache` is. Connections, policies and
  distribution points are any; the errors are among those the options can allow.
  For `OcspQuery` the type holds the bound of the responder's index; `OcspInv`
  adds that a query with a connection is at one of its targets, since only such
  a query advances the index.
* `Udp_proofs`. `EntryIsHeld` and the type are inductive for any finite set of
  Coms. `NoSessionLost` is inductive with the type, for any sessions, workers and
  slots; a worker that takes one hint and then reads for all its sessions needs
  lemmas on what a read leaves alone (`SameHints`). A session whose hand-over failed
  is in `failed`, and the invariant says no more of it.
* `Contexts_proofs`. `HandlersAlive` needs `Registered`: a destroyed handler cleans
  up what it remembers, so every entry of the registry must be remembered by the
  handler it names, also after another took its descriptor. `IdleMeansQuiet` is an
  action property; `RoundCounts` ties `idle_counter` to the ghost of the watched
  sockets, which were taken over at the start of a round. It leaves out the sockets
  in `again`, which are on both lists or on one that an event did not clear.
  `PxInv` holds of a proxy at every visit within a pass. It keeps every context
  on one shelf, a list or the trash can (`KeptOnce`), says that permanent
  contexts are those of the permanent lists (`ShelvedRight`) and that only such a
  one has a descriptor again after a shutdown (`CxSound`), which is why nothing
  else can lose one. `ContextsKept` is not kept by the single visits of the
  delayed contexts: a visit appends a context to the sockets, and only the erase
  behind the loop takes the accepted ones out of the vector. In between the
  loop has its own invariant: what is in both vectors are the accepted contexts
  visited so far (`Accepted`). The visits depend on the vectors as they were when the loop began,
  so the proof follows the loop by its iterations.
  `AppInv` is `InspectionFaithful` with the facts that make it inductive. In PRE mode
  a read below `max_detect_bytes` has taken all that was peeked; a read shorter
  than its peek fills the buffer, which is no smaller than `max_detect_bytes`
  (`DetectFitsBuffer`), so that the gap between the two counters comes with the
  end of peeking and `view()` never throws there. In POST mode nothing written was
  ever copied, so `post_write` within the ranges always throws, and CONTINUOUS mode
  either throws at its first write, if POST left bytes written and uncopied, or
  copies every later one (`ToContinuous`, `PreWriteGood`). A result of
  a signature lies no later than the entry examined last, which with the number
  of dropped entries only grows; in each call of `flowMatch::match` either all
  elements are found or the number of results is that of the entry just examined.
* `TlsPair_proofs`. `VerdictFirst` needs `PausedUntilReady` (only a `com_status` of
  the server side that is true lets the client side go), `BypassUntouched` needs
  `HelloAfterClient`. The operators of the module return sets of sessions; a
  lemma for each says which fields it leaves and that it keeps `TlsInv`.
* `Stores_proofs`. `PcInv` is `QueueCoversCache` with the types and bounds of the
  counters. It is proved of the operators on any cache record (`Covered`), so that
  `CertStore` uses the same lemmas for `cert_mitm_cache_`. `StoreInv` adds to
  `StoreSound` that cache and certificates match (`EntriesMatch`: a certificate
  is in the cache for the one key it was made for, so a displaced entry is one
  reference), that what was lent was lent as asked (`LentAsAsked`: `StoreSound`
  only speaks of sessions that serve), and that nothing exists before the factory
  is ready (`ColdIsEmpty`). Requests, sessions and cache size are any.
  `SoleOwner`, which bounds what owners and buckets believe a chunk to hold by what
  there is (`Room`), and the type of the pool are inductive together, for any
  buffers, bucket sizes and requests; every operation of a buffer is an `acquire`, a
  `release` and a move of addresses, and each has a lemma on who owns what while
  one buffer is being rebuilt (`Owned`).

The assumptions are the ones named in the modules: sizes and bounds are natural
numbers (positive where an empty queue would make no sense), sets of Coms,
descriptors, sockets and sub-proxies are finite where something is counted, and
the values that stand for nobody are none of the things; signatures are
sequences of elements (`SignaturesAssumption`), and `max_detect_bytes` fits the
read buffer, as its default does (`DetectFitsBuffer`). `TypeOK` of the runs
`Sessions` and `Library` is the conjunction of the types of their components; each
of these is proved, of its component's own specification.

Induction over data is out of the provers' reach in its usual form, with the
property as a parameter. Loops are therefore recursive functions over `0..n`:
`Run` shows by the least counterexample (`LeastOf`, from the well-foundedness of
`<`) that a function with these steps exists, so that the recursive definition
has its intended value, and `UpTo` that a set of numbers which contains 0, and
with each number the next, contains all of them up to `n`.

Only model-checked: all liveness, which is beyond the prover (`SessionServed`,
`HeldIsRead`, `HandshakeProgress`, the others of section 3). The constructor-time
set-up of hint sockets is before `Init`.

## 6. Plan

Done: hand-over, sub-proxies, flow, a proxy's contexts; TLS sessions, OCSP queries and certificate
verdicts; UDP sessions and their sockets; `ptr_cache`, the certificate store, the
poller, traffic inspection and memory ownership. Every safety property of a component is proved for all
values of its constants (`StreamIntact` and `BufferBounded` for one socket a
side, with more they do not hold). What is left:
what bounds the buffers of several receivers, if anything but what the remote
ends send.

## 7. Not modelled

* **Within modelled components**: hooks that leave bytes in the read buffer
  (`process_in` overrides, hence the stale `processed_in_` in `finish()`), the 50
  event slots of one `epoll_wait` round, DTLS cookies, key logs, ALPN, the portal
  certificate, regular expressions of signatures, the STARTTLS upgrade, the debug
  build of the pool. `PROJECT.json` says so at each component.
* **`Peering`**: a proxy and both its contexts live on one worker, so that the
  window between the owner pointer and the lock is not entered by a session.
* **Traffic log and PCAP**: files and encoding, one lock around each operation.
  The writer thread drops queued entries when it is stopped; that is a line of
  its loop and needs no model to see.
* **Logging, `sobject` registry, `SocketInfo`, shared memory tables, LTV, number
  and string utilities**: display, registries and conversions on which none of
  the properties rests.
