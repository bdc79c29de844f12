------------------------------- MODULE FdQueue -------------------------------
(***************************************************************************)
(* The hand-over of accepted sockets from the acceptor thread to its       *)
(* worker threads: class FdQueue (fdq.hpp, fdq.cpp), the acceptor          *)
(* ThreadedAcceptor and the worker ThreadedAcceptorProxy                   *)
(* (threadedacceptor.cpp), and the worker pool hasWorkers                  *)
(* (threadedworker.hpp).                                                   *)
(*                                                                         *)
(* One thread, the scheduler, accepts sockets and calls push_all; each     *)
(* worker sleeps in epoll until its hint socket is readable and then calls *)
(* pop.  sq_lock_ makes the deque operations atomic; everything else in    *)
(* push_all and pop (the loads, the hint bytes, the feedback flag) runs    *)
(* outside of it and is one step per shared access here.                   *)
(***************************************************************************)
EXTENDS Integers, Sequences, FiniteSets

CONSTANTS
    NWorkers,       \* number of workers that create_workers() made
    Fds,            \* the client sockets that may arrive
    PipeCapacity,   \* hint bytes a hint socket takes before write() fails
    MayStop         \* whether the acceptor may be told to stop (state().dead)

ASSUME NWorkersAssumption == NWorkers \in Nat
ASSUME FdsAssumption == IsFiniteSet(Fds)
ASSUME PipeCapacityAssumption == PipeCapacity \in Nat
ASSUME MayStopAssumption == MayStop \in BOOLEAN

Workers == 0 .. NWorkers - 1    \* worker ids, the keys of hint_pairs_

NoFd == "NoFd"                  \* pop() returned 0
ASSUME NoFdAssumption == NoFd \notin Fds

VARIABLES
    fresh,      \* sockets the kernel has not handed to accept() yet
    sq,         \* sq_: Append is push_front, Head is back()
    hints,      \* bytes in the hint sockets: <<w, f>> is the byte that the
                \* push of f wrote to worker w
    load,       \* hint_pairs_[w].seen_worker_load
    feedback,   \* WorkerPipe::feedback_queue_empty
    spc,        \* the scheduler's place in push_all and in its life
    sfd,        \* the argument of push_all
    cand,       \* candidates: workers by seen load, then by id
    wsum,       \* written_sum
    wpc,        \* each worker's place in its loop
    wfd,        \* the socket each worker has popped and not handed over yet
    dead,       \* each worker's state().dead()
    stopped,    \* the acceptor's state().dead()
    proxies,    \* the sub-proxies of each worker, named by their socket
    closed,     \* sockets no worker serves any more
    pushed,     \* ghost: everything ever pushed, in order
    popped,     \* ghost: everything ever popped, in order
    silent,     \* ghost: sockets for which no hint byte was written so far
    refused     \* ghost: sockets for which a write of a hint byte failed

queueVars == <<sq, hints, load, feedback>>
schedVars == <<spc, sfd, cand, wsum>>
workerVars == <<wpc, wfd, dead, proxies>>
ghostVars == <<pushed, popped, silent, refused>>
vars == <<fresh, queueVars, schedVars, workerVars, stopped, closed, ghostVars>>

SchedulerStates ==
    {"idle", "collect", "notify", "check", "reset", "joining", "joined"}
WorkerStates == {"poll", "read", "lock", "serve", "exited"}

Queued == {sq[i] : i \in 1 .. Len(sq)}   \* the sockets in the deque

Init ==
    /\ fresh = Fds
    /\ sq = <<>>
    /\ hints = {}
    /\ load = [w \in Workers |-> 0]
    /\ feedback = FALSE
    /\ spc = "idle"
    /\ sfd = NoFd
    /\ cand = <<>>
    /\ wsum = 0
    /\ wpc = [w \in Workers |-> "poll"]
    /\ wfd = [w \in Workers |-> NoFd]
    /\ dead = [w \in Workers |-> FALSE]
    /\ stopped = FALSE
    /\ proxies = [w \in Workers |-> {}]
    /\ closed = {}
    /\ pushed = <<>>
    /\ popped = <<>>
    /\ silent = {}
    /\ refused = {}

-----------------------------------------------------------------------------
(* The scheduler: handle_sockets_accept, on_left_new_raw and push_all.     *)

\* Mutant: the new socket goes to the end that pop() takes from.
PushBack(q, f) == <<f>> \o q

PushFront(q, f) == Append(q, f)

\* accept() returned f and push_all put it in the deque under sq_lock_.
PushEnqueue(f) ==
    /\ spc = "idle"
    /\ f \in fresh
    /\ fresh' = fresh \ {f}
    /\ sq' = PushFront(sq, f)
    /\ sfd' = f
    /\ cand' = <<>>
    /\ wsum' = 0
    /\ spc' = "collect"
    /\ pushed' = Append(pushed, f)
    /\ silent' = silent \cup {f}
    /\ UNCHANGED <<hints, load, feedback, workerVars, stopped, closed, popped,
                   refused>>

\* Mutant: worker ids are counted from one.
InsertFromOne(s, e) == Append(s, [e EXCEPT !.id = @ + 1])

\* multimap::insert: after the entries whose load is not larger.
InsertByLoad(s, e) ==
    LET n == Cardinality({i \in 1 .. Len(s) : s[i].load <= e.load})
    IN  SubSeq(s, 1, n) \o <<e>> \o SubSeq(s, n + 1, Len(s))

\* The loop over hint_pairs_ reads one worker's load at a time, by id.
PushCollect ==
    /\ spc = "collect"
    /\ LET w == Len(cand)
       IN  IF w \in Workers
           THEN /\ cand' = InsertByLoad(cand, [load |-> load[w], id |-> w])
                /\ spc' = spc
           ELSE /\ cand' = cand
                /\ spc' = "notify"
    /\ UNCHANGED <<fresh, queueVars, sfd, wsum, workerVars, stopped, closed,
                   ghostVars>>

\* Mutant: the feedback flag is looked at before the first write.
NotifyDoneEarly == cand = <<>> \/ feedback \/ wsum + 1 > NWorkers \div 2

\* The loop is over: no candidate is left, or ++written_sum exceeds half of
\* the workers.
NotifyDone == cand = <<>> \/ wsum + 1 > NWorkers \div 2

PushReturn ==
    /\ spc = "notify"
    /\ NotifyDone
    /\ spc' = "idle"
    /\ cand' = <<>>
    /\ wsum' = 0
    /\ sfd' = NoFd
    /\ UNCHANGED <<fresh, queueVars, workerVars, stopped, closed, ghostVars>>

PipeFull(w) == Cardinality({h \in hints : h[1] = w}) >= PipeCapacity

\* write_to_socket() to the next candidate; a full hint socket refuses it.
PushWrite ==
    /\ spc = "notify"
    /\ ~NotifyDone
    /\ LET w == Head(cand).id
       IN  IF PipeFull(w)
           THEN /\ wsum' = wsum + 1
                /\ refused' = refused \cup {sfd}
                /\ UNCHANGED <<hints, silent>>
           ELSE /\ wsum' = wsum + 2
                /\ hints' = hints \cup {<<w, sfd>>}
                /\ silent' = silent \ {sfd}
                /\ UNCHANGED refused
    /\ cand' = Tail(cand)
    /\ spc' = "check"
    /\ UNCHANGED <<fresh, sq, load, feedback, sfd, workerVars, stopped, closed,
                   pushed, popped>>

\* if(feedback_queue_empty): the load and the store that follows are two
\* accesses to the atomic.
PushCheckFeedback ==
    /\ spc = "check"
    /\ spc' = IF feedback THEN "reset" ELSE "notify"
    /\ UNCHANGED <<fresh, queueVars, sfd, cand, wsum, workerVars, stopped,
                   closed, ghostVars>>

PushResetFeedback ==
    /\ spc = "reset"
    /\ feedback' = FALSE
    /\ spc' = "idle"
    /\ cand' = <<>>
    /\ wsum' = 0
    /\ sfd' = NoFd
    /\ UNCHANGED <<fresh, sq, hints, load, workerVars, stopped, closed,
                   ghostVars>>

\* Somebody sets the acceptor's state().dead().
Stop ==
    /\ MayStop
    /\ ~stopped
    /\ stopped' = TRUE
    /\ UNCHANGED <<fresh, queueVars, schedVars, workerVars, closed, ghostVars>>

\* Mutant: only the first worker is told to end.
JoinMarkFirst ==
    /\ spc = "idle"
    /\ stopped
    /\ spc' = "joining"
    /\ dead' = [dead EXCEPT ![0] = TRUE]
    /\ UNCHANGED <<fresh, queueVars, sfd, cand, wsum, wpc, wfd, proxies,
                   stopped, closed, ghostVars>>

\* baseProxy::run() returns, ~hasWorkers calls join_workers: first mark all.
JoinMark ==
    /\ spc = "idle"
    /\ stopped
    /\ spc' = "joining"
    /\ dead' = [w \in Workers |-> TRUE]
    /\ UNCHANGED <<fresh, queueVars, sfd, cand, wsum, wpc, wfd, proxies,
                   stopped, closed, ghostVars>>

\* ... then join each thread and destroy the workers with their sub-proxies.
JoinWait ==
    /\ spc = "joining"
    /\ \A w \in Workers : wpc[w] = "exited"
    /\ spc' = "joined"
    /\ closed' = closed \cup UNION {proxies[w] : w \in Workers}
    /\ proxies' = [w \in Workers |-> {}]
    /\ UNCHANGED <<fresh, queueVars, sfd, cand, wsum, wpc, wfd, dead, stopped,
                   ghostVars>>

-----------------------------------------------------------------------------
(* A worker: baseProxy::run and ThreadedAcceptorProxy::handle_sockets_once *)

\* epoll reports the hint socket; handle_sockets_once looks at the parent
\* and reports its load.
WorkerWake(w) ==
    /\ wpc[w] = "poll"
    /\ \E h \in hints : h[1] = w
    /\ dead' = [dead EXCEPT ![w] = @ \/ stopped]
    /\ load' = [load EXCEPT ![w] = Cardinality(proxies[w])]
    /\ wpc' = [wpc EXCEPT ![w] = "read"]
    /\ UNCHANGED <<fresh, sq, hints, feedback, schedVars, wfd, proxies, stopped,
                   closed, ghostVars>>

\* pop(): read one hint byte.  Bytes are alike, so any of them goes.  Nobody
\* else reads w's hint socket, so the byte that woke w is still there.
WorkerReadHint(w) ==
    /\ wpc[w] = "read"
    /\ \E h \in hints :
          /\ h[1] = w
          /\ hints' = hints \ {h}
    /\ wpc' = [wpc EXCEPT ![w] = "lock"]
    /\ UNCHANGED <<fresh, sq, load, feedback, schedVars, wfd, dead, proxies,
                   stopped, closed, ghostVars>>

\* Mutant: pop() leaves the last socket in the queue.
NearlyEmpty(q) == Len(q) <= 1

SqEmpty(q) == q = <<>>

\* Mutant: the socket that is returned stays in the queue.
KeepBack(q) == q

PopBack(q) == Tail(q)

\* pop(), under sq_lock_.
WorkerPop(w) ==
    /\ wpc[w] = "lock"
    /\ IF SqEmpty(sq)
       THEN /\ feedback' = TRUE
            /\ UNCHANGED <<sq, wfd, popped>>
       ELSE /\ wfd' = [wfd EXCEPT ![w] = Head(sq)]
            /\ sq' = PopBack(sq)
            /\ popped' = Append(popped, Head(sq))
            /\ feedback' = (feedback \/ PopBack(sq) = <<>>)
    /\ wpc' = [wpc EXCEPT ![w] = "serve"]
    /\ UNCHANGED <<fresh, hints, load, schedVars, dead, proxies, stopped,
                   closed, pushed, silent, refused>>

\* The rest of handle_sockets_once: the popped socket gets a sub-proxy, or a
\* com_error ends its service; MasterProxy::handle_sockets_once then drops every
\* sub-proxy when this worker is dead.  A com_error of the look-up
\* closes the socket with its context; one thrown before there is a context, or
\* by on_left_new, which has been given it (line 127), leaves the socket open
\* with nobody to close it.
WorkerServe(w) ==
    /\ wpc[w] = "serve"
    /\ \E accepted \in BOOLEAN :
          LET new  == IF wfd[w] = NoFd THEN {} ELSE {wfd[w]}
              kept == IF accepted THEN proxies[w] \cup new ELSE proxies[w]
              lost == IF accepted THEN {} ELSE new
          IN  IF dead[w]
              THEN /\ proxies' = [proxies EXCEPT ![w] = {}]
                   /\ closed' = closed \cup kept \cup lost
              ELSE /\ proxies' = [proxies EXCEPT ![w] = kept]
                   /\ closed' = closed \cup lost
    /\ wfd' = [wfd EXCEPT ![w] = NoFd]
    /\ wpc' = [wpc EXCEPT ![w] = "poll"]
    /\ UNCHANGED <<fresh, queueVars, schedVars, dead, stopped, ghostVars>>

\* A sub-proxy of w finishes and the worker drops it.
WorkerProxyDone(w, f) ==
    /\ wpc[w] = "poll"
    /\ f \in proxies[w]
    /\ proxies' = [proxies EXCEPT ![w] = @ \ {f}]
    /\ closed' = closed \cup {f}
    /\ UNCHANGED <<fresh, queueVars, schedVars, wpc, wfd, dead, stopped,
                   ghostVars>>

\* epoll returns at the latest after its timeout; while(! state().dead()).
WorkerExit(w) ==
    /\ wpc[w] = "poll"
    /\ dead[w]
    /\ wpc' = [wpc EXCEPT ![w] = "exited"]
    /\ UNCHANGED <<fresh, queueVars, schedVars, wfd, dead, proxies, stopped,
                   closed, ghostVars>>

-----------------------------------------------------------------------------
SchedulerNext ==
    \/ PushCollect
    \/ PushReturn
    \/ PushWrite
    \/ PushCheckFeedback
    \/ PushResetFeedback
    \/ JoinMark
    \/ JoinWait

WorkerNext(w) ==
    \/ WorkerWake(w)
    \/ WorkerReadHint(w)
    \/ WorkerPop(w)
    \/ WorkerServe(w)
    \/ WorkerExit(w)

Next ==
    \/ \E f \in Fds : PushEnqueue(f)
    \/ SchedulerNext
    \/ Stop
    \/ \E w \in Workers : WorkerNext(w)
    \/ \E w \in Workers, f \in Fds : WorkerProxyDone(w, f)

\* Every thread that can take a step is eventually scheduled.  Nothing is
\* assumed about whether connections arrive or end, or a stop request comes.
Fairness ==
    /\ WF_vars(SchedulerNext)
    /\ \A w \in Workers : WF_vars(WorkerNext(w))

Spec == Init /\ [][Next]_vars /\ Fairness

-----------------------------------------------------------------------------
(* Properties.                                                             *)

\* The type invariant: the shape of the queue, of the hint sockets and of
\* every thread's local state.
TypeOK ==
    /\ fresh \in SUBSET Fds
    /\ sq \in Seq(Fds)
    /\ hints \in SUBSET (Workers \X Fds)
    /\ load \in [Workers -> Nat]
    /\ feedback \in BOOLEAN
    /\ spc \in SchedulerStates
    /\ sfd \in Fds \cup {NoFd}
    /\ cand \in Seq([load : Nat, id : Workers])
    /\ wsum \in Nat
    /\ wpc \in [Workers -> WorkerStates]
    /\ wfd \in [Workers -> Fds \cup {NoFd}]
    /\ dead \in [Workers -> BOOLEAN]
    /\ stopped \in BOOLEAN
    /\ proxies \in [Workers -> SUBSET Fds]
    /\ closed \in SUBSET Fds
    /\ pushed \in Seq(Fds)
    /\ popped \in Seq(Fds)
    /\ silent \in SUBSET Fds
    /\ refused \in SUBSET Fds

\* The queue serves sockets in the order of their accept, however pushes and
\* pops of several workers interleave: what was popped, followed by what is
\* queued, is what was pushed (push_front with back/pop_back).
FifoOrder == pushed = popped \o sq

\* The sockets a worker is responsible for: the one it popped and those of
\* its sub-proxies.
HeldBy(w) == proxies[w] \cup ({wfd[w]} \ {NoFd})

Held == UNION {HeldBy(w) : w \in Workers}

\* No accepted socket is lost and none is given to two workers: at every
\* moment, also while workers stop or fail to make a sub-proxy, a socket is
\* queued once, held by one worker, or no longer served.
OwnedOnce ==
    /\ \A i, j \in 1 .. Len(sq) : sq[i] = sq[j] => i = j
    /\ \A v, w \in Workers : v # w => HeldBy(v) \cap HeldBy(w) = {}
    /\ \A w \in Workers : wfd[w] \notin proxies[w]
    /\ Fds = fresh \cup Queued \cup Held \cup closed
    /\ fresh \cap (Queued \cup Held \cup closed) = {}
    /\ Queued \cap (Held \cup closed) = {}
    /\ Held \cap closed = {}

MidPop == {w \in Workers : wpc[w] = "lock"}

\* A queued socket is always accounted for by a wake-up: there are at most
\* as many queued sockets as hint bytes not read yet, workers between their
\* read of a byte and their pop, and pushes that wrote no byte.  So when all
\* hints are used up, only sockets pushed without a hint are still queued.
HintCoverage ==
    Len(sq) <= Cardinality(hints) + Cardinality(MidPop) + Cardinality(silent)

\* With two workers or more, push_all returns without having written any
\* hint byte only if a hint socket refused one: the feedback flag, which may
\* be stale, never suppresses the first wake-up.
SilentOnlyIfRefused ==
    (NWorkers >= 2 /\ spc = "idle") => silent \subseteq refused

-----------------------------------------------------------------------------
(* The inductive invariant behind FifoOrder, HintCoverage and              *)
(* SilentOnlyIfRefused.                                                    *)

SchedulerBusy == spc \in {"collect", "notify", "check", "reset"}

\* push_all works on a socket that was accepted.
BusyFd == SchedulerBusy => sfd \in Fds \ fresh

\* Hint bytes belong to sockets that were pushed with a hint.
HintsOfPushed ==
    /\ \A h \in hints : h[2] \notin fresh \cup silent
    /\ silent \cap fresh = {}

\* How far push_all got with the candidates and with the first hint byte.
NotifyProgress ==
    /\ spc = "collect" => (wsum = 0 /\ Len(cand) <= NWorkers)
    /\ (spc = "notify" /\ wsum = 0) => Len(cand) = NWorkers
    /\ spc \in {"check", "reset"} => wsum > 0
    /\ (spc \in {"notify", "check", "reset"} /\ wsum > 0)
           => (sfd \in refused \/ sfd \notin silent)
    /\ NWorkers >= 2
           => silent \subseteq refused \cup (IF SchedulerBusy THEN {sfd} ELSE {})

\* The inductive invariant: what push_all has done so far explains every
\* queued socket that no hint byte and no worker accounts for.
IndInv ==
    /\ TypeOK
    /\ BusyFd
    /\ HintsOfPushed
    /\ NotifyProgress
    /\ FifoOrder
    /\ HintCoverage

\* A worker holds a popped socket only until the end of handle_sockets_once.
HeldWhileServing == \A w \in Workers : wfd[w] # NoFd => wpc[w] = "serve"

-----------------------------------------------------------------------------
(* Refinement: the hand-over that the threads implement.                   *)

StatusOf(f) ==
    CASE f \in fresh  -> "arriving"
      [] f \in Queued -> "waiting"
      [] f \in closed -> "closed"
      [] OTHER        -> "served"

H == INSTANCE Handover WITH status <- [f \in Fds |-> StatusOf(f)], line <- sq

\* The acceptor, its queue and its workers together behave as Handover says:
\* a socket never goes back in line, is never served twice or out of turn,
\* and its service is ended only by the worker that gives it.
HandoverSpec == H!Spec

-----------------------------------------------------------------------------
(* Liveness.                                                               *)

\* Every queued socket is eventually taken out by some worker, unless the
\* acceptor is told to stop (then what is queued is abandoned) or a full hint
\* socket has swallowed a wake-up.
QueuedIsServed ==
    \A f \in Fds :
        f \in Queued ~> (f \notin Queued \/ stopped \/ refused # {})

\* A stop request ends with every worker thread joined, whatever each of
\* them is doing when it arrives.
StopJoinsAll == stopped ~> (spc = "joined")

=============================================================================
