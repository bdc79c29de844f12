------------------------------ MODULE ProxyFlow ------------------------------
(***************************************************************************)
(* Bytes through a left-right proxy: the poll loop and the passes of       *)
(* baseProxy (baseproxy.cpp), the copying of SimpleLRProxy (lrproxy.cpp),  *)
(* the buffers of baseHostCX (hostcx.cpp) and the monitors of epoll        *)
(* (common/epoll.cpp) with TCP underneath.                                 *)
(*                                                                         *)
(* The proxy is one thread; a pass of handle_sockets_once is a series of   *)
(* reads and writes of single sockets.  The remote ends and the kernel     *)
(* buffers move between any two of them.  The connections are established, *)
(* so com_status() holds, and write_waiting_for_peercom is never set.      *)
(***************************************************************************)
EXTENDS Integers, Sequences, FiniteSets

CONSTANTS
    NLeft, NRight,  \* number of left_sockets and of right_sockets
    Peered,         \* whether left and right contexts are peers, pairwise
    ReadMax,        \* most bytes that one read() takes: maximal buffer size
    WriteFull,      \* params_t::write_full
    FastCopyStart,  \* params_t::fast_copy_start
    KernelCap,      \* bytes that the kernel takes for sending
    MaxSent,        \* bound: bytes that a remote end sends
    Senders,        \* the sides whose remote ends send
    MayClose        \* whether remote ends may close

ASSUME SidesAssumption == NLeft \in Nat \ {0} /\ NRight \in Nat \ {0}
ASSUME FlagsAssumption == Peered \in BOOLEAN /\ MayClose \in BOOLEAN
ASSUME SizesAssumption ==
    /\ ReadMax \in Nat \ {0} /\ KernelCap \in Nat \ {0}
    /\ WriteFull \in Nat /\ FastCopyStart \in Nat /\ MaxSent \in Nat
ASSUME SendersAssumption == Senders \subseteq {"l", "r"}

Sides == {"l", "r"}
Other(side) == IF side = "l" THEN "r" ELSE "l"
Size(side) == IF side = "l" THEN NLeft ELSE NRight
SocketsOf(side) == {side} \X (1 .. Size(side))
Sockets == SocketsOf("l") \cup SocketsOf("r")
Opposite(s) == SocketsOf(Other(s[1]))

Hint == <<"hint", 0>>      \* the worker's hint socket
NoSocket == <<"none", 0>>

VARIABLES
    \* The network: bytes are <<sender, number>>.
    sent,       \* how many bytes each remote end has sent
    rx,         \* received by the kernel, not read by the proxy
    tx,         \* written by the proxy, not received by the remote end
    got,        \* received by the remote end
    fin,        \* the remote end has closed
    \* The contexts.
    wbuf,       \* writebuf_
    rescanFlag, \* rescan_out_flag_
    paused,     \* read_waiting_for_peercom_
    closed,     \* shutdown() was called: socket() is 0
    neck,       \* write_left_bottleneck, write_right_bottleneck
    \* The poller.
    mon,        \* epoll interest of each socket; {} is not monitored
    rescanIn,   \* rescan_set_in
    rescanOut,  \* rescan_set_out
    inSet,      \* in_set
    outSet,     \* out_set
    \* The proxy thread.
    pc,         \* wait in epoll, poll through the sets, or in a pass
    cur,        \* the socket whose event is being handled
    loop, pos   \* which of its four loops a pass is in, and at which socket

netVars == <<sent, rx, tx, got, fin>>
cxVars == <<wbuf, rescanFlag, paused, closed, neck>>
pollVars == <<mon, rescanIn, rescanOut>>
loopVars == <<inSet, outSet, pc, cur>>
passVars == <<loop, pos>>
vars == <<netVars, cxVars, pollVars, loopVars, passVars>>

Init ==
    /\ sent = [s \in Sockets |-> 0]
    /\ rx = [s \in Sockets |-> <<>>]
    /\ tx = [s \in Sockets |-> <<>>]
    /\ got = [s \in Sockets |-> <<>>]
    /\ fin = [s \in Sockets |-> FALSE]
    /\ wbuf = [s \in Sockets |-> <<>>]
    /\ rescanFlag = [s \in Sockets |-> FALSE]
    /\ paused = [s \in Sockets |-> FALSE]
    /\ closed = [s \in Sockets |-> FALSE]
    /\ neck = [side \in Sides |-> FALSE]
    /\ mon = [s \in Sockets |-> {"in"}]
    /\ rescanIn = {} /\ rescanOut = {}
    /\ inSet = {} /\ outSet = {}
    /\ pc = "wait"
    /\ cur = NoSocket
    /\ loop = 5 /\ pos = 1

-----------------------------------------------------------------------------
(* The remote ends and the kernel.                                         *)

PeerSend(s) ==
    /\ s[1] \in Senders
    /\ sent[s] < MaxSent /\ ~fin[s]
    /\ sent' = [sent EXCEPT ![s] = @ + 1]
    /\ rx' = [rx EXCEPT ![s] = Append(@, <<s, sent[s] + 1>>)]
    /\ UNCHANGED <<tx, got, fin, cxVars, pollVars, loopVars, passVars>>

PeerRecv(s) ==
    /\ tx[s] # <<>>
    /\ got' = [got EXCEPT ![s] = Append(@, Head(tx[s]))]
    /\ tx' = [tx EXCEPT ![s] = Tail(@)]
    /\ UNCHANGED <<sent, rx, fin, cxVars, pollVars, loopVars, passVars>>

PeerClose(s) ==
    /\ MayClose /\ ~fin[s]
    /\ fin' = [fin EXCEPT ![s] = TRUE]
    /\ UNCHANGED <<sent, rx, tx, got, cxVars, pollVars, loopVars, passVars>>

-----------------------------------------------------------------------------
(* The poll loop: epoll::wait, run_poll and run_poll_socket.               *)

\* Mutant: the rescan sets are cleared and nothing is added.
RescanForgets ==
    /\ pc = "wait"
    /\ rescanIn \cup rescanOut # {}
    /\ rescanIn' = {} /\ rescanOut' = {}
    /\ UNCHANGED <<mon, netVars, cxVars, loopVars, passVars>>

\* The rescan timer: epoll_ctl(ADD) leaves a monitored socket as it is.
Rescan ==
    /\ pc = "wait"
    /\ rescanIn \cup rescanOut # {}
    /\ mon' = [s \in Sockets |->
                  IF mon[s] # {} THEN mon[s]
                  ELSE IF s \in rescanIn THEN {"in"}
                  ELSE IF s \in rescanOut THEN {"in", "out"}
                  ELSE {}]
    /\ rescanIn' = {} /\ rescanOut' = {}
    /\ UNCHANGED <<netVars, cxVars, loopVars, passVars>>

Readable(s) == "in" \in mon[s] /\ (rx[s] # <<>> \/ fin[s])
Writable(s) == "out" \in mon[s] /\ Len(tx[s]) < KernelCap

\* A socket that is readable is not reported as writable.
ReadySets(hinted) ==
    /\ inSet' = {s \in Sockets : Readable(s)} \cup (IF hinted THEN {Hint} ELSE {})
    /\ outSet' = {s \in Sockets : Writable(s) /\ ~Readable(s)}

\* epoll_wait returns with the ready sockets, the worker's hint among them
\* when hinted.  auto_epollout_remove: one that is reported writable is
\* monitored for reading only from then on.
Poll(hinted) ==
    /\ pc = "wait"
    /\ ReadySets(hinted)
    /\ inSet' \cup outSet' # {}
    /\ mon' = [s \in Sockets |-> IF s \in outSet' THEN {"in"} ELSE mon[s]]
    /\ pc' = "poll"
    /\ UNCHANGED <<netVars, cxVars, rescanIn, rescanOut, cur, passVars>>

\* handle_sockets_once: four loops, one after the other.
Loops == << <<"read", "l">>, <<"read", "r">>, <<"write", "l">>, <<"write", "r">> >>

\* run_poll_socket: the proxy is the handler of every open socket, and the
\* one that answers the hint.
StartPass(s) ==
    /\ pc = "poll"
    /\ s \in IF inSet # {} THEN inSet ELSE outSet
    /\ s \in Sockets => ~closed[s]
    /\ cur' = s
    /\ loop' = 1 /\ pos' = 1
    /\ pc' = "pass"
    /\ UNCHANGED <<netVars, cxVars, pollVars, inSet, outSet>>

LoopPc == IF inSet' \cup outSet' = {} THEN "wait" ELSE "poll"

\* A socket without a handler is removed from epoll.
NullHandler(s) ==
    /\ pc = "poll"
    /\ s \in (IF inSet # {} THEN inSet ELSE outSet) \ {Hint}
    /\ closed[s]
    /\ mon' = [mon EXCEPT ![s] = {}]
    /\ inSet' = inSet \ {s}
    /\ outSet' = outSet \ {s}
    /\ pc' = LoopPc
    /\ UNCHANGED <<netVars, cxVars, rescanIn, rescanOut, cur, passVars>>

EndPass ==
    /\ pc = "pass"
    /\ loop > Len(Loops)
    /\ inSet' = inSet \ {cur}
    /\ outSet' = outSet \ {cur}
    /\ cur' = NoSocket
    /\ pc' = LoopPc
    /\ UNCHANGED <<netVars, cxVars, pollVars, passVars>>

-----------------------------------------------------------------------------
(* Reading: handle_cx_read_once, baseHostCX::read and on_*_bytes.          *)

\* The pass is at socket s of a loop that does op.
Current(op, s) ==
    /\ pc = "pass"
    /\ loop <= Len(Loops)
    /\ Loops[loop] = <<op, s[1]>>
    /\ pos = s[2]

\* Mutant: the next loop counts its sockets from zero.
BreakToZero == loop' = loop + 1 /\ pos' = 0

\* return false: break out of the loop over this side.
Break == loop' = loop + 1 /\ pos' = 1

\* return true: the next socket, or the next loop.
Proceed ==
    IF pos < Size(Loops[loop][2])
    THEN loop' = loop /\ pos' = pos + 1
    ELSE Break

\* shutdown() of one context, with unhandle().
CloseCx(s) ==
    /\ closed' = [closed EXCEPT ![s] = TRUE]
    /\ mon' = [mon EXCEPT ![s] = {}]
    /\ rescanIn' = rescanIn \ {s}
    /\ rescanOut' = rescanOut \ {s}

\* A closed context ends the loop it is met in.
SkipClosed(op, s) ==
    /\ Current(op, s)
    /\ closed[s]
    /\ Break
    /\ UNCHANGED <<netVars, cxVars, pollVars, loopVars>>

\* read_waiting_for_peercom(): a peer, whose com is up, ends the waiting.
StillPaused(s) == paused[s] /\ ~(Peered /\ <<Other(s[1]), s[2]>> \in Sockets)

\* Nothing is read on a bottleneck of the other side, when paused, or
\* without an event.
ReadSkip(s) ==
    /\ Current("read", s)
    /\ ~closed[s]
    /\ \/ neck[Other(s[1])]
       \/ StillPaused(s)
       \/ s \notin inSet
    /\ paused' = [paused EXCEPT ![s] = StillPaused(s)]
    /\ Proceed
    /\ UNCHANGED <<netVars, wbuf, rescanFlag, closed, neck, pollVars, loopVars>>

\* Mutant: a bottleneck of the other side is not looked at.
MayReadAlways(s) ==
    /\ Current("read", s)
    /\ ~closed[s] /\ ~StillPaused(s) /\ s \in inSet

MayRead(s) ==
    /\ Current("read", s)
    /\ ~closed[s] /\ ~neck[Other(s[1])] /\ ~StillPaused(s) /\ s \in inSet

\* The peer's write buffer is full: deferred until the rescan timer.
PeerIsFull(s) ==
    /\ Peered
    /\ <<Other(s[1]), s[2]>> \in Sockets
    /\ Len(wbuf[<<Other(s[1]), s[2]>>]) > WriteFull

\* rescan_read: out of epoll until the timer puts the socket back.
RescanRead(s) ==
    /\ mon' = [mon EXCEPT ![s] = {}]
    /\ rescanIn' = rescanIn \cup {s}
    /\ UNCHANGED rescanOut

ReadDefer(s) ==
    /\ MayRead(s)
    /\ PeerIsFull(s)
    /\ paused' = [paused EXCEPT ![s] = FALSE]
    /\ RescanRead(s)
    /\ Proceed
    /\ UNCHANGED <<netVars, wbuf, rescanFlag, closed, neck, loopVars>>

\* recv() found nothing: EAGAIN, or the end of the stream.
ReadNothing(s) ==
    /\ MayRead(s)
    /\ ~PeerIsFull(s)
    /\ rx[s] = <<>>
    /\ paused' = [paused EXCEPT ![s] = FALSE]
    /\ IF fin[s]
       THEN /\ CloseCx(s)
            /\ Break
       ELSE /\ Proceed
            /\ UNCHANGED <<closed, pollVars>>
    /\ UNCHANGED <<netVars, wbuf, rescanFlag, neck, loopVars>>

\* meter_write_bytes
Written(s) == Len(tx[s]) + Len(got[s])

\* to_write(buffer&): the contexts that take the whole buffer by a swap.
Swaps(t) == wbuf[t] = <<>> /\ Written(t) > FastCopyStart

\* The loop over the other side: the first context that swaps leaves an
\* empty buffer to those after it.
CopyTo(b, side) ==
    [t \in Sockets |->
        IF /\ t[1] = side
           /\ \A i \in 1 .. t[2] - 1 : ~Swaps(<<side, i>>)
        THEN wbuf[t] \o b
        ELSE wbuf[t]]

\* set_write_monitor of each receiver; a closed one has no socket.
WatchWriters(side) ==
    [t \in Sockets |-> IF t[1] = side /\ ~closed[t] THEN {"in", "out"} ELSE mon[t]]

\* on_left_bytes, on_right_bytes: to_write of every socket of the other side.
OnBytes(s, b) ==
    /\ wbuf' = CopyTo(b, Other(s[1]))
    /\ mon' = WatchWriters(Other(s[1]))

\* Bytes were read and are passed on; finish() then empties the read buffer.
ReadBytes(s) ==
    /\ MayRead(s)
    /\ ~PeerIsFull(s)
    /\ rx[s] # <<>>
    /\ LET n == IF Len(rx[s]) < ReadMax THEN Len(rx[s]) ELSE ReadMax
       IN  /\ OnBytes(s, SubSeq(rx[s], 1, n))
           /\ rx' = [rx EXCEPT ![s] = SubSeq(@, n + 1, Len(@))]
    /\ paused' = [paused EXCEPT ![s] = FALSE]
    /\ Proceed
    /\ UNCHANGED <<sent, tx, got, fin, rescanFlag, closed, neck, rescanIn,
                   rescanOut, loopVars>>

-----------------------------------------------------------------------------
(* Writing: handle_cx_write_once and baseHostCX::write.                    *)

\* A context without pending bytes sends none.
WriteNothing(s) ==
    /\ Current("write", s)
    /\ ~closed[s]
    /\ wbuf[s] = <<>>
    /\ Proceed
    /\ UNCHANGED <<netVars, cxVars, pollVars, loopVars>>

\* send() fails once the remote end is gone.
WriteError(s) ==
    /\ Current("write", s)
    /\ ~closed[s] /\ fin[s]
    /\ wbuf[s] # <<>>
    /\ CloseCx(s)
    /\ Break
    /\ UNCHANGED <<netVars, wbuf, rescanFlag, paused, neck, loopVars>>

Room(s) == KernelCap - Len(tx[s])

\* Mutant: the whole buffer is flushed after a partial send().
SendFlushAll(s, n) ==
    /\ tx' = [tx EXCEPT ![s] = @ \o SubSeq(wbuf[s], 1, n)]
    /\ wbuf' = [wbuf EXCEPT ![s] = <<>>]

\* send() took n bytes, which are flushed from writebuf_.
Send(s, n) ==
    /\ tx' = [tx EXCEPT ![s] = @ \o SubSeq(wbuf[s], 1, n)]
    /\ wbuf' = [wbuf EXCEPT ![s] = SubSeq(@, n + 1, Len(@))]

\* Mutant: both sides are paused.
BottleneckPausesAll(side) ==
    /\ neck' = [neck EXCEPT ![side] = TRUE]
    /\ mon' = [t \in Sockets |->
                  IF closed[t] THEN mon[t]
                  ELSE IF t[1] = side THEN {"in", "out"} ELSE {}]
    /\ paused' = [t \in Sockets |-> TRUE]

\* Mutant: the blocked side is not monitored for writing.
BottleneckInOnly(side) ==
    /\ neck' = [neck EXCEPT ![side] = TRUE]
    /\ mon' = [t \in Sockets |->
                  IF closed[t] THEN mon[t]
                  ELSE IF t[1] = side THEN {"in"} ELSE {}]
    /\ paused' = [t \in Sockets |-> t[1] # side]

\* change_side_monitoring for both sides: side may only be written, and the
\* other one is neither read nor monitored.
Bottleneck(side) ==
    /\ neck' = [neck EXCEPT ![side] = TRUE]
    /\ mon' = [t \in Sockets |->
                  IF closed[t] THEN mon[t]
                  ELSE IF t[1] = side THEN {"in", "out"} ELSE {}]
    /\ paused' = [t \in Sockets |-> t[1] # side]

\* s has nothing pending: it is no longer monitored for writing, and after a
\* bottleneck the other side is read again.
Resume(s) ==
    /\ neck' = [neck EXCEPT ![s[1]] = FALSE]
    /\ mon' = [t \in Sockets |->
                  IF t = s /\ rescanFlag[s] THEN {"in"}
                  ELSE IF t[1] # s[1] /\ neck[s[1]] /\ ~closed[t] THEN {"in"}
                  ELSE mon[t]]
    /\ paused' = [t \in Sockets |->
                    IF t[1] # s[1] /\ neck[s[1]] THEN FALSE ELSE paused[t]]

\* unset_monitor of the side opposite to the bottleneck also cancels rescans.
CancelRescans(R, side) == {t \in R : t[1] = side \/ closed[t]}

\* Some bytes stay pending.  A send() of nothing has also put the socket in
\* the rescan set; its monitor is set again at once.
WritePart(s) ==
    /\ Current("write", s)
    /\ ~closed[s]
    /\ Len(wbuf[s]) > Room(s)
    /\ Send(s, Room(s))
    /\ rescanFlag' = [rescanFlag EXCEPT ![s] = TRUE]
    /\ Bottleneck(s[1])
    /\ rescanIn' = CancelRescans(rescanIn, s[1])
    /\ rescanOut' = CancelRescans(rescanOut \cup (IF Room(s) = 0 THEN {s} ELSE {}),
                                  s[1])
    /\ Proceed
    /\ UNCHANGED <<sent, rx, got, fin, closed, loopVars>>

\* All pending bytes go; a bottleneck of this side is over.
WriteAll(s) ==
    /\ Current("write", s)
    /\ ~closed[s]
    /\ wbuf[s] # <<>>
    /\ Len(wbuf[s]) <= Room(s)
    /\ Send(s, Len(wbuf[s]))
    /\ rescanFlag' = [rescanFlag EXCEPT ![s] = FALSE]
    /\ Resume(s)
    /\ Proceed
    /\ UNCHANGED <<sent, rx, got, fin, closed, rescanIn, rescanOut, loopVars>>

-----------------------------------------------------------------------------
ProxyNext ==
    \/ Rescan
    \/ Poll(FALSE)
    \/ EndPass
    \/ \E s \in Sockets \cup {Hint} : StartPass(s)
    \/ \E s \in Sockets :
          \/ NullHandler(s)
          \/ SkipClosed("read", s) \/ ReadSkip(s) \/ ReadDefer(s)
          \/ ReadNothing(s) \/ ReadBytes(s)
          \/ SkipClosed("write", s) \/ WriteNothing(s) \/ WriteError(s)
          \/ WritePart(s) \/ WriteAll(s)

Next ==
    \/ ProxyNext
    \/ Poll(TRUE)
    \/ \E s \in Sockets : PeerSend(s) \/ PeerRecv(s) \/ PeerClose(s)

\* The proxy thread runs, its rescan timer fires, and remote ends take what
\* is there for them.  Nobody has to send, to close, or to hint the worker.
Fairness ==
    /\ WF_vars(ProxyNext)
    /\ SF_vars(Rescan)
    /\ \A s \in Sockets : WF_vars(PeerRecv(s))

Spec == Init /\ [][Next]_vars /\ Fairness

-----------------------------------------------------------------------------
(* Properties.                                                             *)

Bytes == Sockets \X (1 .. MaxSent)

\* The type invariant of the network, the contexts, the poller and the loop.
TypeOK ==
    /\ sent \in [Sockets -> 0 .. MaxSent]
    /\ rx \in [Sockets -> Seq(Bytes)]
    /\ tx \in [Sockets -> Seq(Bytes)]
    /\ got \in [Sockets -> Seq(Bytes)]
    /\ fin \in [Sockets -> BOOLEAN]
    /\ wbuf \in [Sockets -> Seq(Bytes)]
    /\ rescanFlag \in [Sockets -> BOOLEAN]
    /\ paused \in [Sockets -> BOOLEAN]
    /\ closed \in [Sockets -> BOOLEAN]
    /\ neck \in [Sides -> BOOLEAN]
    /\ mon \in [Sockets -> SUBSET {"in", "out"}]
    /\ rescanIn \in SUBSET Sockets
    /\ rescanOut \in SUBSET Sockets
    /\ inSet \in SUBSET (Sockets \cup {Hint})
    /\ outSet \in SUBSET Sockets
    /\ pc \in {"wait", "poll", "pass"}
    /\ cur \in Sockets \cup {Hint, NoSocket}
    /\ loop \in 1 .. 5
    /\ pos \in Nat \ {0}

\* What the remote end of s got, is about to get, or has pending.
Path(s) == got[s] \o tx[s] \o wbuf[s]

\* How many bytes of t were read.
ReadFrom(t) == sent[t] - Len(rx[t])

\* Every byte read from a socket goes to every socket of the other side,
\* once and in order, however reads, partial writes, deferred reads, buffer
\* swaps and bottlenecks interleave.
StreamIntact ==
    \A s \in Sockets : \A t \in Opposite(s) :
        LET mine == {i \in DOMAIN Path(s) : Path(s)[i][1] = t}
        IN  /\ {Path(s)[i][2] : i \in mine} = 1 .. ReadFrom(t)
            /\ \A i, j \in mine : i < j => Path(s)[i][2] < Path(s)[j][2]

\* A write buffer never holds more than one read from every socket of the
\* other side: the bottleneck stops the reads in time.
\* (One socket a side: of several receivers the first to drain ends the
\* bottleneck of its side, whatever the others have pending.)
BufferBounded ==
    \A s \in Sockets : ~closed[s] => Len(wbuf[s]) <= ReadMax * Size(Other(s[1]))

\* Nobody waits without a reason: a paused context waits for a bottleneck of
\* the other side, and a bottleneck has pending bytes behind it.
NoStaleNeck ==
    /\ \A s \in Sockets : paused[s] => neck[Other(s[1])]
    /\ \A side \in Sides : neck[side] => \E s \in SocketsOf(side) : wbuf[s] # <<>>

\* The kernel never holds more than it takes, so a partial write leaves
\* something pending.
TxBounded == \A s \in Sockets : Len(tx[s]) <= KernelCap

\* The inductive invariant behind NoStaleNeck.
IndInv == TypeOK /\ TxBounded /\ NoStaleNeck

\* When the proxy sleeps, an open socket that may be read is in epoll or
\* will be put back by the rescan timer.
ReadersWatched ==
    pc = "wait" =>
        \A s \in Sockets :
            (~closed[s] /\ ~neck[Other(s[1])])
                => ("in" \in mon[s] \/ s \in rescanIn \cup rescanOut)

\* The same while the proxy is awake, and that who is monitored is monitored
\* for reading: with IndInv, the inductive invariant behind ReadersWatched.
Watched ==
    /\ \A s \in Sockets : mon[s] # {} => "in" \in mon[s]
    /\ \A s \in Sockets :
          (~closed[s] /\ ~neck[Other(s[1])]) => (mon[s] # {} \/ s \in rescanIn \cup rescanOut)

\* Bytes in a write buffer are written out (or the context fails): a
\* bottleneck ends when the remote end keeps reading.
PendingIsWritten ==
    \A s \in Sockets : wbuf[s] # <<>> ~> (wbuf[s] = <<>> \/ closed[s])

\* Bytes that arrive are read, also after a bottleneck or a deferred read
\* has kept their socket out of epoll.
InputIsRead ==
    \A s \in Sockets : rx[s] # <<>> ~> (rx[s] = <<>> \/ closed[s])

-----------------------------------------------------------------------------
(* With IndInv, the inductive invariant behind StreamIntact and            *)
(* BufferBounded, for a proxy with one socket a side.                      *)

\* m bytes of t, behind the first a.
Numbered(t, a, m) == [n \in 1 .. m |-> <<t, a + n>>]

\* Bytes arrive in the order they were sent, and leave in it.
InOrder ==
    \A s \in Sockets : \A t \in Opposite(s) :
        /\ Len(rx[t]) <= sent[t]
        /\ rx[t] = Numbered(t, ReadFrom(t), Len(rx[t]))
        /\ Path(s) = Numbered(t, 0, ReadFrom(t))

\* The loops of a pass between the one that reads for a side and the one that
\* has written to it.
MayBePending(side) == IF side = "l" THEN {3} ELSE {2, 3, 4}

\* A pass leaves pending bytes behind only with a bottleneck, which stops the
\* reads for them, so that a read finds the buffer empty.
Drained ==
    \A s \in Sockets : ~closed[s] =>
        /\ Len(wbuf[s]) <= ReadMax
        /\ wbuf[s] = <<>> \/ neck[s[1]] \/ (pc = "pass" /\ loop \in MayBePending(s[1]))

PairInv == NLeft = 1 /\ NRight = 1 /\ pos = 1 /\ InOrder /\ Drained
=============================================================================
