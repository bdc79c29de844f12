--------------------------- MODULE ProxyContexts ----------------------------
(***************************************************************************)
(* The contexts of a baseProxy that polls for itself (baseproxy.cpp,       *)
(* hostcx.cpp): bound ones that accept others, delayed ones, plain ones,   *)
(* and permanent ones that are reconnected.  The proxy owns its contexts   *)
(* through raw pointers in eight vectors, and through its trash can once   *)
(* it has been shut down.                                                  *)
(*                                                                         *)
(* A step of the proxy is a whole pass of handle_sockets_once, as          *)
(* operators from a proxy to the set of proxies it may become; "stop"      *)
(* stands for the result false, on which a loop breaks.  What bytes are    *)
(* moved, and the bottlenecks, are in module ProxyFlow.  Coms are TCPComs  *)
(* and non-blocking; a context that waits for its peer waits to be read,   *)
(* not to be written, and is not closed after a write.                     *)
(***************************************************************************)
EXTENDS Integers, SequencesExt

CONSTANT Cxs        \* baseHostCX objects

VARIABLE px

NoSock == 0
FailedFd == -1
LiveFd == 1
CxFds == {NoSock, FailedFd, LiveFd}

PxSides == {"L", "R"}
CxLists == {"bind", "sockets", "pc", "delayed"}

\* late: the context is opening for longer than reconnect_delay_; due: its last
\* reconnect is as long ago; idle: neither read nor written for idle_delay_;
\* mon: its descriptor is in the poller, with the proxy as its handler;
\* leaked: closing_fds_ was overwritten while it held a descriptor.
CxType == [
    st : {"none", "live", "orphan", "freed"}, fd : CxFds, closing : CxFds,
    err : BOOLEAN, opening : BOOLEAN, late : BOOLEAN, due : BOOLEAN, idle : BOOLEAN,
    wait : BOOLEAN, perm : BOOLEAN, mon : BOOLEAN, leaked : BOOLEAN]

PxType == [
    list : [PxSides -> [CxLists -> Seq(Cxs)]], trash : Seq(Cxs), cx : [Cxs -> CxType],
    locked : BOOLEAN, dead : BOOLEAN, gone : BOOLEAN, stop : BOOLEAN]

\* baseHostCX::baseHostCX; last_reconnect_ is 0.
NewCx(fd, wait) ==
    [st |-> "live", fd |-> fd, closing |-> NoSock, err |-> FALSE, opening |-> TRUE,
     late |-> FALSE, due |-> TRUE, idle |-> FALSE, wait |-> wait, perm |-> FALSE,
     mon |-> FALSE, leaked |-> FALSE]

\* The context that operator new returns; contexts are alike.
FreshCx(q) ==
    LET unmade == {c \in Cxs : q.cx[c].st = "none"}
    IN  IF unmade = {} THEN {} ELSE {CHOOSE c \in unmade : TRUE}

\* locked: the owner has made a mutex for each bound descriptor (locks::fd).
PxInit ==
    \E locked \in BOOLEAN :
        px = [list |-> [side \in PxSides |-> [l \in CxLists |-> <<>>]], trash |-> <<>>,
              cx |-> [c \in Cxs |-> [NewCx(NoSock, FALSE) EXCEPT !.st = "none"]],
              locked |-> locked, dead |-> FALSE, gone |-> FALSE, stop |-> FALSE]

-----------------------------------------------------------------------------
(* Contexts.                                                               *)

\* set_monitor and set_poll_handler of a context's descriptor.
WatchCx(q, c) == [q EXCEPT !.cx[c].mon = q.cx[c].fd = LiveFd]

\* baseHostCX::shutdown with unhandle; the descriptor is closed by the
\* destructor, from closing_fds_.
Closed(x) ==
    IF x.fd = NoSock THEN x
    ELSE [x EXCEPT !.leaked = @ \/ x.closing = LiveFd, !.closing = x.fd, !.fd = NoSock,
                   !.mon = FALSE]

ShutdownCx(q, c) == [q EXCEPT !.cx[c] = Closed(@)]

\* baseHostCX::connect
ConnectCx(q, c) ==
    {[q EXCEPT !.cx[c] = [@ EXCEPT !.fd = f, !.err = FALSE, !.opening = TRUE, !.late = FALSE,
                                   !.idle = FALSE]] : f \in {LiveFd, FailedFd}}

\* baseHostCX::reconnect
ReconnectCx(q, c) ==
    IF q.cx[c].due /\ q.cx[c].perm
    THEN {[r EXCEPT !.cx[c].due = FALSE] : r \in ConnectCx(ShutdownCx(q, c), c)}
    ELSE {q}

\* on_left_pc_error and on_right_pc_error: only the right one reconnects a
\* context that is opening.
OnPcError(q, side, c) ==
    IF side = "L" /\ q.cx[c].opening THEN {q} ELSE ReconnectCx(q, c)

\* on_left_error and on_right_error change nothing.
OnCxError(q, side, l, c) == IF l = "pc" THEN OnPcError(q, side, c) ELSE {q}

\* opening(false); only an opening context is ever late.
Opened(q, c) == [q EXCEPT !.cx[c].opening = FALSE, !.cx[c].late = FALSE]

\* Mutant: the restored descriptor is not given to the poller.
RestoreUnwatched(q, c) == Opened(q, c)

\* on_left_pc_restore, on_right_pc_restore
OnPcRestore(q, c) == WatchCx(Opened(q, c), c)

\* ladd, lbadd, lpcadd, ldaadd and those of the right side.
AddCx(q, side, l, c) ==
    [WatchCx(q, c) EXCEPT !.list[side][l] = Append(@, c), !.cx[c].perm = l = "pc"]

\* A new context with a descriptor, added to a list.  One that waits for its peer
\* among the sockets is not read until then, which a pass may do with any of
\* them (ReadOnce), so waiting is told apart for the delayed ones only.
AddNewCx(q, side, l, c) ==
    AddCx([q EXCEPT !.cx[c] = NewCx(LiveFd, l = "delayed")], side, l, c)

-----------------------------------------------------------------------------
(* The pass.                                                               *)

\* handle_cx_events: the three reactions are the same.
HandleCxEvents(q, side, l, c) ==
    LET x == q.cx[c]
    IN  IF (x.opening /\ x.late) \/ x.idle \/ x.err
        THEN {[ShutdownCx(r, c) EXCEPT !.stop = TRUE] : r \in OnCxError(q, side, l, c)}
        ELSE {q}

\* The context has received or sent something.
Active(q, c) == [Opened(q, c) EXCEPT !.cx[c].idle = FALSE]

FailedCx(q, side, l, c) ==
    {[r EXCEPT !.stop = TRUE] : r \in OnCxError(ShutdownCx(q, c), side, l, c)}

\* read_waiting_for_peercom: the peer's Com may have become ready.
PeerMayBeReady(q, c) == {q, [q EXCEPT !.cx[c].wait = FALSE]}

\* handle_cx_read_once with handle_cx_read
ReadOnce(q, side, l, c) ==
    LET tried(r) ==
            IF r.cx[c].wait \/ ~r.cx[c].mon THEN {r}
            ELSE {r, Active(r, c)} \cup FailedCx([r EXCEPT !.cx[c].err = TRUE], side, l, c)
        all == IF q.cx[c].fd = NoSock THEN {[q EXCEPT !.cx[c].err = TRUE, !.stop = TRUE]}
               ELSE UNION {tried(r) : r \in PeerMayBeReady(q, c)}
    IN  UNION {HandleCxEvents(r, side, l, c) : r \in all}

\* handle_cx_write_once with handle_cx_write; every descriptor counts as
\* writable, and a failed one cannot be written.
WriteOnce(q, side, l, c) ==
    LET failed == IF q.cx[c].fd = NoSock THEN {[q EXCEPT !.cx[c].err = TRUE, !.stop = TRUE]}
                  ELSE FailedCx(q, side, l, c)
    IN  {r \in {q, Active(q, c)} : q.cx[c].fd = LiveFd}
        \cup UNION {HandleCxEvents(r, side, l, c) : r \in failed}

\* Half of the loop over permanent contexts, around a read or a write.
PcHalf(q, side, c, Once(_, _, _, _)) ==
    IF q.cx[c].err
    THEN {[r EXCEPT !.stop = TRUE]
            : r \in IF q.cx[c].due THEN OnPcError(q, side, c) ELSE {q}}
    ELSE UNION {IF r.stop THEN OnPcError(r, side, c)
                ELSE IF r.cx[c].opening THEN {OnPcRestore(r, c)} ELSE {r}
                : r \in Once(q, side, "pc", c)}

PcVisit(q, side, c) ==
    UNION {IF r.stop THEN {r} ELSE PcHalf(r, side, c, WriteOnce)
        : r \in PcHalf(q, side, c, ReadOnce)}

\* handle_sockets_accept with on_left_new; a context that waits for its peer
\* may be put among the delayed ones instead, by an override of on_left_new.
AcceptCx(q, side) ==
    {q} \cup {AddNewCx(q, side, l, c) : c \in FreshCx(q), l \in {"sockets", "delayed"}}

\* A bound context with an event; without a mutex for its descriptor the pass
\* ends in an exception, which run() turns into the end of the proxy.
BindVisit(q, side, c) ==
    {q} \cup IF ~q.cx[c].mon THEN {}
             ELSE IF q.locked THEN AcceptCx(q, side)
             ELSE {[r EXCEPT !.stop = TRUE, !.dead = TRUE] : r \in AcceptCx(q, side)}

\* A delayed context that waits no more is added to the sockets.
DelayedVisit(q, side, c) ==
    {IF r.cx[c].wait THEN r ELSE AddCx(r, side, "sockets", c) : r \in PeerMayBeReady(q, c)}

\* The loops of a pass and the vectors they go through.
LoopLists == [read |-> "sockets", write |-> "sockets", pc |-> "pc", bind |-> "bind",
              delayed |-> "delayed"]

Visit(q, loop, side, c) ==
    CASE loop = "read" -> ReadOnce(q, side, "sockets", c)
      [] loop = "write" -> WriteOnce(q, side, "sockets", c)
      [] loop = "pc" -> PcVisit(q, side, c)
      [] loop = "bind" -> BindVisit(q, side, c)
      [] loop = "delayed" -> DelayedVisit(q, side, c)

\* A loop, left when a visit says stop.
EachCx(q, loop, side) ==
    LET cs == q.list[side][LoopLists[loop]]
        after[i \in 0..Len(cs)] ==
            IF i = 0 THEN {q}
            ELSE UNION {IF r.stop THEN {r} ELSE Visit(r, loop, side, cs[i]) : r \in after[i - 1]}
    IN  after[Len(cs)]

\* The contexts of cs that still wait.
Waiting(q, cs) ==
    LET first[i \in 0..Len(cs)] ==
            IF i = 0 THEN <<>>
            ELSE IF q.cx[cs[i]].wait THEN Append(first[i - 1], cs[i]) ELSE first[i - 1]
    IN  first[Len(cs)]

\* Mutant: an accepted context stays among the delayed ones.
AcceptDelayedTwice(q, side) == EachCx(q, "delayed", side)

\* accept_from
AcceptDelayed(q, side) ==
    {[r EXCEPT !.list[side]["delayed"] = Waiting(r, @)] : r \in EachCx(q, "delayed", side)}

\* run_timers, when the clicker says so: an idle context ends the proxy.
PxTimers(q) ==
    LET checked == UNION {Range(q.list[side][l]) : side \in PxSides, l \in CxLists \ {"bind"}}
    IN  {q, [q EXCEPT !.dead = @ \/ \E c \in checked : q.cx[c].idle]}

\* The loops over sockets and permanent contexts; what stops one of them does
\* not stop the pass.
Loop(q, loop, side) == {[r EXCEPT !.stop = FALSE] : r \in EachCx(q, loop, side)}

\* The bound and the delayed contexts of a side.
AcceptLoop(q, side) ==
    UNION {IF r.stop THEN {r} ELSE AcceptDelayed(r, side) : r \in EachCx(q, "bind", side)}

\* A loop over the left, then over the right side.
BothSides(S, loop) ==
    UNION {Loop(r, loop, "R") : r \in UNION {Loop(q, loop, "L") : q \in S}}

\* An exception in the accepts of the left side leaves out those of the right.
HandleSocketsOnce(q) ==
    LET pcs == BothSides(BothSides(BothSides(PxTimers(q), "read"), "write"), "pc")
    IN  pcs \cup UNION {IF r.stop THEN {r} ELSE AcceptLoop(r, "R")
                            : r \in UNION {AcceptLoop(q2, "L") : q2 \in pcs}}

-----------------------------------------------------------------------------
(* The proxy.                                                              *)

CxsOf(q, side) ==
    q.list[side]["bind"] \o q.list[side]["sockets"] \o q.list[side]["pc"] \o q.list[side]["delayed"]

\* left_shutdown and right_shutdown, with drop_cx.
ShutdownProxy(q) ==
    LET all == CxsOf(q, "L") \o CxsOf(q, "R")
    IN  [q EXCEPT !.cx = [c \in Cxs |-> IF c \in Range(all) THEN Closed(@[c]) ELSE @[c]],
                  !.trash = @ \o all,
                  !.list = [side \in PxSides |-> [l \in CxLists |-> <<>>]]]

\* run, run_poll and run_poll_socket: an event of some descriptor, or of the
\* error set, then a pass; a dead proxy is shut down, unless an exception came
\* first; the timers of run_poll.  An idle or stale event is enough, so that no
\* descriptor has to be ready.
PxPass ==
    /\ ~px.dead
    /\ \E r \in HandleSocketsOnce(px), errset \in BOOLEAN :
          LET q == [r EXCEPT !.dead = @ \/ (errset /\ ~r.stop)]
          IN  px' \in IF q.stop THEN {[q EXCEPT !.stop = FALSE]}
                      ELSE PxTimers(IF q.dead THEN ShutdownProxy(q) ELSE q)

Unmade(c) == c \in FreshCx(px) /\ ~px.dead

\* listen, left_connect, right_connect, and contexts that the owner adds.  A
\* context that cannot connect is not kept anywhere.
ListenCx(side, c) == Unmade(c) /\ px' = AddNewCx(px, side, "bind", c)

ConnectPermanent(side, c) ==
    /\ Unmade(c)
    /\ \E q \in ConnectCx([px EXCEPT !.cx[c] = NewCx(NoSock, FALSE)], c) :
          px' = IF q.cx[c].fd = LiveFd THEN AddCx(q, side, "pc", c)
                ELSE [q EXCEPT !.cx[c].st = "orphan"]

AddByOwner(side, l, c) == Unmade(c) /\ px' = AddNewCx(px, side, l, c)

\* Time passes: reconnect_delay_ after the start of an opening, then after the
\* reconnect it was part of, then idle_delay_, which is longer.
Listed(c) == \E side \in PxSides, l \in CxLists \ {"bind"} : c \in Range(px.list[side][l])
Settled(c) == Listed(c) /\ (px.cx[c].opening => px.cx[c].late)
OpeningAges(c) == Listed(c) /\ ~Settled(c) /\ px' = [px EXCEPT !.cx[c].late = TRUE]
ReconnectAges(c) == Settled(c) /\ ~px.cx[c].due /\ px' = [px EXCEPT !.cx[c].due = TRUE]
IdleAges(c) ==
    /\ Settled(c) /\ px.cx[c].due /\ ~px.cx[c].idle
    /\ px' = [px EXCEPT !.cx[c].idle = TRUE]

\* baseProxy::~baseProxy, with the destructors of the contexts in the trash can.
DestroyProxy ==
    /\ ~px.gone
    /\ LET q == ShutdownProxy(px)
           freed == Range(q.trash)
           ended(x) == [x EXCEPT !.st = "freed", !.fd = NoSock, !.closing = NoSock]
       IN  px' = [q EXCEPT !.gone = TRUE, !.dead = TRUE, !.trash = <<>>,
                    !.cx = [c \in Cxs |-> IF c \in freed THEN ended(@[c]) ELSE @[c]]]

PxNext ==
    \/ PxPass \/ DestroyProxy
    \/ \E c \in Cxs :
          \/ OpeningAges(c) \/ ReconnectAges(c) \/ IdleAges(c)
          \/ \E side \in PxSides :
                \/ ListenCx(side, c) \/ ConnectPermanent(side, c)
                \/ \E l \in {"sockets", "delayed"} : AddByOwner(side, l, c)

PxSpec == PxInit /\ [][PxNext]_px

-----------------------------------------------------------------------------
(* Properties.                                                             *)

\* The proxy and its contexts have their types.
PxTypeOK == px \in PxType

\* The trash can and the eight lists, one after the other.
EveryCx(q) == q.trash \o (CxsOf(q, "L") \o CxsOf(q, "R"))

\* A context that was made is kept once, in one list of the proxy or in the
\* trash can, until it is freed; only a context in a list is watched by the
\* poller; and a context that is not reconnected takes its descriptor with it:
\* whatever is accepted, delayed, timed out or shut down, in a pass or by the
\* owner.
ContextsKept ==
    /\ IsInjective(EveryCx(px)) /\ Range(EveryCx(px)) = {c \in Cxs : px.cx[c].st = "live"}
    /\ \A c \in Cxs :
          /\ px.cx[c].mon => /\ px.cx[c].st = "live" /\ c \notin Range(px.trash)
                             /\ px.cx[c].fd = LiveFd
          /\ px.cx[c].leaked => px.cx[c].perm

\* The context is watched, or its next visit finds it opening, in error or closed.
AttendedCx(x) == x.mon \/ x.opening \/ x.err \/ x.fd = NoSock

AllAttended(q) ==
    \A side \in PxSides : \A c \in Range(q.list[side]["pc"]) : AttendedCx(q.cx[c])

\* A permanent context is never left with a descriptor that nobody looks at.
PermanentAttended == AllAttended(px)

-----------------------------------------------------------------------------
(* The inductive invariant behind both, of a proxy q also within a pass.   *)

\* Where contexts are kept: the eight lists and the trash can.
Trash == <<"trash", "trash">>
Shelves == (PxSides \X CxLists) \cup {Trash}
Shelf(q, k) == IF k = Trash THEN q.trash ELSE q.list[k[1]][k[2]]
OnShelf(q, k) == Range(Shelf(q, k))

\* Each of them holds a context once, and no two of them the same one.
KeptOnce(q) ==
    /\ \A k \in Shelves : IsInjective(Shelf(q, k))
    /\ \A j, k \in Shelves : j # k => OnShelf(q, j) \cap OnShelf(q, k) = {}
    /\ {c \in Cxs : q.cx[c].st = "live"} = UNION {OnShelf(q, k) : k \in Shelves}

\* Only a permanent context has a descriptor again after a shutdown.
CxSound(x) ==
    /\ x.mon => x.fd = LiveFd /\ x.st = "live"
    /\ x.leaked => x.perm
    /\ x.fd # NoSock /\ x.closing # NoSock => x.perm

\* Permanent contexts are those of the permanent lists, and nothing in the
\* trash can is watched.
ShelvedRight(q) ==
    /\ \A side \in PxSides, l \in CxLists : \A c \in Range(q.list[side][l]) :
          q.cx[c].perm = (l = "pc")
    /\ \A c \in OnShelf(q, Trash) : ~q.cx[c].mon

PxSound(q) ==
    /\ q \in PxType /\ KeptOnce(q) /\ AllAttended(q) /\ ShelvedRight(q)
    /\ \A c \in Cxs : CxSound(q.cx[c])

PxInv == PxSound(px)
=============================================================================
