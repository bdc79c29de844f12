------------------------------- MODULE Poller -------------------------------
(***************************************************************************)
(* epoll, epoller and epoll_handler (common/epoll.cpp): the poller of one  *)
(* worker.  Proxies register themselves as handlers of sockets and take    *)
(* themselves off when they are destroyed; sockets may be set aside for a  *)
(* rescan, enforced into the next in_set, or watched for idleness.         *)
(*                                                                         *)
(* Descriptors are closed and opened again at any time.  Time advances by  *)
(* clicks of rescan_msec; idle_counter counts them, and the idle timeout   *)
(* is IdleClicks of them.                                                  *)
(***************************************************************************)
EXTENDS Integers, FiniteSets

CONSTANTS
    Socks,          \* descriptors
    Handlers,       \* epoll_handler objects
    IdleClicks      \* idle_timeout_ms in clicks

ASSUME IdleClicksAssumption == IdleClicks \in Nat \ {0}

NoHandler == "NoHandler"
ASSUME NoHandlerAssumption == NoHandler \notin Handlers

VARIABLE ep

EpType == [
    mon : [Socks -> SUBSET {"in", "out"}],      \* the kernel's interest list
    resIn : SUBSET Socks, resOut : SUBSET Socks, enforce : SUBSET Socks,
    inSet : SUBSET Socks, outSet : SUBSET Socks, errSet : SUBSET Socks,
    pre : SUBSET Socks, watched : SUBSET Socks, idleSet : SUBSET Socks,
    round : BOOLEAN, counter : 0..IdleClicks + 1,
    quiet : [Socks -> 0..IdleClicks + 1],       \* clicks without an event since watched
    again : SUBSET Socks,       \* put on watch again, when on the list of the watched
    db : [Socks -> Handlers \cup {NoHandler}],  \* handler_db
    reg : [Handlers -> SUBSET Socks],           \* registered_sockets
    gone : SUBSET Handlers]                     \* destroyed handlers

EpInit ==
    ep = [mon |-> [s \in Socks |-> {}], resIn |-> {}, resOut |-> {}, enforce |-> {},
          inSet |-> {}, outSet |-> {}, errSet |-> {},
          pre |-> {}, watched |-> {}, idleSet |-> {}, round |-> TRUE, counter |-> 0,
          quiet |-> [s \in Socks |-> 0], again |-> {},
          db |-> [s \in Socks |-> NoHandler], reg |-> [h \in Handlers |-> {}], gone |-> {}]

-----------------------------------------------------------------------------
(* Interest.  An empty interest stands for a socket the kernel does not    *)
(* know: EPOLL_CTL_ADD finds it missing, EPOLL_CTL_MOD falls back to add.  *)

EpAdd(e, s, mask) == IF e.mon[s] = {} THEN [e EXCEPT !.mon[s] = mask] ELSE e
EpModify(e, s, mask) == [e EXCEPT !.mon[s] = mask]
EpDel(e, s) == [e EXCEPT !.mon[s] = {}]

\* rescan_in and rescan_out; neither looks at the other's set.
EpRescanIn(s) == ep' = [EpDel(ep, s) EXCEPT !.resIn = @ \cup {s}]
EpRescanOut(s) == ep' = [EpDel(ep, s) EXCEPT !.resOut = @ \cup {s}]

EpEnforceIn(s) == ep' = [ep EXCEPT !.enforce = @ \cup {s}]

\* set_monitor, change_monitor and unset_monitor of the Coms.
EpMonitor(s, mask) ==
    ep' \in {EpAdd(ep, s, mask), EpModify(ep, s, mask),
             [EpDel(ep, s) EXCEPT !.resIn = @ \ {s}, !.resOut = @ \ {s}]}

-----------------------------------------------------------------------------
(* Handlers.                                                               *)

\* clear_idle_watch: a socket on both lists stays on the list of the watched.
ClearIdleWatch(e, s) ==
    IF s \in e.pre THEN [e EXCEPT !.pre = @ \ {s}] ELSE [e EXCEPT !.watched = @ \ {s}]

\* epoller::clear_handler
ClearHandler(e, s) ==
    ClearIdleWatch([e EXCEPT !.db[s] = NoHandler, !.resIn = @ \ {s}, !.resOut = @ \ {s}], s)

\* Mutant: the handler does not remember a socket it took over.
SetHandlerUnregistered(s, h) ==
    /\ h \notin ep.gone
    /\ ep' = IF ep.db[s] = NoHandler
             THEN [ep EXCEPT !.db[s] = h, !.reg[h] = @ \cup {s}]
             ELSE [ep EXCEPT !.db[s] = h]

\* epoller::set_handler; registered_sockets is never shortened.
SetHandler(s, h) ==
    /\ h \notin ep.gone
    /\ ep' = [ep EXCEPT !.db[s] = h, !.reg[h] = @ \cup {s}]

\* socket_state::update when closing, and the end of a baseHostCX.
UnsetHandler(s) == ep' = ClearHandler(EpDel(ep, s), s)

\* ~epoll_handler: it takes itself off the sockets that are still its own,
\* and leaves those another handler has meanwhile.
DestroyHandler(h) ==
    LET own == {s \in ep.reg[h] : ep.db[s] = h}
    IN  /\ h \notin ep.gone
        /\ ep' = [ep EXCEPT
               !.gone = @ \cup {h},
               !.db = [s \in Socks |-> IF s \in own THEN NoHandler ELSE @[s]],
               !.resIn = @ \ own, !.resOut = @ \ own,
               !.pre = @ \ own, !.watched = @ \ (own \ ep.pre)]

-----------------------------------------------------------------------------
(* wait().                                                                 *)

\* set_idle_watch: called at any time, also for a descriptor that was closed
\* and opened again while it was watched.
SetIdleWatch(s) ==
    ep' = [ep EXCEPT !.pre = @ \cup {s}, !.quiet[s] = 0,
                     !.again = @ \cup ({s} \cap ep.watched)]

\* process_pre_wait_rescans
PreWaitRescans(e) ==
    [e EXCEPT !.mon = [s \in Socks |->
                  CASE @[s] # {} -> @[s]
                    [] s \in e.resIn -> {"in"}
                    [] s \in e.resOut -> {"in", "out"}
                    [] OTHER -> {}],
              !.resIn = {}, !.resOut = {}]

\* Mutant: every round reports what was put on the watch list last.
PreWaitIdlesAtOnce(e) ==
    IF e.counter <= IdleClicks THEN e
    ELSE [e EXCEPT !.counter = 0, !.round = ~@, !.idleSet = @ \cup e.pre, !.pre = {}]

\* Mutant: a round does not start to count anew.
PreWaitIdlesNoReset(e) ==
    IF e.counter <= IdleClicks THEN e
    ELSE IF e.round THEN [e EXCEPT !.round = FALSE, !.watched = @ \cup e.pre, !.pre = {}]
    ELSE [e EXCEPT !.round = TRUE, !.idleSet = @ \cup e.watched, !.watched = {},
                            !.again = {}]

\* process_pre_wait_idles: rounds alternate between taking over new sockets
\* and reporting the ones taken over the round before.
PreWaitIdles(e) ==
    IF e.counter <= IdleClicks THEN e
    ELSE IF e.round
    THEN [e EXCEPT !.counter = 0, !.round = FALSE, !.watched = @ \cup e.pre, !.pre = {}]
    ELSE [e EXCEPT !.counter = 0, !.round = TRUE, !.idleSet = @ \cup e.watched,
                   !.watched = {}, !.again = {}]

\* click_timer_now
Click(e) ==
    [e EXCEPT !.counter = @ + 1,
              !.quiet = [s \in Socks |-> IF @[s] <= IdleClicks THEN @[s] + 1 ELSE @[s]]]

\* process_epoll_events and enforced_to_inset: reading goes before writing, a
\* writable socket is watched for reading only afterwards.  ready is what the
\* kernel could say of each descriptor.
TakeEvents(e, ready) ==
    LET seen(s) == (ready[s] \cap e.mon[s])
                   \cup (IF e.mon[s] # {} THEN ready[s] \cap {"hup"} ELSE {})
        ins == {s \in Socks : "in" \in seen(s)}
        outs == {s \in Socks : "out" \in seen(s)} \ ins
        errs == {s \in Socks : "hup" \in seen(s)} \ (ins \cup outs)
        act == ins \cup outs
    IN  [e EXCEPT !.inSet = ins \cup e.enforce, !.enforce = {}, !.outSet = outs,
                  !.errSet = errs,
                  !.mon = [s \in Socks |-> IF s \in outs THEN {"in"} ELSE @[s]],
                  !.pre = @ \ act, !.watched = @ \ (act \ e.pre),
                  !.quiet = [s \in Socks |-> IF s \in act THEN 0 ELSE @[s]]]

\* wait(): the sets are cleared, then filled again.
EpWait(click, ready) ==
    LET e == [ep EXCEPT !.inSet = {}, !.outSet = {}, !.errSet = {}, !.idleSet = {}]
    IN  ep' = TakeEvents(IF click THEN PreWaitIdles(PreWaitRescans(Click(e))) ELSE e, ready)

EpNext ==
    \/ \E s \in Socks :
          \/ EpRescanIn(s) \/ EpRescanOut(s) \/ EpEnforceIn(s) \/ SetIdleWatch(s)
          \/ UnsetHandler(s)
          \/ \E h \in Handlers : SetHandler(s, h)
          \/ \E mask \in {{"in"}, {"in", "out"}} : EpMonitor(s, mask)
    \/ \E h \in Handlers : DestroyHandler(h)
    \/ \E click \in BOOLEAN, ready \in [Socks -> {{}, {"in"}, {"out"}, {"hup"}}] :
          EpWait(click, ready)

EpSpec == EpInit /\ [][EpNext]_ep

-----------------------------------------------------------------------------
(* Properties.                                                             *)

\* The poller has its type.
EpTypeOK == ep \in EpType

\* run_poll never finds a handler that is destroyed, although handlers replace
\* each other on reused descriptors and only clean up what they registered.
HandlersAlive == \A s \in Socks : ep.db[s] \notin ep.gone

\* A socket reported idle has been watched for a full idle timeout at least
\* without an event, wherever in the rounds the watch began and whatever was
\* rescanned, unwatched or closed meanwhile; unless it was put on watch again
\* in the round in which it was watched: clear_idle_watch then takes it off
\* one of its two lists only, and an event in that round goes unnoticed.
IdleMeansQuiet ==
    [][\A s \in ep'.idleSet \ (ep.idleSet \cup ep'.inSet \cup ep'.outSet \cup ep.again) :
          ep'.quiet[s] > IdleClicks]_ep

-----------------------------------------------------------------------------
(* The inductive invariant behind the two properties above.                *)

\* A handler remembers the sockets it is the handler of.
Registered == \A s \in Socks : ep.db[s] # NoHandler => s \in ep.reg[ep.db[s]]

\* Sockets are taken over into the watched ones at the start of a round of
\* their own, and have been quiet since (idle_counter counts less than they
\* do), except for those put on watch again.
RoundCounts ==
    /\ ep.counter <= IdleClicks
    /\ ep.round => ep.watched = {}
    /\ \A s \in ep.watched \ ep.again : s \notin ep.pre /\ ep.quiet[s] >= ep.counter

EpInv == EpTypeOK /\ HandlersAlive /\ Registered /\ RoundCounts
=============================================================================
